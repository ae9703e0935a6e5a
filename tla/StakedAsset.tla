----------------------------- MODULE StakedAsset -----------------------------
(***************************************************************************)
(* What staking rests on: the block clock, the ledger of the staked asset  *)
(* (a PeggedToken) and the sanctions list of that asset's Treasury, each   *)
(* modelled from the way StakingVault and YieldDistributor use it.  The    *)
(* asset's blacklist stops transfers; the sanctions list, when the         *)
(* Treasury has one, names the blacklisted and whoever the oracle lists.   *)
(***************************************************************************)
EXTENDS FixedPoint

CONSTANTS
    Stakers,            \* accounts that hold shares
    VaultAcct,          \* the StakingVault
    DistributorAcct,    \* the YieldDistributor
    Funders,            \* holders of DISTRIBUTOR_ROLE
    SanctionsListSet,   \* whether the Treasury has a sanctions list
    Listable,           \* accounts the oracle may list
    Blacklistable,      \* accounts the asset's owner may blacklist
    Gifts,              \* amounts holders send each other, and to the contracts
    Endowment,          \* what every account holds at the start
    MaxTime             \* bound on the clock

Contracts == {VaultAcct, DistributorAcct}
Holders == Stakers \cup Funders \cup Contracts

ASSUME StakedAssetAssumption ==
    /\ VaultAcct # DistributorAcct
    /\ (Stakers \cup Funders) \cap Contracts = {}
    /\ SanctionsListSet \in BOOLEAN
    /\ Listable \subseteq Holders
    /\ Blacklistable \subseteq Holders
    /\ Gifts \subseteq Nat
    /\ Endowment \in [Holders -> Nat]
    /\ MaxTime \in Nat

VARIABLES
    now,        \* block.timestamp
    assets,     \* asset.balanceOf
    listed,     \* accounts the sanctions oracle lists
    blacklist   \* the asset's blacklist

listVars == <<listed, blacklist>>
assetVars == <<now, assets, listVars>>

AssetTypeOK ==
    /\ now \in Nat \ {0}
    /\ assets \in [Holders -> Nat]
    /\ listed \in SUBSET Holders
    /\ blacklist \in SUBSET Holders

AssetInit ==
    /\ now = 1
    /\ assets = Endowment
    /\ listed = {}
    /\ blacklist = {}

\* Treasury.isSanctioned
Sanctioned(a) == SanctionsListSet /\ (a \in listed \/ a \in blacklist)

\* asset.transfer: the ledger after n went from one account to another.
Transferable(bal, from, to, n) == {from, to} \cap blacklist = {} /\ n <= bal[from]
Transferred(bal, from, to, n) ==
    IF from = to THEN bal ELSE [bal EXCEPT ![from] = @ - n, ![to] = @ + n]

-----------------------------------------------------------------------------
Tick ==
    /\ now < MaxTime
    /\ now' = now + 1
    /\ UNCHANGED <<assets, listVars>>

SetListed(S) ==
    /\ listed' = S
    /\ UNCHANGED <<now, assets, blacklist>>

SetBlacklist(S) ==
    /\ blacklist' = S
    /\ UNCHANGED <<now, assets, listed>>

Give(from, to, n) ==
    /\ Transferable(assets, from, to, n)
    /\ assets' = Transferred(assets, from, to, n)
    /\ UNCHANGED <<now, listVars>>

AssetNext ==
    \/ Tick
    \/ \E S \in SUBSET Listable : SetListed(S)
    \/ \E S \in SUBSET Blacklistable : SetBlacklist(S)
    \/ \E from \in Stakers \cup Funders, to \in Holders, n \in Gifts : Give(from, to, n)

=============================================================================
