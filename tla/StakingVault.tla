----------------------------- MODULE StakingVault -----------------------------
(***************************************************************************)
(* StakingVault.sol: an ERC-4626 vault over the staked asset.  Shares      *)
(* leave through a cooldown request, or at once for exempt owners.  Every  *)
(* operation first pulls the yield accrued in the distributor, so amounts  *)
(* are computed on the ledger after the pull.  Conversions are             *)
(* OpenZeppelin's, with one virtual share and one virtual asset.  The      *)
(* vaultRewards hook keeps no state of the vault and is left out.          *)
(***************************************************************************)
EXTENDS YieldDistributor, FiniteSetsExt

CONSTANTS
    Delegations,            \* <<owner, spender>>: unlimited share allowances
    RequestIds,             \* 0..k: bound on the requests ever made
    DEFAULT_COOLDOWN_DURATION,
    MIN_COOLDOWN_DURATION,
    MAX_COOLDOWN_DURATION,
    AssetAmounts,           \* amounts of deposit, withdraw, requestWithdraw
    ShareAmounts,           \* amounts of mint, redeem, requestRedeem, transfer
    Receivers,              \* receivers users name
    CooldownDurations,      \* arguments of the owner's calls
    CooldownSwitches,
    Exemptable,
    DistributorSwitches     \* TRUE: set the distributor, FALSE: clear it

ASSUME StakingVaultAssumption ==
    /\ RequestIds \subseteq Nat
    /\ IsFiniteSet(Stakers)
    /\ IsFiniteSet(RequestIds)
    /\ DEFAULT_COOLDOWN_DURATION \in MIN_COOLDOWN_DURATION..MAX_COOLDOWN_DURATION
    /\ MIN_COOLDOWN_DURATION \in Nat \ {0}
    /\ MAX_COOLDOWN_DURATION \in Nat
    /\ AssetAmounts \subseteq Nat
    /\ ShareAmounts \subseteq Nat
    /\ Receivers \subseteq Stakers
    /\ CooldownDurations \subseteq Nat
    /\ CooldownSwitches \subseteq BOOLEAN
    /\ Exemptable \subseteq Stakers
    /\ DistributorSwitches \subseteq BOOLEAN

VARIABLES
    shares,                     \* balanceOf
    totalShares,                \* totalSupply
    totalAssetsInCooldown,
    cooldownRequests,           \* id -> [owner, assets, claimableAt]
    activeRequestIds,           \* owner -> ids
    nextRequestId,
    cooldownDuration,
    cooldownEnabled,
    instantWithdrawWhitelist,
    distributorSet              \* yieldDistributor # address(0)

shareVars == <<shares, totalShares>>
requestVars == <<totalAssetsInCooldown, cooldownRequests, activeRequestIds, nextRequestId>>
ownerVars == <<cooldownDuration, cooldownEnabled, instantWithdrawWhitelist, distributorSet>>
vaultVars == <<shareVars, requestVars, ownerVars>>

NoOwner == "none"
CooldownRequests == [owner : Stakers \cup {NoOwner}, assets : Nat, claimableAt : Nat]
NoRequest == [owner |-> NoOwner, assets |-> 0, claimableAt |-> 0]

VaultTypeOK ==
    /\ shares \in [Stakers -> Nat]
    /\ totalShares \in Nat
    /\ totalAssetsInCooldown \in Nat
    /\ cooldownRequests \in [RequestIds -> CooldownRequests]
    /\ activeRequestIds \in [Stakers -> SUBSET RequestIds]
    /\ nextRequestId \in Nat
    /\ cooldownDuration \in MIN_COOLDOWN_DURATION..MAX_COOLDOWN_DURATION
    /\ cooldownEnabled \in BOOLEAN
    /\ instantWithdrawWhitelist \in SUBSET Stakers
    /\ distributorSet \in BOOLEAN

\* The deployment sets the distributor before the vault opens.
VaultInit ==
    /\ shares = [u \in Stakers |-> 0]
    /\ totalShares = 0
    /\ totalAssetsInCooldown = 0
    /\ cooldownRequests = [id \in RequestIds |-> NoRequest]
    /\ activeRequestIds = [u \in Stakers |-> {}]
    /\ nextRequestId = 0
    /\ cooldownDuration = DEFAULT_COOLDOWN_DURATION
    /\ cooldownEnabled = TRUE
    /\ instantWithdrawWhitelist = {}
    /\ distributorSet = TRUE

-----------------------------------------------------------------------------
\* Views and conversions.

Accrued == IF distributorSet THEN PendingYield(totalShares) ELSE 0

\* Mutant: assets waiting in cooldown count as staked.
TotalAssets_WithCooldown(bal, pending) == bal[VaultAcct] + pending

\* totalAssets, on a ledger and with the yield still pending in it.
TotalAssets(bal, pending) == Monus(bal[VaultAcct] + pending, totalAssetsInCooldown)

\* _pullYield of the vault: the ledger after it, whether it can run, its effect.
Ledger == IF distributorSet THEN Pulled(assets, totalShares) ELSE assets
CanPull == distributorSet => PullPossible(assets, totalShares)
Pull == IF distributorSet THEN PullYield(totalShares) ELSE UNCHANGED distributorVars

\* After the pull nothing is pending.
StakedAssets == TotalAssets(Ledger, 0)

SharesDown(n) == MulDiv(n, totalShares + 1, StakedAssets + 1)
SharesUp(n) == MulDivUp(n, totalShares + 1, StakedAssets + 1)
AssetsDown(s) == MulDiv(s, StakedAssets + 1, totalShares + 1)
AssetsUp(s) == MulDivUp(s, StakedAssets + 1, totalShares + 1)

CanInstantWithdraw(u) == ~cooldownEnabled \/ u \in instantWithdrawWhitelist
Allowed(caller, owner) == caller = owner \/ <<owner, caller>> \in Delegations
NoneSanctioned(S) == \A a \in S : ~Sanctioned(a)

Live(id) == cooldownRequests[id].assets # 0

-----------------------------------------------------------------------------
\* Shares.

MintShares(caller, to, s) ==
    /\ NoneSanctioned({caller, to})
    /\ shares' = [shares EXCEPT ![to] = @ + s]
    /\ totalShares' = totalShares + s

BurnShares(caller, from, s) ==
    /\ NoneSanctioned({caller, from})
    /\ s <= shares[from]
    /\ shares' = [shares EXCEPT ![from] = @ - s]
    /\ totalShares' = totalShares - s

TransferShares(caller, from, to, s) ==
    /\ Allowed(caller, from)
    /\ NoneSanctioned({caller, from, to})
    /\ s <= shares[from]
    /\ shares' = IF from = to THEN shares ELSE [shares EXCEPT ![from] = @ - s, ![to] = @ + s]
    /\ UNCHANGED <<totalShares, requestVars, ownerVars, distributorVars, assetVars>>

-----------------------------------------------------------------------------
\* Deposits and instant exits.

\* _deposit
TakeIn(caller, receiver, n, s) ==
    /\ CanPull
    /\ s # 0
    /\ Transferable(Ledger, caller, VaultAcct, n)
    /\ assets' = Transferred(Ledger, caller, VaultAcct, n)
    /\ MintShares(caller, receiver, s)
    /\ Pull
    /\ UNCHANGED <<requestVars, ownerVars, now, listVars>>

Deposit(caller, receiver, n) == TakeIn(caller, receiver, n, SharesDown(n))

Mint(caller, receiver, s) == TakeIn(caller, receiver, AssetsUp(s), s)

\* _withdraw
PayOut(caller, receiver, owner, n, s) ==
    /\ CanInstantWithdraw(owner)
    /\ NoneSanctioned({receiver})
    /\ CanPull
    /\ Allowed(caller, owner)
    /\ BurnShares(caller, owner, s)
    /\ Transferable(Ledger, VaultAcct, receiver, n)
    /\ assets' = Transferred(Ledger, VaultAcct, receiver, n)
    /\ Pull
    /\ UNCHANGED <<requestVars, ownerVars, now, listVars>>

Redeem(caller, receiver, owner, s) == PayOut(caller, receiver, owner, AssetsDown(s), s)

\* Mutant: shares are rounded in favour of the user.
PreviewWithdraw_Floor(n) == SharesDown(n)
PreviewWithdraw(n) == SharesUp(n)

\* maxWithdraw: the owner's shares at the price rounded down.
Withdraw(caller, receiver, owner, n) ==
    /\ n <= AssetsDown(shares[owner])
    /\ PayOut(caller, receiver, owner, n, PreviewWithdraw(n))

-----------------------------------------------------------------------------
\* Exits through the cooldown.

\* _createRequest
CreateRequest(caller, owner, n, s) ==
    /\ CanPull
    /\ n # 0 /\ s # 0
    /\ cooldownEnabled
    /\ Allowed(caller, owner)
    /\ nextRequestId \in RequestIds
    /\ totalAssetsInCooldown' = totalAssetsInCooldown + n
    /\ BurnShares(caller, owner, s)
    /\ cooldownRequests' = [cooldownRequests EXCEPT ![nextRequestId] =
            [owner |-> owner, assets |-> n, claimableAt |-> now + cooldownDuration]]
    /\ activeRequestIds' = [activeRequestIds EXCEPT ![owner] = @ \cup {nextRequestId}]
    /\ nextRequestId' = nextRequestId + 1
    /\ assets' = Ledger
    /\ Pull
    /\ UNCHANGED <<ownerVars, now, listVars>>

RequestRedeem(caller, owner, s) == CreateRequest(caller, owner, AssetsDown(s), s)

RequestWithdraw(caller, owner, n) == CreateRequest(caller, owner, n, PreviewWithdraw(n))

\* Mutants: an unmatured request is paid; a sanctioned owner is paid; a
\* request is not payable at its very date.
Payable_Early(caller, id, receiver) ==
    /\ Live(id)
    /\ cooldownRequests[id].owner = caller
    /\ NoneSanctioned({caller, receiver})

Payable_Unchecked(caller, id, receiver) ==
    /\ Live(id)
    /\ now >= cooldownRequests[id].claimableAt
    /\ cooldownRequests[id].owner = caller

Payable_Late(caller, id, receiver) ==
    /\ Live(id)
    /\ now > cooldownRequests[id].claimableAt
    /\ cooldownRequests[id].owner = caller
    /\ NoneSanctioned({caller, receiver})

\* _claimWithdraw does not revert.
Payable(caller, id, receiver) ==
    /\ Live(id)
    /\ now >= cooldownRequests[id].claimableAt
    /\ cooldownRequests[id].owner = caller
    /\ NoneSanctioned({caller, receiver})

AssetsOf(ids) == SumFunction([id \in ids |-> cooldownRequests[id].assets])

\* Mutant: only one request of a batch is taken off the total.
Settle_FirstOnly(caller, ids) ==
    /\ totalAssetsInCooldown' =
            totalAssetsInCooldown - cooldownRequests[CHOOSE id \in ids : TRUE].assets
    /\ cooldownRequests' = [id \in RequestIds |-> IF id \in ids THEN NoRequest ELSE cooldownRequests[id]]
    /\ activeRequestIds' = [activeRequestIds EXCEPT ![caller] = @ \ ids]
    /\ UNCHANGED nextRequestId

\* Requests leave the books.
Settle(caller, ids) ==
    /\ totalAssetsInCooldown' = totalAssetsInCooldown - AssetsOf(ids)
    /\ cooldownRequests' = [id \in RequestIds |-> IF id \in ids THEN NoRequest ELSE cooldownRequests[id]]
    /\ activeRequestIds' = [activeRequestIds EXCEPT ![caller] = @ \ ids]
    /\ UNCHANGED nextRequestId

\* claimWithdraw with one id, claimWithdrawBatch with several different ones.
ClaimWithdraw(caller, ids, receiver) ==
    /\ ids # {}
    /\ CanPull
    /\ \A id \in ids : Payable(caller, id, receiver)
    /\ Settle(caller, ids)
    /\ Transferable(Ledger, VaultAcct, receiver, AssetsOf(ids))
    /\ assets' = Transferred(Ledger, VaultAcct, receiver, AssetsOf(ids))
    /\ Pull
    /\ UNCHANGED <<shareVars, ownerVars, now, listVars>>

\* Back to shares, at the price before the assets rejoin the stake.
CancelWithdraw(caller, id) ==
    /\ CanPull
    /\ Live(id)
    /\ cooldownRequests[id].owner = caller
    /\ SharesDown(cooldownRequests[id].assets) # 0
    /\ MintShares(caller, caller, SharesDown(cooldownRequests[id].assets))
    /\ Settle(caller, {id})
    /\ assets' = Ledger
    /\ Pull
    /\ UNCHANGED <<ownerVars, now, listVars>>

-----------------------------------------------------------------------------
\* The vault's owner.

OwnerOnly == UNCHANGED <<shareVars, requestVars, distributorVars, assetVars>>

\* Mutant: only the lower bound is checked.
UpdateCooldownDuration_Unbounded(duration) ==
    /\ duration >= MIN_COOLDOWN_DURATION
    /\ cooldownDuration' = duration
    /\ UNCHANGED <<cooldownEnabled, instantWithdrawWhitelist, distributorSet>>
    /\ OwnerOnly

UpdateCooldownDuration(duration) ==
    /\ duration \in MIN_COOLDOWN_DURATION..MAX_COOLDOWN_DURATION
    /\ cooldownDuration' = duration
    /\ UNCHANGED <<cooldownEnabled, instantWithdrawWhitelist, distributorSet>>
    /\ OwnerOnly

UpdateCooldownEnabled(enabled) ==
    /\ cooldownEnabled' = enabled
    /\ UNCHANGED <<cooldownDuration, instantWithdrawWhitelist, distributorSet>>
    /\ OwnerOnly

UpdateInstantWithdrawWhitelist(u, status) ==
    /\ instantWithdrawWhitelist' = IF status THEN instantWithdrawWhitelist \cup {u}
                                   ELSE instantWithdrawWhitelist \ {u}
    /\ UNCHANGED <<cooldownDuration, cooldownEnabled, distributorSet>>
    /\ OwnerOnly

\* The yield accrued so far is not pulled: the price drops by it until the
\* distributor is set again.
UpdateYieldDistributor(set) ==
    /\ distributorSet' = set
    /\ UNCHANGED <<cooldownDuration, cooldownEnabled, instantWithdrawWhitelist>>
    /\ OwnerOnly

=============================================================================
