-------------------------------- MODULE Staking --------------------------------
(***************************************************************************)
(* StakingVault and YieldDistributor composed: the vault pulls yield from  *)
(* the distributor in each of its operations, the distributor reads the    *)
(* vault's supply.  A step is one transaction, one tick of the clock or    *)
(* one change of the sanctions lists.                                      *)
(***************************************************************************)
EXTENDS StakingVault

vars == <<assetVars, distributorVars, vaultVars>>

TypeOK == AssetTypeOK /\ DistributorTypeOK /\ VaultTypeOK

Init == AssetInit /\ DistributorInit /\ VaultInit

StakerNext ==
    \E caller \in Stakers :
        \/ \E receiver \in Receivers, n \in AssetAmounts : Deposit(caller, receiver, n)
        \/ \E receiver \in Receivers, s \in ShareAmounts : Mint(caller, receiver, s)
        \/ \E receiver \in Receivers, owner \in Stakers :
            \/ \E s \in ShareAmounts :
                \/ Redeem(caller, receiver, owner, s)
                \/ TransferShares(caller, owner, receiver, s)
            \/ \E n \in AssetAmounts : Withdraw(caller, receiver, owner, n)
        \/ \E owner \in Stakers :
            \/ \E s \in ShareAmounts : RequestRedeem(caller, owner, s)
            \/ \E n \in AssetAmounts : RequestWithdraw(caller, owner, n)
        \/ \E ids \in SUBSET RequestIds, receiver \in Receivers : ClaimWithdraw(caller, ids, receiver)
        \/ \E id \in RequestIds : CancelWithdraw(caller, id)

OwnerNext ==
    \/ \E duration \in CooldownDurations : UpdateCooldownDuration(duration)
    \/ \E enabled \in CooldownSwitches : UpdateCooldownEnabled(enabled)
    \/ \E u \in Exemptable, status \in BOOLEAN : UpdateInstantWithdrawWhitelist(u, status)
    \/ \E set \in DistributorSwitches : UpdateYieldDistributor(set)

DistributorNext ==
    \/ \E funder \in Funders, n \in YieldAmounts : Distribute(funder, n, totalShares)
    \/ \E duration \in YieldDurations : UpdateYieldDuration(duration)

Next ==
    \/ StakerNext
    \/ OwnerNext
    \/ DistributorNext /\ UNCHANGED vaultVars
    \/ AssetNext /\ UNCHANGED <<distributorVars, vaultVars>>

Spec == Init /\ [][Next]_vars

-----------------------------------------------------------------------------
(* Cooldown accounting.                                                    *)

\* totalAssetsInCooldown is the sum of the open requests, through partial and
\* batched claims and cancellations.
CooldownAccounted == totalAssetsInCooldown = AssetsOf({id \in RequestIds : Live(id)})

\* The vault holds every asset that waits in cooldown: the clamp in totalAssets
\* ("prevent underflow if somehow _inCooldown > _balance") is never used, and a
\* matured request can always be paid.
CooldownFunded == assets[VaultAcct] >= totalAssetsInCooldown

\* A request never changes, whatever the owner does to the settings.  It leaves
\* after its own date, or by a cancellation that returns shares to its owner, and
\* nothing else takes assets out of cooldown.
RequestsAreKept ==
    [][\A id \in RequestIds :
        LET request == cooldownRequests[id] IN
        Live(id) => \/ cooldownRequests'[id] = request
                    \/ /\ ~Live(id)'
                       /\ \/ now >= request.claimableAt
                          \/ shares'[request.owner] > shares[request.owner]]_vars

-----------------------------------------------------------------------------
(* Share price.                                                            *)

Value == TotalAssets(assets, Accrued)

\* No operation, at any rounding, lowers the price of a share as totalAssets and
\* totalSupply give it: deposits, exits, cancellations, pulls, new distributions
\* and donations leave every other holder at least as well off.  Clearing the
\* distributor is the exception: what is pending drops out of totalAssets.
SharePriceNeverFalls ==
    [][distributorSet' = distributorSet =>
        (Value' + 1) * (totalShares + 1) >= (Value + 1) * (totalShares' + 1)]_vars

-----------------------------------------------------------------------------
(* Yield.                                                                  *)

\* The distributor holds all that its schedule still promises: no sequence of
\* fundings, pulls, empty vaults and changes of duration over-promises.
DistributorSolvent ==
    lastUpdateTime < periodFinish =>
        assets[DistributorAcct] * PRECISION >= (periodFinish - lastUpdateTime) * rewardRate

\* A deposit into an empty vault finds no yield accrued before it: "Nobody earns
\* while the vault is empty".
NobodyEarnsWhileEmpty ==
    [][totalShares = 0 /\ totalShares' > 0 => PendingYield(totalShares)' = 0]_vars

-----------------------------------------------------------------------------
(* Sanctions.                                                              *)

\* Shares and requests of a sanctioned account stay as they are, and the vault
\* neither pays it nor takes its assets, whoever calls.
FrozenWhileSanctioned ==
    [][\A u \in Stakers : Sanctioned(u) =>
        /\ shares'[u] = shares[u]
        /\ activeRequestIds'[u] = activeRequestIds[u]
        /\ vaultVars' # vaultVars => assets'[u] = assets[u]]_vars

\* A matured request of an account in good standing can be claimed at once, as long
\* as the asset moves between the contracts: the pull and the payment are covered.
ClaimAlwaysPossible ==
    \A u \in Stakers, id \in RequestIds :
        /\ Live(id) /\ cooldownRequests[id].owner = u
        /\ now >= cooldownRequests[id].claimableAt
        /\ ~Sanctioned(u)
        /\ {u, VaultAcct, DistributorAcct} \cap blacklist = {}
        => ENABLED ClaimWithdraw(u, {id}, u)

===============================================================================
