--------------------------- MODULE YieldDistributor ---------------------------
(***************************************************************************)
(* YieldDistributor.sol: yield handed over by a funder drips to the vault  *)
(* linearly over yieldDuration.  Amounts per second are scaled by          *)
(* PRECISION and rounded down.  The vault's share supply is an argument    *)
(* here: StakingVault supplies it.  lastUpdateTime = 0 means "never        *)
(* funded", and the clock starts at 1.                                     *)
(***************************************************************************)
EXTENDS StakedAsset

CONSTANTS
    PRECISION,              \* 10 ** 18
    DEFAULT_YIELD_DURATION,
    MIN_YIELD_DURATION,
    YieldAmounts,           \* amounts of distribute
    YieldDurations          \* arguments of updateYieldDuration

ASSUME YieldDistributorAssumption ==
    /\ PRECISION \in Nat \ {0}
    /\ MIN_YIELD_DURATION \in Nat \ {0}
    /\ DEFAULT_YIELD_DURATION \in Nat
    /\ DEFAULT_YIELD_DURATION >= MIN_YIELD_DURATION
    /\ YieldAmounts \subseteq Nat
    /\ YieldDurations \subseteq Nat

VARIABLES yieldDuration, periodFinish, rewardRate, lastUpdateTime

scheduleVars == <<periodFinish, rewardRate, lastUpdateTime>>
distributorVars == <<yieldDuration, scheduleVars>>

DistributorTypeOK ==
    /\ yieldDuration \in Nat
    /\ yieldDuration >= MIN_YIELD_DURATION
    /\ periodFinish \in Nat
    /\ rewardRate \in Nat
    /\ lastUpdateTime \in Nat

DistributorInit ==
    /\ yieldDuration = DEFAULT_YIELD_DURATION
    /\ periodFinish = 0
    /\ rewardRate = 0
    /\ lastUpdateTime = 0

-----------------------------------------------------------------------------
\* What a rate pays over a stretch of time.
Drip(seconds, rate) == MulDiv(seconds, rate, PRECISION)

PendingYield(vaultSupply) ==
    LET endTime == MinOf(now, periodFinish) IN
    IF lastUpdateTime = 0 \/ rewardRate = 0 \/ vaultSupply = 0 \/ endTime <= lastUpdateTime
    THEN 0
    ELSE Drip(endTime - lastUpdateTime, rewardRate)

\* _pullYield does not revert.
PullPossible(bal, vaultSupply) ==
    PendingYield(vaultSupply) > 0
        => Transferable(bal, DistributorAcct, VaultAcct, PendingYield(vaultSupply))

\* The asset ledger after _pullYield.
Pulled(bal, vaultSupply) ==
    Transferred(bal, DistributorAcct, VaultAcct, PendingYield(vaultSupply))

\* While the vault is empty the rest of the schedule moves to now.
Slides(vaultSupply) ==
    /\ vaultSupply = 0
    /\ lastUpdateTime # 0
    /\ lastUpdateTime < periodFinish
    /\ now > lastUpdateTime

\* Mutants: the schedule stays while the vault is empty; a pull does not count as one.
LastUpdateAfterPull_NoSlide(vaultSupply) ==
    IF PendingYield(vaultSupply) > 0 THEN now ELSE lastUpdateTime
LastUpdateAfterPull_Unmoved(vaultSupply) ==
    IF Slides(vaultSupply) THEN now ELSE lastUpdateTime

LastUpdateAfterPull(vaultSupply) ==
    IF Slides(vaultSupply) \/ PendingYield(vaultSupply) > 0 THEN now ELSE lastUpdateTime

PeriodFinishAfterPull(vaultSupply) ==
    IF Slides(vaultSupply) THEN now + (periodFinish - lastUpdateTime) ELSE periodFinish

\* _pullYield, but for the transfer.
PullYield(vaultSupply) ==
    /\ lastUpdateTime' = LastUpdateAfterPull(vaultSupply)
    /\ periodFinish' = PeriodFinishAfterPull(vaultSupply)
    /\ UNCHANGED <<yieldDuration, rewardRate>>

\* What the schedule still owes, by its two dates and its rate.
Remaining(last, finish) == IF last # 0 /\ last < finish THEN Drip(finish - last, rewardRate) ELSE 0

\* Mutant: what was still to be paid is promised on top of what is left of it.
RemainingAfterPull_Stale(vaultSupply) == Remaining(lastUpdateTime, periodFinish)

RemainingAfterPull(vaultSupply) ==
    Remaining(LastUpdateAfterPull(vaultSupply), PeriodFinishAfterPull(vaultSupply))

RateAfterDistribute(n, vaultSupply) ==
    ((RemainingAfterPull(vaultSupply) + n) * PRECISION) \div yieldDuration

\* distribute: the yield accrued so far is paid out, the rest joins the new amount.
Distribute(funder, n, vaultSupply) ==
    /\ n # 0
    /\ Transferable(assets, funder, DistributorAcct, n)
    /\ LET funded == Transferred(assets, funder, DistributorAcct, n)
       IN  /\ PullPossible(funded, vaultSupply)
           /\ assets' = Pulled(funded, vaultSupply)
    /\ rewardRate' = RateAfterDistribute(n, vaultSupply)
    /\ lastUpdateTime' = now
    /\ periodFinish' = now + yieldDuration
    /\ UNCHANGED <<yieldDuration, now, listVars>>

UpdateYieldDuration(duration) ==
    /\ duration >= MIN_YIELD_DURATION
    /\ yieldDuration' = duration
    /\ UNCHANGED <<scheduleVars, assetVars>>

=============================================================================
