----------------------------- MODULE YieldManager -----------------------------
(***************************************************************************)
(* YieldManager.sol: a buffer of the staked asset, filled by harvests and  *)
(* handed to the distributor under two caps, on the APR of the stakers and *)
(* on the drip in absolute terms.  The manager is a funder; the buffer is  *)
(* its balance.  A harvest shows here as the amount the Gateway mints to   *)
(* it; Vetro models where that comes from.                                 *)
(***************************************************************************)
EXTENDS Staking

CONSTANTS
    ManagerAcct,
    YEAR,               \* 365 days
    CAP_WINDOW,         \* 7 days
    MAX_BPS,
    MAX_APR_BPS,
    INIT_APR_BPS,       \* constructor arguments
    INIT_ABSOLUTE_CAP,
    Targets,            \* amounts keepers pass to distribute
    Harvests,           \* amounts a harvest mints
    MaxAssets,          \* bound on all assets, enforced where harvests create them
    AprValues, CapValues,   \* arguments of the admin's calls
    Sweepable           \* receivers of sweep

ASSUME YieldManagerAssumption ==
    /\ ManagerAcct \in Funders
    /\ {YEAR, CAP_WINDOW, MAX_BPS} \subseteq Nat \ {0}
    /\ MAX_APR_BPS \in Nat
    /\ INIT_APR_BPS \in 0..MAX_APR_BPS
    /\ INIT_ABSOLUTE_CAP \in Nat \ {0}
    /\ Targets \cup Harvests \cup AprValues \cup CapValues \subseteq Nat
    /\ MaxAssets \in Nat
    /\ Sweepable \subseteq Holders

VARIABLES absoluteCap, maxAprBps

capVars == <<absoluteCap, maxAprBps>>
managerVars == <<vars, capVars>>

ManagerInit ==
    /\ Init
    /\ absoluteCap = INIT_ABSOLUTE_CAP
    /\ maxAprBps = INIT_APR_BPS

-----------------------------------------------------------------------------
Buffer == assets[ManagerAcct]

\* Mutant: yield that the next pull pays out still counts.
Undistributed_CountsAccrued ==
    IF rewardRate = 0 \/ lastUpdateTime = 0 \/ lastUpdateTime >= periodFinish THEN 0
    ELSE MulDivUp(periodFinish - lastUpdateTime, rewardRate, PRECISION)

\* undistributed: what the distributor will roll over, rounded up.
Undistributed ==
    LET last == IF PendingYield(totalShares) > 0 THEN now ELSE lastUpdateTime IN
    IF rewardRate = 0 \/ lastUpdateTime = 0 \/ last >= periodFinish THEN 0
    ELSE MulDivUp(periodFinish - last, rewardRate, PRECISION)

\* The vault's totalAssets, with what is pending.
DripPerPeriod(apr) ==
    IF totalShares = 0 THEN 0
    ELSE MulDiv(TotalAssets(assets, Accrued), apr * yieldDuration, MAX_BPS * YEAR)

MaxDripPerPeriod ==
    MinOf(DripPerPeriod(maxAprBps), MulDiv(absoluteCap, yieldDuration, CAP_WINDOW))

\* Mutant: what is already dripping does not count.
PreviewDistribute_Whole(target) == MinOf(target, Buffer)

\* _previewDistribute
PreviewDistribute(target) == MinOf(Monus(target, Undistributed), Buffer)

\* The drip over one period at the rate that distributing n sets.
DripAfter(n) == Drip(yieldDuration, RateAfterDistribute(n, totalShares))

-----------------------------------------------------------------------------
\* KEEPER_ROLE.  distribute; when the room is used up it returns 0: no step.
\* The last conjunct is the check that ends in DripExceedsCap.
DistributeUpTo(amount) ==
    LET n == MinOf(amount, PreviewDistribute(MaxDripPerPeriod)) IN
    /\ n # 0
    /\ Distribute(ManagerAcct, n, totalShares)
    /\ DripAfter(n) <= MaxDripPerPeriod
    /\ UNCHANGED <<vaultVars, capVars>>

\* harvest, for the buffer.
HarvestIntoBuffer(n) ==
    /\ ManagerAcct \notin blacklist
    /\ SumFunction(assets) + n <= MaxAssets
    /\ assets' = [assets EXCEPT ![ManagerAcct] = @ + n]
    /\ UNCHANGED <<now, listVars, distributorVars, vaultVars, capVars>>

\* DEFAULT_ADMIN_ROLE
SetAbsoluteCap(cap) ==
    /\ cap # 0
    /\ absoluteCap' = cap
    /\ UNCHANGED <<maxAprBps, vars>>

SetMaxApr(apr) ==
    /\ apr <= MAX_APR_BPS
    /\ maxAprBps' = apr
    /\ UNCHANGED <<absoluteCap, vars>>

Sweep(receiver) ==
    /\ Transferable(assets, ManagerAcct, receiver, Buffer)
    /\ assets' = Transferred(assets, ManagerAcct, receiver, Buffer)
    /\ UNCHANGED <<now, listVars, distributorVars, vaultVars, capVars>>

ManagerNext ==
    \/ \E amount \in Targets : DistributeUpTo(amount)
    \/ \E n \in Harvests : HarvestIntoBuffer(n)
    \/ \E cap \in CapValues : SetAbsoluteCap(cap)
    \/ \E apr \in AprValues : SetMaxApr(apr)
    \/ \E receiver \in Sweepable : Sweep(receiver)

ManagedNext == ManagerNext \/ (Next /\ UNCHANGED capVars)

ManagedSpec == ManagerInit /\ [][ManagedNext]_managerVars

-----------------------------------------------------------------------------
\* The amount distribute clamps to always passes the check that follows it:
\* DripExceedsCap is never the outcome, at any rounding of the rate, with yield
\* pending, an emptied vault or a duration changed in mid-period.
ClampMeetsCap ==
    \A amount \in Targets :
        LET n == MinOf(amount, PreviewDistribute(MaxDripPerPeriod)) IN
        n # 0 => DripAfter(n) <= MaxDripPerPeriod

\* A distribution that was limited by neither the keeper's amount nor the buffer
\* uses the room up: "a repeat call tops up at most 1 wei", whatever was pending.
\* Rounding the rate costs less than one unit while a period is no longer than
\* PRECISION seconds.  A vault whose distributor was cleared gains by what the call
\* pulls, and the cap with it, so the vault has to have its distributor.
RepeatTopsUpAtMostOne ==
    [][\A amount \in Targets :
        /\ DistributeUpTo(amount)
        /\ amount > Monus(MaxDripPerPeriod, Undistributed)
        /\ Buffer > Monus(MaxDripPerPeriod, Undistributed)
        /\ yieldDuration <= PRECISION
        /\ distributorSet
        => PreviewDistribute(MaxDripPerPeriod)' <= 1]_managerVars

=============================================================================
