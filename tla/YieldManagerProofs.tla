-------------------------- MODULE YieldManagerProofs --------------------------
(***************************************************************************)
(* The YieldManager on top of the vault and the distributor: their         *)
(* invariant holds with it too, the amount it clamps a distribution to     *)
(* always passes the check that follows, and a repeated call finds at most *)
(* one unit of room, for every cap, amount, duration and precision.        *)
(***************************************************************************)
EXTENDS YieldManager, StakingProofs

ManagerInv ==
    /\ VaultInv
    /\ absoluteCap \in Nat
    /\ maxAprBps \in Nat

LEMMA ManagerPlaces ==
    /\ ManagerAcct \in Funders /\ ManagerAcct \in Holders
    /\ ManagerAcct # VaultAcct /\ ManagerAcct # DistributorAcct
    BY YieldManagerAssumption, PlacesApart

-----------------------------------------------------------------------------
(* Steps of the manager.                                                   *)

\* The caps and what is undistributed are amounts.
LEMMA RoomType ==
    ASSUME ManagerInv
    PROVE  /\ Undistributed \in Nat
           /\ MaxDripPerPeriod \in Nat
           /\ Buffer \in Nat
<1>1. /\ now \in Nat /\ lastUpdateTime \in Nat /\ periodFinish \in Nat /\ rewardRate \in Nat
      /\ yieldDuration \in Nat
    BY DEF ManagerInv, VaultInv, DistInv, DistributorTypeOK
<1>2. Undistributed \in Nat
  <2> DEFINE last == IF PendingYield(totalShares) > 0 THEN now ELSE lastUpdateTime
  <2>1. last \in Nat
      BY <1>1
  <2>2. CASE rewardRate = 0 \/ lastUpdateTime = 0 \/ last >= periodFinish
      BY <2>2 DEF Undistributed
  <2>3. CASE ~(rewardRate = 0 \/ lastUpdateTime = 0 \/ last >= periodFinish)
    <3>1. Undistributed = MulDivUp(periodFinish - last, rewardRate, PRECISION)
        BY <2>3 DEF Undistributed
    <3> HIDE DEF last
    <3>2. periodFinish - last \in Nat
        BY <1>1, <2>1, <2>3
    <3>3. QED
        BY <1>1, <3>1, <3>2, MulDivType, YieldDistributorAssumption
  <2>4. QED
      BY <2>2, <2>3
<1>3. Value \in Nat
    BY ValueHolds DEF ManagerInv, ValueIs
<1>4. MAX_BPS * YEAR \in Nat \ {0} /\ CAP_WINDOW \in Nat \ {0}
    BY YieldManagerAssumption
<1>5. DripPerPeriod(maxAprBps) \in Nat
  <2>1. maxAprBps * yieldDuration \in Nat
      BY <1>1 DEF ManagerInv
  <2>2. MulDiv(Value, maxAprBps * yieldDuration, MAX_BPS * YEAR) \in Nat
      BY <1>3, <1>4, <2>1, MulDivType
  <2>3. QED
      BY <2>2 DEF DripPerPeriod, Value
<1>6. MulDiv(absoluteCap, yieldDuration, CAP_WINDOW) \in Nat
    BY <1>1, <1>4, MulDivType DEF ManagerInv
<1>7. MaxDripPerPeriod \in Nat
    BY <1>5, <1>6 DEF MaxDripPerPeriod, MinOf
<1>8. Buffer \in Nat
    BY ManagerPlaces, BookFacts DEF Buffer, ManagerInv
<1>9. QED
    BY <1>2, <1>7, <1>8

\* What a distribution is clamped to, and the room it leaves or uses up.
LEMMA ClampedAmount ==
    ASSUME ManagerInv, NEW amount \in Nat
    PROVE  LET n == MinOf(amount, PreviewDistribute(MaxDripPerPeriod)) IN
           /\ n \in Nat
           /\ n # 0 => Undistributed + n <= MaxDripPerPeriod
           /\ /\ n # 0
              /\ amount > Monus(MaxDripPerPeriod, Undistributed)
              /\ Buffer > Monus(MaxDripPerPeriod, Undistributed)
              => Undistributed + n = MaxDripPerPeriod
<1> DEFINE m == MaxDripPerPeriod
           u == Undistributed
           b == Buffer
           n == MinOf(amount, MinOf(Monus(m, u), b))
<1>1. m \in Nat /\ u \in Nat /\ b \in Nat
    BY RoomType
<1>2. MinOf(amount, PreviewDistribute(MaxDripPerPeriod)) = n
    BY DEF PreviewDistribute
<1> HIDE DEF m, u, b
<1>3. /\ n \in Nat
      /\ n # 0 => u + n <= m
      /\ n # 0 /\ amount > Monus(m, u) /\ b > Monus(m, u) => u + n = m
    BY <1>1 DEF MinOf, Monus
<1>4. QED
    BY <1>2, <1>3 DEF m, u, b

LEMMA VaultStays ==
    ASSUME VaultInv, UNCHANGED vars
    PROVE  VaultInv'
    BY NextVault

LEMMA ManagerStep ==
    ASSUME ManagerInv, ManagerNext
    PROVE  ManagerInv'
<1>1. VaultInv /\ DistInv /\ absoluteCap \in Nat /\ maxAprBps \in Nat
    BY DEF ManagerInv, VaultInv
<1>2. ASSUME NEW amount \in Targets, DistributeUpTo(amount)
      PROVE  ManagerInv'
  <2> DEFINE n == MinOf(amount, PreviewDistribute(MaxDripPerPeriod))
  <2>1. n \in Nat
      BY ClampedAmount, YieldManagerAssumption
  <2>2. Distribute(ManagerAcct, n, totalShares) /\ UNCHANGED <<vaultVars, capVars>>
      BY <1>2 DEF DistributeUpTo
  <2> HIDE DEF n
  <2>3. DistInv'
      BY <1>1, <2>1, <2>2, ManagerPlaces, DistributeStep
  <2>4. Books'
      BY <1>1, <2>1, <2>2, ManagerPlaces, DistributeBooks
  <2>5. QED
      BY <1>1, <2>2, <2>3, <2>4 DEF ManagerInv, VaultInv, capVars
<1>3. ASSUME NEW n \in Harvests, HarvestIntoBuffer(n)
      PROVE  ManagerInv'
  <2>1. /\ assets \in [Holders -> Nat] /\ n \in Nat
        /\ ManagerAcct \in Holders /\ VaultAcct \in Holders /\ DistributorAcct \in Holders
        /\ ManagerAcct # VaultAcct /\ ManagerAcct # DistributorAcct
      BY <1>1, BookFacts, ManagerPlaces, PlacesApart, YieldManagerAssumption
  <2>2. /\ assets' = [assets EXCEPT ![ManagerAcct] = @ + n]
        /\ UNCHANGED <<now, listVars, distributorVars, vaultVars, capVars>>
      BY <1>3 DEF HarvestIntoBuffer
  <2>3. /\ assets' \in [Holders -> Nat] /\ assets'[VaultAcct] = assets[VaultAcct]
        /\ assets'[DistributorAcct] = assets[DistributorAcct]
      BY <2>1, <2>2
  <2>4. DistInv'
    <3>1. IsLedger(assets') /\ assets'[DistributorAcct] \in Nat
        BY <2>1, <2>3 DEF IsLedger
    <3>2. assets'[DistributorAcct] >= assets[DistributorAcct]
        BY <2>1, <2>3
    <3>3. QED
        BY <1>1, <2>2, <3>1, <3>2, FundsKept
  <2>5. AssetTypeOK' /\ assets'[VaultAcct] >= assets[VaultAcct]
      BY <1>1, <2>1, <2>2, <2>3 DEF VaultInv, Books, AssetTypeOK, listVars
  <2>6. Books'
      BY <1>1, <2>2, <2>5, VaultTypeStays, BooksStay
  <2>7. QED
      BY <1>1, <2>2, <2>4, <2>6 DEF ManagerInv, VaultInv, capVars
<1>4. ASSUME NEW receiver \in Sweepable, Sweep(receiver)
      PROVE  ManagerInv'
  <2> DEFINE n == Buffer
  <2>1. /\ n \in Nat /\ n <= assets[ManagerAcct] /\ receiver \in Holders
        /\ ManagerAcct \in Stakers \cup Funders
      BY RoomType, ManagerPlaces, YieldManagerAssumption DEF Buffer
  <2>2. /\ assets' = Transferred(assets, ManagerAcct, receiver, n)
        /\ UNCHANGED <<now, listVars, distributorVars, vaultVars, capVars>>
      BY <1>4 DEF Sweep
  <2> HIDE DEF n
  <2>3. DistInv'
      BY <1>1, <2>1, <2>2, GiveStep
  <2>4. /\ Transferred(assets, ManagerAcct, receiver, n) \in [Holders -> Nat]
        /\ Transferred(assets, ManagerAcct, receiver, n)[VaultAcct] >= assets[VaultAcct]
      BY <1>1, <2>1, GiveMoves
  <2>5. AssetTypeOK' /\ assets'[VaultAcct] >= assets[VaultAcct]
      BY <1>1, <2>2, <2>4 DEF VaultInv, Books, AssetTypeOK, listVars
  <2>6. Books'
      BY <1>1, <2>2, <2>5, VaultTypeStays, BooksStay
  <2>7. QED
      BY <1>1, <2>2, <2>3, <2>6 DEF ManagerInv, VaultInv, capVars
<1>5. ASSUME NEW cap \in CapValues, SetAbsoluteCap(cap)
      PROVE  ManagerInv'
    BY <1>1, <1>5, VaultStays, YieldManagerAssumption DEF SetAbsoluteCap, ManagerInv
<1>6. ASSUME NEW apr \in AprValues, SetMaxApr(apr)
      PROVE  ManagerInv'
    BY <1>1, <1>6, VaultStays, YieldManagerAssumption DEF SetMaxApr, ManagerInv
<1>7. QED
    BY <1>2, <1>3, <1>4, <1>5, <1>6 DEF ManagerNext

LEMMA ManagerInvariant == ManagedSpec => []ManagerInv
<1>1. ManagerInit => ManagerInv
    BY InitVault, YieldManagerAssumption DEF ManagerInit, ManagerInv
<1>2. ManagerInv /\ [ManagedNext]_managerVars => ManagerInv'
  <2>1. SUFFICES ASSUME ManagerInv, [ManagedNext]_managerVars PROVE ManagerInv'
      OBVIOUS
  <2>2. CASE ManagerNext
      BY <2>1, <2>2, ManagerStep
  <2>3. CASE [Next]_vars /\ UNCHANGED capVars
      BY <2>1, <2>3, NextVault DEF ManagerInv, capVars
  <2>4. QED
      BY <2>1, <2>2, <2>3 DEF ManagedNext, managerVars
<1>3. QED
    BY <1>1, <1>2, PTL DEF ManagedSpec

\* With the manager in it, harvests, distributions under the caps and sweeps leave the
\* vault and the distributor as sound as they are alone.
THEOREM ManagedStakingSound == ManagedSpec => [](TypeOK /\ DistributorSolvent /\ CooldownFunded)
<1>1. ASSUME ManagerInv PROVE TypeOK /\ DistributorSolvent /\ CooldownFunded
    BY <1>1, VaultTyped DEF ManagerInv, VaultInv, DistInv, Books
<1>2. QED
    BY <1>1, ManagerInvariant, PTL


-----------------------------------------------------------------------------
(* The room of a distribution.                                             *)

\* What the distributor rolls over is what the manager counted, rounded the other way.
LEMMA RemainingCounted ==
    ASSUME ManagerInv
    PROVE  /\ RemainingAfterPull(totalShares) \in Nat
           /\ RemainingAfterPull(totalShares) <= Undistributed
           /\ Undistributed <= RemainingAfterPull(totalShares) + 1
<1> DEFINE p == PendingYield(totalShares)
           last == LastUpdateAfterPull(totalShares)
           finish == PeriodFinishAfterPull(totalShares)
           counted == IF p > 0 THEN now ELSE lastUpdateTime
           r == RemainingAfterPull(totalShares)
<1>1. /\ now \in Nat \ {0} /\ lastUpdateTime \in Nat /\ periodFinish \in Nat /\ rewardRate \in Nat
      /\ PRECISION \in Nat \ {0} /\ p \in Nat
    BY PendingType, YieldDistributorAssumption
       DEF ManagerInv, VaultInv, Books, AssetTypeOK, DistInv, DistributorTypeOK
<1>2. /\ r = IF last # 0 /\ last < finish THEN MulDiv(finish - last, rewardRate, PRECISION) ELSE 0
      /\ Undistributed = IF rewardRate = 0 \/ lastUpdateTime = 0 \/ counted >= periodFinish THEN 0
                         ELSE MulDivUp(periodFinish - counted, rewardRate, PRECISION)
    BY DEF RemainingAfterPull, Remaining, Drip, Undistributed
<1>3. \/ /\ last = 0 \/ ~(last < finish)
         /\ lastUpdateTime = 0 \/ counted >= periodFinish
      \/ /\ last # 0 /\ lastUpdateTime # 0 /\ last < finish /\ counted < periodFinish
         /\ finish - last = periodFinish - counted
  <2>1. CASE Slides(totalShares)
    <3>1. p = 0 /\ last = now /\ finish = now + (periodFinish - lastUpdateTime)
        BY <2>1 DEF Slides, PendingYield, LastUpdateAfterPull, PeriodFinishAfterPull
    <3>2. lastUpdateTime # 0 /\ lastUpdateTime < periodFinish /\ counted = lastUpdateTime
        BY <2>1, <3>1 DEF Slides
    <3> HIDE DEF p, last, finish, counted
    <3>3. QED
        BY <1>1, <3>1, <3>2
  <2>2. CASE ~Slides(totalShares) /\ p > 0
    <3>1. last = now /\ finish = periodFinish /\ counted = now /\ lastUpdateTime # 0
        BY <2>2 DEF PendingYield, LastUpdateAfterPull, PeriodFinishAfterPull
    <3> HIDE DEF p, last, finish, counted
    <3>2. QED
        BY <1>1, <3>1
  <2>3. CASE ~Slides(totalShares) /\ ~(p > 0)
    <3>1. last = lastUpdateTime /\ finish = periodFinish /\ counted = lastUpdateTime
        BY <2>3 DEF LastUpdateAfterPull, PeriodFinishAfterPull
    <3> HIDE DEF p, last, finish, counted
    <3>2. QED
        BY <1>1, <3>1
  <2>4. QED
      BY <2>1, <2>2, <2>3
<1> HIDE DEF p, last, finish, counted, r
<1>4. CASE /\ last = 0 \/ ~(last < finish)
           /\ lastUpdateTime = 0 \/ counted >= periodFinish
    BY <1>2, <1>4 DEF r
<1>5. CASE /\ last # 0 /\ lastUpdateTime # 0 /\ last < finish /\ counted < periodFinish
           /\ finish - last = periodFinish - counted
  <2> DEFINE k == periodFinish - counted
  <2>1. k \in Nat
      BY <1>1, <1>5 DEF counted
  <2>2. r = MulDiv(k, rewardRate, PRECISION)
      BY <1>2, <1>5
  <2>3. MulDiv(k, rewardRate, PRECISION) \in Nat
      BY <1>1, <2>1, MulDivType
  <2>4. CASE rewardRate = 0
    <3>1. Undistributed = 0
        BY <1>2, <2>4
    <3>2. MulDiv(k, 0, PRECISION) = 0
        BY <1>1, <2>1 DEF MulDiv
    <3>3. QED
        BY <2>2, <2>4, <3>1, <3>2 DEF r
  <2>5. CASE rewardRate # 0
    <3>1. ~(counted >= periodFinish)
        BY <1>1, <1>5 DEF counted
    <3>2. Undistributed = MulDivUp(k, rewardRate, PRECISION)
        BY <1>2, <1>5, <2>5, <3>1
    <3> HIDE DEF k
    <3>3. QED
        BY <1>1, <2>1, <2>2, <2>3, <3>2, RoundingsClose DEF r
  <2>6. QED
      BY <2>4, <2>5
<1>6. QED
    BY <1>3, <1>4, <1>5

\* What the rate set by a distribution of n drips over its period.
LEMMA DripSet ==
    ASSUME ManagerInv, NEW n \in Nat
    PROVE  LET w == RemainingAfterPull(totalShares) + n
               rate == RateAfterDistribute(n, totalShares) IN
           /\ rate \in Nat
           /\ DripAfter(n) <= w
           /\ yieldDuration <= PRECISION /\ w # 0
                => rate # 0 /\ MulDivUp(yieldDuration, rate, PRECISION) >= w
           /\ DripAfter(n) \in Nat
<1> DEFINE w == RemainingAfterPull(totalShares) + n
           rate == (w * PRECISION) \div yieldDuration
<1>1. w \in Nat /\ yieldDuration \in Nat \ {0} /\ PRECISION \in Nat \ {0}
    BY RemainingCounted, YieldDistributorAssumption DEF ManagerInv, VaultInv, DistInv, DistributorTypeOK
<1>2. RateAfterDistribute(n, totalShares) = rate /\ DripAfter(n) = MulDiv(yieldDuration, rate, PRECISION)
    BY DEF RateAfterDistribute, DripAfter, Drip
<1> HIDE DEF w
<1>3. /\ rate \in Nat
      /\ MulDiv(yieldDuration, rate, PRECISION) <= w
      /\ yieldDuration <= PRECISION /\ w # 0
            => rate # 0 /\ MulDivUp(yieldDuration, rate, PRECISION) >= w
    BY <1>1, SpreadRate
<1> HIDE DEF rate
<1>4. MulDiv(yieldDuration, rate, PRECISION) \in Nat
    BY <1>1, <1>3, MulDivType
<1>5. QED
    BY <1>2, <1>3, <1>4 DEF w

\* YieldManager.sol: distribute never ends in DripExceedsCap.  The manager rounds what is
\* undistributed up, the distributor rounds it and the new rate down, so the amount it is
\* clamped to fits under the cap at every rounding, with yield pending, an emptied vault
\* or a duration changed in mid-period.
THEOREM ClampAlwaysMeetsCap == ManagedSpec => []ClampMeetsCap
<1>1. ASSUME ManagerInv, NEW amount \in Targets
      PROVE  LET n == MinOf(amount, PreviewDistribute(MaxDripPerPeriod)) IN
             n # 0 => DripAfter(n) <= MaxDripPerPeriod
  <2> USE <1>1
  <2> DEFINE n == MinOf(amount, PreviewDistribute(MaxDripPerPeriod))
             r == RemainingAfterPull(totalShares)
  <2>1. n \in Nat /\ (n # 0 => Undistributed + n <= MaxDripPerPeriod)
      BY ClampedAmount, YieldManagerAssumption
  <2>2. /\ Undistributed \in Nat /\ MaxDripPerPeriod \in Nat
        /\ r \in Nat /\ r <= Undistributed
      BY RoomType, RemainingCounted
  <2>3. DripAfter(n) \in Nat /\ DripAfter(n) <= r + n
      BY <2>1, DripSet
  <2> HIDE DEF n, r
  <2>4. n # 0 => DripAfter(n) <= MaxDripPerPeriod
      BY <2>1, <2>2, <2>3
  <2>5. QED
      BY <2>4 DEF n
<1>2. ManagerInv => ClampMeetsCap
    BY <1>1 DEF ClampMeetsCap
<1>3. QED
    BY <1>2, ManagerInvariant, PTL

\* After a distribution of n nothing is pending, and the whole of it is undistributed.
LEMMA AfterDistribute ==
    ASSUME ManagerInv, NEW n \in Nat, Distribute(ManagerAcct, n, totalShares), UNCHANGED vaultVars
    PROVE  /\ Accrued' = 0
           /\ LET rate == RateAfterDistribute(n, totalShares) IN
              rate # 0 => Undistributed' = MulDivUp(yieldDuration, rate, PRECISION)
<1>1. /\ now \in Nat \ {0} /\ yieldDuration \in Nat \ {0} /\ periodFinish \in Nat
    BY YieldDistributorAssumption
       DEF ManagerInv, VaultInv, Books, AssetTypeOK, DistInv, DistributorTypeOK
<1>2. /\ lastUpdateTime' = now /\ periodFinish' = now + yieldDuration /\ now' = now
      /\ rewardRate' = RateAfterDistribute(n, totalShares)
    BY DEF Distribute
<1>3. PendingYield(totalShares)' = 0
  <2>1. MinOf(now, now + yieldDuration) <= now
      BY <1>1 DEF MinOf
  <2>2. QED
      BY <1>2, <2>1 DEF PendingYield
<1>4. Accrued' = 0
    BY <1>3 DEF Accrued
<1>5. ASSUME RateAfterDistribute(n, totalShares) # 0
      PROVE  Undistributed' = MulDivUp(yieldDuration, RateAfterDistribute(n, totalShares), PRECISION)
  <2>1. ~(now >= now + yieldDuration) /\ now + yieldDuration - now = yieldDuration
      BY <1>1
  <2>2. QED
      BY <1>1, <1>2, <1>3, <1>5, <2>1 DEF Undistributed
<1>6. QED
    BY <1>4, <1>5

RoomOK == Undistributed \in Nat /\ Buffer \in Nat

LEMMA RoomHolds == ManagerInv => RoomOK
    BY RoomType DEF RoomOK

LEMMA RoomHoldsNext == ManagerInv' => RoomOK'
    BY RoomHolds, PTL

LEMMA RoomLeft ==
    ASSUME NEW m \in Nat, NEW u \in Nat, NEW n \in Nat, NEW r \in Nat, NEW left \in Nat,
           u + n = m, u <= r + 1, left >= r + n
    PROVE  Monus(m, left) <= 1
    BY DEF Monus

\* "A repeat call tops up at most 1 wei" (YieldManager.sol: distribute): a distribution
\* that uses the room up leaves at most one unit of it.
THEOREM RepeatsTopUpAtMostOne == ManagedSpec => RepeatTopsUpAtMostOne
<1>1. ASSUME ManagerInv, ManagerInv', NEW amount \in Targets,
             DistributeUpTo(amount),
             amount > Monus(MaxDripPerPeriod, Undistributed),
             Buffer > Monus(MaxDripPerPeriod, Undistributed),
             yieldDuration <= PRECISION, distributorSet
      PROVE  PreviewDistribute(MaxDripPerPeriod)' <= 1
  <2> USE <1>1
  <2> DEFINE n == MinOf(amount, PreviewDistribute(MaxDripPerPeriod))
             r == RemainingAfterPull(totalShares)
             rate == RateAfterDistribute(n, totalShares)
             m == MaxDripPerPeriod
             u == Undistributed
  <2>1. /\ n # 0 /\ Distribute(ManagerAcct, n, totalShares) /\ UNCHANGED <<vaultVars, capVars>>
      BY DEF DistributeUpTo
  <2>2. n \in Nat /\ u + n = m
      BY <2>1, ClampedAmount, YieldManagerAssumption
  <2>3. u \in Nat /\ m \in Nat /\ r \in Nat /\ u <= r + 1
      BY RoomType, RemainingCounted
  <2>4. MulDivUp(yieldDuration, rate, PRECISION) >= r + n /\ rate # 0 /\ rate \in Nat
    <3>1. r + n # 0
        BY <2>1, <2>2, <2>3
    <3>2. QED
        BY <2>2, <3>1, DripSet
  <2>5. Accrued' = 0 /\ Undistributed' = MulDivUp(yieldDuration, rate, PRECISION)
      BY <2>1, <2>2, <2>4, AfterDistribute
  <2>6. MaxDripPerPeriod' = m
    <3>1. /\ assets'[VaultAcct] = assets[VaultAcct] + PendingYield(totalShares)
          /\ PendingYield(totalShares) \in Nat /\ assets[VaultAcct] \in Nat
        BY <2>1, <2>2, DistributeMoves, ManagerPlaces, BookFacts, PlacesApart DEF ManagerInv
    <3>2. Accrued = PendingYield(totalShares)
        BY DEF Accrued
    <3>3. assets'[VaultAcct] + Accrued' = assets[VaultAcct] + Accrued
        BY <2>5, <3>1, <3>2
    <3>4. /\ UNCHANGED <<totalShares, totalAssetsInCooldown, maxAprBps, absoluteCap>>
          /\ yieldDuration' = yieldDuration
        BY <2>1 DEF vaultVars, shareVars, requestVars, capVars, Distribute
    <3>5. TotalAssets(assets, Accrued)' = TotalAssets(assets, Accrued)
        BY <3>3, <3>4 DEF TotalAssets
    <3>6. QED
        BY <3>4, <3>5 DEF MaxDripPerPeriod, DripPerPeriod
  <2>7. Buffer' \in Nat /\ Undistributed' \in Nat
      BY RoomHoldsNext DEF RoomOK
  <2>8. PreviewDistribute(MaxDripPerPeriod)' = MinOf(Monus(MaxDripPerPeriod', Undistributed'), Buffer')
      BY DEF PreviewDistribute, Buffer
  <2> HIDE DEF n, r, rate, m, u
  <2>9. Undistributed' >= r + n
      BY <2>4, <2>5
  <2>10. Monus(MaxDripPerPeriod', Undistributed') <= 1
      BY <2>2, <2>3, <2>6, <2>7, <2>9, RoomLeft
  <2>11. Monus(MaxDripPerPeriod', Undistributed') \in Nat
      BY <2>3, <2>6, <2>7, MonusType
  <2>12. QED
      BY <2>7, <2>8, <2>10, <2>11 DEF MinOf
<1>2. ManagerInv /\ ManagerInv' /\ [ManagedNext]_managerVars =>
        \A amount \in Targets :
            /\ DistributeUpTo(amount)
            /\ amount > Monus(MaxDripPerPeriod, Undistributed)
            /\ Buffer > Monus(MaxDripPerPeriod, Undistributed)
            /\ yieldDuration <= PRECISION
            /\ distributorSet
            => PreviewDistribute(MaxDripPerPeriod)' <= 1
    BY <1>1
<1>3. QED
    BY <1>2, ManagerInvariant, PTL DEF ManagedSpec, RepeatTopsUpAtMostOne
=============================================================================
