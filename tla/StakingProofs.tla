---------------------------- MODULE StakingProofs ----------------------------
(***************************************************************************)
(* The distributor and the vault, for every number of stakers and          *)
(* requests, amount, duration and precision.  The YieldDistributor can     *)
(* always pay what its schedule promises.  The vault's books agree with    *)
(* its requests and are funded, an open request stays as it was made, a    *)
(* sanctioned account is frozen, nobody earns for time the vault was       *)
(* empty, and the share price never falls.                                 *)
(***************************************************************************)
EXTENDS Staking, ArithmeticProofs

\* A ledger is a function on the holders.  Nothing more is assumed of the other
\* balances: the vault's payments need not be typed to show that they leave the
\* distributor alone.
IsLedger(bal) == bal = [a \in Holders |-> bal[a]]

\* Balance b pays the rest of a schedule.
Pays(b, last, finish, rate) == last < finish => b * PRECISION >= (finish - last) * rate

DistInv ==
    /\ IsLedger(assets)
    /\ assets[DistributorAcct] \in Nat
    /\ now \in Nat
    /\ DistributorTypeOK
    /\ DistributorSolvent

LEMMA Untouched ==
    ASSUME DistInv, UNCHANGED <<distributorVars, assetVars>>
    PROVE  DistInv'
    BY DEF DistInv, IsLedger, DistributorTypeOK, DistributorSolvent,
           distributorVars, scheduleVars, assetVars

LEMMA TransferredLedger ==
    ASSUME NEW bal, IsLedger(bal), NEW from \in Holders, NEW to \in Holders, NEW n
    PROVE  /\ IsLedger(Transferred(bal, from, to, n))
           /\ \A x \in Holders \ {from, to} : Transferred(bal, from, to, n)[x] = bal[x]
           /\ from # to => Transferred(bal, from, to, n)[from] = bal[from] - n
           /\ from # to => Transferred(bal, from, to, n)[to] = bal[to] + n
<1>1. CASE from = to
    BY <1>1 DEF Transferred
<1>2. CASE from # to
  <2> DEFINE after == [bal EXCEPT ![from] = @ - n, ![to] = @ + n]
  <2>1. after = [a \in Holders |-> IF a = to THEN bal[a] + n ELSE IF a = from THEN bal[a] - n ELSE bal[a]]
      BY <1>2 DEF IsLedger
  <2>2. Transferred(bal, from, to, n) = after
      BY <1>2 DEF Transferred
  <2> HIDE DEF after
  <2>3. IsLedger(after)
      BY <2>1 DEF IsLedger
  <2>4. /\ after[from] = bal[from] - n
        /\ after[to] = bal[to] + n
        /\ \A x \in Holders \ {from, to} : after[x] = bal[x]
      BY <1>2, <2>1
  <2>5. QED
      BY <2>2, <2>3, <2>4
<1>3. QED
    BY <1>1, <1>2

LEMMA DripType ==
    ASSUME NEW seconds \in Nat, NEW rate \in Nat
    PROVE  /\ Drip(seconds, rate) \in Nat
           /\ Drip(seconds, rate) * PRECISION <= seconds * rate
    BY YieldDistributorAssumption, MulDivType, MulDivTimes DEF Drip

LEMMA PendingType ==
    ASSUME DistInv, NEW s
    PROVE  /\ PendingYield(s) \in Nat
           /\ PendingYield(s) > 0 =>
                /\ lastUpdateTime < MinOf(now, periodFinish)
                /\ PendingYield(s) = Drip(MinOf(now, periodFinish) - lastUpdateTime, rewardRate)
<1> DEFINE endTime == MinOf(now, periodFinish)
<1>1. endTime \in Nat /\ lastUpdateTime \in Nat /\ rewardRate \in Nat
    BY DEF DistInv, DistributorTypeOK, MinOf
<1>2. CASE lastUpdateTime = 0 \/ rewardRate = 0 \/ s = 0 \/ endTime <= lastUpdateTime
    BY <1>2 DEF PendingYield
<1>3. CASE ~(lastUpdateTime = 0 \/ rewardRate = 0 \/ s = 0 \/ endTime <= lastUpdateTime)
  <2>1. PendingYield(s) = Drip(endTime - lastUpdateTime, rewardRate)
      BY <1>3 DEF PendingYield
  <2>2. endTime - lastUpdateTime \in Nat /\ lastUpdateTime < endTime
      BY <1>1, <1>3
  <2>3. Drip(endTime - lastUpdateTime, rewardRate) \in Nat
      BY <1>1, <2>2, DripType
  <2>4. QED
      BY <2>1, <2>2, <2>3
<1>4. QED
    BY <1>2, <1>3

\* The promise made for the rest of the schedule covers what is pending, and what
\* the distributor keeps after paying that covers the rest.
LEMMA PendingCovered ==
    ASSUME DistInv, NEW s
    PROVE  /\ PendingYield(s) <= assets[DistributorAcct]
           /\ LastUpdateAfterPull(s) \in Nat
           /\ PeriodFinishAfterPull(s) \in Nat
           /\ Pays(assets[DistributorAcct] - PendingYield(s),
                   LastUpdateAfterPull(s), PeriodFinishAfterPull(s), rewardRate)
<1> DEFINE b == assets[DistributorAcct]
           p == PendingYield(s)
           last == LastUpdateAfterPull(s)
           finish == PeriodFinishAfterPull(s)
<1>1. /\ b \in Nat /\ now \in Nat /\ lastUpdateTime \in Nat /\ periodFinish \in Nat
      /\ rewardRate \in Nat /\ p \in Nat /\ PRECISION \in Nat \ {0}
      /\ Pays(b, lastUpdateTime, periodFinish, rewardRate)
    BY PendingType, YieldDistributorAssumption
       DEF DistInv, DistributorTypeOK, DistributorSolvent, Pays
<1>2. CASE p = 0 /\ ~Slides(s)
  <2>1. last = lastUpdateTime /\ finish = periodFinish
      BY <1>2 DEF LastUpdateAfterPull, PeriodFinishAfterPull
  <2>2. QED
      BY <1>1, <1>2, <2>1
<1>3. CASE Slides(s)
  <2>1. p = 0
      BY <1>3 DEF Slides, PendingYield
  <2>2. last = now /\ finish = now + (periodFinish - lastUpdateTime)
      BY <1>3 DEF LastUpdateAfterPull, PeriodFinishAfterPull
  <2>3. lastUpdateTime < periodFinish
      BY <1>3 DEF Slides
  <2>4. finish - last = periodFinish - lastUpdateTime /\ last \in Nat /\ finish \in Nat
      BY <1>1, <2>2, <2>3
  <2>5. b * PRECISION >= (finish - last) * rewardRate
      BY <1>1, <2>3, <2>4 DEF Pays
  <2>6. QED
      BY <1>1, <2>1, <2>4, <2>5 DEF Pays
<1>4. CASE p > 0 /\ ~Slides(s)
  <2> DEFINE endTime == MinOf(now, periodFinish)
             elapsed == endTime - lastUpdateTime
  <2>1. last = now /\ finish = periodFinish
      BY <1>4 DEF LastUpdateAfterPull, PeriodFinishAfterPull
  <2>2. lastUpdateTime < endTime /\ p = Drip(elapsed, rewardRate)
      BY <1>4, PendingType
  <2>3. endTime \in Nat /\ endTime <= periodFinish /\ endTime <= now
        /\ (now < periodFinish => endTime = now)
      BY <1>1 DEF MinOf
  <2>4. elapsed \in Nat /\ lastUpdateTime < periodFinish
      BY <1>1, <2>2, <2>3
  <2>5. p * PRECISION <= elapsed * rewardRate
      BY <1>1, <2>2, <2>4, DripType
  <2>6. b * PRECISION >= (periodFinish - lastUpdateTime) * rewardRate
      BY <1>1, <2>4 DEF Pays
  <2>7. p <= b
    <3>1. elapsed * rewardRate <= (periodFinish - lastUpdateTime) * rewardRate
        BY <1>1, <2>2, <2>3, <2>4
    <3>2. p * PRECISION <= b * PRECISION
        BY <1>1, <2>4, <2>5, <2>6, <3>1
    <3>3. QED
        BY <1>1, <3>2
  <2>8. now < periodFinish => (b - p) * PRECISION >= (periodFinish - now) * rewardRate
    <3>1. SUFFICES ASSUME now < periodFinish
                   PROVE  (b - p) * PRECISION >= (periodFinish - now) * rewardRate
        OBVIOUS
    <3>2. elapsed = now - lastUpdateTime
        BY <2>3, <3>1
    <3>3. (periodFinish - lastUpdateTime) * rewardRate
            = (periodFinish - now) * rewardRate + elapsed * rewardRate
        BY <1>1, <3>2
    <3>4. (b - p) * PRECISION = b * PRECISION - p * PRECISION
        BY <1>1
    <3>5. QED
        BY <1>1, <2>4, <2>5, <2>6, <3>3, <3>4
  <2>9. QED
      BY <1>1, <2>1, <2>7, <2>8 DEF Pays
<1>5. QED
    BY <1>1, <1>2, <1>3, <1>4

-----------------------------------------------------------------------------
(* Steps of the vault.                                                     *)

LEMMA ContractsHold == DistributorAcct \in Holders /\ VaultAcct \in Holders
                       /\ VaultAcct # DistributorAcct
    BY StakedAssetAssumption DEF Holders, Contracts

LEMMA PulledLedger ==
    ASSUME NEW bal, IsLedger(bal), NEW s
    PROVE  /\ IsLedger(Pulled(bal, s))
           /\ Pulled(bal, s)[DistributorAcct] = bal[DistributorAcct] - PendingYield(s)
<1>1. VaultAcct # DistributorAcct /\ VaultAcct \in Holders /\ DistributorAcct \in Holders
    BY ContractsHold
<1>2. QED
    BY <1>1, TransferredLedger DEF Pulled

\* After the vault's pull, or without one, the distributor holds what it owes.
LEMMA AfterPull ==
    ASSUME DistInv, Pull
    PROVE  /\ IsLedger(Ledger)
           /\ Ledger[DistributorAcct] \in Nat
           /\ DistributorTypeOK'
           /\ Pays(Ledger[DistributorAcct], lastUpdateTime', periodFinish', rewardRate')
<1>1. CASE distributorSet
  <2>1. /\ IsLedger(Ledger)
        /\ Ledger[DistributorAcct] = assets[DistributorAcct] - PendingYield(totalShares)
      BY <1>1, PulledLedger DEF Ledger, DistInv
  <2>2. /\ lastUpdateTime' = LastUpdateAfterPull(totalShares)
        /\ periodFinish' = PeriodFinishAfterPull(totalShares)
        /\ yieldDuration' = yieldDuration
        /\ rewardRate' = rewardRate
      BY <1>1 DEF Pull, PullYield
  <2>3. /\ PendingYield(totalShares) <= assets[DistributorAcct]
        /\ PendingYield(totalShares) \in Nat
        /\ assets[DistributorAcct] \in Nat
        /\ LastUpdateAfterPull(totalShares) \in Nat
        /\ PeriodFinishAfterPull(totalShares) \in Nat
      BY PendingCovered, PendingType DEF DistInv
  <2>4. Ledger[DistributorAcct] \in Nat
      BY <2>1, <2>3
  <2>5. DistributorTypeOK'
      BY <2>2, <2>3 DEF DistInv, DistributorTypeOK
  <2>6. Pays(Ledger[DistributorAcct], lastUpdateTime', periodFinish', rewardRate')
      BY <2>1, <2>2, PendingCovered
  <2>7. QED
      BY <2>1, <2>4, <2>5, <2>6
<1>2. CASE ~distributorSet
  <2>1. Ledger = assets /\ UNCHANGED distributorVars
      BY <1>2 DEF Ledger, Pull
  <2>2. QED
      BY <2>1 DEF DistInv, DistributorTypeOK, DistributorSolvent, Pays, distributorVars, scheduleVars
<1>3. QED
    BY <1>1, <1>2

\* The vault moves assets between its users and itself only.
LEMMA VaultStep ==
    ASSUME DistInv, Pull, now' = now,
           \/ assets' = Ledger
           \/ \E from, to \in Stakers \cup {VaultAcct} : \E n : assets' = Transferred(Ledger, from, to, n)
    PROVE  DistInv'
<1>1. IsLedger(assets') /\ assets'[DistributorAcct] = Ledger[DistributorAcct]
  <2>1. CASE assets' = Ledger
      BY <2>1, AfterPull
  <2>2. ASSUME NEW from \in Stakers \cup {VaultAcct}, NEW to \in Stakers \cup {VaultAcct}, NEW n,
               assets' = Transferred(Ledger, from, to, n)
        PROVE  IsLedger(assets') /\ assets'[DistributorAcct] = Ledger[DistributorAcct]
    <3>1. /\ from \in Holders /\ to \in Holders
          /\ DistributorAcct \in Holders \ {from, to}
        BY StakedAssetAssumption DEF Holders, Contracts
    <3>2. QED
        BY <2>2, <3>1, AfterPull, TransferredLedger
  <2>3. QED
      BY <2>1, <2>2
<1>2. DistributorSolvent'
    BY <1>1, AfterPull DEF DistributorSolvent, Pays
<1>3. IsLedger(assets)'
    BY <1>1 DEF IsLedger
<1>4. QED
    BY <1>1, <1>2, <1>3, AfterPull DEF DistInv

LEMMA StakerStep ==
    ASSUME DistInv, StakerNext
    PROVE  DistInv'
<1> USE StakingVaultAssumption
<1>1. PICK caller \in Stakers :
        \/ \E receiver \in Receivers, n \in AssetAmounts : Deposit(caller, receiver, n)
        \/ \E receiver \in Receivers, s \in ShareAmounts : Mint(caller, receiver, s)
        \/ \E receiver \in Receivers, owner \in Stakers :
            \/ \E s \in ShareAmounts :
                \/ Redeem(caller, receiver, owner, s)
                \/ TransferShares(caller, owner, receiver, s)
            \/ \E n \in AssetAmounts : Withdraw(caller, receiver, owner, n)
        \/ \E owner \in Stakers :
            \/ \E s \in ShareAmounts : RequestRedeem(caller, owner, s)
            \/ \E n \in AssetAmounts : RequestWithdraw(caller, owner, n)
        \/ \E ids \in SUBSET RequestIds, receiver \in Receivers : ClaimWithdraw(caller, ids, receiver)
        \/ \E id \in RequestIds : CancelWithdraw(caller, id)
    BY DEF StakerNext
<1>2. ASSUME NEW receiver, NEW n, NEW s, TakeIn(caller, receiver, n, s)
      PROVE  DistInv'
  <2>1. Pull /\ now' = now /\ assets' = Transferred(Ledger, caller, VaultAcct, n)
      BY <1>2 DEF TakeIn
  <2>2. QED
      BY <2>1, VaultStep
<1>3. ASSUME NEW receiver \in Receivers, NEW owner, NEW n, NEW s, PayOut(caller, receiver, owner, n, s)
      PROVE  DistInv'
  <2>1. Pull /\ now' = now /\ assets' = Transferred(Ledger, VaultAcct, receiver, n)
      BY <1>3 DEF PayOut
  <2>2. receiver \in Stakers \cup {VaultAcct}
      OBVIOUS
  <2>3. QED
      BY <2>1, <2>2, VaultStep
<1>4. ASSUME NEW owner, NEW n, NEW s, CreateRequest(caller, owner, n, s)
      PROVE  DistInv'
    BY <1>4, VaultStep DEF CreateRequest
<1>5. ASSUME NEW ids, NEW receiver \in Receivers, ClaimWithdraw(caller, ids, receiver)
      PROVE  DistInv'
  <2>1. Pull /\ now' = now /\ assets' = Transferred(Ledger, VaultAcct, receiver, AssetsOf(ids))
      BY <1>5 DEF ClaimWithdraw
  <2>2. receiver \in Stakers \cup {VaultAcct}
      OBVIOUS
  <2>3. QED
      BY <2>1, <2>2, VaultStep
<1>6. ASSUME NEW id, CancelWithdraw(caller, id)
      PROVE  DistInv'
    BY <1>6, VaultStep DEF CancelWithdraw
<1>7. ASSUME NEW owner, NEW receiver, NEW s, TransferShares(caller, owner, receiver, s)
      PROVE  DistInv'
  <2>1. UNCHANGED <<distributorVars, assetVars>>
      BY <1>7 DEF TransferShares
  <2>2. QED
      BY <2>1, Untouched
<1>8. QED
    BY <1>1, <1>2, <1>3, <1>4, <1>5, <1>6, <1>7
       DEF Deposit, Mint, Redeem, Withdraw, RequestRedeem, RequestWithdraw

-----------------------------------------------------------------------------
(* Steps of the distributor and of the asset.                              *)

\* A funding adds to the schedule what the ledger receives, and the new rate is
\* rounded down.
LEMMA DistributeStep ==
    ASSUME DistInv, NEW funder \in Funders, NEW n \in Nat, NEW s, Distribute(funder, n, s)
    PROVE  DistInv'
<1> DEFINE b == assets[DistributorAcct]
           p == PendingYield(s)
           r == RemainingAfterPull(s)
           funded == Transferred(assets, funder, DistributorAcct, n)
<1>1. /\ b \in Nat /\ now \in Nat /\ n \in Nat /\ p \in Nat /\ p <= b
      /\ yieldDuration \in Nat \ {0} /\ rewardRate \in Nat /\ PRECISION \in Nat \ {0}
      /\ LastUpdateAfterPull(s) \in Nat /\ PeriodFinishAfterPull(s) \in Nat
    BY PendingType, PendingCovered, YieldDistributorAssumption DEF DistInv, DistributorTypeOK
<1>2. /\ IsLedger(assets') /\ assets'[DistributorAcct] = b + n - p
  <2>1. /\ funder \in Holders /\ DistributorAcct \in Holders /\ funder # DistributorAcct
      BY StakedAssetAssumption DEF Holders, Contracts
  <2>2. IsLedger(funded) /\ funded[DistributorAcct] = b + n
      BY <2>1, TransferredLedger DEF DistInv
  <2>3. assets' = Pulled(funded, s)
      BY DEF Distribute
  <2>4. IsLedger(Pulled(funded, s)) /\ Pulled(funded, s)[DistributorAcct] = funded[DistributorAcct] - p
      BY <2>2, PulledLedger
  <2> HIDE DEF b, p, funded
  <2>5. assets'[DistributorAcct] = (b + n) - p
      BY <2>2, <2>3, <2>4
  <2>6. IsLedger(assets')
      BY <2>3, <2>4
  <2>7. QED
      BY <1>1, <2>5, <2>6
<1>3. r \in Nat /\ r * PRECISION <= (b - p) * PRECISION
  <2> DEFINE last == LastUpdateAfterPull(s)
             finish == PeriodFinishAfterPull(s)
  <2>1. CASE last # 0 /\ last < finish
    <3>1. r = Drip(finish - last, rewardRate)
        BY <2>1 DEF RemainingAfterPull, Remaining
    <3>2. finish - last \in Nat
        BY <1>1, <2>1
    <3>3. r \in Nat /\ r * PRECISION <= (finish - last) * rewardRate
        BY <1>1, <3>1, <3>2, DripType
    <3>4. (b - p) * PRECISION >= (finish - last) * rewardRate
        BY <2>1, PendingCovered DEF Pays
    <3> HIDE DEF b, p, r, last, finish
    <3>5. QED
        BY <1>1, <3>2, <3>3, <3>4
  <2>2. CASE ~(last # 0 /\ last < finish)
    <3>1. r = 0
        BY <2>2 DEF RemainingAfterPull, Remaining
    <3> HIDE DEF r, b, p
    <3>2. QED
        BY <1>1, <3>1
  <2>3. QED
      BY <2>1, <2>2
<1>4. rewardRate' = MulDiv(r + n, PRECISION, yieldDuration)
    BY DEF Distribute, RateAfterDistribute, MulDiv
<1>5. rewardRate' \in Nat /\ rewardRate' * yieldDuration <= (r + n) * PRECISION
  <2> HIDE DEF r
  <2>1. r + n \in Nat
      BY <1>1, <1>3
  <2>2. QED
      BY <1>1, <1>4, <2>1, MulDivType, MulDivTimes
<1>6. /\ lastUpdateTime' = now /\ periodFinish' = now + yieldDuration
      /\ yieldDuration' = yieldDuration /\ now' = now
    BY DEF Distribute
<1>7. DistributorSolvent'
  <2>1. periodFinish' - lastUpdateTime' = yieldDuration
      BY <1>1, <1>6
  <2>2. assets'[DistributorAcct] * PRECISION >= yieldDuration * rewardRate'
    <3> HIDE DEF b, p, r
    <3>1. r <= b - p
        BY <1>1, <1>3
    <3>2. r + n <= b + n - p /\ r + n \in Nat /\ b + n - p \in Nat
        BY <1>1, <1>3, <3>1
    <3>3. (r + n) * PRECISION <= (b + n - p) * PRECISION
        BY <1>1, <3>2
    <3>4. yieldDuration * rewardRate' = rewardRate' * yieldDuration
        BY <1>1, <1>5
    <3>5. yieldDuration * rewardRate' <= (b + n - p) * PRECISION
      <4>1. /\ (r + n) * PRECISION \in Int /\ (b + n - p) * PRECISION \in Int
            /\ rewardRate' * yieldDuration \in Int
          BY <1>1, <1>5, <3>2
      <4>2. rewardRate' * yieldDuration <= (r + n) * PRECISION
          BY <1>5
      <4>3. QED
          BY <3>3, <3>4, <4>1, <4>2
    <3>6. assets'[DistributorAcct] * PRECISION = (b + n - p) * PRECISION
        BY <1>2
    <3>7. QED
        BY <1>1, <1>5, <3>2, <3>5, <3>6
  <2>3. QED
      BY <2>1, <2>2 DEF DistributorSolvent
<1>8. DistributorTypeOK'
    BY <1>1, <1>5, <1>6 DEF DistInv, DistributorTypeOK
<1>9. assets'[DistributorAcct] \in Nat
    BY <1>1, <1>2
<1>10. QED
    BY <1>1, <1>2, <1>6, <1>7, <1>8, <1>9 DEF DistInv, IsLedger

\* The schedule stands on at least the balance it stood on.
LEMMA FundsKept ==
    ASSUME DistInv, UNCHANGED <<distributorVars, now>>, IsLedger(assets'),
           assets'[DistributorAcct] \in Nat, assets'[DistributorAcct] >= assets[DistributorAcct]
    PROVE  DistInv'
<1>1. UNCHANGED <<yieldDuration, periodFinish, rewardRate, lastUpdateTime>>
    BY DEF distributorVars, scheduleVars
<1>2. DistributorSolvent'
  <2>1. SUFFICES ASSUME lastUpdateTime < periodFinish
                 PROVE  assets'[DistributorAcct] * PRECISION
                          >= (periodFinish - lastUpdateTime) * rewardRate
      BY <1>1 DEF DistributorSolvent
  <2>2. /\ assets[DistributorAcct] * PRECISION >= (periodFinish - lastUpdateTime) * rewardRate
        /\ assets[DistributorAcct] \in Nat
        /\ periodFinish - lastUpdateTime \in Int /\ rewardRate \in Nat
      BY <2>1 DEF DistInv, DistributorSolvent, DistributorTypeOK
  <2>3. assets'[DistributorAcct] * PRECISION >= assets[DistributorAcct] * PRECISION
      BY <2>2, YieldDistributorAssumption
  <2>4. QED
      BY <2>2, <2>3, YieldDistributorAssumption
<1>3. QED
    BY <1>1, <1>2 DEF DistInv, IsLedger, DistributorTypeOK

\* What an account sends takes nothing from the distributor.
LEMMA GiveStep ==
    ASSUME DistInv, NEW from \in Stakers \cup Funders, NEW to \in Holders, NEW n \in Nat,
           assets' = Transferred(assets, from, to, n), UNCHANGED <<now, distributorVars>>
    PROVE  DistInv'
<1>1. /\ from \in Holders /\ DistributorAcct \in Holders /\ from # DistributorAcct
    BY StakedAssetAssumption DEF Holders, Contracts
<1>2. /\ IsLedger(assets')
      /\ \/ assets'[DistributorAcct] = assets[DistributorAcct]
         \/ assets'[DistributorAcct] = assets[DistributorAcct] + n
  <2>1. CASE from = to
      BY <2>1 DEF Transferred, DistInv
  <2>2. CASE from # to
      BY <1>1, <2>2, TransferredLedger DEF DistInv
  <2>3. QED
      BY <2>1, <2>2
<1>3. assets'[DistributorAcct] \in Nat /\ assets'[DistributorAcct] >= assets[DistributorAcct]
    BY <1>2 DEF DistInv
<1>4. QED
    BY <1>2, <1>3, FundsKept

LEMMA AssetStep ==
    ASSUME DistInv, AssetNext, UNCHANGED distributorVars
    PROVE  DistInv'
<1>1. CASE Tick
    BY <1>1 DEF Tick, DistInv, IsLedger, DistributorTypeOK, DistributorSolvent,
                distributorVars, scheduleVars
<1>2. ASSUME NEW S, SetListed(S) \/ SetBlacklist(S)
      PROVE  DistInv'
  <2>1. UNCHANGED <<now, assets>>
      BY <1>2 DEF SetListed, SetBlacklist
  <2>2. QED
      BY <2>1 DEF DistInv, IsLedger, DistributorTypeOK, DistributorSolvent,
                  distributorVars, scheduleVars
<1>3. ASSUME NEW from \in Stakers \cup Funders, NEW to \in Holders, NEW n \in Gifts, Give(from, to, n)
      PROVE  DistInv'
    BY <1>3, GiveStep, StakedAssetAssumption DEF Give
<1>4. QED
    BY <1>1, <1>2, <1>3 DEF AssetNext

-----------------------------------------------------------------------------

LEMMA InitDist == Init => DistInv
<1>1. SUFFICES ASSUME Init PROVE DistInv
    OBVIOUS
<1>2. assets = Endowment /\ Endowment \in [Holders -> Nat] /\ DistributorAcct \in Holders
    BY <1>1, StakedAssetAssumption, ContractsHold DEF Init, AssetInit
<1>3. IsLedger(assets) /\ assets[DistributorAcct] \in Nat
    BY <1>2 DEF IsLedger
<1>4. DistributorTypeOK /\ DistributorSolvent /\ now \in Nat
    BY <1>1, YieldDistributorAssumption
       DEF Init, AssetInit, DistributorInit, DistributorTypeOK, DistributorSolvent
<1>5. QED
    BY <1>3, <1>4 DEF DistInv

LEMMA NextDist == DistInv /\ [Next]_vars => DistInv'
<1>1. SUFFICES ASSUME DistInv, [Next]_vars PROVE DistInv'
    OBVIOUS
<1> USE <1>1
<1>2. CASE StakerNext
    BY <1>2, StakerStep
<1>3. CASE OwnerNext
  <2>1. UNCHANGED <<distributorVars, assetVars>>
      BY <1>3 DEF OwnerNext, UpdateCooldownDuration, UpdateCooldownEnabled,
                  UpdateInstantWithdrawWhitelist, UpdateYieldDistributor, OwnerOnly
  <2>2. QED
      BY <2>1, Untouched
<1>4. CASE DistributorNext
  <2>1. ASSUME NEW duration \in YieldDurations, UpdateYieldDuration(duration)
        PROVE  DistInv'
    <3>1. duration \in Nat /\ duration >= MIN_YIELD_DURATION /\ yieldDuration' = duration
          /\ UNCHANGED <<periodFinish, rewardRate, lastUpdateTime, now, assets>>
        BY <2>1, YieldDistributorAssumption DEF UpdateYieldDuration, scheduleVars, assetVars
    <3>2. QED
        BY <3>1 DEF DistInv, IsLedger, DistributorTypeOK, DistributorSolvent
  <2>2. QED
      BY <1>4, <2>1, DistributeStep, YieldDistributorAssumption DEF DistributorNext
<1>5. CASE AssetNext /\ UNCHANGED <<distributorVars, vaultVars>>
    BY <1>5, AssetStep
<1>6. CASE UNCHANGED vars
    BY <1>6, Untouched DEF vars
<1>7. QED
    BY <1>2, <1>3, <1>4, <1>5, <1>6 DEF Next

\* The distributor holds, in every reachable state, what its schedule still promises
\* (YieldDistributor.sol: distribute, _pullYield and the sliding of an empty vault's
\* schedule), for any durations, amounts and precision, and so no pull of the vault
\* fails for want of assets.
THEOREM DistributorAlwaysSolvent == Spec => []DistributorSolvent
<1>1. DistInv => DistributorSolvent
    BY DEF DistInv
<1>2. QED
    BY <1>1, InitDist, NextDist, PTL DEF Spec

-----------------------------------------------------------------------------
(* The vault.  Its invariant ties shares to the share supply, open         *)
(* requests to totalAssetsInCooldown, and both to the ledger.              *)

SharesAccounted == totalShares = SumFunctionOnSet(shares, Stakers)

LiveBelow == \A id \in RequestIds : Live(id) => id < nextRequestId

Books ==
    /\ AssetTypeOK
    /\ VaultTypeOK
    /\ SharesAccounted
    /\ LiveBelow
    /\ CooldownAccounted
    /\ CooldownFunded

VaultInv == DistInv /\ Books

LEMMA VaultTyped ==
    ASSUME VaultInv
    PROVE  TypeOK
    BY DEF VaultInv, Books, DistInv, TypeOK

LEMMA PlacesApart ==
    /\ VaultAcct \in Holders /\ DistributorAcct \in Holders /\ VaultAcct # DistributorAcct
    /\ Stakers \subseteq Holders /\ Funders \subseteq Holders
    /\ VaultAcct \notin Stakers /\ DistributorAcct \notin Stakers
    /\ VaultAcct \notin Funders /\ DistributorAcct \notin Funders
    BY StakedAssetAssumption DEF Holders, Contracts

LEMMA TransferredType ==
    ASSUME NEW bal \in [Holders -> Nat], NEW from \in Holders, NEW to \in Holders, NEW n \in Nat,
           n <= bal[from]
    PROVE  /\ Transferred(bal, from, to, n) \in [Holders -> Nat]
           /\ \A x \in Holders \ {from, to} : Transferred(bal, from, to, n)[x] = bal[x]
           /\ from # to => /\ Transferred(bal, from, to, n)[from] = bal[from] - n
                           /\ Transferred(bal, from, to, n)[to] = bal[to] + n
<1>1. bal[from] - n \in Nat /\ bal[to] + n \in Nat
    OBVIOUS
<1>2. QED
    BY <1>1 DEF Transferred

\* The ledger after the vault's pull: what is accrued has moved to the vault.
LEMMA LedgerMoves ==
    ASSUME TypeOK, DistInv
    PROVE  /\ Accrued \in Nat
           /\ Ledger \in [Holders -> Nat]
           /\ Ledger[VaultAcct] = assets[VaultAcct] + Accrued
           /\ \A x \in Holders \ {VaultAcct, DistributorAcct} : Ledger[x] = assets[x]
<1>1. assets \in [Holders -> Nat]
    BY DEF TypeOK, AssetTypeOK
<1>2. CASE distributorSet
  <2> DEFINE p == PendingYield(totalShares)
  <2>1. p \in Nat /\ p <= assets[DistributorAcct]
      BY PendingType, PendingCovered
  <2>2. Accrued = p /\ Ledger = Transferred(assets, DistributorAcct, VaultAcct, p)
      BY <1>2 DEF Accrued, Ledger, Pulled
  <2> HIDE DEF p
  <2>3. QED
      BY <1>1, <2>1, <2>2, TransferredType, PlacesApart
<1>3. CASE ~distributorSet
    BY <1>1, <1>3, PlacesApart DEF Accrued, Ledger
<1>4. QED
    BY <1>2, <1>3

\* totalAssets, before the pull and after it, without its clamp.
LEMMA StakedIsValue ==
    ASSUME TypeOK, DistInv, CooldownFunded
    PROVE  /\ Value \in Nat
           /\ Value = assets[VaultAcct] + Accrued - totalAssetsInCooldown
           /\ StakedAssets = Value
           /\ Ledger[VaultAcct] = Value + totalAssetsInCooldown
<1>1. /\ assets[VaultAcct] \in Nat /\ totalAssetsInCooldown \in Nat /\ Accrued \in Nat
      /\ assets[VaultAcct] >= totalAssetsInCooldown
      /\ Ledger[VaultAcct] = assets[VaultAcct] + Accrued
    BY LedgerMoves, PlacesApart DEF TypeOK, AssetTypeOK, VaultTypeOK, CooldownFunded
<1>2. Value = Monus(assets[VaultAcct] + Accrued, totalAssetsInCooldown)
    BY DEF Value, TotalAssets
<1>3. StakedAssets = Monus(assets[VaultAcct] + Accrued + 0, totalAssetsInCooldown)
    BY <1>1 DEF StakedAssets, TotalAssets
<1>4. QED
    BY <1>1, <1>2, <1>3 DEF Monus

\* Shares and their supply move together.
LEMMA SharesBounds ==
    ASSUME TypeOK, SharesAccounted, NEW u \in Stakers
    PROVE  shares[u] \in Nat /\ shares[u] <= totalShares
<1>1. IsFiniteSet(Stakers) /\ \A x \in Stakers : shares[x] \in Nat
    BY StakingVaultAssumption DEF TypeOK, VaultTypeOK
<1>2. SumFunctionOnSet(shares, Stakers) = shares[u] + SumFunctionOnSet(shares, Stakers \ {u})
    BY <1>1, SumRemove
<1>3. SumFunctionOnSet(shares, Stakers \ {u}) \in Nat
    BY <1>1, SumNat
<1>4. QED
    BY <1>1, <1>2, <1>3 DEF SharesAccounted

LEMMA SharesMove ==
    ASSUME TypeOK, SharesAccounted, NEW u \in Stakers, NEW d \in Int, shares[u] + d \in Nat
    PROVE  /\ [shares EXCEPT ![u] = @ + d] \in [Stakers -> Nat]
           /\ SumFunctionOnSet([shares EXCEPT ![u] = @ + d], Stakers) = totalShares + d
           /\ totalShares + d \in Nat
<1> DEFINE after == [shares EXCEPT ![u] = @ + d]
<1>1. IsFiniteSet(Stakers) /\ shares \in [Stakers -> Nat] /\ totalShares \in Nat
    BY StakingVaultAssumption DEF TypeOK, VaultTypeOK
<1>2. /\ after \in [Stakers -> Nat] /\ after[u] = shares[u] + d
      /\ \A x \in Stakers \ {u} : shares[x] = after[x]
    BY <1>1
<1> HIDE DEF after
<1>3. SumFunctionOnSet(after, Stakers)
        = SumFunctionOnSet(shares, Stakers) - shares[u] + after[u]
  <2>1. \A x \in Stakers : shares[x] \in Int /\ after[x] \in Int
      BY <1>1, <1>2
  <2>2. QED
      BY <1>1, <1>2, <2>1, SumChange
<1>4. SumFunctionOnSet(after, Stakers) = totalShares + d
    BY <1>1, <1>2, <1>3 DEF SharesAccounted
<1>5. SumFunctionOnSet(after, Stakers) \in Nat
    BY <1>1, <1>2, SumNat
<1>6. QED
    BY <1>2, <1>4, <1>5 DEF after

LEMMA MintedShares ==
    ASSUME TypeOK, SharesAccounted, NEW caller, NEW to \in Stakers, NEW s \in Nat,
           MintShares(caller, to, s)
    PROVE  /\ shares' \in [Stakers -> Nat] /\ totalShares' \in Nat /\ SharesAccounted'
           /\ totalShares' = totalShares + s
<1> DEFINE after == [shares EXCEPT ![to] = @ + s]
<1>1. shares[to] + s \in Nat /\ s \in Int
    BY DEF TypeOK, VaultTypeOK
<1>2. /\ after \in [Stakers -> Nat]
      /\ SumFunctionOnSet(after, Stakers) = totalShares + s
      /\ totalShares + s \in Nat
    BY <1>1, SharesMove
<1>3. shares' = after /\ totalShares' = totalShares + s
    BY DEF MintShares
<1> HIDE DEF after
<1>4. QED
    BY <1>2, <1>3 DEF SharesAccounted

LEMMA BurntShares ==
    ASSUME TypeOK, SharesAccounted, NEW caller, NEW from \in Stakers, NEW s \in Nat,
           BurnShares(caller, from, s)
    PROVE  /\ shares' \in [Stakers -> Nat] /\ totalShares' \in Nat /\ SharesAccounted'
           /\ totalShares' = totalShares - s /\ s <= totalShares
<1> DEFINE after == [shares EXCEPT ![from] = @ + (-s)]
<1>1. /\ shares \in [Stakers -> Nat] /\ totalShares \in Nat
      /\ s <= shares[from] /\ shares[from] <= totalShares
    BY SharesBounds DEF TypeOK, VaultTypeOK, BurnShares
<1>2. shares[from] + (-s) \in Nat /\ -s \in Int /\ shares[from] - s = shares[from] + (-s)
    BY <1>1
<1>3. /\ after \in [Stakers -> Nat]
      /\ SumFunctionOnSet(after, Stakers) = totalShares + (-s)
      /\ totalShares + (-s) \in Nat
    BY <1>2, SharesMove
<1>4. shares' = after /\ totalShares' = totalShares - s
    BY <1>2 DEF BurnShares
<1>5. totalShares - s = totalShares + (-s)
    BY <1>1
<1> HIDE DEF after
<1>6. QED
    BY <1>1, <1>3, <1>4, <1>5 DEF SharesAccounted

LEMMA MovedShares ==
    ASSUME TypeOK, SharesAccounted, NEW caller, NEW from \in Stakers, NEW to \in Stakers,
           NEW s \in Nat, TransferShares(caller, from, to, s)
    PROVE  /\ shares' \in [Stakers -> Nat] /\ totalShares' = totalShares /\ SharesAccounted'
<1>1. /\ shares \in [Stakers -> Nat] /\ s <= shares[from] /\ totalShares' = totalShares
      /\ IsFiniteSet(Stakers)
    BY StakingVaultAssumption DEF TypeOK, VaultTypeOK, TransferShares
<1>2. CASE from = to
    BY <1>1, <1>2 DEF TransferShares, SharesAccounted
<1>3. CASE from # to
  <2> DEFINE mid == [shares EXCEPT ![from] = @ - s]
  <2>1. mid \in [Stakers -> Nat] /\ mid[from] = shares[from] - s /\ mid[to] = shares[to]
        /\ \A x \in Stakers \ {from} : shares[x] = mid[x]
      BY <1>1, <1>3
  <2>2. /\ shares' \in [Stakers -> Nat] /\ shares'[to] = shares[to] + s
        /\ \A x \in Stakers \ {to} : mid[x] = shares'[x]
      BY <1>1, <1>3 DEF TransferShares
  <2> HIDE DEF mid
  <2>3. SumFunctionOnSet(mid, Stakers)
          = SumFunctionOnSet(shares, Stakers) - shares[from] + mid[from]
    <3>1. \A x \in Stakers : shares[x] \in Int /\ mid[x] \in Int
        BY <1>1, <2>1
    <3>2. QED
        BY <1>1, <2>1, <3>1, SumChange
  <2>4. SumFunctionOnSet(shares', Stakers)
          = SumFunctionOnSet(mid, Stakers) - mid[to] + shares'[to]
    <3>1. \A x \in Stakers : mid[x] \in Int /\ shares'[x] \in Int
        BY <2>1, <2>2
    <3>2. QED
        BY <1>1, <2>2, <3>1, SumChange
  <2>5. SumFunctionOnSet(shares, Stakers) \in Nat
      BY <1>1, SumNat
  <2>6. shares[from] \in Nat /\ shares[to] \in Nat
      BY <1>1
  <2>7. SumFunctionOnSet(shares', Stakers) = SumFunctionOnSet(shares, Stakers)
      BY <2>1, <2>2, <2>3, <2>4, <2>5, <2>6
  <2>8. QED
      BY <1>1, <2>2, <2>7 DEF SharesAccounted
<1>4. QED
    BY <1>2, <1>3

-----------------------------------------------------------------------------
(* Open requests.                                                          *)

\* All that waits in cooldown, by the book of requests.
Open(book) == SumFunctionOnSet([id \in RequestIds |-> book[id].assets], RequestIds)

LEMMA BookType ==
    ASSUME NEW book \in [RequestIds -> CooldownRequests]
    PROVE  /\ IsFiniteSet(RequestIds)
           /\ \A id \in RequestIds : book[id].assets \in Nat
           /\ Open(book) \in Nat
<1> DEFINE f == [id \in RequestIds |-> book[id].assets]
<1>1. IsFiniteSet(RequestIds)
    BY StakingVaultAssumption
<1>2. \A id \in RequestIds : book[id].assets \in Nat
    BY DEF CooldownRequests
<1>3. \A id \in RequestIds : f[id] \in Nat
    BY <1>2
<1>4. Open(book) = SumFunctionOnSet(f, RequestIds)
    BY DEF Open
<1> HIDE DEF f
<1>5. QED
    BY <1>1, <1>2, <1>3, <1>4, SumNat

\* The assets of some requests are a part of all.
LEMMA PartOfBook ==
    ASSUME NEW book \in [RequestIds -> CooldownRequests], NEW ids \in SUBSET RequestIds
    PROVE  /\ SumFunction([id \in ids |-> book[id].assets]) \in Nat
           /\ Open([id \in RequestIds |-> IF id \in ids THEN NoRequest ELSE book[id]])
                = Open(book) - SumFunction([id \in ids |-> book[id].assets])
           /\ SumFunction([id \in ids |-> book[id].assets]) <= Open(book)
           /\ \A id \in ids : book[id].assets <= SumFunction([i \in ids |-> book[i].assets])
<1> DEFINE f == [id \in RequestIds |-> book[id].assets]
           part == [id \in ids |-> book[id].assets]
           left == [id \in RequestIds |-> IF id \in ids THEN NoRequest ELSE book[id]]
           g == [id \in RequestIds |-> left[id].assets]
           rest == RequestIds \ ids
<1>1. /\ IsFiniteSet(RequestIds) /\ IsFiniteSet(ids) /\ IsFiniteSet(rest)
      /\ ids \subseteq RequestIds
    BY BookType, FS_Subset
<1>2. /\ \A id \in RequestIds : f[id] \in Nat /\ g[id] \in Nat
      /\ \A id \in ids : part[id] = f[id] /\ g[id] = 0 /\ part[id] = book[id].assets
      /\ \A id \in rest : g[id] = f[id]
    BY BookType, <1>1 DEF NoRequest
<1>3. /\ Open(book) = SumFunctionOnSet(f, RequestIds)
      /\ Open(left) = SumFunctionOnSet(g, RequestIds)
      /\ SumFunction(part) = SumFunctionOnSet(part, ids)
    BY DEF Open, SumFunction
<1> HIDE DEF f, g, part, left
<1>4. SumFunctionOnSet(f, RequestIds) = SumFunctionOnSet(f, ids) + SumFunctionOnSet(f, rest)
    BY <1>1, <1>2, SumSplit
<1>5. SumFunctionOnSet(g, RequestIds) = SumFunctionOnSet(g, ids) + SumFunctionOnSet(g, rest)
    BY <1>1, <1>2, SumSplit
<1>6. SumFunctionOnSet(part, ids) = SumFunctionOnSet(f, ids)
  <2>1. \A id \in ids : part[id] \in Int /\ part[id] = f[id]
      BY <1>1, <1>2
  <2>2. QED
      BY <1>1, <2>1, SumSame
<1>7. SumFunctionOnSet(g, ids) = 0
    BY <1>1, <1>2, SumZero
<1>8. SumFunctionOnSet(f, rest) = SumFunctionOnSet(g, rest)
  <2>1. \A id \in rest : f[id] \in Int /\ f[id] = g[id]
      BY <1>1, <1>2
  <2>2. QED
      BY <1>1, <2>1, SumSame
<1>9. SumFunctionOnSet(f, ids) \in Nat /\ SumFunctionOnSet(f, rest) \in Nat
    BY <1>1, <1>2, SumNat
<1>10. ASSUME NEW id \in ids
       PROVE  part[id] <= SumFunctionOnSet(part, ids)
  <2>1. \A i \in ids : part[i] \in Nat
      BY <1>1, <1>2
  <2>2. IsFiniteSet(ids \ {id})
      BY <1>1, FS_Subset
  <2>3. SumFunctionOnSet(part, ids) = part[id] + SumFunctionOnSet(part, ids \ {id})
      BY <1>1, <2>1, SumRemove
  <2>4. SumFunctionOnSet(part, ids \ {id}) \in Nat
      BY <2>1, <2>2, SumNat
  <2>5. QED
      BY <2>1, <2>3, <2>4
<1>11. /\ SumFunction(part) \in Nat
       /\ Open(left) = Open(book) - SumFunction(part)
       /\ SumFunction(part) <= Open(book)
       /\ \A id \in ids : book[id].assets <= SumFunction(part)
    BY <1>2, <1>3, <1>4, <1>5, <1>6, <1>7, <1>8, <1>9, <1>10
<1>12. QED
    BY <1>11 DEF part, left

\* Requests that are not live carry nothing.
LEMMA LivePart ==
    ASSUME NEW book \in [RequestIds -> CooldownRequests]
    PROVE  SumFunction([id \in {i \in RequestIds : book[i].assets # 0} |-> book[id].assets])
                = Open(book)
<1> DEFINE live == {i \in RequestIds : book[i].assets # 0}
           f == [id \in RequestIds |-> book[id].assets]
           part == [id \in live |-> book[id].assets]
           rest == RequestIds \ live
<1>1. /\ IsFiniteSet(RequestIds) /\ IsFiniteSet(live) /\ IsFiniteSet(rest)
      /\ live \subseteq RequestIds
    BY BookType, FS_Subset
<1>2. /\ \A id \in RequestIds : f[id] \in Nat
      /\ \A id \in live : part[id] = f[id]
      /\ \A id \in rest : f[id] = 0
    BY BookType
<1>3. /\ Open(book) = SumFunctionOnSet(f, RequestIds)
      /\ SumFunction(part) = SumFunctionOnSet(part, live)
    BY DEF Open, SumFunction
<1> HIDE DEF f, part, live
<1>4. SumFunctionOnSet(f, RequestIds) = SumFunctionOnSet(f, live) + SumFunctionOnSet(f, rest)
    BY <1>1, <1>2, SumSplit
<1>5. SumFunctionOnSet(f, rest) = 0
    BY <1>1, <1>2, SumZero
<1>6. SumFunctionOnSet(part, live) = SumFunctionOnSet(f, live)
  <2>1. \A id \in live : part[id] \in Int /\ part[id] = f[id]
      BY <1>1, <1>2
  <2>2. QED
      BY <1>1, <2>1, SumSame
<1>7. SumFunctionOnSet(f, live) \in Nat
    BY <1>1, <1>2, SumNat
<1>8. SumFunction(part) = Open(book)
    BY <1>3, <1>4, <1>5, <1>6, <1>7
<1>9. QED
    BY <1>8 DEF part, live

LEMMA AccountedIs ==
    ASSUME cooldownRequests \in [RequestIds -> CooldownRequests],
           cooldownRequests' \in [RequestIds -> CooldownRequests]
    PROVE  /\ CooldownAccounted <=> totalAssetsInCooldown = Open(cooldownRequests)
           /\ CooldownAccounted' <=> totalAssetsInCooldown' = Open(cooldownRequests')
    BY LivePart DEF CooldownAccounted, AssetsOf, Live

\* A new request adds its assets to the book.
LEMMA BookGrows ==
    ASSUME NEW book \in [RequestIds -> CooldownRequests], NEW id \in RequestIds,
           book[id].assets = 0, NEW request \in CooldownRequests
    PROVE  /\ [book EXCEPT ![id] = request] \in [RequestIds -> CooldownRequests]
           /\ Open([book EXCEPT ![id] = request]) = Open(book) + request.assets
<1> DEFINE after == [book EXCEPT ![id] = request]
           f == [i \in RequestIds |-> book[i].assets]
           g == [i \in RequestIds |-> after[i].assets]
<1>1. after \in [RequestIds -> CooldownRequests]
    OBVIOUS
<1>2. /\ \A i \in RequestIds : f[i] \in Int /\ g[i] \in Int
      /\ \A i \in RequestIds \ {id} : f[i] = g[i]
      /\ f[id] = 0 /\ g[id] = request.assets
    BY BookType, <1>1 DEF CooldownRequests
<1>3. IsFiniteSet(RequestIds) /\ Open(book) \in Nat
    BY BookType
<1>4. Open(book) = SumFunctionOnSet(f, RequestIds) /\ Open(after) = SumFunctionOnSet(g, RequestIds)
    BY DEF Open
<1> HIDE DEF f, g, after
<1>5. SumFunctionOnSet(g, RequestIds) = SumFunctionOnSet(f, RequestIds) - f[id] + g[id]
    BY <1>2, <1>3, SumChange
<1>6. Open(after) = Open(book) + request.assets
    BY <1>2, <1>3, <1>4, <1>5
<1>7. QED
    BY <1>1, <1>6 DEF after

-----------------------------------------------------------------------------
(* The kinds of step of the vault, with the rate each trades at.           *)


TakeInStep ==
    \E caller \in Stakers, receiver \in Stakers, n \in Nat, s \in Nat :
        /\ s * (StakedAssets + 1) <= n * (totalShares + 1)
        /\ TakeIn(caller, receiver, n, s)

PayOutStep ==
    \E caller \in Stakers, receiver \in Stakers, owner \in Stakers, n \in Nat, s \in Nat :
        /\ n * (totalShares + 1) <= s * (StakedAssets + 1)
        /\ PayOut(caller, receiver, owner, n, s)

RequestStep ==
    \E caller \in Stakers, owner \in Stakers, n \in Nat, s \in Nat :
        /\ n * (totalShares + 1) <= s * (StakedAssets + 1)
        /\ CreateRequest(caller, owner, n, s)

ClaimStep ==
    \E caller \in Stakers, receiver \in Stakers, ids \in SUBSET RequestIds :
        ClaimWithdraw(caller, ids, receiver)

CancelStep == \E caller \in Stakers, id \in RequestIds : CancelWithdraw(caller, id)

ShareStep ==
    \E caller \in Stakers, owner \in Stakers, receiver \in Stakers, s \in Nat :
        TransferShares(caller, owner, receiver, s)

\* Each conversion rounds against whoever asks for it.
LEMMA Conversions ==
    ASSUME VaultInv, NEW n \in Nat
    PROVE  /\ StakedAssets \in Nat /\ totalShares \in Nat
           /\ SharesDown(n) \in Nat /\ SharesUp(n) \in Nat
           /\ AssetsDown(n) \in Nat /\ AssetsUp(n) \in Nat
           /\ SharesDown(n) * (StakedAssets + 1) <= n * (totalShares + 1)
           /\ n * (totalShares + 1) <= SharesUp(n) * (StakedAssets + 1)
           /\ AssetsDown(n) * (totalShares + 1) <= n * (StakedAssets + 1)
           /\ n * (StakedAssets + 1) <= AssetsUp(n) * (totalShares + 1)
<1> DEFINE v == StakedAssets + 1
           t == totalShares + 1
<1>1. StakedAssets \in Nat /\ totalShares \in Nat
    BY VaultTyped, StakedIsValue DEF VaultInv, Books, VaultTypeOK
<1>2. v \in Nat \ {0} /\ t \in Nat \ {0}
    BY <1>1
<1>3. /\ SharesDown(n) = MulDiv(n, t, v) /\ SharesUp(n) = MulDivUp(n, t, v)
      /\ AssetsDown(n) = MulDiv(n, v, t) /\ AssetsUp(n) = MulDivUp(n, v, t)
    BY DEF SharesDown, SharesUp, AssetsDown, AssetsUp
<1> HIDE DEF v, t
<1>4. /\ MulDiv(n, t, v) \in Nat /\ MulDivUp(n, t, v) \in Nat
      /\ MulDiv(n, v, t) \in Nat /\ MulDivUp(n, v, t) \in Nat
    BY <1>2, MulDivType
<1>5. MulDiv(n, t, v) * v <= n * t /\ MulDiv(n, v, t) * t <= n * v
    BY <1>2, MulDivTimes
<1>6. MulDivUp(n, t, v) * v >= n * t /\ MulDivUp(n, v, t) * t >= n * v
    BY <1>2, MulDivUpTimes
<1>7. /\ n * t \in Nat /\ n * v \in Nat
      /\ MulDivUp(n, t, v) * v \in Nat /\ MulDivUp(n, v, t) * t \in Nat
    BY <1>2, <1>4
<1>8. n * t <= MulDivUp(n, t, v) * v /\ n * v <= MulDivUp(n, v, t) * t
    BY <1>6, <1>7
<1>9. /\ SharesDown(n) * v <= n * t /\ n * t <= SharesUp(n) * v
      /\ AssetsDown(n) * t <= n * v /\ n * v <= AssetsUp(n) * t
    BY <1>3, <1>5, <1>8
<1>10. QED
    BY <1>1, <1>3, <1>4, <1>9 DEF v, t

LEMMA StakerSteps ==
    ASSUME VaultInv, StakerNext
    PROVE  TakeInStep \/ PayOutStep \/ RequestStep \/ ClaimStep \/ CancelStep \/ ShareStep
<1> USE StakingVaultAssumption
<1>1. PICK caller \in Stakers :
        \/ \E receiver \in Receivers, n \in AssetAmounts : Deposit(caller, receiver, n)
        \/ \E receiver \in Receivers, s \in ShareAmounts : Mint(caller, receiver, s)
        \/ \E receiver \in Receivers, owner \in Stakers :
            \/ \E s \in ShareAmounts :
                \/ Redeem(caller, receiver, owner, s)
                \/ TransferShares(caller, owner, receiver, s)
            \/ \E n \in AssetAmounts : Withdraw(caller, receiver, owner, n)
        \/ \E owner \in Stakers :
            \/ \E s \in ShareAmounts : RequestRedeem(caller, owner, s)
            \/ \E n \in AssetAmounts : RequestWithdraw(caller, owner, n)
        \/ \E ids \in SUBSET RequestIds, receiver \in Receivers : ClaimWithdraw(caller, ids, receiver)
        \/ \E id \in RequestIds : CancelWithdraw(caller, id)
    BY DEF StakerNext
<1>2. ASSUME NEW receiver \in Stakers, NEW n \in Nat, Deposit(caller, receiver, n)
      PROVE  TakeInStep
  <2>1. SharesDown(n) \in Nat /\ SharesDown(n) * (StakedAssets + 1) <= n * (totalShares + 1)
      BY Conversions
  <2>2. TakeIn(caller, receiver, n, SharesDown(n))
      BY <1>2 DEF Deposit
  <2>3. QED
      BY <2>1, <2>2 DEF TakeInStep
<1>3. ASSUME NEW receiver \in Stakers, NEW s \in Nat, Mint(caller, receiver, s)
      PROVE  TakeInStep
  <2>1. AssetsUp(s) \in Nat /\ s * (StakedAssets + 1) <= AssetsUp(s) * (totalShares + 1)
      BY Conversions
  <2>2. TakeIn(caller, receiver, AssetsUp(s), s)
      BY <1>3 DEF Mint
  <2>3. QED
      BY <2>1, <2>2 DEF TakeInStep
<1>4. ASSUME NEW receiver \in Stakers, NEW owner \in Stakers, NEW s \in Nat,
             Redeem(caller, receiver, owner, s)
      PROVE  PayOutStep
  <2>1. AssetsDown(s) \in Nat /\ AssetsDown(s) * (totalShares + 1) <= s * (StakedAssets + 1)
      BY Conversions
  <2>2. PayOut(caller, receiver, owner, AssetsDown(s), s)
      BY <1>4 DEF Redeem
  <2>3. QED
      BY <2>1, <2>2 DEF PayOutStep
<1>5. ASSUME NEW receiver \in Stakers, NEW owner \in Stakers, NEW n \in Nat,
             Withdraw(caller, receiver, owner, n)
      PROVE  PayOutStep
  <2>1. SharesUp(n) \in Nat /\ n * (totalShares + 1) <= SharesUp(n) * (StakedAssets + 1)
      BY Conversions
  <2>2. PayOut(caller, receiver, owner, n, SharesUp(n))
      BY <1>5 DEF Withdraw, PreviewWithdraw
  <2>3. QED
      BY <2>1, <2>2 DEF PayOutStep
<1>6. ASSUME NEW owner \in Stakers, NEW s \in Nat, RequestRedeem(caller, owner, s)
      PROVE  RequestStep
  <2>1. AssetsDown(s) \in Nat /\ AssetsDown(s) * (totalShares + 1) <= s * (StakedAssets + 1)
      BY Conversions
  <2>2. CreateRequest(caller, owner, AssetsDown(s), s)
      BY <1>6 DEF RequestRedeem
  <2>3. QED
      BY <2>1, <2>2 DEF RequestStep
<1>7. ASSUME NEW owner \in Stakers, NEW n \in Nat, RequestWithdraw(caller, owner, n)
      PROVE  RequestStep
  <2>1. SharesUp(n) \in Nat /\ n * (totalShares + 1) <= SharesUp(n) * (StakedAssets + 1)
      BY Conversions
  <2>2. CreateRequest(caller, owner, n, SharesUp(n))
      BY <1>7 DEF RequestWithdraw, PreviewWithdraw
  <2>3. QED
      BY <2>1, <2>2 DEF RequestStep
<1>8. QED
    BY <1>1, <1>2, <1>3, <1>4, <1>5, <1>6, <1>7 DEF ClaimStep, CancelStep, ShareStep

\* Fewer shares than there are are worth no more than all that is staked.
LEMMA ExitCovered ==
    ASSUME NEW n \in Nat, NEW s \in Nat, NEW t \in Nat, NEW v \in Nat,
           s <= t, n * (t + 1) <= s * (v + 1)
    PROVE  n <= v
<1>1. SUFFICES ASSUME n >= v + 1 PROVE FALSE
    OBVIOUS
<1>2. (v + 1) * (t + 1) <= n * (t + 1)
    BY <1>1
<1>3. s * (v + 1) <= t * (v + 1)
    OBVIOUS
<1>4. (v + 1) * (t + 1) = t * (v + 1) + v + 1 /\ t * (v + 1) \in Nat /\ s * (v + 1) \in Nat
      /\ n * (t + 1) \in Nat
    OBVIOUS
<1>5. QED
    BY <1>2, <1>3, <1>4

-----------------------------------------------------------------------------
(* The books balance after every step.                                     *)

\* What the proofs below read off the invariant.
LEMMA BookFacts ==
    ASSUME VaultInv
    PROVE  /\ Ledger \in [Holders -> Nat] /\ assets \in [Holders -> Nat]
           /\ Ledger[VaultAcct] = StakedAssets + totalAssetsInCooldown
           /\ Ledger[VaultAcct] >= assets[VaultAcct]
           /\ \A u \in Stakers : Ledger[u] = assets[u]
           /\ StakedAssets \in Nat /\ totalAssetsInCooldown \in Nat /\ totalShares \in Nat
           /\ now \in Nat /\ nextRequestId \in Nat
           /\ cooldownRequests \in [RequestIds -> CooldownRequests]
           /\ activeRequestIds \in [Stakers -> SUBSET RequestIds]
           /\ totalAssetsInCooldown = Open(cooldownRequests)
<1>1. TypeOK /\ DistInv /\ CooldownFunded
    BY VaultTyped DEF VaultInv, Books
<1>2. assets[VaultAcct] \in Nat /\ Accrued \in Nat
    BY <1>1, LedgerMoves, PlacesApart DEF TypeOK, AssetTypeOK
<1>3. Ledger[VaultAcct] >= assets[VaultAcct]
    BY <1>1, <1>2, LedgerMoves
<1>4. cooldownRequests \in [RequestIds -> CooldownRequests]
    BY DEF VaultInv, Books, VaultTypeOK
<1>5. totalAssetsInCooldown = Open(cooldownRequests)
    BY <1>4, LivePart DEF VaultInv, Books, CooldownAccounted, AssetsOf, Live
<1>6. QED
    BY <1>1, <1>3, <1>4, <1>5, LedgerMoves, StakedIsValue, PlacesApart
       DEF VaultInv, Books, VaultTypeOK, AssetTypeOK

\* The part of the books that only requests change.
LEMMA RequestsStay ==
    ASSUME VaultInv, UNCHANGED requestVars
    PROVE  LiveBelow' /\ CooldownAccounted'
    BY DEF VaultInv, Books, requestVars, LiveBelow, Live, CooldownAccounted, AssetsOf

\* Assets that change hands after the pull.
LEMMA LedgerPays ==
    ASSUME VaultInv, NEW from \in Holders, NEW to \in Holders, from # to, NEW n \in Nat,
           n <= Ledger[from]
    PROVE  /\ Transferred(Ledger, from, to, n) \in [Holders -> Nat]
           /\ Transferred(Ledger, from, to, n)[from] = Ledger[from] - n
           /\ Transferred(Ledger, from, to, n)[to] = Ledger[to] + n
           /\ \A x \in Holders \ {from, to} : Transferred(Ledger, from, to, n)[x] = Ledger[x]
<1> DEFINE bal == Ledger
<1>1. bal \in [Holders -> Nat] /\ n <= bal[from]
    BY BookFacts
<1> HIDE DEF bal
<1>2. /\ Transferred(bal, from, to, n) \in [Holders -> Nat]
      /\ \A x \in Holders \ {from, to} : Transferred(bal, from, to, n)[x] = bal[x]
      /\ from # to => /\ Transferred(bal, from, to, n)[from] = bal[from] - n
                      /\ Transferred(bal, from, to, n)[to] = bal[to] + n
    BY <1>1, TransferredType
<1>3. QED
    BY <1>2 DEF bal

LEMMA TakeInBooks ==
    ASSUME VaultInv, TakeInStep
    PROVE  Books'
<1>1. PICK caller \in Stakers, receiver \in Stakers, n \in Nat, s \in Nat :
          TakeIn(caller, receiver, n, s)
    BY DEF TakeInStep
<1>2. /\ n <= Ledger[caller] /\ assets' = Transferred(Ledger, caller, VaultAcct, n)
      /\ MintShares(caller, receiver, s)
      /\ UNCHANGED <<requestVars, ownerVars, now, listVars>>
    BY <1>1 DEF TakeIn, Transferable
<1>3. /\ assets' \in [Holders -> Nat] /\ assets'[VaultAcct] = Ledger[VaultAcct] + n
  <2>1. caller \in Holders /\ VaultAcct \in Holders /\ caller # VaultAcct
      BY PlacesApart
  <2>2. /\ Transferred(Ledger, caller, VaultAcct, n) \in [Holders -> Nat]
        /\ Transferred(Ledger, caller, VaultAcct, n)[VaultAcct] = Ledger[VaultAcct] + n
      BY <1>2, <2>1, LedgerPays
  <2>3. QED
      BY <1>2, <2>2
<1>4. shares' \in [Stakers -> Nat] /\ totalShares' \in Nat /\ SharesAccounted'
    BY <1>2, MintedShares, VaultTyped DEF VaultInv, Books
<1>5. AssetTypeOK'
    BY <1>2, <1>3 DEF VaultInv, Books, AssetTypeOK, listVars
<1>6. VaultTypeOK'
    BY <1>2, <1>4 DEF VaultInv, Books, VaultTypeOK, requestVars, ownerVars
<1>7. CooldownFunded'
    BY <1>2, <1>3, BookFacts DEF CooldownFunded, requestVars
<1>8. QED
    BY <1>2, <1>4, <1>5, <1>6, <1>7, RequestsStay DEF Books

LEMMA PayOutBooks ==
    ASSUME VaultInv, PayOutStep
    PROVE  Books'
<1>1. PICK caller \in Stakers, receiver \in Stakers, owner \in Stakers, n \in Nat, s \in Nat :
          /\ n * (totalShares + 1) <= s * (StakedAssets + 1)
          /\ PayOut(caller, receiver, owner, n, s)
    BY DEF PayOutStep
<1>2. /\ n <= Ledger[VaultAcct] /\ assets' = Transferred(Ledger, VaultAcct, receiver, n)
      /\ BurnShares(caller, owner, s)
      /\ UNCHANGED <<requestVars, ownerVars, now, listVars>>
    BY <1>1 DEF PayOut, Transferable
<1>3. /\ assets' \in [Holders -> Nat] /\ assets'[VaultAcct] = Ledger[VaultAcct] - n
  <2>1. receiver \in Holders /\ VaultAcct \in Holders /\ VaultAcct # receiver
      BY PlacesApart
  <2>2. /\ Transferred(Ledger, VaultAcct, receiver, n) \in [Holders -> Nat]
        /\ Transferred(Ledger, VaultAcct, receiver, n)[VaultAcct] = Ledger[VaultAcct] - n
      BY <1>2, <2>1, LedgerPays
  <2>3. QED
      BY <1>2, <2>2
<1>4. shares' \in [Stakers -> Nat] /\ totalShares' \in Nat /\ SharesAccounted' /\ s <= totalShares
    BY <1>2, BurntShares, VaultTyped DEF VaultInv, Books
<1>5. n <= StakedAssets
    BY <1>1, <1>4, BookFacts, ExitCovered
<1>6. AssetTypeOK'
    BY <1>2, <1>3 DEF VaultInv, Books, AssetTypeOK, listVars
<1>7. VaultTypeOK'
    BY <1>2, <1>4 DEF VaultInv, Books, VaultTypeOK, requestVars, ownerVars
<1>8. CooldownFunded'
    BY <1>2, <1>3, <1>5, BookFacts DEF CooldownFunded, requestVars
<1>9. QED
    BY <1>2, <1>4, <1>6, <1>7, <1>8, RequestsStay DEF Books

LEMMA RequestBooks ==
    ASSUME VaultInv, RequestStep
    PROVE  Books'
<1>1. PICK caller \in Stakers, owner \in Stakers, n \in Nat, s \in Nat :
          /\ n * (totalShares + 1) <= s * (StakedAssets + 1)
          /\ CreateRequest(caller, owner, n, s)
    BY DEF RequestStep
<1> DEFINE id == nextRequestId
           request == [owner |-> owner, assets |-> n, claimableAt |-> now + cooldownDuration]
<1>2. /\ n # 0 /\ id \in RequestIds /\ totalAssetsInCooldown' = totalAssetsInCooldown + n
      /\ BurnShares(caller, owner, s)
      /\ cooldownRequests' = [cooldownRequests EXCEPT ![id] = request]
      /\ activeRequestIds' = [activeRequestIds EXCEPT ![owner] = @ \cup {id}]
      /\ nextRequestId' = id + 1
      /\ assets' = Ledger
      /\ UNCHANGED <<ownerVars, now, listVars>>
    BY <1>1 DEF CreateRequest
<1>3. shares' \in [Stakers -> Nat] /\ totalShares' \in Nat /\ SharesAccounted' /\ s <= totalShares
    BY <1>2, BurntShares, VaultTyped DEF VaultInv, Books
<1>4. n <= StakedAssets
    BY <1>1, <1>3, BookFacts, ExitCovered
<1>5. request \in CooldownRequests /\ request.assets = n
  <2>1. now + cooldownDuration \in Nat
      BY BookFacts, StakingVaultAssumption DEF VaultInv, Books, VaultTypeOK
  <2>2. QED
      BY <2>1 DEF CooldownRequests
<1>6. cooldownRequests[id].assets = 0
    BY <1>2, BookFacts DEF VaultInv, Books, LiveBelow, Live
<1>7. /\ cooldownRequests' \in [RequestIds -> CooldownRequests]
      /\ Open(cooldownRequests') = Open(cooldownRequests) + n
  <2> HIDE DEF request
  <2>1. QED
      BY <1>2, <1>5, <1>6, BookFacts, BookGrows
<1>8. CooldownAccounted'
    BY <1>2, <1>7, BookFacts, AccountedIs
<1>9. LiveBelow'
  <2>1. SUFFICES ASSUME NEW i \in RequestIds, cooldownRequests'[i].assets # 0
                 PROVE  i < id + 1
      BY <1>2 DEF LiveBelow, Live
  <2>2. i \in Nat /\ id \in Nat
      BY <1>2, StakingVaultAssumption
  <2>3. CASE i = id
      BY <2>2, <2>3
  <2>4. CASE i # id
    <3>1. cooldownRequests'[i] = cooldownRequests[i]
        BY <1>2, <2>4, BookFacts
    <3>2. cooldownRequests[i].assets # 0
        BY <2>1, <3>1
    <3>3. i < id
        BY <3>2 DEF VaultInv, Books, LiveBelow, Live
    <3>4. QED
        BY <2>2, <3>3
  <2>5. QED
      BY <2>3, <2>4
<1>10. AssetTypeOK'
    BY <1>2, BookFacts DEF VaultInv, Books, AssetTypeOK, listVars
<1>11. VaultTypeOK'
  <2>1. /\ activeRequestIds' \in [Stakers -> SUBSET RequestIds] /\ nextRequestId' \in Nat
        /\ totalAssetsInCooldown' \in Nat
      BY <1>2, BookFacts
  <2>2. QED
      BY <1>2, <1>3, <1>7, <2>1 DEF VaultInv, Books, VaultTypeOK, ownerVars
<1>12. CooldownFunded'
    BY <1>2, <1>4, BookFacts DEF CooldownFunded
<1>13. QED
    BY <1>3, <1>8, <1>9, <1>10, <1>11, <1>12 DEF Books

\* Taking requests off the books.
LEMMA SettleBooks ==
    ASSUME VaultInv, NEW caller \in Stakers, NEW ids \in SUBSET RequestIds, Settle(caller, ids)
    PROVE  /\ AssetsOf(ids) \in Nat /\ AssetsOf(ids) <= totalAssetsInCooldown
           /\ \A id \in ids : cooldownRequests[id].assets <= AssetsOf(ids)
           /\ totalAssetsInCooldown' = totalAssetsInCooldown - AssetsOf(ids)
           /\ totalAssetsInCooldown' \in Nat
           /\ cooldownRequests' \in [RequestIds -> CooldownRequests]
           /\ activeRequestIds' \in [Stakers -> SUBSET RequestIds]
           /\ UNCHANGED nextRequestId
           /\ LiveBelow' /\ CooldownAccounted'
<1> DEFINE left == [id \in RequestIds |-> IF id \in ids THEN NoRequest ELSE cooldownRequests[id]]
<1>1. /\ AssetsOf(ids) \in Nat
      /\ Open(left) = Open(cooldownRequests) - AssetsOf(ids)
      /\ AssetsOf(ids) <= Open(cooldownRequests)
      /\ \A id \in ids : cooldownRequests[id].assets <= AssetsOf(ids)
    BY BookFacts, PartOfBook DEF AssetsOf
<1>2. left \in [RequestIds -> CooldownRequests]
    BY BookFacts DEF NoRequest, CooldownRequests
<1>3. /\ cooldownRequests' = left
      /\ totalAssetsInCooldown' = totalAssetsInCooldown - AssetsOf(ids)
      /\ activeRequestIds' = [activeRequestIds EXCEPT ![caller] = @ \ ids]
      /\ UNCHANGED nextRequestId
    BY DEF Settle
<1>4. LiveBelow'
    BY <1>3 DEF VaultInv, Books, LiveBelow, Live, NoRequest
<1> HIDE DEF left
<1>5. CooldownAccounted'
    BY <1>1, <1>2, <1>3, BookFacts, AccountedIs
<1>6. activeRequestIds' \in [Stakers -> SUBSET RequestIds]
    BY <1>3, BookFacts
<1>7. QED
    BY <1>1, <1>2, <1>3, <1>4, <1>5, <1>6, BookFacts

LEMMA ClaimBooks ==
    ASSUME VaultInv, ClaimStep
    PROVE  Books'
<1>1. PICK caller \in Stakers, receiver \in Stakers, ids \in SUBSET RequestIds :
          ClaimWithdraw(caller, ids, receiver)
    BY DEF ClaimStep
<1> DEFINE n == AssetsOf(ids)
<1>2. /\ Settle(caller, ids)
      /\ n <= Ledger[VaultAcct] /\ assets' = Transferred(Ledger, VaultAcct, receiver, n)
      /\ UNCHANGED <<shareVars, ownerVars, now, listVars>>
    BY <1>1 DEF ClaimWithdraw, Transferable
<1>3. /\ n \in Nat /\ n <= totalAssetsInCooldown
      /\ totalAssetsInCooldown' = totalAssetsInCooldown - n /\ totalAssetsInCooldown' \in Nat
      /\ cooldownRequests' \in [RequestIds -> CooldownRequests]
      /\ activeRequestIds' \in [Stakers -> SUBSET RequestIds]
      /\ UNCHANGED nextRequestId
      /\ LiveBelow' /\ CooldownAccounted'
    BY <1>2, SettleBooks
<1> HIDE DEF n
<1>4. /\ assets' \in [Holders -> Nat] /\ assets'[VaultAcct] = Ledger[VaultAcct] - n
  <2>1. receiver \in Holders /\ VaultAcct \in Holders /\ VaultAcct # receiver
      BY PlacesApart
  <2>2. /\ Transferred(Ledger, VaultAcct, receiver, n) \in [Holders -> Nat]
        /\ Transferred(Ledger, VaultAcct, receiver, n)[VaultAcct] = Ledger[VaultAcct] - n
      BY <1>3, <1>2, <2>1, LedgerPays
  <2>3. QED
      BY <1>2, <2>2
<1>5. AssetTypeOK'
    BY <1>2, <1>4 DEF VaultInv, Books, AssetTypeOK, listVars
<1>6. VaultTypeOK'
    BY <1>2, <1>3 DEF VaultInv, Books, VaultTypeOK, shareVars, ownerVars
<1>7. CooldownFunded'
    BY <1>3, <1>4, BookFacts DEF CooldownFunded
<1>8. SharesAccounted'
    BY <1>2 DEF VaultInv, Books, SharesAccounted, shareVars
<1>9. QED
    BY <1>3, <1>5, <1>6, <1>7, <1>8 DEF Books

LEMMA CancelBooks ==
    ASSUME VaultInv, CancelStep
    PROVE  Books'
<1>1. PICK caller \in Stakers, id \in RequestIds : CancelWithdraw(caller, id)
    BY DEF CancelStep
<1> DEFINE s == SharesDown(cooldownRequests[id].assets)
<1>2. /\ MintShares(caller, caller, s) /\ Settle(caller, {id}) /\ assets' = Ledger
      /\ UNCHANGED <<ownerVars, now, listVars>>
    BY <1>1 DEF CancelWithdraw
<1>3. s \in Nat
    BY BookFacts, BookType, Conversions
<1>4. /\ AssetsOf({id}) \in Nat /\ AssetsOf({id}) <= totalAssetsInCooldown
      /\ totalAssetsInCooldown' = totalAssetsInCooldown - AssetsOf({id})
      /\ totalAssetsInCooldown' \in Nat
      /\ cooldownRequests' \in [RequestIds -> CooldownRequests]
      /\ activeRequestIds' \in [Stakers -> SUBSET RequestIds]
      /\ UNCHANGED nextRequestId
      /\ LiveBelow' /\ CooldownAccounted'
    BY <1>2, SettleBooks
<1> HIDE DEF s
<1>5. shares' \in [Stakers -> Nat] /\ totalShares' \in Nat /\ SharesAccounted'
    BY <1>2, <1>3, MintedShares, VaultTyped DEF VaultInv, Books
<1>6. AssetTypeOK'
    BY <1>2, BookFacts DEF VaultInv, Books, AssetTypeOK, listVars
<1>7. VaultTypeOK'
    BY <1>2, <1>4, <1>5 DEF VaultInv, Books, VaultTypeOK, ownerVars
<1>8. CooldownFunded'
    BY <1>2, <1>4, BookFacts DEF CooldownFunded
<1>9. QED
    BY <1>4, <1>5, <1>6, <1>7, <1>8 DEF Books

LEMMA ShareBooks ==
    ASSUME VaultInv, ShareStep
    PROVE  Books'
<1>1. PICK caller \in Stakers, owner \in Stakers, receiver \in Stakers, s \in Nat :
          TransferShares(caller, owner, receiver, s)
    BY DEF ShareStep
<1>2. shares' \in [Stakers -> Nat] /\ totalShares' = totalShares /\ SharesAccounted'
    BY <1>1, MovedShares, VaultTyped DEF VaultInv, Books
<1>3. UNCHANGED <<requestVars, ownerVars, assetVars>>
    BY <1>1 DEF TransferShares
<1>4. AssetTypeOK' /\ VaultTypeOK' /\ CooldownFunded'
    BY <1>2, <1>3 DEF VaultInv, Books, AssetTypeOK, VaultTypeOK, CooldownFunded, requestVars,
                      ownerVars, assetVars, listVars
<1>5. QED
    BY <1>2, <1>3, <1>4, RequestsStay DEF Books


\* A new schedule: the funder's assets reach the distributor, what was accrued by
\* then reaches the vault.
LEMMA DistributeMoves ==
    ASSUME VaultInv, NEW funder \in Funders, NEW n \in Nat, Distribute(funder, n, totalShares)
    PROVE  /\ assets' \in [Holders -> Nat]
           /\ PendingYield(totalShares) \in Nat
           /\ assets'[VaultAcct] = assets[VaultAcct] + PendingYield(totalShares)
<1> DEFINE p == PendingYield(totalShares)
           funded == Transferred(assets, funder, DistributorAcct, n)
<1>1. /\ funder \in Holders /\ DistributorAcct \in Holders /\ VaultAcct \in Holders
      /\ funder # DistributorAcct /\ funder # VaultAcct /\ VaultAcct # DistributorAcct
    BY PlacesApart
<1>2. p \in Nat /\ p <= assets[DistributorAcct]
    BY PendingType, PendingCovered DEF VaultInv
<1>3. assets \in [Holders -> Nat] /\ n <= assets[funder]
    BY BookFacts DEF Distribute, Transferable
<1>4. /\ funded \in [Holders -> Nat] /\ funded[VaultAcct] = assets[VaultAcct]
      /\ funded[DistributorAcct] = assets[DistributorAcct] + n
    BY <1>1, <1>3, TransferredType
<1>5. assets' = Transferred(funded, DistributorAcct, VaultAcct, p)
    BY DEF Distribute, Pulled
<1> HIDE DEF p, funded
<1>6. p <= funded[DistributorAcct]
    BY <1>1, <1>2, <1>3, <1>4
<1>7. /\ Transferred(funded, DistributorAcct, VaultAcct, p) \in [Holders -> Nat]
      /\ Transferred(funded, DistributorAcct, VaultAcct, p)[VaultAcct] = funded[VaultAcct] + p
    BY <1>1, <1>2, <1>4, <1>6, TransferredType
<1>8. QED
    BY <1>2, <1>4, <1>5, <1>7 DEF p

\* What an account sends takes nothing from the vault either.
LEMMA GiveMoves ==
    ASSUME VaultInv, NEW from \in Stakers \cup Funders, NEW to \in Holders, NEW n \in Nat,
           n <= assets[from]
    PROVE  /\ Transferred(assets, from, to, n) \in [Holders -> Nat]
           /\ Transferred(assets, from, to, n)[VaultAcct] >= assets[VaultAcct]
<1> DEFINE after == Transferred(assets, from, to, n)
<1>1. from \in Holders /\ from # VaultAcct /\ VaultAcct \in Holders /\ assets \in [Holders -> Nat]
    BY BookFacts, PlacesApart
<1>2. CASE from = to
    BY <1>1, <1>2 DEF Transferred
<1>3. CASE from # to
  <2>1. /\ after \in [Holders -> Nat] /\ after[to] = assets[to] + n
        /\ \A x \in Holders \ {from, to} : after[x] = assets[x]
      BY <1>1, <1>3, TransferredType
  <2> HIDE DEF after
  <2>2. after[VaultAcct] >= assets[VaultAcct]
      BY <1>1, <2>1
  <2>3. QED
      BY <2>1, <2>2 DEF after
<1>4. QED
    BY <1>2, <1>3

\* Assets that reach the vault without its doing are never taken from it.
LEMMA AssetMoves ==
    ASSUME VaultInv, AssetNext
    PROVE  /\ assets' \in [Holders -> Nat]
           /\ assets'[VaultAcct] >= assets[VaultAcct]
           /\ AssetTypeOK'
<1>1. /\ assets \in [Holders -> Nat] /\ assets[VaultAcct] \in Nat
      /\ now \in Nat \ {0} /\ listed \in SUBSET Holders /\ blacklist \in SUBSET Holders
    BY PlacesApart DEF VaultInv, Books, AssetTypeOK
<1>2. CASE Tick
    BY <1>1, <1>2 DEF Tick, AssetTypeOK, listVars
<1>3. CASE \E S \in SUBSET Listable : SetListed(S)
    BY <1>1, <1>3, StakedAssetAssumption DEF SetListed, AssetTypeOK
<1>4. CASE \E S \in SUBSET Blacklistable : SetBlacklist(S)
    BY <1>1, <1>4, StakedAssetAssumption DEF SetBlacklist, AssetTypeOK
<1>5. ASSUME NEW from \in Stakers \cup Funders, NEW to \in Holders, NEW n \in Gifts, Give(from, to, n)
      PROVE  /\ assets' \in [Holders -> Nat]
             /\ assets'[VaultAcct] >= assets[VaultAcct]
             /\ AssetTypeOK'
  <2>1. /\ n \in Nat /\ n <= assets[from] /\ assets' = Transferred(assets, from, to, n)
        /\ UNCHANGED <<now, listed, blacklist>>
      BY <1>5, StakedAssetAssumption DEF Give, Transferable, listVars
  <2>2. /\ Transferred(assets, from, to, n) \in [Holders -> Nat]
        /\ Transferred(assets, from, to, n)[VaultAcct] >= assets[VaultAcct]
      BY <2>1, GiveMoves
  <2>3. assets' \in [Holders -> Nat] /\ assets'[VaultAcct] >= assets[VaultAcct]
      BY <2>1, <2>2
  <2>4. QED
      BY <1>1, <2>1, <2>3 DEF AssetTypeOK
<1>6. QED
    BY <1>2, <1>3, <1>4, <1>5 DEF AssetNext

\* The vault's own books rest on its balance only from below.
LEMMA BooksStay ==
    ASSUME VaultInv, UNCHANGED <<shareVars, requestVars>>, AssetTypeOK', VaultTypeOK',
           assets'[VaultAcct] >= assets[VaultAcct]
    PROVE  Books'
<1>1. SharesAccounted' /\ LiveBelow' /\ CooldownAccounted'
    BY RequestsStay DEF VaultInv, Books, SharesAccounted, shareVars
<1>2. assets[VaultAcct] >= totalAssetsInCooldown /\ totalAssetsInCooldown' = totalAssetsInCooldown
      /\ assets[VaultAcct] \in Nat /\ totalAssetsInCooldown \in Nat /\ assets'[VaultAcct] \in Nat
    BY PlacesApart DEF VaultInv, Books, CooldownFunded, AssetTypeOK, VaultTypeOK, requestVars
<1>3. CooldownFunded'
    BY <1>2 DEF CooldownFunded
<1>4. QED
    BY <1>1, <1>3 DEF Books

LEMMA OwnerBooks ==
    ASSUME VaultInv, OwnerNext
    PROVE  Books'
<1>1. UNCHANGED <<shareVars, requestVars, assetVars>>
    BY DEF OwnerNext, UpdateCooldownDuration, UpdateCooldownEnabled,
           UpdateInstantWithdrawWhitelist, UpdateYieldDistributor, OwnerOnly
<1>2. AssetTypeOK' /\ assets'[VaultAcct] >= assets[VaultAcct]
    BY <1>1, BookFacts, PlacesApart DEF VaultInv, Books, AssetTypeOK, assetVars, listVars
<1>3. /\ cooldownDuration' \in MIN_COOLDOWN_DURATION..MAX_COOLDOWN_DURATION
      /\ cooldownEnabled' \in BOOLEAN
      /\ instantWithdrawWhitelist' \in SUBSET Stakers
      /\ distributorSet' \in BOOLEAN
  <2> USE StakingVaultAssumption
  <2>1. CASE \E duration \in CooldownDurations : UpdateCooldownDuration(duration)
      BY <2>1 DEF UpdateCooldownDuration, VaultInv, Books, VaultTypeOK
  <2>2. CASE \E enabled \in CooldownSwitches : UpdateCooldownEnabled(enabled)
      BY <2>2 DEF UpdateCooldownEnabled, VaultInv, Books, VaultTypeOK
  <2>3. CASE \E u \in Exemptable, status \in BOOLEAN : UpdateInstantWithdrawWhitelist(u, status)
      BY <2>3 DEF UpdateInstantWithdrawWhitelist, VaultInv, Books, VaultTypeOK
  <2>4. CASE \E set \in DistributorSwitches : UpdateYieldDistributor(set)
      BY <2>4 DEF UpdateYieldDistributor, VaultInv, Books, VaultTypeOK
  <2>5. QED
      BY <2>1, <2>2, <2>3, <2>4 DEF OwnerNext
<1>4. VaultTypeOK'
    BY <1>1, <1>3 DEF VaultInv, Books, VaultTypeOK, shareVars, requestVars
<1>5. QED
    BY <1>1, <1>2, <1>4, BooksStay

LEMMA VaultTypeStays ==
    ASSUME VaultInv, UNCHANGED vaultVars
    PROVE  VaultTypeOK' /\ UNCHANGED <<shareVars, requestVars>>
    BY DEF VaultInv, Books, VaultTypeOK, vaultVars, shareVars, requestVars, ownerVars

LEMMA DistributeBooks ==
    ASSUME VaultInv, NEW funder \in Funders, NEW n \in Nat, Distribute(funder, n, totalShares),
           UNCHANGED vaultVars
    PROVE  Books'
<1>1. /\ assets' \in [Holders -> Nat] /\ PendingYield(totalShares) \in Nat
      /\ assets'[VaultAcct] = assets[VaultAcct] + PendingYield(totalShares)
    BY DistributeMoves
<1>2. assets[VaultAcct] \in Nat
    BY BookFacts, PlacesApart
<1>3. UNCHANGED <<now, listed, blacklist>>
    BY DEF Distribute, listVars
<1>4. AssetTypeOK' /\ assets'[VaultAcct] >= assets[VaultAcct]
    BY <1>1, <1>2, <1>3 DEF VaultInv, Books, AssetTypeOK
<1>5. QED
    BY <1>4, VaultTypeStays, BooksStay

LEMMA DistributorBooks ==
    ASSUME VaultInv, DistributorNext, UNCHANGED vaultVars
    PROVE  Books'
<1>1. ASSUME NEW funder \in Funders, NEW n \in YieldAmounts, Distribute(funder, n, totalShares)
      PROVE  Books'
    BY <1>1, DistributeBooks, YieldDistributorAssumption
<1>2. ASSUME NEW duration \in YieldDurations, UpdateYieldDuration(duration)
      PROVE  AssetTypeOK' /\ assets'[VaultAcct] >= assets[VaultAcct]
    BY <1>2, BookFacts, PlacesApart
       DEF UpdateYieldDuration, VaultInv, Books, AssetTypeOK, assetVars, listVars
<1>3. QED
    BY <1>1, <1>2, VaultTypeStays, BooksStay DEF DistributorNext

LEMMA AssetBooks ==
    ASSUME VaultInv, AssetNext, UNCHANGED vaultVars
    PROVE  Books'
    BY AssetMoves, VaultTypeStays, BooksStay

LEMMA StutterBooks ==
    ASSUME VaultInv, UNCHANGED vars
    PROVE  Books'
<1>1. AssetTypeOK' /\ assets'[VaultAcct] >= assets[VaultAcct]
    BY BookFacts, PlacesApart DEF vars, VaultInv, Books, AssetTypeOK, assetVars, listVars
<1>2. QED
    BY <1>1, VaultTypeStays, BooksStay DEF vars

-----------------------------------------------------------------------------

LEMMA InitVault == Init => VaultInv
<1>1. SUFFICES ASSUME Init PROVE VaultInv
    OBVIOUS
<1> USE <1>1
<1>2. DistInv /\ AssetTypeOK
    BY InitDist, StakedAssetAssumption DEF Init, AssetInit, AssetTypeOK
<1>3. VaultTypeOK
    BY StakingVaultAssumption DEF Init, VaultInit, VaultTypeOK, NoRequest, CooldownRequests
<1>4. SharesAccounted
  <2>1. IsFiniteSet(Stakers) /\ (\A u \in Stakers : shares[u] = 0) /\ totalShares = 0
      BY StakingVaultAssumption DEF Init, VaultInit
  <2>2. QED
      BY <2>1, SumZero DEF SharesAccounted
<1>5. LiveBelow
    BY DEF Init, VaultInit, LiveBelow, Live, NoRequest
<1>6. Open(cooldownRequests) = 0 /\ totalAssetsInCooldown = 0
  <2> DEFINE f == [id \in RequestIds |-> cooldownRequests[id].assets]
  <2>1. \A id \in RequestIds : f[id] = 0
      BY DEF Init, VaultInit, NoRequest
  <2>2. Open(cooldownRequests) = SumFunctionOnSet(f, RequestIds)
      BY DEF Open
  <2> HIDE DEF f
  <2>3. QED
      BY <2>1, <2>2, SumZero, StakingVaultAssumption DEF Init, VaultInit
<1>7. CooldownAccounted
    BY <1>3, <1>6, LivePart DEF VaultTypeOK, CooldownAccounted, AssetsOf, Live
<1>8. CooldownFunded
    BY <1>2, <1>6, PlacesApart DEF AssetTypeOK, CooldownFunded
<1>9. QED
    BY <1>2, <1>3, <1>4, <1>5, <1>7, <1>8 DEF VaultInv, Books

LEMMA NextVault == VaultInv /\ [Next]_vars => VaultInv'
<1>1. SUFFICES ASSUME VaultInv, [Next]_vars PROVE VaultInv'
    OBVIOUS
<1> USE <1>1
<1>2. DistInv'
    BY NextDist DEF VaultInv
<1>3. CASE StakerNext
    BY <1>2, <1>3, StakerSteps, TakeInBooks, PayOutBooks, RequestBooks, ClaimBooks, CancelBooks,
       ShareBooks DEF VaultInv
<1>4. CASE OwnerNext
    BY <1>2, <1>4, OwnerBooks DEF VaultInv
<1>5. CASE DistributorNext /\ UNCHANGED vaultVars
    BY <1>2, <1>5, DistributorBooks DEF VaultInv
<1>6. CASE AssetNext /\ UNCHANGED <<distributorVars, vaultVars>>
    BY <1>2, <1>6, AssetBooks DEF VaultInv
<1>7. CASE UNCHANGED vars
    BY <1>2, <1>7, StutterBooks DEF VaultInv
<1>8. QED
    BY <1>3, <1>4, <1>5, <1>6, <1>7 DEF Next

LEMMA VaultInvariant == Spec => []VaultInv
    BY InitVault, NextVault, PTL DEF Spec

\* Every variable of the vault, the distributor and the asset's ledger keeps its type:
\* no subtraction of StakingVault.sol and YieldDistributor.sol underflows, whatever is
\* called.
THEOREM StakingTypeCorrect == Spec => []TypeOK
<1>1. VaultInv => TypeOK
    BY VaultTyped
<1>2. QED
    BY <1>1, VaultInvariant, PTL

\* totalAssetsInCooldown is the sum of the open requests through every claim, batch and
\* cancellation (StakingVault.sol: _createRequest, _claimWithdraw, cancelWithdraw).
THEOREM CooldownIsAccounted == Spec => []CooldownAccounted
<1>1. VaultInv => CooldownAccounted
    BY DEF VaultInv, Books
<1>2. QED
    BY <1>1, VaultInvariant, PTL

\* The vault always holds what waits in cooldown, so that totalAssets never needs its
\* clamp: an exit is worth at most what is staked.
THEOREM CooldownIsFunded == Spec => []CooldownFunded
<1>1. VaultInv => CooldownFunded
    BY DEF VaultInv, Books
<1>2. QED
    BY <1>1, VaultInvariant, PTL

-----------------------------------------------------------------------------
(* Requests and sanctions.                                                 *)

\* The amounts a claim moves are there: what the vault pulls, the distributor has,
\* and what any set of requests is owed, the vault has.
ClaimsCovered ==
    /\ PendingYield(totalShares) <= assets[DistributorAcct]
    /\ \A ids \in SUBSET RequestIds : AssetsOf(ids) <= Ledger[VaultAcct]

\* No claim, of one request or of a batch, ever fails for want of assets
\* (StakingVault.sol: _claimWithdraw, claimWithdrawBatch); with ClaimAlwaysPossible,
\* which TLC checks, it can fail only by the blacklist, the sanctions or the date.
THEOREM ClaimsStayCovered == Spec => []ClaimsCovered
<1>1. ASSUME VaultInv PROVE ClaimsCovered
  <2> USE <1>1
  <2>1. PendingYield(totalShares) <= assets[DistributorAcct]
      BY PendingCovered DEF VaultInv
  <2>2. ASSUME NEW ids \in SUBSET RequestIds
        PROVE  AssetsOf(ids) <= Ledger[VaultAcct]
    <3>1. AssetsOf(ids) \in Nat /\ AssetsOf(ids) <= Open(cooldownRequests)
        BY BookFacts, PartOfBook DEF AssetsOf
    <3>2. QED
        BY <3>1, BookFacts
  <2>3. QED
      BY <2>1, <2>2 DEF ClaimsCovered
<1>2. QED
    BY <1>1, VaultInvariant, PTL

\* Steps of the owner, the distributor and the asset.
LEMMA OutsideSteps ==
    ASSUME VaultInv, [Next]_vars
    PROVE  \/ StakerNext
           \/ /\ UNCHANGED <<shareVars, requestVars>>
              /\ vaultVars' = vaultVars \/ UNCHANGED assetVars
<1>1. OwnerNext => UNCHANGED <<shareVars, requestVars, assetVars>>
    BY DEF OwnerNext, UpdateCooldownDuration, UpdateCooldownEnabled,
           UpdateInstantWithdrawWhitelist, UpdateYieldDistributor, OwnerOnly
<1>2. UNCHANGED vaultVars => UNCHANGED <<shareVars, requestVars>>
    BY DEF vaultVars
<1>3. UNCHANGED vars => UNCHANGED vaultVars
    BY DEF vars
<1>4. QED
    BY <1>1, <1>2, <1>3 DEF Next

\* A request on the books is never changed or lost (StakingVault.sol: ids are never
\* reused; only a claim after its date or a cancellation that returns shares deletes one).
THEOREM RequestsKept == Spec => RequestsAreKept
<1>1. ASSUME VaultInv, [Next]_vars, NEW id \in RequestIds, Live(id)
      PROVE  \/ cooldownRequests'[id] = cooldownRequests[id]
             \/ /\ ~Live(id)'
                /\ \/ now >= cooldownRequests[id].claimableAt
                   \/ shares'[cooldownRequests[id].owner] > shares[cooldownRequests[id].owner]
  <2> USE <1>1
  <2>1. CASE TakeInStep \/ PayOutStep \/ ShareStep
      BY <2>1 DEF TakeInStep, PayOutStep, ShareStep, TakeIn, PayOut, TransferShares, requestVars
  <2>2. CASE RequestStep
    <3>1. nextRequestId \in RequestIds /\ id \in Nat /\ nextRequestId \in Nat
        BY <2>2, StakingVaultAssumption DEF RequestStep, CreateRequest
    <3>2. id < nextRequestId
        BY <1>1 DEF VaultInv, Books, LiveBelow
    <3>3. id # nextRequestId
        BY <3>1, <3>2
    <3>4. QED
        BY <2>2, <3>3, BookFacts DEF RequestStep, CreateRequest
  <2>3. CASE ClaimStep
    <3>1. PICK caller \in Stakers, ids \in SUBSET RequestIds :
              /\ \A i \in ids : now >= cooldownRequests[i].claimableAt
              /\ Settle(caller, ids)
        BY <2>3 DEF ClaimStep, ClaimWithdraw, Payable
    <3>2. CASE id \in ids
        BY <3>1, <3>2 DEF Settle, Live, NoRequest
    <3>3. CASE id \notin ids
        BY <3>1, <3>3 DEF Settle
    <3>4. QED
        BY <3>2, <3>3
  <2>4. CASE CancelStep
    <3>1. PICK caller \in Stakers, other \in RequestIds : CancelWithdraw(caller, other)
        BY <2>4 DEF CancelStep
    <3> DEFINE s == SharesDown(cooldownRequests[other].assets)
    <3>2. /\ cooldownRequests[other].owner = caller /\ s # 0
          /\ shares' = [shares EXCEPT ![caller] = @ + s]
          /\ cooldownRequests'
                = [i \in RequestIds |-> IF i \in {other} THEN NoRequest ELSE cooldownRequests[i]]
        BY <3>1 DEF CancelWithdraw, MintShares, Settle
    <3>3. s \in Nat
        BY BookFacts, BookType, Conversions
    <3>4. shares \in [Stakers -> Nat]
        BY DEF VaultInv, Books, VaultTypeOK
    <3> HIDE DEF s
    <3>5. CASE id = other
      <4>1. shares'[caller] > shares[caller]
          BY <3>2, <3>3, <3>4
      <4>2. ~Live(id)'
          BY <3>2, <3>5 DEF Live, NoRequest
      <4>3. QED
          BY <3>2, <3>5, <4>1, <4>2
    <3>6. CASE id # other
        BY <3>2, <3>6
    <3>7. QED
        BY <3>5, <3>6
  <2>5. CASE UNCHANGED requestVars
      BY <2>5 DEF requestVars
  <2>6. QED
      BY <1>1, <2>1, <2>2, <2>3, <2>4, <2>5, StakerSteps, OutsideSteps
<1>2. VaultInv /\ [Next]_vars =>
        \A id \in RequestIds :
            LET request == cooldownRequests[id] IN
            Live(id) => \/ cooldownRequests'[id] = request
                        \/ /\ ~Live(id)'
                           /\ \/ now >= request.claimableAt
                              \/ shares'[request.owner] > shares[request.owner]
    BY <1>1
<1>3. QED
    BY <1>2, VaultInvariant, PTL DEF Spec, RequestsAreKept

\* While an account is sanctioned nothing of its position moves: each path of
\* StakingVault.sol checks every account it debits, credits or acts for.
THEOREM StakersFrozen == Spec => FrozenWhileSanctioned
<1>1. ASSUME VaultInv, [Next]_vars, NEW u \in Stakers, Sanctioned(u)
      PROVE  /\ shares'[u] = shares[u]
             /\ activeRequestIds'[u] = activeRequestIds[u]
             /\ vaultVars' # vaultVars => assets'[u] = assets[u]
  <2> USE <1>1
  <2>1. /\ shares \in [Stakers -> Nat] /\ activeRequestIds \in [Stakers -> SUBSET RequestIds]
        /\ Ledger[u] = assets[u] /\ u \in Holders \ {VaultAcct} /\ VaultAcct \in Holders
        /\ \A x \in Stakers : x \in Holders /\ x # VaultAcct
      BY BookFacts, PlacesApart DEF VaultInv, Books, VaultTypeOK
  <2>2. CASE TakeInStep
    <3>1. PICK caller \in Stakers, receiver \in Stakers, n \in Nat, s \in Nat :
              TakeIn(caller, receiver, n, s)
        BY <2>2 DEF TakeInStep
    <3>2. /\ caller # u /\ receiver # u /\ n <= Ledger[caller]
          /\ assets' = Transferred(Ledger, caller, VaultAcct, n)
          /\ shares' = [shares EXCEPT ![receiver] = @ + s]
          /\ activeRequestIds' = activeRequestIds
        BY <1>1, <3>1 DEF TakeIn, Transferable, MintShares, NoneSanctioned, requestVars
    <3>3. Transferred(Ledger, caller, VaultAcct, n)[u] = Ledger[u]
        BY <2>1, <3>2, LedgerPays
    <3>4. QED
        BY <2>1, <3>2, <3>3
  <2>3. CASE PayOutStep
    <3>1. PICK caller \in Stakers, receiver \in Stakers, owner \in Stakers, n \in Nat, s \in Nat :
              PayOut(caller, receiver, owner, n, s)
        BY <2>3 DEF PayOutStep
    <3>2. /\ owner # u /\ receiver # u /\ n <= Ledger[VaultAcct]
          /\ assets' = Transferred(Ledger, VaultAcct, receiver, n)
          /\ shares' = [shares EXCEPT ![owner] = @ - s]
          /\ activeRequestIds' = activeRequestIds
        BY <1>1, <3>1 DEF PayOut, Transferable, BurnShares, NoneSanctioned, requestVars
    <3>3. Transferred(Ledger, VaultAcct, receiver, n)[u] = Ledger[u]
        BY <2>1, <3>2, LedgerPays
    <3>4. QED
        BY <2>1, <3>2, <3>3
  <2>4. CASE RequestStep
    <3>1. PICK caller \in Stakers, owner \in Stakers, n \in Nat, s \in Nat :
              CreateRequest(caller, owner, n, s)
        BY <2>4 DEF RequestStep
    <3>2. /\ owner # u /\ assets' = Ledger
          /\ shares' = [shares EXCEPT ![owner] = @ - s]
          /\ activeRequestIds' = [activeRequestIds EXCEPT ![owner] = @ \cup {nextRequestId}]
        BY <1>1, <3>1 DEF CreateRequest, BurnShares, NoneSanctioned
    <3>3. QED
        BY <2>1, <3>2
  <2>5. CASE ClaimStep
    <3>1. PICK caller \in Stakers, receiver \in Stakers, ids \in SUBSET RequestIds :
              ClaimWithdraw(caller, ids, receiver)
        BY <2>5 DEF ClaimStep
    <3> DEFINE n == AssetsOf(ids)
    <3>2. /\ caller # u /\ receiver # u
        BY <1>1, <3>1 DEF ClaimWithdraw, Payable, NoneSanctioned
    <3>3. /\ n <= Ledger[VaultAcct] /\ assets' = Transferred(Ledger, VaultAcct, receiver, n)
          /\ shares' = shares
          /\ activeRequestIds' = [activeRequestIds EXCEPT ![caller] = @ \ ids]
        BY <3>1 DEF ClaimWithdraw, Transferable, Settle, shareVars
    <3>4. n \in Nat
        BY BookFacts, PartOfBook DEF AssetsOf
    <3> HIDE DEF n
    <3>5. Transferred(Ledger, VaultAcct, receiver, n)[u] = Ledger[u]
        BY <2>1, <3>2, <3>3, <3>4, LedgerPays
    <3>6. QED
        BY <2>1, <3>2, <3>3, <3>5
  <2>6. CASE CancelStep
    <3>1. PICK caller \in Stakers, id \in RequestIds : CancelWithdraw(caller, id)
        BY <2>6 DEF CancelStep
    <3>2. /\ caller # u /\ assets' = Ledger
          /\ \E s : shares' = [shares EXCEPT ![caller] = @ + s]
          /\ activeRequestIds' = [activeRequestIds EXCEPT ![caller] = @ \ {id}]
        BY <1>1, <3>1 DEF CancelWithdraw, MintShares, NoneSanctioned, Settle
    <3>3. QED
        BY <2>1, <3>2
  <2>7. CASE ShareStep
    <3>1. PICK caller \in Stakers, owner \in Stakers, receiver \in Stakers, s \in Nat :
              TransferShares(caller, owner, receiver, s)
        BY <2>7 DEF ShareStep
    <3>2. /\ owner # u /\ receiver # u /\ assets' = assets /\ activeRequestIds' = activeRequestIds
          /\ shares' = IF owner = receiver THEN shares
                       ELSE [shares EXCEPT ![owner] = @ - s, ![receiver] = @ + s]
        BY <1>1, <3>1 DEF TransferShares, NoneSanctioned, requestVars, assetVars
    <3>3. QED
        BY <2>1, <3>2
  <2>8. CASE /\ UNCHANGED <<shareVars, requestVars>>
             /\ vaultVars' = vaultVars \/ UNCHANGED assetVars
      BY <2>8 DEF shareVars, requestVars, assetVars
  <2>9. QED
      BY <1>1, <2>2, <2>3, <2>4, <2>5, <2>6, <2>7, <2>8, StakerSteps, OutsideSteps
<1>2. VaultInv /\ [Next]_vars =>
        \A u \in Stakers : Sanctioned(u) =>
            /\ shares'[u] = shares[u]
            /\ activeRequestIds'[u] = activeRequestIds[u]
            /\ vaultVars' # vaultVars => assets'[u] = assets[u]
    BY <1>1
<1>3. QED
    BY <1>2, VaultInvariant, PTL DEF Spec, FrozenWhileSanctioned

-----------------------------------------------------------------------------
(* Yield.                                                                  *)

\* Right after a pull into an empty vault nothing is pending.
LEMMA NothingAccrues ==
    ASSUME VaultInv, totalShares = 0, distributorSet, Pull, now' = now
    PROVE  PendingYield(totalShares)' = 0
<1>1. /\ now \in Nat /\ lastUpdateTime \in Nat /\ periodFinish \in Nat
    BY DEF VaultInv, DistInv, DistributorTypeOK
<1>2. PendingYield(totalShares) = 0
    BY DEF PendingYield
<1>3. /\ lastUpdateTime' = LastUpdateAfterPull(totalShares)
      /\ periodFinish' = PeriodFinishAfterPull(totalShares)
    BY DEF Pull, PullYield
<1>4. CASE Slides(totalShares)
  <2>1. lastUpdateTime' = now
      BY <1>3, <1>4 DEF LastUpdateAfterPull
  <2>2. MinOf(now, periodFinish') <= now
      BY <1>1, <1>3, <1>4 DEF MinOf, PeriodFinishAfterPull, Slides
  <2>3. QED
      BY <2>1, <2>2 DEF PendingYield
<1>5. CASE ~Slides(totalShares)
  <2>1. lastUpdateTime' = lastUpdateTime /\ periodFinish' = periodFinish
      BY <1>2, <1>3, <1>5 DEF LastUpdateAfterPull, PeriodFinishAfterPull
  <2>2. lastUpdateTime = 0 \/ MinOf(now, periodFinish) <= lastUpdateTime
      BY <1>1, <1>5 DEF Slides, MinOf
  <2>3. QED
      BY <2>1, <2>2 DEF PendingYield
<1>6. QED
    BY <1>4, <1>5

\* The shares of a step that pulls first.
LEMMA SharesMade ==
    ASSUME VaultInv, [Next]_vars, totalShares = 0, totalShares' > 0
    PROVE  Pull /\ now' = now
<1>1. CASE TakeInStep \/ PayOutStep \/ RequestStep \/ ClaimStep \/ CancelStep
    BY <1>1 DEF TakeInStep, PayOutStep, RequestStep, ClaimStep, CancelStep, TakeIn, PayOut,
                CreateRequest, ClaimWithdraw, CancelWithdraw
<1>2. CASE ShareStep \/ UNCHANGED shareVars
  <2>1. totalShares' = totalShares
      BY <1>2 DEF ShareStep, TransferShares, shareVars
  <2>2. QED
      BY <2>1
<1>3. QED
    BY <1>1, <1>2, StakerSteps, OutsideSteps

\* Only the owner links the vault to its distributor.
LEMMA LinkStays ==
    ASSUME VaultInv, [Next]_vars, DistributorSwitches = {}
    PROVE  distributorSet' = distributorSet
<1>1. OwnerNext => UNCHANGED distributorSet
    BY DEF OwnerNext, UpdateCooldownDuration, UpdateCooldownEnabled, UpdateInstantWithdrawWhitelist
<1>2. TakeInStep \/ PayOutStep \/ RequestStep \/ ClaimStep \/ CancelStep \/ ShareStep
        => UNCHANGED distributorSet
    BY DEF TakeInStep, PayOutStep, RequestStep, ClaimStep, CancelStep, ShareStep, TakeIn, PayOut,
           CreateRequest, ClaimWithdraw, CancelWithdraw, TransferShares, ownerVars
<1>3. UNCHANGED vaultVars => UNCHANGED distributorSet
    BY DEF vaultVars, ownerVars
<1>4. QED
    BY <1>1, <1>2, <1>3, StakerSteps DEF Next, vars

\* Whoever makes the first shares with the distributor set finds nothing accrued before them, also
\* when it was cleared and set again before: the deposit itself slides the schedule.
THEOREM NoYieldForFirstShares ==
    Spec => [][distributorSet /\ totalShares = 0 /\ totalShares' > 0 => PendingYield(totalShares)' = 0]_vars
<1>1. VaultInv /\ [Next]_vars =>
        (distributorSet /\ totalShares = 0 /\ totalShares' > 0 => PendingYield(totalShares)' = 0)
    BY NothingAccrues, SharesMade
<1>2. QED
    BY <1>1, VaultInvariant, PTL DEF Spec

\* "Nobody earns while the vault is empty" (YieldDistributor.sol: _pullYield slides the schedule), in
\* every vault whose owner does not clear the distributor.
THEOREM NoYieldWhileEmpty ==
    ASSUME DistributorSwitches = {}
    PROVE  Spec => NobodyEarnsWhileEmpty
<1>1. Init => distributorSet
    BY DEF Init, VaultInit
<1>2. VaultInv /\ distributorSet /\ [Next]_vars => distributorSet'
    BY LinkStays
<1>3. VaultInv /\ distributorSet /\ [Next]_vars =>
        (totalShares = 0 /\ totalShares' > 0 => PendingYield(totalShares)' = 0)
    BY NothingAccrues, SharesMade
<1>4. QED
    BY <1>1, <1>2, <1>3, VaultInvariant, PTL DEF Spec, NobodyEarnsWhileEmpty

-----------------------------------------------------------------------------
(* Share price.                                                            *)

\* A share is worth at least as much at value w and supply u as at v and t.
PriceKept(v, t, w, u) == (w + 1) * (t + 1) >= (v + 1) * (u + 1)

LEMMA MoreValue ==
    ASSUME NEW v \in Nat, NEW t \in Nat, NEW w \in Nat, v <= w
    PROVE  PriceKept(v, t, w, t)
    BY DEF PriceKept

LEMMA PriceIn ==
    ASSUME NEW v \in Nat, NEW t \in Nat, NEW w \in Nat, NEW n \in Nat, NEW s \in Nat,
           s * (v + 1) <= n * (t + 1), v + n <= w
    PROVE  PriceKept(v, t, w, t + s)
<1>1. (w + 1) * (t + 1) >= (v + n + 1) * (t + 1)
    OBVIOUS
<1>2. (v + n + 1) * (t + 1) = (v + 1) * (t + 1) + n * (t + 1)
    OBVIOUS
<1>3. (v + 1) * (t + s + 1) = (v + 1) * (t + 1) + s * (v + 1)
    OBVIOUS
<1>4. /\ (w + 1) * (t + 1) \in Nat /\ (v + n + 1) * (t + 1) \in Nat /\ (v + 1) * (t + 1) \in Nat
      /\ n * (t + 1) \in Nat /\ s * (v + 1) \in Nat /\ (v + 1) * (t + s + 1) \in Nat
    OBVIOUS
<1>5. (w + 1) * (t + 1) >= (v + 1) * (t + s + 1)
    BY <1>1, <1>2, <1>3, <1>4
<1>6. QED
    BY <1>5 DEF PriceKept

LEMMA PriceOut ==
    ASSUME NEW v \in Nat, NEW t \in Nat, NEW w \in Nat, NEW n \in Nat, NEW s \in Nat,
           n * (t + 1) <= s * (v + 1), s <= t, n <= v, v - n <= w
    PROVE  PriceKept(v, t, w, t - s)
<1>1. (w + 1) * (t + 1) >= (v - n + 1) * (t + 1)
    OBVIOUS
<1>2. (v - n + 1) * (t + 1) = (v + 1) * (t + 1) - n * (t + 1)
    OBVIOUS
<1>3. (v + 1) * (t - s + 1) = (v + 1) * (t + 1) - s * (v + 1)
    OBVIOUS
<1>4. /\ (w + 1) * (t + 1) \in Int /\ (v - n + 1) * (t + 1) \in Int /\ (v + 1) * (t + 1) \in Int
      /\ n * (t + 1) \in Int /\ s * (v + 1) \in Int /\ (v + 1) * (t - s + 1) \in Int
    OBVIOUS
<1>5. (w + 1) * (t + 1) >= (v + 1) * (t - s + 1)
    BY <1>1, <1>2, <1>3, <1>4
<1>6. QED
    BY <1>5 DEF PriceKept

\* totalAssets by what the vault holds.
ValueIs ==
    /\ Value \in Nat /\ totalShares \in Nat /\ totalAssetsInCooldown \in Nat
    /\ assets[VaultAcct] \in Nat
    /\ Accrued \in Nat
    /\ Value = assets[VaultAcct] + Accrued - totalAssetsInCooldown

LEMMA ValueHolds == VaultInv => ValueIs
<1>1. ASSUME VaultInv PROVE TypeOK /\ DistInv /\ CooldownFunded
    BY <1>1, VaultTyped DEF VaultInv, Books
<1>2. QED
    BY <1>1, StakedIsValue, LedgerMoves, PlacesApart DEF TypeOK, AssetTypeOK, VaultTypeOK, ValueIs

LEMMA ValueHoldsNext == VaultInv' => ValueIs'
    BY ValueHolds, PTL


\* A step's price by what it leaves in the vault.
LEMMA PriceFacts ==
    ASSUME VaultInv, VaultInv'
    PROVE  /\ Value \in Nat /\ totalShares \in Nat /\ totalAssetsInCooldown \in Nat
           /\ StakedAssets = Value
           /\ Ledger[VaultAcct] = Value + totalAssetsInCooldown
           /\ Value' \in Nat /\ totalAssetsInCooldown' \in Nat /\ assets'[VaultAcct] \in Nat
           /\ Value' >= assets'[VaultAcct] - totalAssetsInCooldown'
<1>1. ValueIs /\ ValueIs'
    BY ValueHolds, ValueHoldsNext
<1>2. StakedAssets = Value /\ Ledger[VaultAcct] = Value + totalAssetsInCooldown
    BY StakedIsValue, VaultTyped DEF VaultInv, Books
<1>3. QED
    BY <1>1, <1>2 DEF ValueIs

LEMMA TakeInPrice ==
    ASSUME VaultInv, VaultInv', TakeInStep
    PROVE  PriceKept(Value, totalShares, Value', totalShares')
<1>1. PICK caller \in Stakers, receiver \in Stakers, n \in Nat, s \in Nat :
          /\ s * (StakedAssets + 1) <= n * (totalShares + 1)
          /\ TakeIn(caller, receiver, n, s)
    BY DEF TakeInStep
<1>2. /\ n <= Ledger[caller] /\ assets' = Transferred(Ledger, caller, VaultAcct, n)
      /\ totalShares' = totalShares + s /\ totalAssetsInCooldown' = totalAssetsInCooldown
    BY <1>1 DEF TakeIn, Transferable, MintShares, requestVars
<1>3. assets'[VaultAcct] = Ledger[VaultAcct] + n
  <2>1. caller \in Holders /\ VaultAcct \in Holders /\ caller # VaultAcct
      BY PlacesApart
  <2>2. Transferred(Ledger, caller, VaultAcct, n)[VaultAcct] = Ledger[VaultAcct] + n
      BY <1>2, <2>1, LedgerPays
  <2>3. QED
      BY <1>2, <2>2
<1>4. Value + n <= Value'
    BY <1>2, <1>3, PriceFacts
<1>5. s * (Value + 1) <= n * (totalShares + 1)
    BY <1>1, PriceFacts
<1>6. QED
    BY <1>2, <1>4, <1>5, PriceFacts, PriceIn

LEMMA PayOutPrice ==
    ASSUME VaultInv, VaultInv', PayOutStep
    PROVE  PriceKept(Value, totalShares, Value', totalShares')
<1>1. PICK caller \in Stakers, receiver \in Stakers, owner \in Stakers, n \in Nat, s \in Nat :
          /\ n * (totalShares + 1) <= s * (StakedAssets + 1)
          /\ PayOut(caller, receiver, owner, n, s)
    BY DEF PayOutStep
<1>2. /\ n <= Ledger[VaultAcct] /\ assets' = Transferred(Ledger, VaultAcct, receiver, n)
      /\ totalAssetsInCooldown' = totalAssetsInCooldown
      /\ BurnShares(caller, owner, s)
    BY <1>1 DEF PayOut, Transferable, requestVars
<1>3. totalShares' = totalShares - s /\ s <= totalShares
    BY <1>2, BurntShares, VaultTyped DEF VaultInv, Books
<1>4. assets'[VaultAcct] = Ledger[VaultAcct] - n
  <2>1. receiver \in Holders /\ VaultAcct \in Holders /\ VaultAcct # receiver
      BY PlacesApart
  <2>2. Transferred(Ledger, VaultAcct, receiver, n)[VaultAcct] = Ledger[VaultAcct] - n
      BY <1>2, <2>1, LedgerPays
  <2>3. QED
      BY <1>2, <2>2
<1>5. Value - n <= Value'
    BY <1>2, <1>4, PriceFacts
<1>6. n * (totalShares + 1) <= s * (Value + 1)
    BY <1>1, PriceFacts
<1>7. n <= Value
    BY <1>3, <1>6, PriceFacts, ExitCovered
<1>8. QED
    BY <1>3, <1>5, <1>6, <1>7, PriceFacts, PriceOut

LEMMA RequestPrice ==
    ASSUME VaultInv, VaultInv', RequestStep
    PROVE  PriceKept(Value, totalShares, Value', totalShares')
<1>1. PICK caller \in Stakers, owner \in Stakers, n \in Nat, s \in Nat :
          /\ n * (totalShares + 1) <= s * (StakedAssets + 1)
          /\ CreateRequest(caller, owner, n, s)
    BY DEF RequestStep
<1>2. /\ assets' = Ledger /\ totalAssetsInCooldown' = totalAssetsInCooldown + n
      /\ BurnShares(caller, owner, s)
    BY <1>1 DEF CreateRequest
<1>3. totalShares' = totalShares - s /\ s <= totalShares
    BY <1>2, BurntShares, VaultTyped DEF VaultInv, Books
<1>4. Value - n <= Value'
    BY <1>2, PriceFacts
<1>5. n * (totalShares + 1) <= s * (Value + 1)
    BY <1>1, PriceFacts
<1>6. n <= Value
    BY <1>3, <1>5, PriceFacts, ExitCovered
<1>7. QED
    BY <1>3, <1>4, <1>5, <1>6, PriceFacts, PriceOut

\* A claim takes from the vault what it takes off the books.
LEMMA ClaimPrice ==
    ASSUME VaultInv, VaultInv', ClaimStep
    PROVE  PriceKept(Value, totalShares, Value', totalShares')
<1>1. PICK caller \in Stakers, receiver \in Stakers, ids \in SUBSET RequestIds :
          ClaimWithdraw(caller, ids, receiver)
    BY DEF ClaimStep
<1> DEFINE n == AssetsOf(ids)
<1>2. /\ Settle(caller, ids)
      /\ n <= Ledger[VaultAcct] /\ assets' = Transferred(Ledger, VaultAcct, receiver, n)
      /\ totalShares' = totalShares
    BY <1>1 DEF ClaimWithdraw, Transferable, shareVars
<1>3. n \in Nat /\ totalAssetsInCooldown' = totalAssetsInCooldown - n
    BY <1>2, SettleBooks
<1> HIDE DEF n
<1>4. assets'[VaultAcct] = Ledger[VaultAcct] - n
  <2>1. receiver \in Holders /\ VaultAcct \in Holders /\ VaultAcct # receiver
      BY PlacesApart
  <2>2. Transferred(Ledger, VaultAcct, receiver, n)[VaultAcct] = Ledger[VaultAcct] - n
      BY <1>2, <1>3, <2>1, LedgerPays
  <2>3. QED
      BY <1>2, <2>2
<1>5. Value <= Value'
    BY <1>3, <1>4, PriceFacts
<1>6. QED
    BY <1>2, <1>5, PriceFacts, MoreValue

\* A cancellation's shares are bought with the assets that rejoin the stake.
LEMMA CancelPrice ==
    ASSUME VaultInv, VaultInv', CancelStep
    PROVE  PriceKept(Value, totalShares, Value', totalShares')
<1>1. PICK caller \in Stakers, id \in RequestIds : CancelWithdraw(caller, id)
    BY DEF CancelStep
<1> DEFINE n == cooldownRequests[id].assets
           s == SharesDown(n)
           all == AssetsOf({id})
<1>2. /\ Settle(caller, {id}) /\ assets' = Ledger
      /\ totalShares' = totalShares + s
    BY <1>1 DEF CancelWithdraw, MintShares
<1>3. n \in Nat
    BY BookFacts, BookType
<1>4. s \in Nat /\ s * (StakedAssets + 1) <= n * (totalShares + 1)
    BY <1>3, Conversions
<1>5. all \in Nat /\ n <= all /\ totalAssetsInCooldown' = totalAssetsInCooldown - all
    BY <1>2, SettleBooks
<1> HIDE DEF n, s, all
<1>6. Value + n <= Value'
    BY <1>2, <1>3, <1>5, PriceFacts
<1>7. s * (Value + 1) <= n * (totalShares + 1)
    BY <1>4, PriceFacts
<1>8. QED
    BY <1>2, <1>3, <1>4, <1>6, <1>7, PriceFacts, PriceIn

\* A step that leaves the supply and the book of requests alone, and of the vault's
\* balance and its accrued yield takes nothing.
LEMMA OtherPrice ==
    ASSUME VaultInv, VaultInv', UNCHANGED <<totalShares, requestVars>>,
           assets'[VaultAcct] + Accrued' >= assets[VaultAcct] + Accrued
    PROVE  PriceKept(Value, totalShares, Value', totalShares')
<1>1. ValueIs /\ ValueIs'
    BY ValueHolds, ValueHoldsNext
<1>2. Value <= Value'
    BY <1>1 DEF ValueIs, requestVars
<1>3. QED
    BY <1>1, <1>2, MoreValue DEF ValueIs

LEMMA AccruedStays ==
    ASSUME UNCHANGED <<now, totalShares, distributorSet, scheduleVars>>
    PROVE  Accrued' = Accrued
    BY DEF Accrued, PendingYield, scheduleVars

\* What accrues only grows with time.
LEMMA AccruedGrows ==
    ASSUME VaultInv, VaultInv', Tick, UNCHANGED <<distributorVars, vaultVars>>
    PROVE  Accrued' >= Accrued
<1> DEFINE s == totalShares
           e == MinOf(now, periodFinish)
           f == MinOf(now + 1, periodFinish)
<1>1. /\ now \in Nat /\ lastUpdateTime \in Nat /\ periodFinish \in Nat /\ rewardRate \in Nat
      /\ PRECISION \in Nat \ {0}
    BY YieldDistributorAssumption DEF VaultInv, DistInv, DistributorTypeOK
<1>2. now' = now + 1
      /\ UNCHANGED <<totalShares, distributorSet, periodFinish, rewardRate, lastUpdateTime>>
    BY DEF Tick, distributorVars, scheduleVars, vaultVars, shareVars, ownerVars
<1>3. Accrued \in Nat /\ Accrued' \in Nat
    BY ValueHolds, ValueHoldsNext DEF ValueIs
<1>4. CASE Accrued = 0
    BY <1>3, <1>4
<1>5. CASE Accrued # 0
  <2>1. /\ distributorSet /\ lastUpdateTime # 0 /\ rewardRate # 0 /\ s # 0
        /\ ~(e <= lastUpdateTime)
        /\ Accrued = Drip(e - lastUpdateTime, rewardRate)
      BY <1>5 DEF Accrued, PendingYield
  <2>2. e \in Nat /\ f \in Nat /\ e <= f
      BY <1>1 DEF MinOf
  <2>3. ~(f <= lastUpdateTime)
      BY <1>1, <2>1, <2>2
  <2>4. Accrued' = Drip(f - lastUpdateTime, rewardRate)
      BY <1>2, <2>1, <2>3 DEF Accrued, PendingYield
  <2> HIDE DEF e, f
  <2>5. /\ e - lastUpdateTime \in Nat /\ f - lastUpdateTime \in Nat
        /\ e - lastUpdateTime <= f - lastUpdateTime
      BY <1>1, <2>1, <2>2, <2>3
  <2>6. QED
      BY <1>1, <2>1, <2>4, <2>5, MulDivGrows DEF Drip
<1>6. QED
    BY <1>4, <1>5

LEMMA DistributorPrice ==
    ASSUME VaultInv, VaultInv', DistributorNext, UNCHANGED vaultVars
    PROVE  PriceKept(Value, totalShares, Value', totalShares')
<1>1. UNCHANGED <<totalShares, requestVars, distributorSet>>
    BY DEF vaultVars, shareVars, ownerVars
<1>2. ASSUME NEW funder \in Funders, NEW n \in YieldAmounts, Distribute(funder, n, totalShares)
      PROVE  PriceKept(Value, totalShares, Value', totalShares')
  <2>1. /\ PendingYield(totalShares) \in Nat
        /\ assets'[VaultAcct] = assets[VaultAcct] + PendingYield(totalShares)
      BY <1>2, DistributeMoves, YieldDistributorAssumption
  <2>2. Accrued = PendingYield(totalShares) \/ Accrued = 0
      BY DEF Accrued
  <2>3. /\ Accrued \in Nat /\ Accrued' \in Nat /\ assets[VaultAcct] \in Nat
      BY ValueHolds, ValueHoldsNext DEF ValueIs
  <2>4. assets'[VaultAcct] + Accrued' >= assets[VaultAcct] + Accrued
      BY <2>1, <2>2, <2>3
  <2>5. QED
      BY <1>1, <2>4, OtherPrice
<1>3. ASSUME NEW duration \in YieldDurations, UpdateYieldDuration(duration)
      PROVE  PriceKept(Value, totalShares, Value', totalShares')
  <2>1. UNCHANGED <<now, assets, scheduleVars>>
      BY <1>3 DEF UpdateYieldDuration, assetVars
  <2>2. Accrued' = Accrued
      BY <1>1, <2>1, AccruedStays
  <2>3. assets'[VaultAcct] + Accrued' >= assets[VaultAcct] + Accrued
      BY <2>1, <2>2, ValueHolds DEF ValueIs
  <2>4. QED
      BY <1>1, <2>3, OtherPrice
<1>4. QED
    BY <1>2, <1>3 DEF DistributorNext

LEMMA AssetPrice ==
    ASSUME VaultInv, VaultInv', AssetNext, UNCHANGED <<distributorVars, vaultVars>>
    PROVE  PriceKept(Value, totalShares, Value', totalShares')
<1>1. UNCHANGED <<totalShares, requestVars, distributorSet, scheduleVars>>
    BY DEF vaultVars, shareVars, ownerVars, distributorVars
<1>2. assets'[VaultAcct] >= assets[VaultAcct]
    BY AssetMoves
<1>3. Accrued' >= Accrued
  <2>1. CASE Tick
      BY <2>1, AccruedGrows
  <2>2. CASE UNCHANGED now
      BY <1>1, <2>2, AccruedStays, ValueHolds DEF ValueIs
  <2>3. QED
      BY <2>1, <2>2 DEF AssetNext, SetListed, SetBlacklist, Give
<1>4. assets'[VaultAcct] + Accrued' >= assets[VaultAcct] + Accrued
    BY <1>2, <1>3, ValueHolds, ValueHoldsNext DEF ValueIs
<1>5. QED
    BY <1>1, <1>4, OtherPrice

LEMMA QuietPrice ==
    ASSUME VaultInv, VaultInv',
           UNCHANGED <<totalShares, requestVars, distributorSet, distributorVars, assetVars>>
    PROVE  PriceKept(Value, totalShares, Value', totalShares')
<1>1. Accrued' = Accrued /\ assets' = assets
    BY AccruedStays DEF distributorVars, assetVars
<1>2. assets'[VaultAcct] + Accrued' >= assets[VaultAcct] + Accrued
    BY <1>1, ValueHolds DEF ValueIs
<1>3. QED
    BY <1>2, OtherPrice

\* No call to StakingVault.sol or YieldDistributor.sol, no donation and no passing of
\* time lowers the price of a share, at any amounts and any rounding; only clearing the
\* distributor does, by what is then pending.
THEOREM SharePriceKept == Spec => SharePriceNeverFalls
<1>1. ASSUME VaultInv, VaultInv', [Next]_vars, distributorSet' = distributorSet
      PROVE  PriceKept(Value, totalShares, Value', totalShares')
  <2> USE <1>1
  <2>1. CASE StakerNext
    <3>1. CASE ShareStep
      <4>1. UNCHANGED <<totalShares, requestVars, distributorSet, distributorVars, assetVars>>
          BY <3>1 DEF ShareStep, TransferShares, ownerVars
      <4>2. QED
          BY <4>1, QuietPrice
    <3>2. QED
        BY <2>1, <3>1, StakerSteps, TakeInPrice, PayOutPrice, RequestPrice, ClaimPrice, CancelPrice
  <2>2. CASE OwnerNext
    <3>1. UNCHANGED <<totalShares, requestVars, distributorSet, distributorVars, assetVars>>
        BY <2>2 DEF OwnerNext, UpdateCooldownDuration, UpdateCooldownEnabled,
                    UpdateInstantWithdrawWhitelist, UpdateYieldDistributor, OwnerOnly, shareVars
    <3>2. QED
        BY <3>1, QuietPrice
  <2>3. CASE DistributorNext /\ UNCHANGED vaultVars
      BY <2>3, DistributorPrice
  <2>4. CASE AssetNext /\ UNCHANGED <<distributorVars, vaultVars>>
      BY <2>4, AssetPrice
  <2>5. CASE UNCHANGED vars
    <3>1. UNCHANGED <<totalShares, requestVars, distributorSet, distributorVars, assetVars>>
        BY <2>5 DEF vars, vaultVars, shareVars, ownerVars
    <3>2. QED
        BY <3>1, QuietPrice
  <2>6. QED
      BY <2>1, <2>2, <2>3, <2>4, <2>5 DEF Next
<1>2. VaultInv /\ VaultInv' /\ [Next]_vars =>
        (distributorSet' = distributorSet =>
            (Value' + 1) * (totalShares + 1) >= (Value + 1) * (totalShares' + 1))
    BY <1>1 DEF PriceKept
<1>3. QED
    BY <1>2, VaultInvariant, PTL DEF Spec, SharePriceNeverFalls
=============================================================================
