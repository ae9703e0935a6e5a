----------------------------- MODULE VetroProofs -----------------------------
(***************************************************************************)
(* Theorems about the mint-and-redeem core, for all values of its          *)
(* constants: types and bounds (CoreInv), the safety invariants that are   *)
(* inductive on top of it, and what is about sums over users and tokens,   *)
(* by the lemmas of ArithmeticProofs: what the Gateway holds for its users *)
(* and what the Treasury holds against the supply, through mints,          *)
(* redemptions and harvests.                                               *)
(***************************************************************************)
EXTENDS VetroHistory, ArithmeticProofs

-----------------------------------------------------------------------------
(* Prices and previews.                                                    *)

LEMMA BpsType ==
    ASSUME NEW n \in Nat, NEW bps \in Nat
    PROVE  Bps(n, bps) \in Nat
<1>1. n * bps \in Nat
    OBVIOUS
<1>2. QED
    BY <1>1, TreasuryAssumption DEF Bps

\* The Gateway never mints above par and never redeems below it.
LEMMA PriceBounds ==
    ASSUME TypeOK, NEW t \in Tokens, Priced(t)
    PROVE  /\ MintPrice(t) \in Nat \ {0}
           /\ MintPrice(t) <= UNIT
           /\ RedeemPrice(t) \in Nat \ {0}
           /\ RedeemPrice(t) >= UNIT
<1>1. config[t] \in TokenConfigs /\ config[t].oracle \in Oracles /\ config[t].pegBand \in Nat
    BY DEF TypeOK, TreasuryTypeOK, TokenConfigs, Priced
<1>2. OraclePrice(t) \in Int /\ OraclePrice(t) > 0
    BY <1>1 DEF TypeOK, ExternalsTypeOK, Rounds, Priced, OracleAnswers, OraclePrice
<1>3. Bps(UNIT, config[t].pegBand) \in Nat /\ UNIT \in Nat \ {0}
    BY <1>1, BpsType, ExternalsAssumption
<1>4. QED
    BY <1>2, <1>3 DEF MintPrice, RedeemPrice

LEMMA AfterFeeBounds ==
    ASSUME NEW n \in Nat, NEW fee \in 0..MAX_FEE_BPS
    PROVE  AfterFee(n, fee) \in Nat /\ AfterFee(n, fee) <= n
<1>1. MAX_BPS - fee \in Nat /\ MAX_BPS - fee <= MAX_BPS /\ MAX_BPS \in Nat \ {0}
    BY TreasuryAssumption, GatewayAssumption
<1>2. MulDiv(n, MAX_BPS - fee, MAX_BPS) \in Nat /\ MulDiv(n, MAX_BPS - fee, MAX_BPS) <= n
    BY <1>1, MulDivType, MulDivAtMost
<1>3. QED
    BY <1>2 DEF AfterFee

\* What a deposit mints is worth no more at par than the collateral.
LEMMA PreviewDepositBounds ==
    ASSUME TypeOK, NEW t \in Tokens, Priced(t), NEW n \in Nat
    PROVE  PreviewDeposit(t, n) \in Nat /\ PreviewDeposit(t, n) <= n * Scale[t]
<1> DEFINE kept == AfterFee(n, mintFee[t])
           out == MulDiv(kept, MintPrice(t), UNIT)
<1>1. kept \in Nat /\ kept <= n
    BY AfterFeeBounds DEF TypeOK, GatewayTypeOK
<1>2. UNIT \in Nat \ {0} /\ Scale[t] \in Nat \ {0}
    BY ExternalsAssumption, TreasuryAssumption
<1>3. out \in Nat /\ out <= kept
    BY <1>1, <1>2, PriceBounds, MulDivType, MulDivAtMost
<1> HIDE DEF kept, out
<1>4. out * Scale[t] \in Nat /\ out * Scale[t] <= n * Scale[t]
    BY <1>1, <1>2, <1>3
<1>5. QED
    BY <1>4 DEF PreviewDeposit, kept, out

\* What a redemption pays is worth no more at par than what it burns.
LEMMA PreviewRedeemBounds ==
    ASSUME TypeOK, NEW t \in Tokens, Priced(t), NEW n \in Nat
    PROVE  PreviewRedeem(t, n) \in Nat /\ PreviewRedeem(t, n) * Scale[t] <= n
<1> DEFINE kept == AfterFee(n, redeemFee[t])
           raw == MulDiv(kept, UNIT, RedeemPrice(t))
<1>1. kept \in Nat /\ kept <= n
    BY AfterFeeBounds DEF TypeOK, GatewayTypeOK
<1>2. UNIT \in Nat \ {0} /\ Scale[t] \in Nat \ {0}
    BY ExternalsAssumption, TreasuryAssumption
<1>3. raw \in Nat /\ raw <= kept
    BY <1>1, <1>2, PriceBounds, MulDivType, MulDivAtMost
<1> HIDE DEF kept, raw
<1>4. raw \div Scale[t] \in Nat /\ (raw \div Scale[t]) * Scale[t] <= raw
    BY <1>2, <1>3, DivMulAtMost
<1>5. QED
    BY <1>1, <1>2, <1>3, <1>4 DEF PreviewRedeem, kept, raw

\* mint takes at least what the tokens are worth at par.
LEMMA PreviewMintBounds ==
    ASSUME TypeOK, NEW t \in Tokens, Priced(t), MintQuotable(t), NEW n \in Nat
    PROVE  PreviewMint(t, n) \in Nat /\ n <= PreviewMint(t, n) * Scale[t]
<1> DEFINE one == One[t]
           rate == PreviewDeposit(t, One[t])
           in == PreviewMint(t, n)
           scale == Scale[t]
<1>1. one \in Nat \ {0} /\ scale \in Nat \ {0}
    BY GatewayAssumption, TreasuryAssumption
<1>2. rate \in Nat \ {0} /\ rate <= one * scale
    BY <1>1, PreviewDepositBounds DEF MintQuotable
<1>3. in = MulDivUp(n, one, rate)
    BY DEF PreviewMint
<1> HIDE DEF one, rate, in, scale
<1>4. in \in Nat
    BY <1>1, <1>2, <1>3, MulDivType
<1>5. n * one <= in * rate
    BY <1>1, <1>2, <1>3, <1>4 DEF MulDivUp
<1>6. in * rate <= in * (one * scale)
    BY <1>1, <1>2, <1>4
<1>7. n <= in * scale
    BY <1>1, <1>2, <1>4, <1>5, <1>6
<1>8. QED
    BY <1>4, <1>7 DEF in, scale

\* withdraw burns at least what it pays is worth at par.
LEMMA PreviewWithdrawBounds ==
    ASSUME TypeOK, NEW t \in Tokens, Priced(t), WithdrawQuotable(t), NEW n \in Nat
    PROVE  PreviewWithdraw(t, n) \in Nat /\ n * Scale[t] <= PreviewWithdraw(t, n)
<1> DEFINE one == OnePegged
           rate == PreviewRedeem(t, OnePegged)
           burn == PreviewWithdraw(t, n)
           scale == Scale[t]
<1>1. scale \in Nat \ {0} /\ one \in Nat
  <2>1. One[t] \in Nat \ {0} /\ Scale[t] \in Nat \ {0} /\ OnePegged = One[t] * Scale[t]
      BY GatewayAssumption, TreasuryAssumption
  <2>2. QED
      BY <2>1
<1>2. rate \in Nat \ {0} /\ rate * scale <= one
    BY <1>1, PreviewRedeemBounds DEF WithdrawQuotable
<1>3. burn = MulDivUp(n, one, rate)
    BY DEF PreviewWithdraw
<1> HIDE DEF one, rate, burn, scale
<1>4. burn \in Nat
    BY <1>1, <1>2, <1>3, MulDivType
<1>5. n * one <= burn * rate
    BY <1>1, <1>2, <1>3, <1>4 DEF MulDivUp
<1>6. n * (rate * scale) <= n * one
    BY <1>1, <1>2
<1>7. (n * scale) * rate <= burn * rate
    BY <1>1, <1>2, <1>4, <1>5, <1>6
<1>8. n * scale <= burn
    BY <1>1, <1>2, <1>4, <1>7
<1>9. QED
    BY <1>4, <1>8 DEF burn, scale

-----------------------------------------------------------------------------
(* Type correctness, and AMO supply within total supply.  Neither is       *)
(* inductive alone: the supply stays natural because redemptions stop at   *)
(* amoSupply and burnFromAMO lowers both.                                  *)

CoreInv == TypeOK /\ AmoWithinSupply

\* The arguments of a transaction are naturals.
LEMMA InputTypes ==
    /\ TransferAmounts \subseteq Nat /\ CollateralAmounts \subseteq Nat
    /\ PeggedAmounts \subseteq Nat /\ AmoAmounts \subseteq Nat
    BY PeggedTokenAssumption, GatewayAssumption

LEMMA TreasuryDepositType ==
    ASSUME TypeOK, NEW t \in Tokens, NEW n \in Nat, TreasuryDeposit(t, n)
    PROVE  TreasuryTypeOK' /\ idle' \in [Tokens -> Nat] /\ invested' \in [Tokens -> Nat]
<1>1. config[t] \in TokenConfigs /\ config[t].netDeposited + n \in Nat
    BY DEF TypeOK, TreasuryTypeOK, TokenConfigs
<1>2. [config[t] EXCEPT !.netDeposited = @ + n] \in TokenConfigs
    BY <1>1 DEF TokenConfigs
<1>3. config' \in [Tokens -> TokenConfigs]
    BY <1>2 DEF TypeOK, TreasuryTypeOK, TreasuryDeposit
<1>4. idle' \in [Tokens -> Nat] /\ invested' \in [Tokens -> Nat]
    BY DEF TypeOK, ExternalsTypeOK, TreasuryDeposit
<1>5. QED
    BY <1>3, <1>4 DEF TypeOK, TreasuryTypeOK, TreasuryDeposit

LEMMA PayOutType ==
    ASSUME TypeOK, NEW t \in Tokens, NEW n \in Nat, PayOut(t, n)
    PROVE  idle' \in [Tokens -> Nat] /\ invested' \in [Tokens -> Nat]
    BY DEF TypeOK, ExternalsTypeOK, PayOut, Held, Monus

LEMMA TreasuryWithdrawType ==
    ASSUME TypeOK, NEW t \in Tokens, NEW n \in Nat, NEW r, TreasuryWithdraw(t, n, r)
    PROVE  TreasuryTypeOK' /\ idle' \in [Tokens -> Nat] /\ invested' \in [Tokens -> Nat]
<1>1. TreasuryTypeOK'
    BY DEF TypeOK, TreasuryTypeOK, TokenConfigs, TreasuryWithdraw, Monus
<1>2. PayOut(t, n)
    BY DEF TreasuryWithdraw
<1>3. QED
    BY <1>1, <1>2, PayOutType

LEMMA ExecuteDepositInv ==
    ASSUME CoreInv, NEW u \in Users, NEW t \in Tokens, NEW in \in Nat, NEW out \in Nat,
           NEW r \in Accounts, ExecuteDeposit(u, t, in, out, r)
    PROVE  CoreInv'
<1>1. TreasuryTypeOK' /\ idle' \in [Tokens -> Nat] /\ invested' \in [Tokens -> Nat]
    BY TreasuryDepositType DEF CoreInv, ExecuteDeposit
<1>2. TokenTypeOK' /\ amoSupply' <= supply'
    BY DEF CoreInv, TypeOK, TokenTypeOK, GatewayTypeOK, AmoWithinSupply, ExecuteDeposit, TokenMint,
           gatewayVars, amoVars
<1>3. ExternalsTypeOK' /\ GatewayTypeOK'
    BY <1>1 DEF CoreInv, TypeOK, ExternalsTypeOK, GatewayTypeOK, ExecuteDeposit, marketVars,
                gatewayVars, amoVars, settingVars
<1>4. QED
    BY <1>1, <1>2, <1>3 DEF CoreInv, TypeOK, AmoWithinSupply

LEMMA TokenBurnFromType ==
    ASSUME TokenTypeOK, NEW a \in Accounts, NEW n \in Nat, TokenBurnFrom(a, n)
    PROVE  balance' \in [Accounts -> Nat] /\ supply' \in Int /\ UNCHANGED blacklist
<1>1. balance[a] - n \in Nat
    BY DEF TokenTypeOK, TokenBurnFrom
<1>2. QED
    BY <1>1 DEF TokenTypeOK, TokenBurnFrom

LEMMA ReduceRequestType ==
    ASSUME NEW q \in Requests, NEW n \in Nat, n <= q.amountLocked
    PROVE  [q EXCEPT !.amountLocked = @ - n] \in Requests
<1>1. q.amountLocked - n \in Nat
    BY DEF Requests
<1>2. QED
    BY <1>1 DEF Requests

LEMMA HandleRedeemOrWithdrawInv ==
    ASSUME CoreInv, NEW u \in Users, NEW t \in Tokens, NEW burn \in Nat, NEW out \in Nat,
           NEW r, HandleRedeemOrWithdraw(u, t, burn, out, r)
    PROVE  CoreInv'
<1>1. TreasuryTypeOK' /\ idle' \in [Tokens -> Nat] /\ invested' \in [Tokens -> Nat]
    BY TreasuryWithdrawType DEF CoreInv, HandleRedeemOrWithdraw
<1>2. GatewayAddr \in Accounts /\ u \in Accounts /\ u # GatewayAddr
    BY PeggedTokenAssumption DEF Users
<1>3. redeemRequests \in [Users -> Requests] /\ balance \in [Accounts -> Nat] /\ supply \in Nat
      /\ amoSupply \in Nat /\ redeemRequests[u] \in Requests
    BY DEF CoreInv, TypeOK, GatewayTypeOK, TokenTypeOK
<1>4. /\ balance' \in [Accounts -> Nat]
      /\ supply' \in Int
      /\ UNCHANGED blacklist
      /\ redeemRequests' \in [Users -> Requests]
  <2>1. CASE BurnFromWallet(u, burn)
      BY <1>2, <1>3, <2>1 DEF BurnFromWallet, TokenBurnFrom
  <2>2. CASE BurnLocked(u, burn)
    <3>1. PICK locked \in Nat : locked = redeemRequests[u].amountLocked
        BY <1>3 DEF Requests
    <3>2. burn <= locked /\ TokenBurnFrom(GatewayAddr, burn) /\ locked - burn \in Nat
        BY <2>2, <3>1 DEF BurnLocked
    <3>3. balance' \in [Accounts -> Nat] /\ supply' \in Int /\ UNCHANGED blacklist
      <4>1. TokenTypeOK
          BY DEF CoreInv, TypeOK
      <4>2. QED
          BY <1>2, <3>2, <4>1, TokenBurnFromType
    <3>4. [redeemRequests[u] EXCEPT !.amountLocked = @ - burn] \in Requests
        BY <1>3, <3>1, <3>2, ReduceRequestType
    <3>5. redeemRequests' \in [Users -> Requests]
      <4>1. NoRequest \in Requests
          BY DEF NoRequest, Requests
      <4>2. QED
          BY <1>3, <2>2, <3>4, <4>1 DEF BurnLocked
    <3>6. QED
        BY <3>3, <3>5
  <2>3. CASE BurnLockedAndWallet(u, burn)
    <3>1. PICK locked \in Nat : locked = redeemRequests[u].amountLocked
        BY <1>3 DEF Requests
    <3>2. TokenBurnFromBoth(u, locked, burn - locked) /\ burn - locked \in Nat
        BY <2>3, <3>1 DEF BurnLockedAndWallet
    <3>3. balance' \in [Accounts -> Nat] /\ supply' \in Int /\ UNCHANGED blacklist
        BY <1>2, <1>3, <3>2 DEF TokenBurnFromBoth
    <3>4. redeemRequests' \in [Users -> Requests]
        BY <1>3, <2>3 DEF BurnLockedAndWallet, Requests, NoRequest
    <3>5. QED
        BY <3>3, <3>4
  <2>4. BurnFromWallet(u, burn) \/ BurnLocked(u, burn) \/ BurnLockedAndWallet(u, burn)
      BY DEF HandleRedeemOrWithdraw
  <2>5. QED
      BY <2>1, <2>2, <2>3, <2>4
<1>5. UNCHANGED <<marketVars, amoVars, settingVars>> /\ supply' >= amoSupply
    BY DEF HandleRedeemOrWithdraw, AmoStillBacked
<1>6. TokenTypeOK' /\ amoSupply' <= supply'
    BY <1>3, <1>4, <1>5 DEF CoreInv, TypeOK, TokenTypeOK, amoVars
<1>7. ExternalsTypeOK' /\ GatewayTypeOK'
    BY <1>1, <1>4, <1>5 DEF CoreInv, TypeOK, ExternalsTypeOK, GatewayTypeOK, marketVars,
                amoVars, settingVars
<1>8. QED
    BY <1>1, <1>6, <1>7 DEF CoreInv, TypeOK, AmoWithinSupply

LEMMA UserNextInv ==
    ASSUME CoreInv, UserNext
    PROVE  CoreInv'
<1>1. PICK u \in Users :
        \/ \E t \in Tokens, r \in Receivers \cap Accounts :
            \/ \E n \in CollateralAmounts : Deposit(u, t, n, r)
            \/ \E n \in PeggedAmounts : Mint(u, t, n, r)
        \/ \E t \in Tokens, r \in Receivers :
            \/ \E n \in CollateralAmounts : Withdraw(u, t, n, r)
            \/ \E n \in PeggedAmounts : Redeem(u, t, n, r)
        \/ \E n \in PeggedAmounts : RequestRedeem(u, n)
        \/ CancelRedeemRequest(u)
    BY DEF UserNext
<1>2. TypeOK
    BY DEF CoreInv
<1>3. GatewayAddr \in Accounts /\ u \in Accounts /\ u # GatewayAddr
    BY PeggedTokenAssumption DEF Users
<1>4. ASSUME NEW t \in Tokens, NEW r \in Accounts, NEW n \in CollateralAmounts, Deposit(u, t, n, r)
      PROVE  CoreInv'
    BY <1>2, <1>4, InputTypes, PreviewDepositBounds, ExecuteDepositInv DEF Deposit
<1>5. ASSUME NEW t \in Tokens, NEW r \in Accounts, NEW n \in PeggedAmounts, Mint(u, t, n, r)
      PROVE  CoreInv'
    BY <1>2, <1>5, InputTypes, PreviewMintBounds, ExecuteDepositInv DEF Mint
<1>6. ASSUME NEW t \in Tokens, NEW r, NEW n \in CollateralAmounts, Withdraw(u, t, n, r)
      PROVE  CoreInv'
    BY <1>2, <1>6, InputTypes, PreviewWithdrawBounds, HandleRedeemOrWithdrawInv DEF Withdraw
<1>7. ASSUME NEW t \in Tokens, NEW r, NEW n \in PeggedAmounts, Redeem(u, t, n, r)
      PROVE  CoreInv'
    BY <1>2, <1>7, InputTypes, PreviewRedeemBounds, HandleRedeemOrWithdrawInv DEF Redeem
<1>8. ASSUME NEW n \in PeggedAmounts, RequestRedeem(u, n)
      PROVE  CoreInv'
  <2>1. n \in Nat /\ redeemRequests[u].amountLocked \in Nat /\ now + withdrawalDelay \in Nat
      BY <1>2, <1>8, InputTypes, GatewayAssumption
         DEF TypeOK, GatewayTypeOK, ExternalsTypeOK, Requests
  <2>2. TokenTypeOK' /\ UNCHANGED supply
      BY <1>2, <1>3, <1>8, <2>1 DEF TypeOK, TokenTypeOK, RequestRedeem, TokenMove
  <2>3. redeemRequests' \in [Users -> Requests]
      BY <1>2, <1>8, <2>1 DEF TypeOK, GatewayTypeOK, RequestRedeem, Requests
  <2>4. QED
      BY <1>2, <1>8, <2>2, <2>3
         DEF CoreInv, TypeOK, AmoWithinSupply, ExternalsTypeOK, TreasuryTypeOK, GatewayTypeOK,
             RequestRedeem, marketVars, collateralVars, treasuryVars, amoVars, settingVars
<1>9. ASSUME CancelRedeemRequest(u)
      PROVE  CoreInv'
  <2>1. redeemRequests[u].amountLocked \in Nat
      BY <1>2 DEF TypeOK, GatewayTypeOK, Requests
  <2>2. TokenTypeOK' /\ UNCHANGED supply
      BY <1>2, <1>3, <1>9, <2>1 DEF TypeOK, TokenTypeOK, CancelRedeemRequest, TokenMove
  <2>3. redeemRequests' \in [Users -> Requests]
      BY <1>2, <1>9 DEF TypeOK, GatewayTypeOK, CancelRedeemRequest, Requests, NoRequest
  <2>4. QED
      BY <1>2, <1>9, <2>2, <2>3
         DEF CoreInv, TypeOK, AmoWithinSupply, ExternalsTypeOK, TreasuryTypeOK, GatewayTypeOK,
             CancelRedeemRequest, marketVars, collateralVars, treasuryVars, amoVars, settingVars
<1>10. QED
    BY <1>1, <1>4, <1>5, <1>6, <1>7, <1>8, <1>9

LEMMA UmmNextInv ==
    ASSUME CoreInv, UmmNext
    PROVE  CoreInv'
<1>1. TypeOK /\ amoSupply <= supply
    BY DEF CoreInv, AmoWithinSupply
<1>2. ASSUME NEW n \in AmoAmounts, NEW a \in Accounts, MintToAMO(n, a)
      PROVE  CoreInv'
    BY <1>1, <1>2, InputTypes
       DEF CoreInv, TypeOK, AmoWithinSupply, ExternalsTypeOK, TokenTypeOK, TreasuryTypeOK,
           GatewayTypeOK, MintToAMO, TokenMint, marketVars, collateralVars, treasuryVars, settingVars
<1>3. ASSUME NEW a \in UMMs, NEW n \in AmoAmounts, BurnFromAMO(a, n)
      PROVE  CoreInv'
  <2>1. a \in Accounts /\ n \in Nat
      BY <1>3, InputTypes, GatewayAssumption DEF Users
  <2>2. TokenTypeOK' /\ amoSupply' \in Nat /\ amoSupply' <= supply'
      BY <1>1, <1>3, <2>1 DEF TypeOK, TokenTypeOK, GatewayTypeOK, BurnFromAMO, TokenBurnFrom
  <2>3. QED
      BY <1>1, <1>3, <2>2
         DEF CoreInv, TypeOK, AmoWithinSupply, ExternalsTypeOK, TreasuryTypeOK, GatewayTypeOK,
             BurnFromAMO, marketVars, collateralVars, treasuryVars, settingVars
<1>4. ASSUME NEW t \in Tokens, NEW r, HarvestExcess(t, r)
      PROVE  CoreInv'
  <2>1. PICK paid \in Nat : PayOut(t, paid)
      BY <1>4 DEF HarvestExcess, Harvest
  <2>2. idle' \in [Tokens -> Nat] /\ invested' \in [Tokens -> Nat]
      BY <1>1, <2>1, PayOutType
  <2>3. QED
      BY <1>1, <1>4, <2>2
         DEF CoreInv, TypeOK, AmoWithinSupply, ExternalsTypeOK, TokenTypeOK, TreasuryTypeOK,
             GatewayTypeOK, HarvestExcess, Harvest, marketVars, tokenVars, treasuryVars,
             gatewayVars, amoVars, settingVars
<1>5. QED
    BY <1>2, <1>3, <1>4 DEF UmmNext

LEMMA SettingsNextInv ==
    ASSUME CoreInv, SettingsNext
    PROVE  CoreInv'
<1>1. UNCHANGED <<marketVars, collateralVars, treasuryVars, tokenVars, redeemRequests>>
    BY DEF SettingsNext, SettingsOnly, UpdateAmoMintLimit, UpdateMintLimit, UpdateMintFee,
           UpdateRedeemFee, UpdateWithdrawalDelay, SetWithdrawalDelayEnabled,
           AddToInstantRedeemWhitelist, RemoveFromInstantRedeemWhitelist
<1>2. UNCHANGED amoSupply
    BY DEF SettingsNext, UpdateAmoMintLimit, UpdateMintLimit, UpdateMintFee, UpdateRedeemFee,
           UpdateWithdrawalDelay, SetWithdrawalDelayEnabled, AddToInstantRedeemWhitelist,
           RemoveFromInstantRedeemWhitelist, amoVars
<1>3. GatewayTypeOK'
  <2> USE <1>1, <1>2 DEF CoreInv, TypeOK, GatewayTypeOK, amoVars, settingVars
  <2>1. ASSUME NEW limit \in Limits, UpdateAmoMintLimit(limit) \/ UpdateMintLimit(limit)
        PROVE  GatewayTypeOK'
      BY <2>1, GatewayAssumption DEF UpdateAmoMintLimit, UpdateMintLimit
  <2>2. ASSUME NEW t \in Tokens, NEW fee \in Fees, UpdateMintFee(t, fee) \/ UpdateRedeemFee(t, fee)
        PROVE  GatewayTypeOK'
    <3>1. fee \in 0..MAX_FEE_BPS
        BY <2>2, GatewayAssumption DEF UpdateMintFee, UpdateRedeemFee
    <3>2. QED
        BY <2>2, <3>1 DEF UpdateMintFee, UpdateRedeemFee
  <2>3. ASSUME NEW delay \in Delays, UpdateWithdrawalDelay(delay)
        PROVE  GatewayTypeOK'
    <3>1. delay \in 1..MAX_WITHDRAWAL_DELAY
        BY <2>3, GatewayAssumption DEF UpdateWithdrawalDelay
    <3>2. QED
        BY <2>3, <3>1 DEF UpdateWithdrawalDelay
  <2>4. ASSUME NEW enabled \in DelaySwitches, SetWithdrawalDelayEnabled(enabled)
        PROVE  GatewayTypeOK'
      BY <2>4, GatewayAssumption DEF SetWithdrawalDelayEnabled
  <2>5. ASSUME NEW a \in Exemptable,
               AddToInstantRedeemWhitelist(a) \/ RemoveFromInstantRedeemWhitelist(a)
        PROVE  GatewayTypeOK'
      BY <2>5, GatewayAssumption
         DEF AddToInstantRedeemWhitelist, RemoveFromInstantRedeemWhitelist
  <2>6. QED
      BY <2>1, <2>2, <2>3, <2>4, <2>5 DEF SettingsNext
<1>4. QED
    BY <1>1, <1>2, <1>3
       DEF CoreInv, TypeOK, AmoWithinSupply, ExternalsTypeOK, TokenTypeOK, TreasuryTypeOK,
           marketVars, collateralVars, tokenVars, treasuryVars

LEMMA TreasuryNextType ==
    ASSUME TypeOK, TreasuryNext
    PROVE  TreasuryTypeOK' /\ idle' \in [Tokens -> Nat] /\ invested' \in [Tokens -> Nat]
<1> USE DEF TypeOK, TreasuryTypeOK, ExternalsTypeOK, treasuryVars, collateralVars
<1>1. ASSUME NEW t \in Tokens, NEW o \in Oracles, NEW stale \in StalePeriods,
             AddToWhitelist(t, o, stale) \/ UpdateOracle(t, o, stale)
      PROVE  TreasuryTypeOK' /\ UNCHANGED collateralVars
  <2>1. stale \in Nat
      BY TreasuryAssumption
  <2>2. CASE AddToWhitelist(t, o, stale)
    <3>1. [oracle |-> o, stalePeriod |-> stale, depositActive |-> TRUE, withdrawActive |-> TRUE,
           depositCap |-> UINT_MAX, netDeposited |-> 0, pegBand |-> 0] \in TokenConfigs
        BY <2>1, TreasuryAssumption DEF TokenConfigs
    <3>2. QED
        BY <2>2, <3>1 DEF AddToWhitelist
  <2>3. CASE UpdateOracle(t, o, stale)
    <3>1. config' \in [Tokens -> TokenConfigs]
        BY <2>1, <2>3 DEF UpdateOracle, TokenConfigs
    <3>2. QED
        BY <2>3, <3>1 DEF UpdateOracle
  <2>4. QED
      BY <1>1, <2>2, <2>3
<1>2. ASSUME NEW t, RemoveFromWhitelist(t)
      PROVE  TreasuryTypeOK' /\ UNCHANGED collateralVars
    BY <1>2 DEF RemoveFromWhitelist, TokenConfigs, NoConfig
<1>3. ASSUME NEW t, Sweep(t)
      PROVE  TreasuryTypeOK' /\ idle' \in [Tokens -> Nat] /\ UNCHANGED invested
    BY <1>3 DEF Sweep
<1>4. ASSUME NEW on \in BOOLEAN, UpdateSanctionsList(on)
      PROVE  TreasuryTypeOK' /\ UNCHANGED collateralVars
    BY <1>4 DEF UpdateSanctionsList
<1>5. ASSUME NEW t \in Tokens, NEW n \in Nat, Pull(t, n) \/ Push(t, n)
      PROVE  TreasuryTypeOK' /\ idle' \in [Tokens -> Nat] /\ invested' \in [Tokens -> Nat]
    BY <1>5, TreasuryAssumption DEF Pull, Push
<1>6. ASSUME NEW t, NEW active \in BOOLEAN, SetDepositActive(t, active) \/ SetWithdrawActive(t, active)
      PROVE  TreasuryTypeOK' /\ UNCHANGED collateralVars
    BY <1>6 DEF SetDepositActive, SetWithdrawActive, TokenConfigs
<1>7. ASSUME NEW t \in Tokens, NEW s \in Tokens, NEW n \in Nat, NEW k \in Nat, Swap(t, s, n, k)
      PROVE  TreasuryTypeOK' /\ idle' \in [Tokens -> Nat] /\ UNCHANGED invested
    BY <1>7 DEF Swap
<1>8. ASSUME NEW t \in Tokens, NEW n \in Nat, UpdateDepositCap(t, n) \/ UpdatePegBand(t, n)
      PROVE  TreasuryTypeOK' /\ UNCHANGED collateralVars
    BY <1>8 DEF UpdateDepositCap, UpdatePegBand, TokenConfigs
<1>9. ASSUME NEW tolerance \in Nat, UpdatePriceTolerance(tolerance)
      PROVE  TreasuryTypeOK' /\ UNCHANGED collateralVars
    BY <1>9, TreasuryAssumption DEF UpdatePriceTolerance
<1>10. ASSUME NEW s \in Swappers, UpdateSwapper(s)
       PROVE  TreasuryTypeOK' /\ UNCHANGED collateralVars
    BY <1>10 DEF UpdateSwapper
<1>11. QED
  <2>1. StalePeriods \subseteq Nat /\ VaultMoves \subseteq Nat /\ SwapOuts \subseteq Nat
        /\ Caps \subseteq Nat /\ Bands \subseteq Nat /\ Tolerances \subseteq Nat
        /\ SanctionsSwitches \subseteq BOOLEAN
      BY TreasuryAssumption
  <2>2. SUFFICES TreasuryTypeOK' /\ idle' \in [Tokens -> Nat] /\ invested' \in [Tokens -> Nat]
      OBVIOUS
  <2>3. CASE \E t \in Tokens, o \in Oracles, stale \in StalePeriods :
                AddToWhitelist(t, o, stale) \/ UpdateOracle(t, o, stale)
      BY <1>1, <2>3
  <2>4. CASE \E t \in Removable : RemoveFromWhitelist(t) \/ Sweep(t)
      BY <1>2, <1>3, <2>4
  <2>5. CASE \E on \in SanctionsSwitches : UpdateSanctionsList(on)
      BY <1>4, <2>1, <2>5
  <2>6. CASE \E t \in Tokens, n \in VaultMoves : Pull(t, n) \/ Push(t, n)
      BY <1>5, <2>1, <2>6
  <2>7. CASE \E t \in Pausable, active \in BOOLEAN :
                SetDepositActive(t, active) \/ SetWithdrawActive(t, active)
      BY <1>6, <2>7
  <2>8. CASE \E tokenIn, tokenOut \in Tokens, n \in VaultMoves, m \in SwapOuts :
                Swap(tokenIn, tokenOut, n, m)
      BY <1>7, <2>1, <2>8
  <2>9. CASE \E t \in Tokens, cap \in Caps : UpdateDepositCap(t, cap)
      BY <1>8, <2>1, <2>9
  <2>10. CASE \E t \in Tokens, band \in Bands : UpdatePegBand(t, band)
      BY <1>8, <2>1, <2>10
  <2>11. CASE \E tolerance \in Tolerances : UpdatePriceTolerance(tolerance)
      BY <1>9, <2>1, <2>11
  <2>12. CASE \E s \in Swappers : UpdateSwapper(s)
      BY <1>10, <2>12
  <2>13. QED
      BY <2>3, <2>4, <2>5, <2>6, <2>7, <2>8, <2>9, <2>10, <2>11, <2>12 DEF TreasuryNext

LEMMA TokenNextType ==
    ASSUME TypeOK, TokenNext
    PROVE  TokenTypeOK' /\ UNCHANGED supply
<1>1. ASSUME NEW from \in Users, NEW to \in Accounts, NEW n \in TransferAmounts,
             TokenTransfer(from, to, n)
      PROVE  TokenTypeOK' /\ UNCHANGED supply
    BY <1>1, InputTypes DEF TypeOK, TokenTypeOK, TokenTransfer, TokenMove, Users
<1>2. ASSUME NEW a \in Blacklistable, AddToBlacklist(a) \/ RemoveFromBlacklist(a)
      PROVE  TokenTypeOK' /\ UNCHANGED supply
    BY <1>2, PeggedTokenAssumption
       DEF TypeOK, TokenTypeOK, AddToBlacklist, RemoveFromBlacklist
<1>3. QED
    BY <1>1, <1>2 DEF TokenNext

LEMMA ExternalsNextType ==
    ASSUME TypeOK, ExternalsNext
    PROVE  ExternalsTypeOK'
<1> USE DEF TypeOK, ExternalsTypeOK, marketVars, collateralVars
<1>1. CASE Tick
    BY <1>1 DEF Tick
<1>2. ASSUME NEW o \in Oracles, NEW p \in Prices, NEW skew \in FeedSkews, AnswerRound(o, p, skew)
      PROVE  ExternalsTypeOK'
    BY <1>2, ExternalsAssumption DEF AnswerRound, Rounds
<1>3. ASSUME NEW X \in SUBSET Listable, SetListed(X)
      PROVE  ExternalsTypeOK'
    BY <1>3, ExternalsAssumption DEF SetListed
<1>4. ASSUME NEW t \in Tokens, NEW n \in Nat, EarnYield(t, n) \/ LoseYield(t, n) \/ Donate(t, n)
      PROVE  ExternalsTypeOK'
    BY <1>4 DEF EarnYield, LoseYield, Donate
<1>5. QED
  <2>1. YieldAmounts \subseteq Nat /\ LossAmounts \subseteq Nat /\ Donations \subseteq Nat
      BY ExternalsAssumption
  <2>2. CASE \E o \in Oracles, p \in Prices, skew \in FeedSkews : AnswerRound(o, p, skew)
      BY <1>2, <2>2
  <2>3. CASE \E S \in SUBSET Listable : SetListed(S)
      BY <1>3, <2>3
  <2>4. CASE \E t \in Tokens :
                \/ \E n \in YieldAmounts : EarnYield(t, n)
                \/ \E n \in LossAmounts : LoseYield(t, n)
                \/ \E n \in Donations : Donate(t, n)
      BY <1>4, <2>1, <2>4
  <2>5. QED
      BY <1>1, <2>2, <2>3, <2>4 DEF ExternalsNext

-----------------------------------------------------------------------------
LEMMA InitInv == Init => CoreInv
<1> SUFFICES ASSUME Init
             PROVE  CoreInv
    OBVIOUS
<1>1. ExternalsTypeOK
  <2>1. [price |-> UNIT, updatedAt |-> 0] \in Rounds
      BY ExternalsAssumption DEF Rounds
  <2>2. QED
      BY <2>1 DEF Init, ExternalsInit, ExternalsTypeOK
<1>2. TokenTypeOK /\ supply = 0
    BY DEF Init, TokenInit, TokenTypeOK
<1>3. TreasuryTypeOK
  <2>1. NoConfig \in TokenConfigs
      BY DEF NoConfig, TokenConfigs
  <2>2. QED
      BY <2>1, TreasuryAssumption DEF Init, TreasuryInit, TreasuryTypeOK
<1>4. GatewayTypeOK /\ amoSupply = 0
  <2>1. NoRequest \in Requests
      BY DEF NoRequest, Requests
  <2>2. QED
      BY <2>1, TreasuryAssumption, GatewayAssumption DEF Init, GatewayInit, GatewayTypeOK
<1>5. QED
    BY <1>1, <1>2, <1>3, <1>4 DEF CoreInv, TypeOK, AmoWithinSupply

LEMMA NextInv == CoreInv /\ [Next]_vars => CoreInv'
<1> SUFFICES ASSUME CoreInv, [Next]_vars
             PROVE  CoreInv'
    OBVIOUS
<1>1. CASE UserNext
    BY <1>1, UserNextInv
<1>2. CASE UmmNext
    BY <1>2, UmmNextInv
<1>3. CASE SettingsNext
    BY <1>3, SettingsNextInv
<1>4. CASE TreasuryNext /\ UNCHANGED <<marketVars, tokenVars, gatewayVars>>
    BY <1>4, TreasuryNextType
       DEF CoreInv, TypeOK, AmoWithinSupply, ExternalsTypeOK, TokenTypeOK, GatewayTypeOK,
           marketVars, tokenVars, gatewayVars, amoVars, settingVars
<1>5. CASE TokenNext /\ UNCHANGED <<marketVars, collateralVars, treasuryVars, gatewayVars>>
    BY <1>5, TokenNextType
       DEF CoreInv, TypeOK, AmoWithinSupply, ExternalsTypeOK, TreasuryTypeOK, GatewayTypeOK,
           marketVars, collateralVars, treasuryVars, gatewayVars, amoVars, settingVars
<1>6. CASE ExternalsNext /\ UNCHANGED <<tokenVars, treasuryVars, gatewayVars>>
    BY <1>6, ExternalsNextType
       DEF CoreInv, TypeOK, AmoWithinSupply, TokenTypeOK, TreasuryTypeOK, GatewayTypeOK,
           tokenVars, treasuryVars, gatewayVars, amoVars, settingVars
<1>7. CASE UNCHANGED vars
    BY <1>7
       DEF CoreInv, TypeOK, AmoWithinSupply, ExternalsTypeOK, TokenTypeOK, TreasuryTypeOK,
           GatewayTypeOK, vars, marketVars, collateralVars, tokenVars, treasuryVars,
           gatewayVars, amoVars, settingVars
<1>8. QED
    BY <1>1, <1>2, <1>3, <1>4, <1>5, <1>6, <1>7 DEF Next

\* Every reachable state is well typed: no balance, supply, request, netDeposited or
\* vault position ever underflows.
THEOREM TypeCorrect == Spec => []TypeOK
<1>1. CoreInv => TypeOK
    BY DEF CoreInv
<1>2. QED
    BY <1>1, InitInv, NextInv, PTL DEF Spec

\* amoSupply never exceeds totalSupply: the comment "Invariant: amoSupply <=
\* totalSupply always holds" of Treasury._excessTokens is true.
THEOREM AmoSupplyBacked == Spec => []AmoWithinSupply
<1>1. CoreInv => AmoWithinSupply
    BY DEF CoreInv
<1>2. QED
    BY <1>1, InitInv, NextInv, PTL DEF Spec

-----------------------------------------------------------------------------
(* The AMO's limit.                                                        *)

\* Only the AMO's own transactions and the admin's limit touch the AMO's books.
LEMMA AmoBooks ==
    ASSUME [Next]_vars
    PROVE  \/ UNCHANGED amoVars
           \/ \E n \in AmoAmounts, a \in Accounts : MintToAMO(n, a)
           \/ \E umm \in UMMs, n \in AmoAmounts : BurnFromAMO(umm, n)
           \/ \E limit \in Limits : UpdateAmoMintLimit(limit)
<1>1. CASE UserNext
    BY <1>1 DEF UserNext, Deposit, Mint, ExecuteDeposit, Redeem, Withdraw, HandleRedeemOrWithdraw,
                RequestRedeem, CancelRedeemRequest, gatewayVars
<1>2. CASE UmmNext
    BY <1>2 DEF UmmNext, HarvestExcess, gatewayVars
<1>3. CASE SettingsNext
    BY <1>3 DEF SettingsNext, UpdateMintLimit, UpdateMintFee, UpdateRedeemFee,
                UpdateWithdrawalDelay, SetWithdrawalDelayEnabled, AddToInstantRedeemWhitelist,
                RemoveFromInstantRedeemWhitelist
<1>4. CASE UNCHANGED gatewayVars
    BY <1>4 DEF gatewayVars
<1>5. QED
    BY <1>1, <1>2, <1>3, <1>4 DEF Next, vars

LEMMA AmoLimitStep ==
    ASSUME CoreInv, AmoWithinLimit, [Next]_vars
    PROVE  AmoWithinLimit'
<1>1. amoSupply \in Nat /\ amoMintLimit \in Nat
    BY DEF CoreInv, TypeOK, GatewayTypeOK
<1>2. CASE UNCHANGED amoVars
    BY <1>2 DEF AmoWithinLimit, amoVars
<1>3. ASSUME NEW n \in AmoAmounts, NEW a \in Accounts, MintToAMO(n, a)
      PROVE  AmoWithinLimit'
    BY <1>1, <1>3, InputTypes DEF AmoWithinLimit, MintToAMO, MaxAmoMint, Monus
<1>4. ASSUME NEW umm \in UMMs, NEW n \in AmoAmounts, BurnFromAMO(umm, n)
      PROVE  AmoWithinLimit'
    BY <1>1, <1>4, InputTypes DEF AmoWithinLimit, BurnFromAMO
<1>5. ASSUME NEW limit \in Limits, UpdateAmoMintLimit(limit)
      PROVE  AmoWithinLimit'
    BY <1>5 DEF AmoWithinLimit, UpdateAmoMintLimit
<1>6. QED
    BY <1>2, <1>3, <1>4, <1>5, AmoBooks

\* However the admin moves amoMintLimit between AMO mints, the AMO never holds more
\* than it allows (Gateway.updateAmoMintLimit, mintToAMO, burnFromAMO).
THEOREM AmoLimitHolds == Spec => []AmoWithinLimit
<1>1. Init => AmoWithinLimit
    BY DEF Init, GatewayInit, AmoWithinLimit
<1>2. CoreInv /\ AmoWithinLimit /\ [Next]_vars => AmoWithinLimit'
    BY AmoLimitStep
<1>3. QED
    BY <1>1, <1>2, InitInv, NextInv, PTL DEF Spec

-----------------------------------------------------------------------------
(* Redeem requests.                                                        *)

\* What RequestsConsistent says of one request.
Consistent(q) == q.claimableAt # 0 <=> q.amountLocked > 0

\* A redemption leaves the requests alone, reduces one, or deletes one.
LEMMA RedemptionKeepsConsistency ==
    ASSUME CoreInv, RequestsConsistent, NEW u \in Users, NEW t, NEW burn \in Nat, NEW out, NEW r,
           HandleRedeemOrWithdraw(u, t, burn, out, r)
    PROVE  RequestsConsistent'
<1>1. /\ redeemRequests \in [Users -> Requests]
      /\ redeemRequests[u].amountLocked \in Nat
      /\ redeemRequests[u] \in Requests
      /\ \A v \in Users : Consistent(redeemRequests[v])
    BY DEF CoreInv, TypeOK, GatewayTypeOK, Requests, RequestsConsistent, HasRequest, Consistent
<1>2. CASE UNCHANGED redeemRequests
    BY <1>2 DEF RequestsConsistent, HasRequest
<1>3. ASSUME NEW q, Consistent(q), redeemRequests' = [redeemRequests EXCEPT ![u] = q]
      PROVE  RequestsConsistent'
  <2>1. \A v \in Users : redeemRequests'[v] = IF v = u THEN q ELSE redeemRequests[v]
      BY <1>1, <1>3
  <2>2. \A v \in Users : Consistent(redeemRequests'[v])
      BY <1>1, <1>3, <2>1
  <2>3. QED
      BY <2>2 DEF RequestsConsistent, HasRequest, Consistent
<1>4. Consistent(NoRequest)
    BY DEF Consistent, NoRequest
<1>5. CASE BurnLocked(u, burn)
  <2>1. CASE burn = redeemRequests[u].amountLocked
      BY <1>3, <1>4, <1>5, <2>1 DEF BurnLocked
  <2>2. CASE burn # redeemRequests[u].amountLocked
    <3> DEFINE q == [redeemRequests[u] EXCEPT !.amountLocked = @ - burn]
    <3>1. redeemRequests' = [redeemRequests EXCEPT ![u] = q]
        BY <1>5, <2>2 DEF BurnLocked
    <3>2. burn <= redeemRequests[u].amountLocked
        BY <1>5 DEF BurnLocked
    <3>3. redeemRequests[u].amountLocked > 0 /\ redeemRequests[u].amountLocked - burn > 0
        BY <1>1, <2>2, <3>2
    <3>4. q.amountLocked = redeemRequests[u].amountLocked - burn
          /\ q.claimableAt = redeemRequests[u].claimableAt
        BY <1>1 DEF Requests
    <3>5. Consistent(q)
        BY <1>1, <3>3, <3>4 DEF Consistent
    <3> HIDE DEF q
    <3>6. QED
        BY <1>3, <3>1, <3>5
  <2>3. QED
      BY <2>1, <2>2
<1>6. CASE BurnLockedAndWallet(u, burn)
    BY <1>3, <1>4, <1>6 DEF BurnLockedAndWallet
<1>7. CASE BurnFromWallet(u, burn)
    BY <1>2, <1>7 DEF BurnFromWallet
<1>8. QED
    BY <1>5, <1>6, <1>7 DEF HandleRedeemOrWithdraw

LEMMA RequestsStep ==
    ASSUME CoreInv, RequestsConsistent, [Next]_vars
    PROVE  RequestsConsistent'
<1>1. CASE UNCHANGED redeemRequests
    BY <1>1 DEF RequestsConsistent, HasRequest
<1>2. CASE UserNext
  <2>1. PICK u \in Users :
        \/ \E t \in Tokens, r \in Receivers \cap Accounts :
            \/ \E n \in CollateralAmounts : Deposit(u, t, n, r)
            \/ \E n \in PeggedAmounts : Mint(u, t, n, r)
        \/ \E t \in Tokens, r \in Receivers :
            \/ \E n \in CollateralAmounts : Withdraw(u, t, n, r)
            \/ \E n \in PeggedAmounts : Redeem(u, t, n, r)
        \/ \E n \in PeggedAmounts : RequestRedeem(u, n)
        \/ CancelRedeemRequest(u)
      BY <1>2 DEF UserNext
  <2>2. CASE \E t \in Tokens, r \in Receivers \cap Accounts :
                \/ \E n \in CollateralAmounts : Deposit(u, t, n, r)
                \/ \E n \in PeggedAmounts : Mint(u, t, n, r)
    <3>1. UNCHANGED redeemRequests
        BY <2>2 DEF Deposit, Mint, ExecuteDeposit, gatewayVars
    <3>2. QED
        BY <1>1, <3>1
  <2>3. ASSUME NEW t \in Tokens, NEW r, NEW n \in CollateralAmounts, Withdraw(u, t, n, r)
        PROVE  RequestsConsistent'
    <3>1. PreviewWithdraw(t, n) \in Nat
        BY <2>3, InputTypes, PreviewWithdrawBounds DEF Withdraw, CoreInv
    <3>2. QED
        BY <2>3, <3>1, RedemptionKeepsConsistency DEF Withdraw
  <2>4. ASSUME NEW t \in Tokens, NEW r, NEW n \in PeggedAmounts, Redeem(u, t, n, r)
        PROVE  RequestsConsistent'
      BY <2>4, InputTypes, RedemptionKeepsConsistency DEF Redeem
  <2>5. ASSUME NEW n \in PeggedAmounts, RequestRedeem(u, n)
        PROVE  RequestsConsistent'
    <3>1. /\ n \in Nat \ {0}
          /\ redeemRequests \in [Users -> Requests]
          /\ redeemRequests[u].amountLocked \in Nat
          /\ now + withdrawalDelay \in Nat \ {0}
        BY <2>5, InputTypes, GatewayAssumption
           DEF RequestRedeem, CoreInv, TypeOK, GatewayTypeOK, ExternalsTypeOK, Requests
    <3> DEFINE q == [amountLocked |-> redeemRequests[u].amountLocked + n,
                     claimableAt |-> now + withdrawalDelay]
    <3>2. redeemRequests' = [redeemRequests EXCEPT ![u] = q]
        BY <2>5 DEF RequestRedeem
    <3>3. q.amountLocked > 0 /\ q.claimableAt # 0
        BY <3>1
    <3> HIDE DEF q
    <3>4. \A v \in Users : redeemRequests'[v] = IF v = u THEN q ELSE redeemRequests[v]
        BY <3>1, <3>2
    <3>5. QED
        BY <3>3, <3>4 DEF RequestsConsistent, HasRequest
  <2>6. CASE CancelRedeemRequest(u)
    <3>1. redeemRequests \in [Users -> Requests]
        BY DEF CoreInv, TypeOK, GatewayTypeOK
    <3>2. \A v \in Users : redeemRequests'[v] = IF v = u THEN NoRequest ELSE redeemRequests[v]
        BY <2>6, <3>1 DEF CancelRedeemRequest
    <3>3. QED
        BY <3>2 DEF RequestsConsistent, HasRequest, NoRequest
  <2>7. QED
      BY <2>1, <2>2, <2>3, <2>4, <2>5, <2>6
<1>3. CASE UmmNext
  <2>1. UNCHANGED redeemRequests
      BY <1>3 DEF UmmNext, MintToAMO, BurnFromAMO, HarvestExcess, gatewayVars
  <2>2. QED
      BY <1>1, <2>1
<1>4. CASE SettingsNext
  <2>1. UNCHANGED redeemRequests
      BY <1>4 DEF SettingsNext, UpdateAmoMintLimit, UpdateMintLimit, UpdateMintFee, UpdateRedeemFee,
                  UpdateWithdrawalDelay, SetWithdrawalDelayEnabled, AddToInstantRedeemWhitelist,
                  RemoveFromInstantRedeemWhitelist, SettingsOnly
  <2>2. QED
      BY <1>1, <2>1
<1>5. CASE UNCHANGED gatewayVars
    BY <1>1, <1>5 DEF gatewayVars
<1>6. QED
    BY <1>2, <1>3, <1>4, <1>5 DEF Next, vars

\* claimableAt = 0 says exactly "nothing locked", through merged, partial, exact and
\* exceeded redemptions and cancellations (Gateway._processLockedRedeem, requestRedeem,
\* cancelRedeemRequest), so no request is lost and none is paid that is not there.
THEOREM RequestsStayConsistent == Spec => []RequestsConsistent
<1>1. Init => RequestsConsistent
    BY DEF Init, GatewayInit, RequestsConsistent, HasRequest, NoRequest
<1>2. CoreInv /\ RequestsConsistent /\ [Next]_vars => RequestsConsistent'
    BY RequestsStep
<1>3. QED
    BY <1>1, <1>2, InitInv, NextInv, PTL DEF Spec

-----------------------------------------------------------------------------
(* Treasury settings.                                                      *)

\* The transactions of users touch a whitelisted token only, and neither its band
\* nor the tolerance.
LEMMA TradesKeepBands ==
    ASSUME CoreInv, NEW t \in Tokens, NEW n, NEW r,
           TreasuryDeposit(t, n) \/ TreasuryWithdraw(t, n, r)
    PROVE  /\ UNCHANGED <<whitelisted, priceTolerance>>
           /\ t \in whitelisted
           /\ \A v \in Tokens : config'[v].pegBand = config[v].pegBand
           /\ \A v \in Tokens \ {t} : config'[v] = config[v] /\ invested'[v] = invested[v]
<1>1. /\ config \in [Tokens -> TokenConfigs] /\ invested \in [Tokens -> Nat]
      /\ config[t] \in TokenConfigs
    BY DEF CoreInv, TypeOK, TreasuryTypeOK, ExternalsTypeOK
<1>2. CASE TreasuryDeposit(t, n)
    BY <1>1, <1>2 DEF TreasuryDeposit, TokenConfigs
<1>3. CASE TreasuryWithdraw(t, n, r)
    BY <1>1, <1>3 DEF TreasuryWithdraw, PayOut, TokenConfigs
<1>4. QED
    BY <1>2, <1>3

\* Whatever is not the Treasury's own transaction either trades or leaves the
\* settings alone.
LEMMA SettingsMove ==
    ASSUME [Next]_vars
    PROVE  \/ UNCHANGED treasuryVars
           \/ \E t \in Tokens : \E n, r : TreasuryDeposit(t, n) \/ TreasuryWithdraw(t, n, r)
           \/ TreasuryNext
<1>1. CASE UserNext
    BY <1>1 DEF UserNext, Deposit, Mint, ExecuteDeposit, Redeem, Withdraw, HandleRedeemOrWithdraw,
                RequestRedeem, CancelRedeemRequest
<1>2. CASE UmmNext
    BY <1>2 DEF UmmNext, MintToAMO, BurnFromAMO, HarvestExcess, Harvest
<1>3. CASE SettingsNext
    BY <1>3 DEF SettingsNext, UpdateAmoMintLimit, UpdateMintLimit, UpdateMintFee, UpdateRedeemFee,
                UpdateWithdrawalDelay, SetWithdrawalDelayEnabled, AddToInstantRedeemWhitelist,
                RemoveFromInstantRedeemWhitelist, SettingsOnly
<1>4. QED
    BY <1>1, <1>2, <1>3 DEF Next, vars

LEMMA PegBandStep ==
    ASSUME CoreInv, PegBandWithinTolerance, [Next]_vars
    PROVE  PegBandWithinTolerance'
<1>1. /\ config \in [Tokens -> TokenConfigs] /\ whitelisted \subseteq Tokens
      /\ \A t \in Tokens : config[t].pegBand \in Nat
    BY DEF CoreInv, TypeOK, TreasuryTypeOK, TokenConfigs
<1>2. CASE UNCHANGED treasuryVars
    BY <1>2 DEF PegBandWithinTolerance, treasuryVars
<1>3. ASSUME NEW t \in Tokens, NEW n, NEW r, TreasuryDeposit(t, n) \/ TreasuryWithdraw(t, n, r)
      PROVE  PegBandWithinTolerance'
  <2>1. /\ UNCHANGED <<whitelisted, priceTolerance>>
        /\ \A v \in Tokens : config'[v].pegBand = config[v].pegBand
      BY <1>3, TradesKeepBands
  <2>2. QED
      BY <1>1, <2>1 DEF PegBandWithinTolerance
<1>4. CASE TreasuryNext
  <2>1. ASSUME NEW t \in Tokens, NEW o \in Oracles, NEW stale \in StalePeriods,
               AddToWhitelist(t, o, stale)
        PROVE  PegBandWithinTolerance'
      BY <1>1, <2>1 DEF AddToWhitelist, PegBandWithinTolerance
  <2>2. ASSUME NEW t \in Tokens, NEW o \in Oracles, NEW stale \in StalePeriods,
               UpdateOracle(t, o, stale)
        PROVE  PegBandWithinTolerance'
      BY <1>1, <2>2 DEF UpdateOracle, PegBandWithinTolerance, TokenConfigs
  <2>3. ASSUME NEW t, RemoveFromWhitelist(t)
        PROVE  PegBandWithinTolerance'
      BY <1>1, <2>3 DEF RemoveFromWhitelist, PegBandWithinTolerance
  <2>4. ASSUME NEW t \in Tokens, NEW active \in BOOLEAN,
               SetDepositActive(t, active) \/ SetWithdrawActive(t, active)
        PROVE  PegBandWithinTolerance'
      BY <1>1, <2>4 DEF SetDepositActive, SetWithdrawActive, PegBandWithinTolerance, TokenConfigs
  <2>5. ASSUME NEW t \in Tokens, NEW cap \in Caps, UpdateDepositCap(t, cap)
        PROVE  PegBandWithinTolerance'
      BY <1>1, <2>5 DEF UpdateDepositCap, PegBandWithinTolerance, TokenConfigs
  <2>6. ASSUME NEW t \in Tokens, NEW band \in Bands, UpdatePegBand(t, band)
        PROVE  PegBandWithinTolerance'
    <3>1. band = 0 \/ band < priceTolerance
        BY <2>6, TreasuryAssumption DEF UpdatePegBand
    <3>2. \A v \in Tokens : config'[v].pegBand = IF v = t THEN band ELSE config[v].pegBand
        BY <1>1, <2>6 DEF UpdatePegBand, TokenConfigs
    <3>3. QED
        BY <1>1, <2>6, <3>1, <3>2 DEF UpdatePegBand, PegBandWithinTolerance
  <2>7. ASSUME NEW tolerance \in Tolerances, UpdatePriceTolerance(tolerance)
        PROVE  PegBandWithinTolerance'
      BY <1>1, <2>7 DEF UpdatePriceTolerance, PegBandWithinTolerance
  <2>8. ASSUME UNCHANGED <<whitelisted, config, priceTolerance>>
        PROVE  PegBandWithinTolerance'
      BY <2>8 DEF PegBandWithinTolerance
  <2>9. \/ UNCHANGED <<whitelisted, config, priceTolerance>>
        \/ \E t \in Tokens, o \in Oracles, stale \in StalePeriods :
            AddToWhitelist(t, o, stale) \/ UpdateOracle(t, o, stale)
        \/ \E t : RemoveFromWhitelist(t)
        \/ \E t \in Tokens, active \in BOOLEAN :
            SetDepositActive(t, active) \/ SetWithdrawActive(t, active)
        \/ \E t \in Tokens, cap \in Caps : UpdateDepositCap(t, cap)
        \/ \E t \in Tokens, band \in Bands : UpdatePegBand(t, band)
        \/ \E tolerance \in Tolerances : UpdatePriceTolerance(tolerance)
      BY <1>1, <1>4 DEF TreasuryNext, Sweep, UpdateSanctionsList, Pull, Push, Swap, UpdateSwapper,
                  SetDepositActive, SetWithdrawActive, treasuryVars
  <2>10. QED
      BY <2>1, <2>2, <2>3, <2>4, <2>5, <2>6, <2>7, <2>8, <2>9
<1>5. QED
    BY <1>2, <1>3, <1>4, SettingsMove

\* The band in which trades are priced at par stays strictly inside the tolerance that
\* the feed may deviate, whichever role moves which of the two (Treasury.updatePegBand,
\* updatePriceTolerance, addToWhitelist).
THEOREM PegBandsStayInside == Spec => []PegBandWithinTolerance
<1>1. Init => PegBandWithinTolerance
    BY DEF Init, TreasuryInit, PegBandWithinTolerance
<1>2. CoreInv /\ PegBandWithinTolerance /\ [Next]_vars => PegBandWithinTolerance'
    BY PegBandStep
<1>3. QED
    BY <1>1, <1>2, InitInv, NextInv, PTL DEF Spec

-----------------------------------------------------------------------------
(* Delisted tokens.                                                        *)

\* A step that changes neither config nor invested of tokens off the whitelist, and
\* takes none off it.
LEMMA KeepsNothingLeft ==
    ASSUME NothingLeftBehind, whitelisted \subseteq whitelisted',
           \A v \in Tokens \ whitelisted' : config'[v] = config[v] /\ invested'[v] = invested[v]
    PROVE  NothingLeftBehind'
    BY DEF NothingLeftBehind, NoConfig

LEMMA NothingLeftStep ==
    ASSUME CoreInv, NothingLeftBehind, [Next]_vars
    PROVE  NothingLeftBehind'
<1>1. /\ config \in [Tokens -> TokenConfigs] /\ whitelisted \subseteq Tokens
      /\ idle \in [Tokens -> Nat] /\ invested \in [Tokens -> Nat]
      /\ \A v \in Tokens \ whitelisted : invested[v] = 0 /\ config[v] = NoConfig
    BY DEF CoreInv, TypeOK, TreasuryTypeOK, ExternalsTypeOK, NothingLeftBehind
<1>2. CASE UNCHANGED <<whitelisted, config, invested>>
    BY <1>2, KeepsNothingLeft
<1>3. ASSUME NEW t \in Tokens, NEW n, NEW r, TreasuryDeposit(t, n) \/ TreasuryWithdraw(t, n, r)
      PROVE  NothingLeftBehind'
    BY <1>3, TradesKeepBands, KeepsNothingLeft
<1>4. ASSUME NEW t \in Tokens, NEW r, HarvestExcess(t, r)
      PROVE  NothingLeftBehind'
  <2>1. /\ t \in whitelisted /\ UNCHANGED <<whitelisted, config>>
        /\ \A v \in Tokens \ {t} : invested'[v] = invested[v]
      BY <1>1, <1>4 DEF HarvestExcess, Harvest, PayOut, treasuryVars
  <2>2. QED
      BY <2>1, KeepsNothingLeft
<1>5. CASE ExternalsNext /\ UNCHANGED <<tokenVars, treasuryVars, gatewayVars>>
  <2>1. ASSUME NEW t \in Tokens, NEW n, EarnYield(t, n) \/ LoseYield(t, n), n \in Nat
        PROVE  NothingLeftBehind'
    <3>1. invested[t] > 0
        BY <1>1, <2>1 DEF EarnYield, LoseYield
    <3>2. t \in whitelisted
        BY <1>1, <3>1
    <3>3. \A v \in Tokens \ {t} : invested'[v] = invested[v]
        BY <1>1, <2>1 DEF EarnYield, LoseYield
    <3>4. QED
        BY <1>5, <3>2, <3>3, KeepsNothingLeft DEF treasuryVars
  <2>2. \/ UNCHANGED invested
        \/ \E t \in Tokens : \E n \in Nat : EarnYield(t, n) \/ LoseYield(t, n)
      BY <1>5, ExternalsAssumption DEF ExternalsNext, Tick, AnswerRound, SetListed, Donate,
                  collateralVars
  <2>3. QED
      BY <1>2, <1>5, <2>1, <2>2 DEF treasuryVars
<1>6. CASE TreasuryNext
  <2>1. ASSUME NEW t \in Tokens, NEW o, NEW stale, AddToWhitelist(t, o, stale)
        PROVE  NothingLeftBehind'
      BY <1>1, <2>1, KeepsNothingLeft DEF AddToWhitelist, collateralVars
  <2>2. ASSUME NEW t, RemoveFromWhitelist(t)
        PROVE  NothingLeftBehind'
    <3>1. /\ t \in Tokens /\ invested[t] = 0 /\ invested' = invested
          /\ whitelisted' = whitelisted \ {t}
          /\ config' = [config EXCEPT ![t] = NoConfig]
        BY <1>1, <2>2 DEF RemoveFromWhitelist, collateralVars
    <3>2. \A v \in Tokens \ whitelisted' : config'[v] = NoConfig /\ invested'[v] = 0
        BY <1>1, <3>1
    <3>3. QED
        BY <3>2 DEF NothingLeftBehind, NoConfig
  <2>3. ASSUME NEW t, t \in whitelisted, UNCHANGED whitelisted,
               \A v \in Tokens \ {t} : config'[v] = config[v] /\ invested'[v] = invested[v]
        PROVE  NothingLeftBehind'
      BY <2>3, KeepsNothingLeft
  <2>4. ASSUME NEW t, NEW o, NEW stale, UpdateOracle(t, o, stale)
        PROVE  NothingLeftBehind'
      BY <1>1, <2>3, <2>4 DEF UpdateOracle, collateralVars
  <2>5. ASSUME NEW t, NEW n, Pull(t, n) \/ Push(t, n)
        PROVE  NothingLeftBehind'
      BY <1>1, <2>3, <2>5 DEF Pull, Push, treasuryVars
  <2>6. ASSUME NEW t, NEW active, SetDepositActive(t, active) \/ SetWithdrawActive(t, active)
        PROVE  NothingLeftBehind'
      BY <1>1, <2>3, <2>6 DEF SetDepositActive, SetWithdrawActive, collateralVars
  <2>7. ASSUME NEW t, NEW n, UpdateDepositCap(t, n) \/ UpdatePegBand(t, n)
        PROVE  NothingLeftBehind'
      BY <1>1, <2>3, <2>7 DEF UpdateDepositCap, UpdatePegBand, collateralVars
  <2>8. \/ UNCHANGED <<whitelisted, config, invested>>
        \/ \E t \in Tokens : \E o, stale : AddToWhitelist(t, o, stale) \/ UpdateOracle(t, o, stale)
        \/ \E t : RemoveFromWhitelist(t)
        \/ \E t, n : Pull(t, n) \/ Push(t, n)
        \/ \E t, active : SetDepositActive(t, active) \/ SetWithdrawActive(t, active)
        \/ \E t, n : UpdateDepositCap(t, n) \/ UpdatePegBand(t, n)
      BY <1>6 DEF TreasuryNext, Sweep, UpdateSanctionsList, Swap, UpdateSwapper,
                  UpdatePriceTolerance, treasuryVars, collateralVars
  <2>9. QED
      BY <1>2, <2>1, <2>2, <2>4, <2>5, <2>6, <2>7, <2>8
<1>7. CASE UserNext
  <2>1. \/ UNCHANGED <<treasuryVars, collateralVars>>
        \/ \E t \in Tokens : \E n, r : TreasuryDeposit(t, n) \/ TreasuryWithdraw(t, n, r)
      BY <1>7 DEF UserNext, Deposit, Mint, ExecuteDeposit, Redeem, Withdraw, HandleRedeemOrWithdraw,
                  RequestRedeem, CancelRedeemRequest
  <2>2. QED
      BY <1>2, <1>3, <2>1 DEF treasuryVars, collateralVars
<1>8. CASE UmmNext
  <2>1. \/ UNCHANGED <<treasuryVars, collateralVars>>
        \/ \E t \in Tokens : \E r : HarvestExcess(t, r)
      BY <1>8 DEF UmmNext, MintToAMO, BurnFromAMO
  <2>2. QED
      BY <1>2, <1>4, <2>1 DEF treasuryVars, collateralVars
<1>9. CASE SettingsNext
  <2>1. UNCHANGED <<treasuryVars, collateralVars>>
      BY <1>9 DEF SettingsNext, UpdateAmoMintLimit, UpdateMintLimit, UpdateMintFee, UpdateRedeemFee,
                  UpdateWithdrawalDelay, SetWithdrawalDelayEnabled, AddToInstantRedeemWhitelist,
                  RemoveFromInstantRedeemWhitelist, SettingsOnly
  <2>2. QED
      BY <1>2, <2>1 DEF treasuryVars, collateralVars
<1>10. CASE UNCHANGED <<treasuryVars, collateralVars>>
    BY <1>2, <1>10 DEF treasuryVars, collateralVars
<1>11. QED
    BY <1>5, <1>6, <1>7, <1>8, <1>9, <1>10 DEF Next, vars

\* A token off the whitelist has neither settings nor vault shares, whatever trades,
\* vault gains and losses, delistings and relistings came before
\* (Treasury.removeFromWhitelist).
THEOREM DelistedLeavesNothing == Spec => []NothingLeftBehind
<1>1. Init => NothingLeftBehind
    BY DEF Init, TreasuryInit, ExternalsInit, NothingLeftBehind, NoConfig
<1>2. CoreInv /\ NothingLeftBehind /\ [Next]_vars => NothingLeftBehind'
    BY NothingLeftStep
<1>3. QED
    BY <1>1, <1>2, InitInv, NextInv, PTL DEF Spec

-----------------------------------------------------------------------------
(* The mint limit.                                                         *)

\* Growth of a clamped difference needs growth of its first part or a fall of the second.
LEMMA MonusGrowth ==
    ASSUME NEW a \in Nat, NEW b \in Nat, NEW c \in Nat, NEW d \in Nat,
           d <= c, Monus(c, d) > Monus(a, b)
    PROVE  c > a \/ d < b
    BY DEF Monus

\* The supply that collateral backs grows in a deposit or a mint only.
LEMMA OnlyDepositsGrow ==
    ASSUME CoreInv, CoreInv', [Next]_vars, UserSupply' > UserSupply
    PROVE  \E u \in Users : \E t, n, r : \E pegged \in Nat : ExecuteDeposit(u, t, n, pegged, r)
<1>1. /\ supply \in Nat /\ amoSupply \in Nat /\ amoSupply <= supply
      /\ supply' \in Nat /\ amoSupply' \in Nat /\ amoSupply' <= supply'
    BY DEF CoreInv, TypeOK, TokenTypeOK, GatewayTypeOK, AmoWithinSupply
<1>2. supply' > supply \/ amoSupply' < amoSupply
    BY <1>1, MonusGrowth DEF UserSupply
<1>3. UserSupply \in Nat
    BY <1>1, MonusType DEF UserSupply
<1>4. CASE UserNext
  <2>1. PICK u \in Users :
        \/ \E t \in Tokens, r \in Receivers \cap Accounts :
            \/ \E n \in CollateralAmounts : Deposit(u, t, n, r)
            \/ \E n \in PeggedAmounts : Mint(u, t, n, r)
        \/ \E t \in Tokens, r \in Receivers :
            \/ \E n \in CollateralAmounts : Withdraw(u, t, n, r)
            \/ \E n \in PeggedAmounts : Redeem(u, t, n, r)
        \/ \E n \in PeggedAmounts : RequestRedeem(u, n)
        \/ CancelRedeemRequest(u)
      BY <1>4 DEF UserNext
  <2>2. ASSUME NEW t \in Tokens, NEW r, NEW n \in CollateralAmounts, Deposit(u, t, n, r)
        PROVE  \E x, m, y : \E pegged \in Nat : ExecuteDeposit(u, x, m, pegged, y)
      BY <2>2, InputTypes, PreviewDepositBounds DEF Deposit, CoreInv
  <2>3. ASSUME NEW t \in Tokens, NEW r, NEW n \in PeggedAmounts, Mint(u, t, n, r)
        PROVE  \E x, m, y : \E pegged \in Nat : ExecuteDeposit(u, x, m, pegged, y)
      BY <2>3, InputTypes DEF Mint
  <2>4. ASSUME NEW t, NEW burn \in Nat, NEW out, NEW r, HandleRedeemOrWithdraw(u, t, burn, out, r)
        PROVE  FALSE
    <3>1. amoSupply' = amoSupply
        BY <2>4 DEF HandleRedeemOrWithdraw, amoVars
    <3>2. redeemRequests[u].amountLocked \in Nat
        BY DEF CoreInv, TypeOK, GatewayTypeOK, Requests
    <3>3. supply' <= supply
        BY <1>1, <2>4, <3>2 DEF HandleRedeemOrWithdraw, BurnFromWallet, BurnLocked,
                    BurnLockedAndWallet, TokenBurnFrom, TokenBurnFromBoth
    <3>4. QED
        BY <1>1, <1>2, <3>1, <3>3
  <2>5. ASSUME NEW t \in Tokens, NEW r, NEW n \in CollateralAmounts, Withdraw(u, t, n, r)
        PROVE  FALSE
      BY <2>4, <2>5, InputTypes, PreviewWithdrawBounds DEF Withdraw, CoreInv
  <2>6. ASSUME NEW t \in Tokens, NEW r, NEW n \in PeggedAmounts, Redeem(u, t, n, r)
        PROVE  FALSE
      BY <2>4, <2>6, InputTypes DEF Redeem
  <2>7. ASSUME NEW n, RequestRedeem(u, n) \/ CancelRedeemRequest(u)
        PROVE  FALSE
      BY <1>1, <1>2, <2>7 DEF RequestRedeem, CancelRedeemRequest, TokenMove, amoVars
  <2>8. QED
      BY <2>1, <2>2, <2>3, <2>5, <2>6, <2>7
<1>5. CASE UmmNext
  <2>1. ASSUME NEW n \in AmoAmounts, NEW a \in Accounts, MintToAMO(n, a)
        PROVE  FALSE
    <3>1. amoSupply' = amoSupply + n /\ supply' = supply + n /\ n \in Nat
        BY <2>1, InputTypes DEF MintToAMO, TokenMint
    <3>2. UserSupply' = UserSupply
        BY <1>1, <3>1 DEF UserSupply, Monus
    <3>3. QED
        BY <1>3, <3>2
  <2>2. ASSUME NEW umm, NEW n \in AmoAmounts, BurnFromAMO(umm, n)
        PROVE  FALSE
    <3>1. amoSupply' = amoSupply - n /\ supply' = supply - n /\ n \in Nat /\ n <= amoSupply
        BY <2>2, InputTypes DEF BurnFromAMO, TokenBurnFrom
    <3>2. UserSupply' = UserSupply
        BY <1>1, <3>1 DEF UserSupply, Monus
    <3>3. QED
        BY <1>3, <3>2
  <2>3. ASSUME NEW t, NEW r, HarvestExcess(t, r)
        PROVE  FALSE
      BY <1>1, <1>2, <2>3 DEF HarvestExcess, tokenVars, gatewayVars, amoVars
  <2>4. QED
      BY <1>5, <2>1, <2>2, <2>3 DEF UmmNext
<1>6. CASE SettingsNext
    BY <1>1, <1>2, <1>6 DEF SettingsNext, UpdateAmoMintLimit, UpdateMintLimit, UpdateMintFee,
                UpdateRedeemFee, UpdateWithdrawalDelay, SetWithdrawalDelayEnabled,
                AddToInstantRedeemWhitelist, RemoveFromInstantRedeemWhitelist, SettingsOnly,
                amoVars, tokenVars
<1>7. CASE TokenNext /\ UNCHANGED <<marketVars, collateralVars, treasuryVars, gatewayVars>>
    BY <1>1, <1>2, <1>7 DEF TokenNext, TokenTransfer, TokenMove, AddToBlacklist, RemoveFromBlacklist,
                gatewayVars, amoVars
<1>8. CASE UNCHANGED <<tokenVars, gatewayVars>>
    BY <1>1, <1>2, <1>8 DEF tokenVars, gatewayVars, amoVars
<1>9. QED
    BY <1>4, <1>5, <1>6, <1>7, <1>8 DEF Next, vars

LEMMA MintLimitStep ==
    ASSUME CoreInv, CoreInv', [Next]_vars, UserSupply' > UserSupply
    PROVE  UserSupply' <= mintLimit
<1>1. PICK u \in Users : \E t, n, r : \E pegged \in Nat : ExecuteDeposit(u, t, n, pegged, r)
    BY OnlyDepositsGrow
<1>2. PICK pegged \in Nat : pegged <= MaxMint /\ supply' = supply + pegged /\ amoSupply' = amoSupply
    BY <1>1 DEF ExecuteDeposit, TokenMint, gatewayVars, amoVars
<1>3. /\ supply \in Nat /\ amoSupply \in Nat /\ amoSupply <= supply /\ mintLimit \in Nat
      /\ UserSupply = supply - amoSupply
    BY DEF CoreInv, TypeOK, TokenTypeOK, GatewayTypeOK, AmoWithinSupply, UserSupply, Monus
<1>4. UserSupply' = UserSupply + pegged
    BY <1>2, <1>3 DEF UserSupply, Monus
<1>5. pegged > 0
    BY <1>2, <1>3, <1>4
<1>6. QED
    BY <1>2, <1>3, <1>4, <1>5 DEF MaxMint, Monus

\* Nobody mints backed supply past mintLimit, and no AMO operation, redemption, burn or
\* setting makes backed supply grow (Gateway.maxMint, _executeDeposit, mintToAMO).
THEOREM MintLimitHolds == Spec => MintLimitRespected
<1>1. CoreInv /\ CoreInv' /\ [Next]_vars
        => [UserSupply' > UserSupply => UserSupply' <= mintLimit]_vars
    BY MintLimitStep
<1>2. QED
    BY <1>1, InitInv, NextInv, PTL DEF Spec, MintLimitRespected

-----------------------------------------------------------------------------
(* The kinds of step, with the bounds the previews put on their amounts.   *)

DepositStep ==
    \E u \in Users, t \in Tokens, r \in Accounts, in \in Nat, out \in Nat :
        /\ out <= in * Scale[t]
        /\ ExecuteDeposit(u, t, in, out, r)

RedeemStep ==
    \E u \in Users, t \in Tokens, burn \in Nat, out \in Nat : \E r :
        /\ out * Scale[t] <= burn
        /\ HandleRedeemOrWithdraw(u, t, burn, out, r)

RequestStep == \E u \in Users, n \in Nat : RequestRedeem(u, n)

CancelStep == \E u \in Users : CancelRedeemRequest(u)

AmoStep ==
    \E n \in Nat : \/ \E a \in Accounts : MintToAMO(n, a)
                   \/ \E umm \in UMMs : BurnFromAMO(umm, n)

HarvestStep == \E t \in Tokens, r \in Receivers : HarvestExcess(t, r)

SettingStep ==
    UNCHANGED <<marketVars, collateralVars, treasuryVars, tokenVars, amoSupply, redeemRequests>>

TreasuryStep == TreasuryNext /\ UNCHANGED <<marketVars, tokenVars, gatewayVars>>

TransferStep ==
    /\ \/ \E from \in Users, to \in Accounts, n \in Nat : TokenTransfer(from, to, n)
       \/ UNCHANGED <<balance, supply>>
    /\ UNCHANGED <<marketVars, collateralVars, treasuryVars, gatewayVars>>

MarketStep == ExternalsNext /\ UNCHANGED <<tokenVars, treasuryVars, gatewayVars>>

LEMMA UserUmmSteps ==
    ASSUME CoreInv, UserNext \/ UmmNext
    PROVE  DepositStep \/ RedeemStep \/ RequestStep \/ CancelStep \/ AmoStep \/ HarvestStep
<1>1. CASE UserNext
  <2>1. PICK u \in Users :
        \/ \E t \in Tokens, r \in Receivers \cap Accounts :
            \/ \E n \in CollateralAmounts : Deposit(u, t, n, r)
            \/ \E n \in PeggedAmounts : Mint(u, t, n, r)
        \/ \E t \in Tokens, r \in Receivers :
            \/ \E n \in CollateralAmounts : Withdraw(u, t, n, r)
            \/ \E n \in PeggedAmounts : Redeem(u, t, n, r)
        \/ \E n \in PeggedAmounts : RequestRedeem(u, n)
        \/ CancelRedeemRequest(u)
      BY <1>1 DEF UserNext
  <2>2. TypeOK
      BY DEF CoreInv
  <2>3. ASSUME NEW t \in Tokens, NEW r \in Accounts, NEW n \in CollateralAmounts,
               Deposit(u, t, n, r)
        PROVE  DepositStep
      BY <2>2, <2>3, InputTypes, PreviewDepositBounds DEF Deposit, DepositStep
  <2>4. ASSUME NEW t \in Tokens, NEW r \in Accounts, NEW n \in PeggedAmounts, Mint(u, t, n, r)
        PROVE  DepositStep
      BY <2>2, <2>4, InputTypes, PreviewMintBounds DEF Mint, DepositStep
  <2>5. ASSUME NEW t \in Tokens, NEW r, NEW n \in CollateralAmounts, Withdraw(u, t, n, r)
        PROVE  RedeemStep
      BY <2>2, <2>5, InputTypes, PreviewWithdrawBounds DEF Withdraw, RedeemStep
  <2>6. ASSUME NEW t \in Tokens, NEW r, NEW n \in PeggedAmounts, Redeem(u, t, n, r)
        PROVE  RedeemStep
      BY <2>2, <2>6, InputTypes, PreviewRedeemBounds DEF Redeem, RedeemStep
  <2>7. ASSUME NEW n \in PeggedAmounts, RequestRedeem(u, n)
        PROVE  RequestStep
      BY <2>7, InputTypes DEF RequestStep
  <2>8. CASE CancelRedeemRequest(u)
      BY <2>8 DEF CancelStep
  <2>9. QED
      BY <2>1, <2>3, <2>4, <2>5, <2>6, <2>7, <2>8
<1>2. CASE UmmNext
    BY <1>2, InputTypes DEF UmmNext, AmoStep, HarvestStep
<1>3. QED
    BY <1>1, <1>2

LEMMA Steps ==
    ASSUME CoreInv, [Next]_vars
    PROVE  \/ DepositStep \/ RedeemStep \/ RequestStep \/ CancelStep \/ AmoStep \/ HarvestStep
           \/ SettingStep \/ TreasuryStep \/ TransferStep \/ MarketStep
<1>1. CASE UserNext \/ UmmNext
    BY <1>1, UserUmmSteps
<1>2. CASE SettingsNext
    BY <1>2 DEF SettingStep, SettingsNext, UpdateAmoMintLimit, UpdateMintLimit, UpdateMintFee,
                UpdateRedeemFee, UpdateWithdrawalDelay, SetWithdrawalDelayEnabled,
                AddToInstantRedeemWhitelist, RemoveFromInstantRedeemWhitelist, SettingsOnly, amoVars
<1>3. CASE TreasuryNext /\ UNCHANGED <<marketVars, tokenVars, gatewayVars>>
    BY <1>3 DEF TreasuryStep
<1>4. CASE TokenNext /\ UNCHANGED <<marketVars, collateralVars, treasuryVars, gatewayVars>>
    BY <1>4, InputTypes
       DEF TransferStep, TokenNext, AddToBlacklist, RemoveFromBlacklist
<1>5. CASE ExternalsNext /\ UNCHANGED <<tokenVars, treasuryVars, gatewayVars>>
    BY <1>5 DEF MarketStep
<1>6. CASE UNCHANGED vars
    BY <1>6 DEF vars, SettingStep, gatewayVars, amoVars
<1>7. QED
    BY <1>1, <1>2, <1>3, <1>4, <1>5, <1>6 DEF Next

-----------------------------------------------------------------------------
(* Custody of locked tokens.                                               *)

LEMMA LockedType ==
    ASSUME TypeOK
    PROVE  /\ redeemRequests \in [Users -> Requests]
           /\ \A u \in Users : redeemRequests[u].amountLocked \in Nat
           /\ IsFiniteSet(Users)
<1>1. IsFiniteSet(Users)
    BY GatewayAssumption, FS_Subset DEF Users
<1>2. QED
    BY <1>1 DEF TypeOK, GatewayTypeOK, Requests

\* The total is a natural number that no single request exceeds.
LEMMA LockedTotalBounds ==
    ASSUME TypeOK
    PROVE  /\ LockedTotal \in Nat
           /\ \A u \in Users : redeemRequests[u].amountLocked <= LockedTotal
<1> DEFINE f == [u \in Users |-> redeemRequests[u].amountLocked]
<1>1. LockedTotal = SumFunctionOnSet(f, Users)
    BY DEF LockedTotal, SumFunction
<1>2. IsFiniteSet(Users) /\ \A u \in Users : f[u] \in Nat
    BY LockedType
<1>3. ASSUME NEW u \in Users
      PROVE  f[u] <= SumFunctionOnSet(f, Users)
  <2> HIDE DEF f
  <2>1. SumFunctionOnSet(f, Users) = f[u] + SumFunctionOnSet(f, Users \ {u})
      BY <1>2, SumRemove
  <2>2. SumFunctionOnSet(f, Users \ {u}) \in Nat /\ SumFunctionOnSet(f, Users) \in Nat
      BY <1>2, SumNat
  <2>3. QED
      BY <1>2, <2>1, <2>2
<1>4. SumFunctionOnSet(f, Users) \in Nat
  <2> HIDE DEF f
  <2>1. QED
    BY <1>2, SumNat
<1>5. QED
    BY <1>1, <1>3, <1>4

\* A change of one user's request changes the total by as much.
LEMMA LockedTotalChange ==
    ASSUME TypeOK, TypeOK', NEW u \in Users,
           \A v \in Users \ {u} : redeemRequests'[v] = redeemRequests[v]
    PROVE  LockedTotal' = LockedTotal - redeemRequests[u].amountLocked
                                      + redeemRequests'[u].amountLocked
<1> DEFINE f == [v \in Users |-> redeemRequests[v].amountLocked]
           g == [v \in Users |-> redeemRequests'[v].amountLocked]
<1>1. LockedTotal = SumFunctionOnSet(f, Users) /\ LockedTotal' = SumFunctionOnSet(g, Users)
    BY DEF LockedTotal, SumFunction
<1>2. \A v \in Users : f[v] \in Int /\ g[v] \in Int
    BY DEF TypeOK, GatewayTypeOK, Requests
<1>3. \A v \in Users \ {u} : f[v] = g[v]
    OBVIOUS
<1>4. IsFiniteSet(Users)
    BY LockedType
<1>5. f[u] = redeemRequests[u].amountLocked /\ g[u] = redeemRequests'[u].amountLocked
    OBVIOUS
<1> HIDE DEF f, g
<1>6. QED
    BY <1>1, <1>2, <1>3, <1>4, <1>5, SumChange

LEMMA CustodyKept ==
    ASSUME CoreInv, CoreInv', GatewayCustody, UNCHANGED redeemRequests,
           balance'[GatewayAddr] >= balance[GatewayAddr]
    PROVE  GatewayCustody'
<1>1. LockedTotal' = LockedTotal
    BY DEF LockedTotal
<1>2. LockedTotal \in Nat /\ balance[GatewayAddr] \in Nat /\ balance'[GatewayAddr] \in Nat
    BY LockedTotalBounds, PeggedTokenAssumption DEF CoreInv, TypeOK, TokenTypeOK
<1>3. QED
    BY <1>1, <1>2 DEF GatewayCustody

\* The Gateway's balance and one request move together.
LEMMA CustodyMoved ==
    ASSUME CoreInv, CoreInv', GatewayCustody, NEW u \in Users,
           \A v \in Users \ {u} : redeemRequests'[v] = redeemRequests[v],
           balance'[GatewayAddr] - balance[GatewayAddr]
                = redeemRequests'[u].amountLocked - redeemRequests[u].amountLocked
    PROVE  GatewayCustody'
<1>1. LockedTotal' = LockedTotal - redeemRequests[u].amountLocked
                                 + redeemRequests'[u].amountLocked
    BY LockedTotalChange DEF CoreInv
<1>2. /\ LockedTotal \in Nat /\ balance[GatewayAddr] \in Nat /\ balance'[GatewayAddr] \in Nat
      /\ redeemRequests[u].amountLocked \in Nat /\ redeemRequests'[u].amountLocked \in Nat
    BY LockedTotalBounds, PeggedTokenAssumption
       DEF CoreInv, TypeOK, TokenTypeOK, GatewayTypeOK, Requests
<1>3. QED
    BY <1>1, <1>2 DEF GatewayCustody

LEMMA CustodyStep ==
    ASSUME CoreInv, CoreInv', GatewayCustody, [Next]_vars
    PROVE  GatewayCustody'
<1>1. /\ GatewayAddr \in Accounts /\ GatewayAddr \notin Users /\ Users \subseteq Accounts
      /\ balance \in [Accounts -> Nat] /\ supply \in Nat
      /\ redeemRequests \in [Users -> Requests]
      /\ \A u \in Users : redeemRequests[u].amountLocked \in Nat
    BY PeggedTokenAssumption DEF CoreInv, TypeOK, TokenTypeOK, GatewayTypeOK, Requests, Users
<1>2. CASE DepositStep
  <2>1. UNCHANGED redeemRequests /\ balance'[GatewayAddr] >= balance[GatewayAddr]
      BY <1>1, <1>2 DEF DepositStep, ExecuteDeposit, TokenMint, gatewayVars
  <2>2. QED
      BY <2>1, CustodyKept
<1>3. CASE RedeemStep
  <2>1. PICK u \in Users, burn \in Nat :
            BurnFromWallet(u, burn) \/ BurnLocked(u, burn) \/ BurnLockedAndWallet(u, burn)
      BY <1>3 DEF RedeemStep, HandleRedeemOrWithdraw
  <2>2. CASE BurnFromWallet(u, burn)
    <3>1. UNCHANGED redeemRequests /\ balance'[GatewayAddr] >= balance[GatewayAddr]
        BY <1>1, <2>2 DEF BurnFromWallet, TokenBurnFrom
    <3>2. QED
        BY <3>1, CustodyKept
  <2>3. CASE BurnLocked(u, burn)
    <3>1. balance'[GatewayAddr] = balance[GatewayAddr] - burn
        BY <1>1, <2>3 DEF BurnLocked, TokenBurnFrom
    <3>2. /\ redeemRequests'[u].amountLocked = redeemRequests[u].amountLocked - burn
          /\ \A v \in Users \ {u} : redeemRequests'[v] = redeemRequests[v]
      <4>1. CASE burn = redeemRequests[u].amountLocked
          BY <1>1, <2>3, <4>1 DEF BurnLocked, NoRequest
      <4>2. CASE burn # redeemRequests[u].amountLocked
          BY <1>1, <2>3, <4>2 DEF BurnLocked, Requests
      <4>3. QED
          BY <4>1, <4>2
    <3>3. balance'[GatewayAddr] - balance[GatewayAddr]
            = redeemRequests'[u].amountLocked - redeemRequests[u].amountLocked
        BY <1>1, <3>1, <3>2
    <3>4. QED
        BY <3>2, <3>3, CustodyMoved
  <2>4. CASE BurnLockedAndWallet(u, burn)
    <3>1. balance'[GatewayAddr] = balance[GatewayAddr] - redeemRequests[u].amountLocked
        BY <1>1, <2>4 DEF BurnLockedAndWallet, TokenBurnFromBoth
    <3>2. /\ redeemRequests'[u].amountLocked = 0
          /\ \A v \in Users \ {u} : redeemRequests'[v] = redeemRequests[v]
        BY <1>1, <2>4 DEF BurnLockedAndWallet, NoRequest
    <3>3. balance'[GatewayAddr] - balance[GatewayAddr]
            = redeemRequests'[u].amountLocked - redeemRequests[u].amountLocked
        BY <1>1, <3>1, <3>2
    <3>4. QED
        BY <3>2, <3>3, CustodyMoved
  <2>5. QED
      BY <2>1, <2>2, <2>3, <2>4
<1>4. CASE RequestStep
  <2>1. PICK u \in Users, n \in Nat : RequestRedeem(u, n)
      BY <1>4 DEF RequestStep
  <2>2. balance'[GatewayAddr] = balance[GatewayAddr] + n
      BY <1>1, <2>1 DEF RequestRedeem, TokenMove
  <2>3. /\ redeemRequests'[u].amountLocked = redeemRequests[u].amountLocked + n
        /\ \A v \in Users \ {u} : redeemRequests'[v] = redeemRequests[v]
      BY <1>1, <2>1 DEF RequestRedeem
  <2>4. balance'[GatewayAddr] - balance[GatewayAddr]
            = redeemRequests'[u].amountLocked - redeemRequests[u].amountLocked
      BY <1>1, <2>2, <2>3
  <2>5. QED
      BY <2>3, <2>4, CustodyMoved
<1>5. CASE CancelStep
  <2>1. PICK u \in Users : CancelRedeemRequest(u)
      BY <1>5 DEF CancelStep
  <2>2. balance'[GatewayAddr] = balance[GatewayAddr] - redeemRequests[u].amountLocked
      BY <1>1, <2>1 DEF CancelRedeemRequest, TokenMove
  <2>3. /\ redeemRequests'[u].amountLocked = 0
        /\ \A v \in Users \ {u} : redeemRequests'[v] = redeemRequests[v]
      BY <1>1, <2>1 DEF CancelRedeemRequest, NoRequest
  <2>4. balance'[GatewayAddr] - balance[GatewayAddr]
            = redeemRequests'[u].amountLocked - redeemRequests[u].amountLocked
      BY <1>1, <2>2, <2>3
  <2>5. QED
      BY <2>3, <2>4, CustodyMoved
<1>6. CASE AmoStep
  <2>1. UNCHANGED redeemRequests /\ balance'[GatewayAddr] >= balance[GatewayAddr]
    <3>1. ASSUME NEW n \in Nat, NEW a \in Accounts, MintToAMO(n, a)
          PROVE  UNCHANGED redeemRequests /\ balance'[GatewayAddr] >= balance[GatewayAddr]
        BY <1>1, <3>1 DEF MintToAMO, TokenMint
    <3>2. ASSUME NEW n \in Nat, NEW umm \in UMMs, BurnFromAMO(umm, n)
          PROVE  UNCHANGED redeemRequests /\ balance'[GatewayAddr] >= balance[GatewayAddr]
        BY <1>1, <3>2, GatewayAssumption DEF BurnFromAMO, TokenBurnFrom
    <3>3. QED
        BY <1>6, <3>1, <3>2 DEF AmoStep
  <2>2. QED
      BY <2>1, CustodyKept
<1>7. CASE TransferStep
  <2>1. UNCHANGED redeemRequests /\ balance'[GatewayAddr] >= balance[GatewayAddr]
      BY <1>1, <1>7 DEF TransferStep, TokenTransfer, TokenMove, gatewayVars
  <2>2. QED
      BY <2>1, CustodyKept
<1>8. CASE HarvestStep \/ SettingStep \/ TreasuryStep \/ MarketStep
  <2>1. UNCHANGED redeemRequests /\ balance'[GatewayAddr] >= balance[GatewayAddr]
      BY <1>1, <1>8 DEF HarvestStep, HarvestExcess, SettingStep, TreasuryStep, MarketStep, tokenVars,
                  gatewayVars
  <2>2. QED
      BY <2>1, CustodyKept
<1>9. QED
    BY <1>2, <1>3, <1>4, <1>5, <1>6, <1>7, <1>8, Steps

\* The Gateway always holds all the tokens locked in requests: no order of requests,
\* merges, partial redemptions, cancellations, transfers and AMO operations touches
\* them (Gateway.requestRedeem, cancelRedeemRequest, _processLockedRedeem).
THEOREM CustodyHolds == Spec => []GatewayCustody
<1>1. Init => GatewayCustody
  <2>1. SUFFICES ASSUME Init PROVE GatewayCustody
      OBVIOUS
  <2> DEFINE f == [u \in Users |-> redeemRequests[u].amountLocked]
  <2>2. \A u \in Users : f[u] = 0
      BY <2>1 DEF Init, GatewayInit, NoRequest
  <2>3. IsFiniteSet(Users)
      BY GatewayAssumption, FS_Subset DEF Users
  <2>4. SumFunctionOnSet(f, Users) = 0
    <3> HIDE DEF f
    <3>1. QED
      BY <2>2, <2>3, SumZero
  <2>5. LockedTotal = 0
      BY <2>4 DEF LockedTotal, SumFunction
  <2>6. balance[GatewayAddr] = 0
      BY <2>1, PeggedTokenAssumption DEF Init, TokenInit
  <2>7. QED
      BY <2>5, <2>6 DEF GatewayCustody
<1>2. CoreInv /\ CoreInv' /\ GatewayCustody /\ [Next]_vars => GatewayCustody'
    BY CustodyStep
<1>3. QED
    BY <1>1, <1>2, InitInv, NextInv, PTL DEF Spec

\* So no cancellation is refused for want of tokens: the transfer it makes is always
\* covered (Gateway.cancelRedeemRequest).
THEOREM RequestsFunded ==
    Spec => [](\A u \in Users : redeemRequests[u].amountLocked <= balance[GatewayAddr])
<1>1. TypeOK /\ GatewayCustody
        => \A u \in Users : redeemRequests[u].amountLocked <= balance[GatewayAddr]
  <2>1. SUFFICES ASSUME TypeOK, GatewayCustody, NEW u \in Users
                 PROVE  redeemRequests[u].amountLocked <= balance[GatewayAddr]
      OBVIOUS
  <2>2. /\ redeemRequests[u].amountLocked \in Nat /\ balance[GatewayAddr] \in Nat
        /\ LockedTotal \in Nat /\ redeemRequests[u].amountLocked <= LockedTotal
      BY <2>1, LockedType, LockedTotalBounds, PeggedTokenAssumption DEF TypeOK, TokenTypeOK
  <2>3. QED
      BY <2>1, <2>2 DEF GatewayCustody
<1>2. QED
    BY <1>1, TypeCorrect, CustodyHolds, PTL

-----------------------------------------------------------------------------
(* Sanctions.                                                              *)

\* A request changes only in a transaction of its own user, which is not sanctioned.
LEMMA RequestsMovedByOwner ==
    ASSUME CoreInv, [Next]_vars, NEW v \in Users, redeemRequests'[v] # redeemRequests[v]
    PROVE  ~Sanctioned(v)
<1>1. redeemRequests \in [Users -> Requests]
    BY DEF CoreInv, TypeOK, GatewayTypeOK
<1>2. CASE RedeemStep
  <2>1. PICK u \in Users, burn \in Nat :
            /\ ~Sanctioned(u)
            /\ BurnFromWallet(u, burn) \/ BurnLocked(u, burn) \/ BurnLockedAndWallet(u, burn)
      BY <1>2 DEF RedeemStep, HandleRedeemOrWithdraw
  <2>2. v = u
      BY <1>1, <2>1 DEF BurnFromWallet, BurnLocked, BurnLockedAndWallet
  <2>3. QED
      BY <2>1, <2>2
<1>3. CASE RequestStep
    BY <1>1, <1>3 DEF RequestStep, RequestRedeem
<1>4. CASE CancelStep
    BY <1>1, <1>4 DEF CancelStep, CancelRedeemRequest
<1>5. CASE DepositStep \/ AmoStep \/ HarvestStep \/ SettingStep \/ TreasuryStep \/ TransferStep
           \/ MarketStep
  <2>1. UNCHANGED redeemRequests
      BY <1>5 DEF DepositStep, ExecuteDeposit, AmoStep, MintToAMO, BurnFromAMO, HarvestStep,
                  HarvestExcess, SettingStep, TreasuryStep, TransferStep, MarketStep, gatewayVars
  <2>2. QED
      BY <2>1
<1>6. QED
    BY <1>2, <1>3, <1>4, <1>5, Steps

\* Nothing anyone does moves the request of a sanctioned user (the _notSanctioned
\* checks of requestRedeem, cancelRedeemRequest and _handleRedeemOrWithdraw).
THEOREM SanctionedRequestsFrozen == Spec => FrozenWhileSanctioned
<1>1. CoreInv /\ [Next]_vars
        => [\A u \in Users : Sanctioned(u) => redeemRequests'[u] = redeemRequests[u]]_vars
    BY RequestsMovedByOwner
<1>2. QED
    BY <1>1, InitInv, NextInv, PTL DEF Spec, FrozenWhileSanctioned

-----------------------------------------------------------------------------
(* Early exits.  Every lock of VetroHistory has waited its delay by the    *)
(* one date the Gateway keeps.                                             *)

Dated ==
    \A u \in Users : \A l \in locks[u] :
        /\ l.at \in Nat /\ l.delay \in Nat
        /\ l.at <= now
        /\ l.at + l.delay <= redeemRequests[u].claimableAt

LEMMA TimePasses ==
    ASSUME CoreInv, [Next]_vars
    PROVE  now \in Nat /\ now' \in Nat /\ now' >= now
<1>1. now \in Nat
    BY DEF CoreInv, TypeOK, ExternalsTypeOK
<1>2. CASE MarketStep
    BY <1>1, <1>2 DEF MarketStep, ExternalsNext, Tick, AnswerRound, SetListed, EarnYield, LoseYield,
                      Donate, marketVars
<1>3. now' = now \/ MarketStep
    BY Steps
       DEF DepositStep, ExecuteDeposit, RedeemStep, HandleRedeemOrWithdraw, RequestStep, RequestRedeem,
           CancelStep, CancelRedeemRequest, AmoStep, MintToAMO, BurnFromAMO, HarvestStep, HarvestExcess,
           SettingStep, TreasuryStep, TransferStep, marketVars
<1>4. QED
    BY <1>1, <1>2, <1>3

\* A date moves only when tokens are added, and goes with the last token.
LEMMA RequestMoves ==
    ASSUME CoreInv, [Next]_vars, NEW v \in Users
    PROVE  \/ redeemRequests'[v] = redeemRequests[v]
           \/ redeemRequests'[v].amountLocked = 0
           \/ /\ redeemRequests'[v].amountLocked < redeemRequests[v].amountLocked
              /\ redeemRequests'[v].claimableAt = redeemRequests[v].claimableAt
           \/ /\ redeemRequests'[v].amountLocked > redeemRequests[v].amountLocked
              /\ redeemRequests'[v].claimableAt = now + withdrawalDelay
<1>1. /\ redeemRequests \in [Users -> Requests]
      /\ \A u \in Users : redeemRequests[u].amountLocked \in Nat
    BY DEF CoreInv, TypeOK, GatewayTypeOK, Requests
<1>2. CASE RedeemStep
  <2>1. PICK u \in Users, burn \in Nat :
            BurnFromWallet(u, burn) \/ BurnLocked(u, burn) \/ BurnLockedAndWallet(u, burn)
      BY <1>2 DEF RedeemStep, HandleRedeemOrWithdraw
  <2>2. CASE v # u \/ BurnFromWallet(u, burn)
      BY <1>1, <2>1, <2>2 DEF BurnFromWallet, BurnLocked, BurnLockedAndWallet
  <2>3. CASE v = u /\ BurnLocked(u, burn)
    <3>1. CASE burn = redeemRequests[u].amountLocked
        BY <1>1, <2>3, <3>1 DEF BurnLocked, NoRequest
    <3>2. CASE burn = 0 /\ burn # redeemRequests[u].amountLocked
      <4>1. redeemRequests'[u] = [redeemRequests[u] EXCEPT !.amountLocked = @ - 0]
          BY <1>1, <2>3, <3>2 DEF BurnLocked
      <4>2. redeemRequests[u] \in Requests /\ redeemRequests[u].amountLocked - 0
                = redeemRequests[u].amountLocked
          BY <1>1
      <4>3. redeemRequests'[u] = redeemRequests[u]
          BY <4>1, <4>2 DEF Requests
      <4>4. QED
          BY <2>3, <4>3
    <3>3. CASE burn > 0 /\ burn # redeemRequests[u].amountLocked
        BY <1>1, <2>3, <3>3 DEF BurnLocked, Requests
    <3>4. QED
        BY <3>1, <3>2, <3>3
  <2>4. CASE v = u /\ BurnLockedAndWallet(u, burn)
      BY <1>1, <2>4 DEF BurnLockedAndWallet, NoRequest
  <2>5. QED
      BY <2>1, <2>2, <2>3, <2>4
<1>3. CASE RequestStep
  <2>1. PICK u \in Users, n \in Nat : RequestRedeem(u, n)
      BY <1>3 DEF RequestStep
  <2>2. CASE v = u
    <3>1. /\ redeemRequests'[v].amountLocked = redeemRequests[v].amountLocked + n
          /\ redeemRequests'[v].claimableAt = now + withdrawalDelay
          /\ n # 0
        BY <1>1, <2>1, <2>2 DEF RequestRedeem
    <3>2. QED
        BY <1>1, <3>1
  <2>3. CASE v # u
      BY <1>1, <2>1, <2>3 DEF RequestRedeem
  <2>4. QED
      BY <2>2, <2>3
<1>4. CASE CancelStep
    BY <1>1, <1>4 DEF CancelStep, CancelRedeemRequest, NoRequest
<1>5. CASE DepositStep \/ AmoStep \/ HarvestStep \/ SettingStep \/ TreasuryStep \/ TransferStep
           \/ MarketStep
    BY <1>5 DEF DepositStep, ExecuteDeposit, AmoStep, MintToAMO, BurnFromAMO, HarvestStep,
                  HarvestExcess, SettingStep, TreasuryStep, TransferStep, MarketStep, gatewayVars
<1>6. QED
    BY <1>2, <1>3, <1>4, <1>5, Steps

\* A merged request has a date that no lock in it is too young for.
LEMMA LockDates ==
    ASSUME NEW at \in Nat, NEW delay \in Nat, NEW time \in Nat, NEW wait \in Nat, at <= time
    PROVE  /\ MinOf(delay, wait) \in Nat
           /\ at + MinOf(delay, wait) <= time + wait
    BY DEF MinOf

LEMMA DatedStep ==
    ASSUME CoreInv, CoreInv', Dated, [HistoryNext]_<<vars, locks>>
    PROVE  Dated'
<1>1. /\ \A u \in Users : redeemRequests[u].amountLocked \in Nat /\ redeemRequests'[u].amountLocked \in Nat
      /\ withdrawalDelay \in Nat
    BY GatewayAssumption DEF CoreInv, TypeOK, GatewayTypeOK, Requests
<1>2. CASE HistoryNext
  <2>1. [Next]_vars /\ \A u \in Users : locks'[u] = LocksAfter(u)
      BY <1>2 DEF HistoryNext
  <2>2. now \in Nat /\ now' \in Nat /\ now' >= now
      BY <2>1, TimePasses
  <2>3. SUFFICES ASSUME NEW u \in Users, NEW l \in LocksAfter(u)
                 PROVE  /\ l.at \in Nat /\ l.delay \in Nat
                        /\ l.at <= now'
                        /\ l.at + l.delay <= redeemRequests'[u].claimableAt
      BY <2>1 DEF Dated
  <2>4. redeemRequests'[u].amountLocked # 0
      BY <2>3 DEF LocksAfter
  <2>5. CASE redeemRequests'[u].amountLocked > redeemRequests[u].amountLocked
    <3>1. redeemRequests'[u].claimableAt = now + withdrawalDelay
        BY <1>1, <2>1, <2>4, <2>5, RequestMoves
    <3>2. CASE l = Lock(now, withdrawalDelay)
        BY <1>1, <2>2, <3>1, <3>2 DEF Lock
    <3>3. CASE \E k \in locks[u] : l = Lock(k.at, MinOf(k.delay, withdrawalDelay))
      <4>1. PICK k \in locks[u] : l = Lock(k.at, MinOf(k.delay, withdrawalDelay))
          BY <3>3
      <4>2. l.at = k.at /\ l.delay = MinOf(k.delay, withdrawalDelay)
          BY <4>1 DEF Lock
      <4>3. k.at \in Nat /\ k.delay \in Nat /\ k.at <= now
          BY DEF Dated
      <4>4. /\ MinOf(k.delay, withdrawalDelay) \in Nat
            /\ k.at + MinOf(k.delay, withdrawalDelay) <= now + withdrawalDelay
          BY <1>1, <2>2, <4>3, LockDates
      <4>5. QED
          BY <2>2, <3>1, <4>2, <4>3, <4>4
    <3>4. QED
        BY <2>3, <2>4, <2>5, <3>2, <3>3 DEF LocksAfter, Locked
  <2>6. CASE ~(redeemRequests'[u].amountLocked > redeemRequests[u].amountLocked)
    <3>1. l \in locks[u]
        BY <2>3, <2>4, <2>6 DEF LocksAfter, Locked
    <3>2. /\ l.at \in Nat /\ l.delay \in Nat /\ l.at <= now
          /\ l.at + l.delay <= redeemRequests[u].claimableAt
        BY <3>1 DEF Dated
    <3>3. redeemRequests'[u].claimableAt = redeemRequests[u].claimableAt
        BY <2>1, <2>4, <2>6, RequestMoves
    <3>4. QED
        BY <2>2, <3>2, <3>3
  <2>7. QED
      BY <2>5, <2>6
<1>3. CASE UNCHANGED <<vars, locks>>
    BY <1>3 DEF Dated, vars, gatewayVars, marketVars
<1>4. QED
    BY <1>2, <1>3

-----------------------------------------------------------------------------
(* Backed supply moves in trades only, with their amounts.                 *)

LEMMA MonusIs ==
    ASSUME NEW a \in Nat, NEW b \in Nat, b <= a
    PROVE  Monus(a, b) = a - b /\ a - b \in Nat
    BY DEF Monus

LEMMA UserSupplyIs ==
    ASSUME CoreInv, CoreInv'
    PROVE  /\ supply \in Nat /\ amoSupply \in Nat /\ amoSupply <= supply
           /\ UserSupply = supply - amoSupply
           /\ UserSupply \in Nat
           /\ supply' \in Nat /\ amoSupply' \in Nat /\ amoSupply' <= supply'
           /\ UserSupply' = supply' - amoSupply'
           /\ UserSupply' \in Nat
<1>1. /\ supply \in Nat /\ amoSupply \in Nat /\ amoSupply <= supply
      /\ supply' \in Nat /\ amoSupply' \in Nat /\ amoSupply' <= supply'
    BY DEF CoreInv, TypeOK, TokenTypeOK, GatewayTypeOK, AmoWithinSupply
<1>2. QED
    BY <1>1, MonusIs DEF UserSupply

LEMMA UserSupplyMoves ==
    ASSUME CoreInv, CoreInv', [Next]_vars, UserSupply' # UserSupply
    PROVE  DepositStep \/ RedeemStep
<1>1. /\ UserSupply = supply - amoSupply /\ supply \in Nat /\ amoSupply \in Nat
      /\ UserSupply' = supply' - amoSupply' /\ supply' \in Nat /\ amoSupply' \in Nat
    BY UserSupplyIs
<1>2. CASE AmoStep
  <2>1. ASSUME NEW n \in Nat, NEW a \in Accounts, MintToAMO(n, a)
        PROVE  UserSupply' = UserSupply
    <3>1. supply' = supply + n /\ amoSupply' = amoSupply + n
        BY <2>1 DEF MintToAMO, TokenMint
    <3>2. QED
        BY <1>1, <3>1
  <2>2. ASSUME NEW n \in Nat, NEW umm \in UMMs, BurnFromAMO(umm, n)
        PROVE  UserSupply' = UserSupply
    <3>1. supply' = supply - n /\ amoSupply' = amoSupply - n
        BY <2>2 DEF BurnFromAMO, TokenBurnFrom
    <3>2. QED
        BY <1>1, <3>1
  <2>3. QED
      BY <1>2, <2>1, <2>2 DEF AmoStep
<1>3. CASE RequestStep \/ CancelStep \/ HarvestStep \/ SettingStep \/ TreasuryStep \/ TransferStep
           \/ MarketStep
  <2>1. UNCHANGED <<supply, amoSupply>>
      BY <1>3 DEF RequestStep, RequestRedeem, CancelStep, CancelRedeemRequest, TokenMove, HarvestStep,
                  HarvestExcess, SettingStep, TreasuryStep, TransferStep, TokenTransfer, MarketStep,
                  tokenVars, gatewayVars, amoVars
  <2>2. QED
      BY <1>1, <2>1
<1>4. QED
    BY <1>2, <1>3, Steps

LEMMA DepositAdds ==
    ASSUME CoreInv, CoreInv', NEW u, NEW t, NEW in, NEW out \in Nat, NEW r,
           ExecuteDeposit(u, t, in, out, r)
    PROVE  UserSupply' = UserSupply + out
<1>1. supply' = supply + out /\ amoSupply' = amoSupply
    BY DEF ExecuteDeposit, TokenMint, gatewayVars, amoVars
<1>2. QED
    BY <1>1, UserSupplyIs

LEMMA RedeemTakes ==
    ASSUME CoreInv, CoreInv', NEW u \in Users, NEW t, NEW burn \in Nat, NEW out, NEW r,
           HandleRedeemOrWithdraw(u, t, burn, out, r)
    PROVE  UserSupply' = UserSupply - burn
<1>1. redeemRequests[u].amountLocked \in Nat
    BY DEF CoreInv, TypeOK, GatewayTypeOK, Requests
<1>2. supply' = supply - burn /\ amoSupply' = amoSupply
    BY <1>1, UserSupplyIs
       DEF HandleRedeemOrWithdraw, BurnFromWallet, BurnLocked, BurnLockedAndWallet,
           TokenBurnFrom, TokenBurnFromBoth, amoVars
<1>3. QED
    BY <1>2, UserSupplyIs

\* What a redemption takes, and from whom.
LEMMA RedeemSources ==
    ASSUME CoreInv, Dated, NEW u \in Users, NEW t, NEW burn \in Nat, NEW out, NEW r,
           HandleRedeemOrWithdraw(u, t, burn, out, r), NEW v \in Users
    PROVE  /\ balance'[v] < balance[v] => InstantRedeemAllowed(v)
           /\ redeemRequests'[v].amountLocked < Locked(v) =>
                    \A l \in locks[v] : now >= l.at + l.delay
<1>1. /\ redeemRequests \in [Users -> Requests]
      /\ \A w \in Users : redeemRequests[w].amountLocked \in Nat
      /\ balance \in [Accounts -> Nat] /\ u \in Accounts /\ v \in Accounts
      /\ GatewayAddr \in Accounts /\ v # GatewayAddr /\ u # GatewayAddr
    BY PeggedTokenAssumption DEF CoreInv, TypeOK, TokenTypeOK, GatewayTypeOK, Requests, Users
<1>2. CASE Claimable(u) /\ (BurnLocked(u, burn) \/ BurnLockedAndWallet(u, burn))
  <2>1. balance'[v] < balance[v] => InstantRedeemAllowed(v)
      BY <1>1, <1>2 DEF BurnLocked, TokenBurnFrom, BurnLockedAndWallet, TokenBurnFromBoth
  <2>2. ASSUME redeemRequests'[v].amountLocked < Locked(v)
        PROVE  \A l \in locks[v] : now >= l.at + l.delay
    <3>1. v = u
        BY <1>1, <1>2, <2>2 DEF BurnLocked, BurnLockedAndWallet, Locked
    <3>2. now >= redeemRequests[u].claimableAt
        BY <1>2 DEF Claimable
    <3>3. now \in Nat /\ redeemRequests[u].claimableAt \in Nat
        BY DEF CoreInv, TypeOK, ExternalsTypeOK, GatewayTypeOK, Requests
    <3>4. ASSUME NEW l \in locks[v]
          PROVE  now >= l.at + l.delay
      <4>1. l.at \in Nat /\ l.delay \in Nat /\ l.at + l.delay <= redeemRequests[u].claimableAt
          BY <3>1 DEF Dated
      <4>2. QED
          BY <3>2, <3>3, <4>1
    <3>5. QED
        BY <3>4
  <2>3. QED
      BY <2>1, <2>2
<1>3. CASE BurnFromWallet(u, burn)
    BY <1>1, <1>3 DEF BurnFromWallet, TokenBurnFrom, Locked
<1>4. QED
    BY <1>2, <1>3 DEF HandleRedeemOrWithdraw

\* Every lock waits the delay it was made under, or a lower one under which its owner
\* locked more later, however settings change and however requests are merged, split,
\* cancelled and renewed (Gateway.requestRedeem, _processLockedRedeem, _executeWithdraw).
THEOREM NoEarlyExitHolds == HistorySpec => NoEarlyExit
<1>1. HistoryInit => CoreInv /\ Dated
  <2>1. SUFFICES ASSUME HistoryInit PROVE CoreInv /\ Dated
      OBVIOUS
  <2>2. QED
      BY <2>1, InitInv DEF HistoryInit, Dated
<1>2. ASSUME CoreInv, Dated, [HistoryNext]_<<vars, locks>>
      PROVE  CoreInv' /\ Dated'
  <2>1. [Next]_vars
      BY <1>2 DEF HistoryNext
  <2>2. QED
      BY <1>2, <2>1, NextInv, DatedStep
<1>3. ASSUME CoreInv, CoreInv', Dated, HistoryNext, UserSupply' < UserSupply, NEW v \in Users
      PROVE  /\ balance'[v] < balance[v] => InstantRedeemAllowed(v)
             /\ redeemRequests'[v].amountLocked < Locked(v) =>
                    \A l \in locks[v] : now >= l.at + l.delay
  <2>1. [Next]_vars
      BY <1>3 DEF HistoryNext
  <2>2. UserSupply \in Nat /\ UserSupply' \in Nat
      BY <1>3, UserSupplyIs
  <2>3. ~DepositStep
      BY <1>3, <2>2, DepositAdds DEF DepositStep
  <2>4. RedeemStep
      BY <1>3, <2>1, <2>2, <2>3, UserSupplyMoves
  <2>5. QED
      BY <1>3, <2>4, RedeemSources DEF RedeemStep
<1>4. CoreInv /\ CoreInv' /\ Dated /\ [HistoryNext]_<<vars, locks>>
        => [UserSupply' < UserSupply =>
              \A u \in Users :
                /\ balance'[u] < balance[u] => InstantRedeemAllowed(u)
                /\ redeemRequests'[u].amountLocked < Locked(u) =>
                        \A l \in locks[u] : now >= l.at + l.delay
           ]_<<vars, locks>>
    BY <1>3
<1>5. QED
    BY <1>1, <1>2, <1>4, PTL DEF HistorySpec, NoEarlyExit

-----------------------------------------------------------------------------
(* The surplus at par: what a transaction does to the collateral of one    *)
(* token it does to ParValue, at that token's scale.                       *)

LEMMA HeldType ==
    ASSUME TypeOK, NEW t \in Tokens
    PROVE  /\ idle[t] \in Nat /\ invested[t] \in Nat /\ Held(t) \in Nat
           /\ Scale[t] \in Nat \ {0} /\ Held(t) * Scale[t] \in Nat
    BY TreasuryAssumption DEF TypeOK, ExternalsTypeOK, Held

LEMMA ParValueType ==
    ASSUME TypeOK
    PROVE  ParValue \in Nat
<1> DEFINE f == [t \in Tokens |-> Held(t) * Scale[t]]
<1>1. \A t \in Tokens : f[t] \in Nat
    BY HeldType
<1>2. ParValue = SumFunctionOnSet(f, Tokens)
    BY DEF ParValue, SumFunction
<1> HIDE DEF f
<1>3. QED
    BY <1>1, <1>2, SumNat, TreasuryAssumption

LEMMA ParValueChange ==
    ASSUME TypeOK, TypeOK', NEW t \in Tokens, \A s \in Tokens \ {t} : Held(s)' = Held(s)
    PROVE  ParValue' = ParValue - Held(t) * Scale[t] + Held(t)' * Scale[t]
<1> DEFINE f == [s \in Tokens |-> Held(s) * Scale[s]]
           g == [s \in Tokens |-> Held(s)' * Scale[s]]
<1>1. ParValue = SumFunctionOnSet(f, Tokens) /\ ParValue' = SumFunctionOnSet(g, Tokens)
    BY DEF ParValue, SumFunction
<1>2. \A s \in Tokens : f[s] \in Int /\ g[s] \in Int
    BY TreasuryAssumption DEF TypeOK, ExternalsTypeOK, Held
<1>3. \A s \in Tokens \ {t} : f[s] = g[s]
    OBVIOUS
<1>4. f[t] = Held(t) * Scale[t] /\ g[t] = Held(t)' * Scale[t]
    OBVIOUS
<1> HIDE DEF f, g
<1>5. QED
    BY <1>1, <1>2, <1>3, <1>4, SumChange, TreasuryAssumption

\* The same, by how much the holdings change.
LEMMA ParValueMoves ==
    ASSUME TypeOK, TypeOK', NEW t \in Tokens, NEW d \in Int, Held(t)' = Held(t) + d,
           \A s \in Tokens \ {t} : Held(s)' = Held(s)
    PROVE  ParValue' = ParValue + d * Scale[t]
<1> DEFINE h == Held(t)
           c == Scale[t]
<1>1. ParValue' = ParValue - Held(t) * Scale[t] + Held(t)' * Scale[t]
    BY ParValueChange
<1>2. h \in Nat /\ c \in Nat /\ ParValue \in Int
    BY HeldType, ParValueType
<1>3. ParValue' = ParValue - h * c + (h + d) * c
    BY <1>1
<1> HIDE DEF h, c
<1>4. (h + d) * c = h * c + d * c /\ h * c \in Int /\ d * c \in Int
    BY <1>2
<1>5. ParValue' = ParValue + d * c
    BY <1>2, <1>3, <1>4
<1>6. QED
    BY <1>5 DEF c

LEMMA ParValueSame ==
    ASSUME UNCHANGED collateralVars
    PROVE  ParValue' = ParValue
    BY DEF ParValue, Held, collateralVars

LEMMA PayOutHeld ==
    ASSUME TypeOK, NEW t \in Tokens, NEW n \in Nat, PayOut(t, n)
    PROVE  /\ Held(t)' = Held(t) + (-n)
           /\ \A s \in Tokens \ {t} : Held(s)' = Held(s)
<1>1. idle \in [Tokens -> Nat] /\ invested \in [Tokens -> Nat]
    BY DEF TypeOK, ExternalsTypeOK
<1>2. QED
    BY <1>1 DEF PayOut, Held, Monus

LEMMA DepositHeld ==
    ASSUME TypeOK, NEW t \in Tokens, NEW n \in Nat, TreasuryDeposit(t, n)
    PROVE  /\ Held(t)' = Held(t) + n
           /\ \A s \in Tokens \ {t} : Held(s)' = Held(s)
<1>1. idle \in [Tokens -> Nat] /\ invested \in [Tokens -> Nat]
    BY DEF TypeOK, ExternalsTypeOK
<1>2. QED
    BY <1>1 DEF TreasuryDeposit, Held

LEMMA DepositKeepsBacking ==
    ASSUME CoreInv, CoreInv', DepositStep
    PROVE  ParValue' - UserSupply' >= ParValue - UserSupply
<1>1. PICK u \in Users, t \in Tokens, r \in Accounts, in \in Nat, out \in Nat :
          out <= in * Scale[t] /\ ExecuteDeposit(u, t, in, out, r)
    BY DEF DepositStep
<1>2. TypeOK /\ TypeOK'
    BY DEF CoreInv
<1>3. ParValue' = ParValue + in * Scale[t]
    BY <1>1, <1>2, DepositHeld, ParValueMoves DEF ExecuteDeposit
<1>4. UserSupply' = UserSupply + out
    BY <1>1, DepositAdds
<1>5. ParValue \in Nat /\ UserSupply \in Nat /\ in * Scale[t] \in Nat
    BY <1>2, ParValueType, UserSupplyIs, TreasuryAssumption
<1>6. QED
    BY <1>1, <1>3, <1>4, <1>5

LEMMA RedeemKeepsBacking ==
    ASSUME CoreInv, CoreInv', RedeemStep
    PROVE  ParValue' - UserSupply' >= ParValue - UserSupply
<1>1. PICK u \in Users, t \in Tokens, burn \in Nat, out \in Nat :
          /\ out * Scale[t] <= burn
          /\ \E r : HandleRedeemOrWithdraw(u, t, burn, out, r)
    BY DEF RedeemStep
<1>2. TypeOK /\ TypeOK'
    BY DEF CoreInv
<1>3. PayOut(t, out)
    BY <1>1 DEF HandleRedeemOrWithdraw, TreasuryWithdraw
<1>4. ParValue' = ParValue + (-out) * Scale[t]
    BY <1>2, <1>3, PayOutHeld, ParValueMoves
<1>5. UserSupply' = UserSupply - burn
    BY <1>1, RedeemTakes
<1>6. ParValue \in Nat /\ UserSupply \in Nat /\ Scale[t] \in Nat
    BY <1>2, ParValueType, UserSupplyIs, TreasuryAssumption
<1>7. (-out) * Scale[t] = -(out * Scale[t]) /\ out * Scale[t] \in Nat
    BY <1>6
<1>8. QED
    BY <1>1, <1>4, <1>5, <1>6, <1>7

\* Every transaction that changes the backed supply leaves the surplus at par no
\* smaller: previews, fees, peg bands and both roundings included
\* (Gateway._executeDeposit, _handleRedeemOrWithdraw).
THEOREM SurplusKept == Spec => SupplyStepsKeepBacking
<1>1. CoreInv /\ CoreInv' /\ [Next]_vars
        => [UserSupply' # UserSupply
              => ParValue' - UserSupply' >= ParValue - UserSupply]_vars
    BY UserSupplyMoves, DepositKeepsBacking, RedeemKeepsBacking
<1>2. QED
    BY <1>1, InitInv, NextInv, PTL DEF Spec, SupplyStepsKeepBacking

-----------------------------------------------------------------------------
(* Room under the deposit caps.                                            *)

LEMMA RoomStep ==
    ASSUME CoreInv, CoreInv', [Next]_vars, NEW t \in whitelisted \cap whitelisted',
           config'[t].netDeposited < config[t].netDeposited
    PROVE  (config[t].netDeposited - config'[t].netDeposited) * Scale[t]
                <= UserSupply - UserSupply'
<1>1. /\ config \in [Tokens -> TokenConfigs] /\ whitelisted \subseteq Tokens
      /\ t \in Tokens /\ config[t].netDeposited \in Nat
    BY DEF CoreInv, TypeOK, TreasuryTypeOK, TokenConfigs
<1>2. CASE RedeemStep
  <2>1. PICK u \in Users, s \in Tokens, burn \in Nat, out \in Nat :
            /\ out * Scale[s] <= burn
            /\ \E r : HandleRedeemOrWithdraw(u, s, burn, out, r)
      BY <1>2 DEF RedeemStep
  <2>2. config' = [config EXCEPT ![s].netDeposited = Monus(@, out)]
      BY <2>1 DEF HandleRedeemOrWithdraw, TreasuryWithdraw
  <2>3. t = s
      BY <1>1, <2>2
  <2>4. config'[t].netDeposited = Monus(config[t].netDeposited, out)
      BY <1>1, <2>2, <2>3 DEF TokenConfigs
  <2>5. config[t].netDeposited - config'[t].netDeposited \in 0..out
      BY <1>1, <2>4 DEF Monus
  <2>6. (config[t].netDeposited - config'[t].netDeposited) * Scale[t] <= out * Scale[t]
      BY <1>1, <2>5, TreasuryAssumption
  <2>7. UserSupply' = UserSupply - burn /\ UserSupply \in Nat
      BY <2>1, RedeemTakes, UserSupplyIs
  <2>8. /\ (config[t].netDeposited - config'[t].netDeposited) * Scale[t] \in Int
        /\ out * Scale[t] \in Int
      BY <1>1, <2>5, TreasuryAssumption
  <2>9. QED
      BY <2>1, <2>3, <2>6, <2>7, <2>8
<1>3. CASE DepositStep
  <2>1. PICK s \in Tokens, in \in Nat : TreasuryDeposit(s, in)
      BY <1>3 DEF DepositStep, ExecuteDeposit
  <2>2. config'[t].netDeposited = config[t].netDeposited
        \/ config'[t].netDeposited = config[t].netDeposited + in
      BY <1>1, <2>1 DEF TreasuryDeposit, TokenConfigs
  <2>3. QED
      BY <1>1, <2>1, <2>2
<1>4. CASE TreasuryStep
  <2>1. CASE UNCHANGED config
      BY <1>1, <2>1
  <2>2. CASE \E s \in Tokens : \E o, stale : AddToWhitelist(s, o, stale)
      BY <1>1, <2>2 DEF AddToWhitelist
  <2>3. CASE \E s : RemoveFromWhitelist(s)
      BY <1>1, <2>3 DEF RemoveFromWhitelist
  <2>4. CASE \E s \in Tokens : \E x :
                \/ SetDepositActive(s, x) \/ SetWithdrawActive(s, x)
                \/ UpdateDepositCap(s, x) \/ UpdatePegBand(s, x)
                \/ \E o : UpdateOracle(s, o, x)
    <3> DEFINE Set(s, x) ==
              \/ SetDepositActive(s, x) \/ SetWithdrawActive(s, x)
              \/ UpdateDepositCap(s, x) \/ UpdatePegBand(s, x)
              \/ \E o : UpdateOracle(s, o, x)
    <3>0. PICK s \in Tokens : \E x : Set(s, x)
        BY <2>4
    <3>1. PICK x : Set(s, x)
        BY <3>0
    <3>2. CASE t # s
      <4>1. config'[t] = config[t]
          BY <1>1, <3>1, <3>2 DEF SetDepositActive, SetWithdrawActive, UpdateDepositCap,
                                  UpdatePegBand, UpdateOracle
      <4>2. QED
          BY <1>1, <4>1
    <3>3. CASE t = s
      <4>1. SetDepositActive(t, x) \/ SetWithdrawActive(t, x)
            => config'[t].netDeposited = config[t].netDeposited
          BY <1>1 DEF SetDepositActive, SetWithdrawActive, TokenConfigs
      <4>2. UpdateDepositCap(t, x) \/ UpdatePegBand(t, x)
            => config'[t].netDeposited = config[t].netDeposited
          BY <1>1 DEF UpdateDepositCap, UpdatePegBand, TokenConfigs
      <4>3. ASSUME NEW o, UpdateOracle(t, o, x)
            PROVE  config'[t].netDeposited = config[t].netDeposited
          BY <1>1, <4>3 DEF UpdateOracle, TokenConfigs
      <4>4. QED
          BY <1>1, <3>1, <3>3, <4>1, <4>2, <4>3
    <3>4. QED
        BY <3>2, <3>3
  <2>5. QED
      BY <1>1, <1>4, <2>1, <2>2, <2>3, <2>4
         DEF TreasuryStep, TreasuryNext, Sweep, UpdateSanctionsList, Pull, Push, Swap, UpdateSwapper,
             UpdatePriceTolerance, SetDepositActive, SetWithdrawActive, treasuryVars
<1>5. CASE RequestStep \/ CancelStep \/ AmoStep \/ HarvestStep \/ SettingStep \/ TransferStep
           \/ MarketStep
  <2>1. UNCHANGED config
      BY <1>5 DEF RequestStep, RequestRedeem, CancelStep, CancelRedeemRequest, AmoStep, MintToAMO,
                  BurnFromAMO, HarvestStep, HarvestExcess, Harvest, SettingStep, TransferStep,
                  MarketStep, treasuryVars
  <2>2. QED
      BY <1>1, <2>1
<1>6. QED
    BY <1>2, <1>3, <1>4, <1>5, Steps

\* Room under a deposit cap opens by redemptions only, by no more than the supply they
\* retire (TokenConfig.netDeposited: Treasury.deposit, withdraw, and no other writer).
THEOREM RoomOpensByRedemption == Spec => RoomOpensOnlyByRedemption
<1>1. CoreInv /\ CoreInv' /\ [Next]_vars
        => [\A t \in whitelisted \cap whitelisted' :
              config'[t].netDeposited < config[t].netDeposited
                => (config[t].netDeposited - config'[t].netDeposited) * Scale[t]
                        <= UserSupply - UserSupply']_vars
    BY RoomStep
<1>2. QED
    BY <1>1, InitInv, NextInv, PTL DEF Spec, RoomOpensOnlyByRedemption

-----------------------------------------------------------------------------
(* Harvests.  A whitelisted token always has an oracle.                    *)

OraclesKnown == \A t \in whitelisted : config[t].oracle \in Oracles

LEMMA OraclesStep ==
    ASSUME CoreInv, OraclesKnown, [Next]_vars
    PROVE  OraclesKnown'
<1>1. config \in [Tokens -> TokenConfigs] /\ whitelisted \subseteq Tokens
    BY DEF CoreInv, TypeOK, TreasuryTypeOK
<1>2. CASE UNCHANGED treasuryVars
    BY <1>2 DEF OraclesKnown, treasuryVars
<1>3. CASE \E t \in Tokens : \E n, r : TreasuryDeposit(t, n) \/ TreasuryWithdraw(t, n, r)
    BY <1>1, <1>3 DEF TreasuryDeposit, TreasuryWithdraw, OraclesKnown, TokenConfigs
<1>4. CASE TreasuryNext
  <2>1. CASE UNCHANGED <<whitelisted, config>>
      BY <2>1 DEF OraclesKnown
  <2>2. CASE \E t \in Tokens, o \in Oracles, stale \in StalePeriods :
                AddToWhitelist(t, o, stale) \/ UpdateOracle(t, o, stale)
      BY <1>1, <2>2 DEF AddToWhitelist, UpdateOracle, OraclesKnown, TokenConfigs
  <2>3. CASE \E t : RemoveFromWhitelist(t)
      BY <1>1, <2>3 DEF RemoveFromWhitelist, OraclesKnown
  <2>4. CASE \E t \in Tokens : \E x :
                \/ SetDepositActive(t, x) \/ SetWithdrawActive(t, x)
                \/ UpdateDepositCap(t, x) \/ UpdatePegBand(t, x)
      BY <1>1, <2>4 DEF SetDepositActive, SetWithdrawActive, UpdateDepositCap, UpdatePegBand,
                        OraclesKnown, TokenConfigs
  <2>5. QED
      BY <1>1, <1>4, <2>1, <2>2, <2>3, <2>4
         DEF TreasuryNext, Sweep, UpdateSanctionsList, Pull, Push, Swap, UpdateSwapper,
             UpdatePriceTolerance, SetDepositActive, SetWithdrawActive, treasuryVars
<1>5. QED
    BY <1>2, <1>3, <1>4, SettingsMove

LEMMA ReserveOfBounds ==
    ASSUME TypeOK, OraclesKnown, ReserveAnswers, NEW t \in whitelisted
    PROVE  ReserveOf(t) \in Nat /\ ReserveOf(t) <= Held(t) * Scale[t]
<1> DEFINE h == Held(t)
           c == Scale[t]
           q == MinOf(OraclePrice(t), UNIT)
           v == MulDiv(h, q, UNIT)
<1>1. h \in Nat /\ c \in Nat /\ h * c \in Nat /\ t \in Tokens
    BY HeldType DEF TypeOK, TreasuryTypeOK
<1>2. CASE h = 0
    BY <1>1, <1>2 DEF ReserveOf
<1>3. CASE h # 0
  <2>1. OraclePrice(t) \in Int /\ OraclePrice(t) > 0
      BY <1>1, <1>3
         DEF ReserveAnswers, OracleAnswers, OraclePrice, OraclesKnown, TypeOK, ExternalsTypeOK, Rounds
  <2>2. q \in Nat /\ q <= UNIT /\ UNIT \in Nat \ {0}
      BY <2>1, ExternalsAssumption DEF MinOf
  <2>3. ReserveOf(t) = v * c
      BY <1>3 DEF ReserveOf
  <2> HIDE DEF h, c, q
  <2>4. v \in Nat /\ v <= h
      BY <1>1, <2>2, MulDivType, MulDivAtMost
  <2> HIDE DEF v
  <2>5. v * c \in Nat /\ v * c <= h * c
      BY <1>1, <2>4
  <2>6. QED
      BY <2>3, <2>5 DEF h, c
<1>4. QED
    BY <1>2, <1>3

\* At par the other tokens are worth at least what they add to the reserve.
LEMMA ReserveOfOthers ==
    ASSUME TypeOK, OraclesKnown, ReserveAnswers, NEW t \in whitelisted
    PROVE  /\ Reserve \in Nat
           /\ Reserve - ReserveOf(t) <= ParValue - Held(t) * Scale[t]
<1> DEFINE f == [s \in whitelisted |-> ReserveOf(s)]
           g == [s \in Tokens |-> Held(s) * Scale[s]]
           others == whitelisted \ {t}
<1>1. /\ whitelisted \subseteq Tokens /\ t \in Tokens
      /\ IsFiniteSet(Tokens) /\ IsFiniteSet(whitelisted) /\ IsFiniteSet(others)
    BY TreasuryAssumption, FS_Subset DEF TypeOK, TreasuryTypeOK
<1>2. \A s \in Tokens : g[s] \in Nat
    BY HeldType
<1>3. \A s \in whitelisted : f[s] \in Nat /\ f[s] <= g[s]
    BY <1>1, ReserveOfBounds
<1>4. Reserve = SumFunctionOnSet(f, whitelisted) /\ ParValue = SumFunctionOnSet(g, Tokens)
    BY DEF Reserve, ParValue, SumFunction
<1>5. f[t] = ReserveOf(t) /\ g[t] = Held(t) * Scale[t]
    BY <1>1
<1> HIDE DEF f, g
<1>6. SumFunctionOnSet(f, whitelisted) = f[t] + SumFunctionOnSet(f, others)
    BY <1>1, <1>3, SumRemove
<1>7. SumFunctionOnSet(g, Tokens) = g[t] + SumFunctionOnSet(g, Tokens \ {t})
    BY <1>1, <1>2, SumRemove
<1>8. SumFunctionOnSet(f, others) <= SumFunctionOnSet(g, others)
  <2>1. \A s \in others : f[s] \in Int /\ g[s] \in Int /\ f[s] <= g[s]
      BY <1>1, <1>2, <1>3
  <2>2. QED
      BY <1>1, <2>1, SumAtMost
<1>9. /\ SumFunctionOnSet(g, others) \in Nat /\ SumFunctionOnSet(g, Tokens \ {t}) \in Nat
      /\ SumFunctionOnSet(g, others) <= SumFunctionOnSet(g, Tokens \ {t})
  <2>1. IsFiniteSet(Tokens \ {t}) /\ others \in SUBSET (Tokens \ {t})
      BY <1>1, FS_Subset
  <2>2. QED
      BY <1>2, <2>1, SumNat
<1>10. SumFunctionOnSet(f, others) \in Nat /\ SumFunctionOnSet(f, whitelisted) \in Nat
    BY <1>1, <1>3, SumNat
<1>11. f[t] \in Nat /\ g[t] \in Nat
    BY <1>1, <1>2, <1>3
<1>12. QED
    BY <1>4, <1>5, <1>6, <1>7, <1>8, <1>9, <1>10, <1>11

\* The price a harvest divides by is at least the one the reserve is valued at, and it
\* rounds down, so that it takes no more than the excess, at par.
LEMMA HarvestBounds ==
    ASSUME NEW h \in Nat, NEW c \in Nat \ {0}, NEW unit \in Nat \ {0}, NEW m \in Nat \ {0},
           NEW q \in Nat, q <= m, q <= unit, NEW e \in Nat, NEW paid \in Nat, paid <= h,
           paid <= MulDiv(e, unit, m) \div c
    PROVE  (h - paid) * c >= MulDiv(h, q, unit) * c - e
<1> DEFINE x == MulDiv(e, unit, m)
           v == MulDiv(h, q, unit)
           k == h - paid
<1>1. x \in Nat /\ v \in Nat /\ k \in Nat
  <2>1. x \in Nat /\ v \in Nat
      BY MulDivType
  <2>2. h - paid \in Nat
      OBVIOUS
  <2>3. QED
      BY <2>1, <2>2
<1>2. x * m <= e * unit /\ v * unit <= h * q
    BY MulDivTimes
<1>3. paid * c <= x
  <2>1. paid <= x \div c
      OBVIOUS
  <2> HIDE DEF x
  <2>2. (x \div c) * c <= x /\ x \div c \in Nat
      BY <1>1, DivMulAtMost
  <2>3. paid * c <= (x \div c) * c
      BY <2>1, <2>2
  <2>4. QED
      BY <1>1, <2>2, <2>3
<1> HIDE DEF x, v
<1>4. (paid * c) * q <= e * unit
  <2>1. paid * c \in Nat
      OBVIOUS
  <2>2. (paid * c) * q <= x * m
    <3> DEFINE p == paid * c
    <3>1. p \in Nat /\ p <= x
        BY <1>3, <2>1
    <3> HIDE DEF p
    <3>2. p * q <= x * q /\ x * q <= x * m
        BY <1>1, <3>1
    <3>3. p * q \in Nat /\ x * q \in Nat /\ x * m \in Nat
        BY <1>1, <3>1
    <3>4. p * q <= x * m
        BY <3>2, <3>3
    <3>5. QED
        BY <3>4 DEF p
  <2>3. (paid * c) * q \in Nat /\ x * m \in Nat /\ e * unit \in Nat
      BY <1>1, <2>1
  <2>4. QED
      BY <1>2, <2>2, <2>3
<1>5. (v * c) * unit <= (h * c) * q
  <2>1. (v * unit) * c <= (h * q) * c
      BY <1>1, <1>2
  <2>2. (v * unit) * c = (v * c) * unit /\ (h * q) * c = (h * c) * q
      BY <1>1
  <2>3. QED
      BY <2>1, <2>2
<1>6. (h * c) * q = (k * c) * q + (paid * c) * q
    BY <1>1
<1>7. (k * c) * q <= (k * c) * unit
  <2>1. k * c \in Nat
      BY <1>1
  <2>2. QED
      BY <2>1
<1> HIDE DEF k
<1>8. (v * c) * unit <= (k * c) * unit + e * unit
  <2>1. /\ (v * c) * unit \in Nat /\ (h * c) * q \in Nat /\ (k * c) * q \in Nat
        /\ (paid * c) * q \in Nat /\ (k * c) * unit \in Nat /\ e * unit \in Nat
      BY <1>1
  <2>2. QED
      BY <1>4, <1>5, <1>6, <1>7, <2>1
<1>9. v * c <= k * c + e
  <2> DEFINE a == v * c
             b == k * c
  <2>1. a \in Nat /\ b \in Nat /\ a * unit <= b * unit + e * unit
      BY <1>1, <1>8
  <2> HIDE DEF a, b
  <2>2. a * unit <= (b + e) * unit
      BY <2>1
  <2>3. a <= b + e
      BY <2>1, <2>2
  <2>4. QED
      BY <2>3 DEF a, b
<1>10. v * c \in Int /\ k * c \in Int
    BY <1>1
<1>11. QED
    BY <1>9, <1>10 DEF v, k

LEMMA HarvestStepSurplus ==
    ASSUME CoreInv, CoreInv', OraclesKnown, HarvestStep
    PROVE  ParValue' >= UserSupply' /\ UserSupply' = UserSupply
<1>1. PICK t \in Tokens, r \in Receivers : HarvestExcess(t, r)
    BY DEF HarvestStep
<1> DEFINE backed == supply - amoSupply
           e == Reserve - backed
           h == Held(t)
           c == Scale[t]
           q == MinOf(OraclePrice(t), UNIT)
           m == MintPrice(t)
           paid == MinOf(ExcessTokens(t, backed), Held(t))
<1>2. TypeOK /\ TypeOK' /\ t \in whitelisted /\ ReserveAnswers /\ Priced(t) /\ Reserve > backed
      /\ UNCHANGED <<supply, amoSupply>>
    BY <1>1 DEF CoreInv, HarvestExcess, Harvest, tokenVars, gatewayVars, amoVars
<1>3. UserSupply = backed /\ backed \in Nat /\ UserSupply' = UserSupply
    BY <1>2, UserSupplyIs
<1>4. paid \in Nat /\ PayOut(t, paid)
    BY <1>1 DEF HarvestExcess, Harvest
<1>5. Reserve \in Nat /\ Reserve - ReserveOf(t) <= ParValue - Held(t) * Scale[t]
    BY <1>2, ReserveOfOthers
<1>6. h \in Nat /\ c \in Nat \ {0} /\ UNIT \in Nat \ {0} /\ m \in Nat \ {0} /\ e \in Nat
    BY <1>2, <1>3, <1>5, HeldType, PriceBounds, ExternalsAssumption
<1>7. q \in Nat /\ q <= UNIT /\ q <= m
  <2>1. OraclePrice(t) \in Int /\ OraclePrice(t) > 0
      BY <1>2 DEF Priced, OracleAnswers, OraclePrice, OraclesKnown, TypeOK, ExternalsTypeOK, Rounds
  <2>2. QED
      BY <2>1, ExternalsAssumption DEF MinOf, MintPrice
<1>8. paid <= h
    BY <1>4 DEF PayOut
<1>9. paid <= MulDiv(e, UNIT, m) \div c
  <2>1. MulDiv(e, UNIT, m) \div c \in Nat
    <3> HIDE DEF e, m, c
    <3>1. QED
        BY <1>6, MulDivType, DivMulAtMost
  <2>2. ExcessTokens(t, backed) = MulDiv(e, UNIT, m) \div c
      BY DEF ExcessTokens
  <2>3. QED
      BY <1>6, <2>1, <2>2 DEF MinOf
<1>10. (h - paid) * c >= MulDiv(h, q, UNIT) * c - e
  <2> HIDE DEF e, h, c, q, m, paid
  <2>1. QED
      BY <1>4, <1>6, <1>7, <1>8, <1>9, HarvestBounds
<1>11. ReserveOf(t) <= MulDiv(h, q, UNIT) * c
  <2>1. MulDiv(h, q, UNIT) * c \in Nat
    <3> HIDE DEF h, q, c
    <3>1. MulDiv(h, q, UNIT) \in Nat
        BY <1>6, <1>7, MulDivType
    <3>2. QED
        BY <1>6, <3>1
  <2>2. QED
      BY <2>1 DEF ReserveOf
<1>12. ParValue' = ParValue + (-paid) * Scale[t]
    BY <1>2, <1>4, PayOutHeld, ParValueMoves
<1>13. /\ (-paid) * c = -(paid * c) /\ (h - paid) * c = h * c - paid * c
       /\ paid * c \in Int /\ h * c \in Int
  <2> HIDE DEF h, c, paid
  <2>1. QED
      BY <1>4, <1>6
<1>14. ParValue \in Int /\ ReserveOf(t) \in Int /\ MulDiv(h, q, UNIT) * c \in Int
  <2>1. MulDiv(h, q, UNIT) \in Nat
    <3> HIDE DEF h, q
    <3>1. QED
        BY <1>6, <1>7, MulDivType
  <2>2. MulDiv(h, q, UNIT) * c \in Int
      BY <1>6, <2>1
  <2>3. QED
      BY <1>2, <2>2, ParValueType, ReserveOfBounds
<1> HIDE DEF q, m, paid
<1>15. QED
    BY <1>3, <1>5, <1>10, <1>11, <1>12, <1>13, <1>14

\* Whatever the prices it is computed at, a harvest leaves the supply covered at par
\* (Treasury.harvest, _excessTokens).
THEOREM HarvestsTakeSurplus == Spec => HarvestTakesOnlySurplus
<1>1. Init => OraclesKnown
    BY DEF Init, TreasuryInit, OraclesKnown
<1>2. CoreInv /\ OraclesKnown /\ [Next]_vars => OraclesKnown'
    BY OraclesStep
<1>3. CoreInv /\ CoreInv' /\ OraclesKnown /\ [Next]_vars
        => [(\E t \in Tokens, r \in Receivers : HarvestExcess(t, r))
              => UNCHANGED collateralVars \/ ParValue' >= UserSupply']_vars
    BY HarvestStepSurplus DEF HarvestStep
<1>4. QED
    BY <1>1, <1>2, <1>3, InitInv, NextInv, PTL DEF Spec, HarvestTakesOnlySurplus

-----------------------------------------------------------------------------
(* The reserve implements ParReserve.  Three kinds of step are left out,   *)
(* because in them collateral leaves other than by a trade or a harvest:   *)
(* a loss of a vault, the sweep and the swap of a delisted token.          *)

OrdinaryNext ==
    \/ UserNext
    \/ UmmNext
    \/ Next /\ \A t \in Tokens : Held(t)' >= Held(t)

LEMMA OrdinarySteps ==
    ASSUME CoreInv, [OrdinaryNext]_vars
    PROVE  [Next]_vars
    BY DEF OrdinaryNext, Next

\* Collateral that only grows is worth no less at par.
LEMMA ParValueGrows ==
    ASSUME TypeOK, TypeOK', \A t \in Tokens : Held(t)' >= Held(t)
    PROVE  ParValue' >= ParValue
<1> DEFINE f == [t \in Tokens |-> Held(t) * Scale[t]]
           g == [t \in Tokens |-> Held(t)' * Scale[t]]
<1>1. \A t \in Tokens : f[t] \in Int /\ g[t] \in Int /\ f[t] <= g[t]
  <2>1. SUFFICES ASSUME NEW t \in Tokens
                 PROVE  /\ Held(t) * Scale[t] \in Int /\ Held(t)' * Scale[t] \in Int
                        /\ Held(t) * Scale[t] <= Held(t)' * Scale[t]
      OBVIOUS
  <2>2. Held(t) \in Nat /\ Held(t)' \in Nat /\ Scale[t] \in Nat
      BY TreasuryAssumption DEF TypeOK, ExternalsTypeOK, Held
  <2> DEFINE a == Held(t)
             b == Held(t)'
             c == Scale[t]
  <2>3. a \in Nat /\ b \in Nat /\ c \in Nat /\ a <= b
      BY <2>2
  <2> HIDE DEF a, b, c
  <2>4. a * c \in Int /\ b * c \in Int /\ a * c <= b * c
      BY <2>3
  <2>5. QED
      BY <2>4 DEF a, b, c
<1>2. ParValue = SumFunctionOnSet(f, Tokens) /\ ParValue' = SumFunctionOnSet(g, Tokens)
    BY DEF ParValue, SumFunction
<1>3. ParValue \in Nat
    BY ParValueType
<1> HIDE DEF f, g
<1>4. SumFunctionOnSet(f, Tokens) <= SumFunctionOnSet(g, Tokens)
    BY <1>1, SumAtMost, TreasuryAssumption
<1>5. SumFunctionOnSet(f, Tokens) \in Int /\ SumFunctionOnSet(g, Tokens) \in Int
    BY <1>1, SumInt, TreasuryAssumption
<1>6. QED
    BY <1>2, <1>4, <1>5

LEMMA ParValueTypeNext ==
    ASSUME TypeOK'
    PROVE  ParValue' \in Nat
<1> DEFINE g == [t \in Tokens |-> Held(t)' * Scale[t]]
<1>1. \A t \in Tokens : g[t] \in Nat
    BY TreasuryAssumption DEF TypeOK, ExternalsTypeOK, Held
<1>2. ParValue' = SumFunctionOnSet(g, Tokens)
    BY DEF ParValue, SumFunction
<1> HIDE DEF g
<1>3. QED
    BY <1>1, <1>2, SumNat, TreasuryAssumption

LEMMA SurplusGrows ==
    ASSUME NEW a \in Nat, NEW b \in Nat, NEW c \in Nat, b >= a
    PROVE  b - c >= a - c
    OBVIOUS

\* Each step is a trade, a release or a stutter of ParReserve.
LEMMA ReserveStep ==
    ASSUME CoreInv, CoreInv', OraclesKnown, [OrdinaryNext]_vars
    PROVE  \/ Par!Trade
           \/ Par!Release
           \/ UNCHANGED <<ParValue, UserSupply>>
<1>1. [Next]_vars
    BY OrdinarySteps
<1>2. TypeOK /\ TypeOK' /\ ParValue \in Nat /\ ParValue' \in Nat
    BY ParValueType, ParValueTypeNext DEF CoreInv
<1>3. UserSupply \in Nat /\ UserSupply' \in Nat
    BY UserSupplyIs
<1>4. CASE UserSupply' # UserSupply
  <2>1. ParValue' - UserSupply' >= ParValue - UserSupply
      BY <1>1, <1>4, UserSupplyMoves, DepositKeepsBacking, RedeemKeepsBacking
  <2>2. QED
      BY <1>2, <1>3, <2>1 DEF Par!Trade
<1>5. CASE UserSupply' = UserSupply
  <2>1. CASE \A t \in Tokens : Held(t)' >= Held(t)
    <3>1. ParValue' >= ParValue
        BY <1>2, <2>1, ParValueGrows
    <3>2. ParValue' - UserSupply' >= ParValue - UserSupply
        BY <1>2, <1>3, <1>5, <3>1, SurplusGrows
    <3>3. QED
        BY <1>2, <1>3, <1>5, <3>2 DEF Par!Trade
  <2>2. CASE DepositStep
    <3>1. ParValue' - UserSupply' >= ParValue - UserSupply
        BY <2>2, DepositKeepsBacking
    <3>2. QED
        BY <1>2, <1>3, <3>1 DEF Par!Trade
  <2>3. CASE RedeemStep
    <3>1. ParValue' - UserSupply' >= ParValue - UserSupply
        BY <2>3, RedeemKeepsBacking
    <3>2. QED
        BY <1>2, <1>3, <3>1 DEF Par!Trade
  <2>4. CASE HarvestStep
    <3>1. ParValue' >= UserSupply
        BY <2>4, HarvestStepSurplus
    <3>2. QED
        BY <1>2, <1>5, <3>1 DEF Par!Release
  <2>5. CASE UNCHANGED collateralVars
      BY <1>5, <2>5, ParValueSame
  <2>6. \/ \A t \in Tokens : Held(t)' >= Held(t)
        \/ DepositStep \/ RedeemStep \/ HarvestStep
        \/ UNCHANGED collateralVars
    <3>1. CASE UserNext \/ UmmNext
      <4>1. DepositStep \/ RedeemStep \/ RequestStep \/ CancelStep \/ AmoStep \/ HarvestStep
          BY <3>1, UserUmmSteps
      <4>2. RequestStep \/ CancelStep \/ AmoStep => UNCHANGED collateralVars
          BY DEF RequestStep, RequestRedeem, CancelStep, CancelRedeemRequest, AmoStep, MintToAMO,
                 BurnFromAMO
      <4>3. QED
          BY <4>1, <4>2
    <3>2. QED
        BY <3>1 DEF OrdinaryNext, vars
  <2>7. QED
      BY <2>1, <2>2, <2>3, <2>4, <2>5, <2>6
<1>6. QED
    BY <1>4, <1>5

LEMMA ReserveInitially ==
    ASSUME Init
    PROVE  ParValue = 0 /\ UserSupply = 0
<1> DEFINE f == [t \in Tokens |-> Held(t) * Scale[t]]
<1>1. \A t \in Tokens : f[t] = 0
    BY TreasuryAssumption DEF Init, ExternalsInit, Held
<1>2. ParValue = SumFunctionOnSet(f, Tokens)
    BY DEF ParValue, SumFunction
<1>3. ParValue = 0
  <2> HIDE DEF f
  <2>1. QED
      BY <1>1, <1>2, SumZero, TreasuryAssumption
<1>4. UserSupply = 0
    BY DEF Init, TokenInit, GatewayInit, UserSupply, Monus
<1>5. QED
    BY <1>3, <1>4

\* The core implements ParReserve in every behaviour in which collateral leaves by
\* trades and harvests only: deposit, mint, redeem, withdraw, AMO operations, yield and
\* donations are trades of it, harvests releases, and everything else stutters.
THEOREM ImplementsParReserve == Init /\ [][OrdinaryNext]_vars => BackedAtPar
<1>1. Init => CoreInv /\ OraclesKnown /\ Par!ReserveInit
    BY InitInv, ReserveInitially DEF Init, TreasuryInit, OraclesKnown, Par!ReserveInit
<1>2. CoreInv /\ OraclesKnown /\ [OrdinaryNext]_vars => CoreInv' /\ OraclesKnown'
    BY OrdinarySteps, NextInv, OraclesStep
<1>3. CoreInv /\ CoreInv' /\ OraclesKnown /\ [OrdinaryNext]_vars
        => [Par!ReserveNext]_(Par!reserveVars)
    BY ReserveStep DEF Par!ReserveNext, Par!reserveVars
<1>4. QED
    BY <1>1, <1>2, <1>3, PTL DEF BackedAtPar, Par!ReserveSpec

\* So the collateral at par covers the supply it backs, in every such behaviour.
THEOREM CollateralCovers == Init /\ [][OrdinaryNext]_vars => []Par!Covered
<1>1. Par!ReserveInit => Par!Covered
    BY DEF Par!ReserveInit, Par!Covered
<1>2. Par!Covered /\ [Par!ReserveNext]_(Par!reserveVars) => Par!Covered'
    BY DEF Par!Covered, Par!ReserveNext, Par!Trade, Par!Release, Par!reserveVars
<1>3. Par!ReserveSpec => []Par!Covered
    BY <1>1, <1>2, PTL DEF Par!ReserveSpec
<1>4. QED
    BY <1>3, ImplementsParReserve, PTL DEF BackedAtPar

\* The steps left out.
Outflow ==
    \/ \E t \in Tokens, n \in LossAmounts : LoseYield(t, n)
    \/ \E t \in Removable : Sweep(t)
    \/ \E tokenIn, tokenOut \in Tokens, n \in VaultMoves, m \in SwapOuts :
        Swap(tokenIn, tokenOut, n, m)

\* There are no others.
LEMMA OrdinaryOrOutflow ==
    ASSUME CoreInv, [Next]_vars
    PROVE  [OrdinaryNext]_vars \/ Outflow
<1>1. /\ idle \in [Tokens -> Nat] /\ invested \in [Tokens -> Nat]
      /\ \A t \in Tokens : Held(t) \in Nat
    BY DEF CoreInv, TypeOK, ExternalsTypeOK, TreasuryTypeOK, Held
<1>2. CASE UNCHANGED collateralVars
  <2>1. \A t \in Tokens : Held(t)' >= Held(t)
      BY <1>1, <1>2 DEF collateralVars, Held
  <2>2. QED
      BY <2>1 DEF OrdinaryNext
<1>3. CASE TreasuryNext /\ UNCHANGED <<marketVars, tokenVars, gatewayVars>>
  <2>1. CASE \E t \in Tokens, n \in VaultMoves : Pull(t, n) \/ Push(t, n)
    <3>1. PICK t \in Tokens, n \in VaultMoves : Pull(t, n) \/ Push(t, n)
        BY <2>1
    <3>2. n \in Nat
        BY TreasuryAssumption
    <3>3. CASE Pull(t, n)
      <4>1. \A s \in Tokens : Held(s)' >= Held(s)
          BY <1>1, <3>2, <3>3 DEF Pull, Held
      <4>2. QED
          BY <4>1 DEF OrdinaryNext
    <3>4. CASE Push(t, n)
      <4>1. \A s \in Tokens : Held(s)' >= Held(s)
          BY <1>1, <3>2, <3>4 DEF Push, Held
      <4>2. QED
          BY <4>1 DEF OrdinaryNext
    <3>5. QED
        BY <3>1, <3>3, <3>4
  <2>2. \/ UNCHANGED collateralVars
        \/ \E t \in Tokens, n \in VaultMoves : Pull(t, n) \/ Push(t, n)
        \/ Outflow
      BY <1>3
         DEF TreasuryNext, AddToWhitelist, UpdateOracle, RemoveFromWhitelist,
             UpdateSanctionsList, SetDepositActive, SetWithdrawActive, Outflow, UpdateDepositCap, UpdatePegBand, UpdatePriceTolerance,
             UpdateSwapper
  <2>3. QED
      BY <1>2, <2>1, <2>2
<1>4. CASE ExternalsNext /\ UNCHANGED <<tokenVars, treasuryVars, gatewayVars>>
  <2>1. CASE \E t \in Tokens, n \in YieldAmounts : EarnYield(t, n)
    <3>1. PICK t \in Tokens, n \in YieldAmounts : EarnYield(t, n)
        BY <2>1
    <3>2. n \in Nat
        BY ExternalsAssumption
    <3>3. \A s \in Tokens : Held(s)' >= Held(s)
        BY <1>1, <3>1, <3>2 DEF EarnYield, Held
    <3>4. QED
        BY <3>3 DEF OrdinaryNext
  <2>2. CASE \E t \in Tokens, n \in Donations : Donate(t, n)
    <3>1. PICK t \in Tokens, n \in Donations : Donate(t, n)
        BY <2>2
    <3>2. n \in Nat
        BY ExternalsAssumption
    <3>3. \A s \in Tokens : Held(s)' >= Held(s)
        BY <1>1, <3>1, <3>2 DEF Donate, Held
    <3>4. QED
        BY <3>3 DEF OrdinaryNext
  <2>3. \/ UNCHANGED collateralVars
        \/ \E t \in Tokens, n \in YieldAmounts : EarnYield(t, n)
        \/ \E t \in Tokens, n \in Donations : Donate(t, n)
        \/ Outflow
      BY <1>4 DEF ExternalsNext, Outflow, Tick, AnswerRound, SetListed
  <2>4. QED
      BY <1>2, <2>1, <2>2, <2>3
<1>5. CASE UserNext \/ UmmNext
    BY <1>5 DEF OrdinaryNext
<1>6. CASE SettingsNext
  <2>1. UNCHANGED collateralVars
      BY <1>6 DEF SettingsNext, UpdateAmoMintLimit, UpdateMintLimit, UpdateMintFee,
                  UpdateRedeemFee, UpdateWithdrawalDelay, SetWithdrawalDelayEnabled,
                  AddToInstantRedeemWhitelist, RemoveFromInstantRedeemWhitelist, SettingsOnly
  <2>2. QED
      BY <1>2, <2>1
<1>7. CASE TokenNext /\ UNCHANGED <<marketVars, collateralVars, treasuryVars, gatewayVars>>
    BY <1>2, <1>7
<1>8. QED
    BY <1>3, <1>4, <1>5, <1>6, <1>7 DEF Next

\* The surplus at par shrinks for three reasons only: a harvest that leaves the supply
\* covered, the loss of a yield vault, and the sweep or the swap of a token that is not
\* whitelisted.  No trade, setting, price, pull, push or AMO operation opens a deficit or
\* deepens one (Gateway, Treasury).
THEOREM DeficitsOnlyByOutflow ==
    Spec => [][ParValue' - UserSupply' < ParValue - UserSupply
                => Outflow \/ ParValue' >= UserSupply']_vars
<1>1. Init => CoreInv /\ OraclesKnown
    BY InitInv DEF Init, TreasuryInit, OraclesKnown
<1>2. CoreInv /\ OraclesKnown /\ [Next]_vars => CoreInv' /\ OraclesKnown'
    BY NextInv, OraclesStep
<1>3. ASSUME CoreInv, CoreInv', OraclesKnown, [Next]_vars
      PROVE  ParValue' - UserSupply' < ParValue - UserSupply
                => Outflow \/ ParValue' >= UserSupply'
  <2>1. /\ ParValue \in Nat /\ ParValue' \in Nat
        /\ UserSupply \in Nat /\ UserSupply' \in Nat
      BY <1>3, ParValueType, ParValueTypeNext, UserSupplyIs DEF CoreInv
  <2>2. CASE [OrdinaryNext]_vars
    <3>1. \/ Par!Trade
          \/ Par!Release
          \/ UNCHANGED <<ParValue, UserSupply>>
        BY <1>3, <2>2, ReserveStep
    <3>2. CASE Par!Trade
      <4>1. ParValue' - UserSupply' >= ParValue - UserSupply
          BY <3>2 DEF Par!Trade
      <4>2. ~(ParValue' - UserSupply' < ParValue - UserSupply)
        <5> DEFINE a == ParValue'
                   b == UserSupply'
                   c == ParValue
                   d == UserSupply
        <5>1. a \in Nat /\ b \in Nat /\ c \in Nat /\ d \in Nat /\ a - b >= c - d
            BY <2>1, <4>1
        <5> HIDE DEF a, b, c, d
        <5>2. ~(a - b < c - d)
            BY <5>1
        <5>3. QED
            BY <5>2 DEF a, b, c, d
      <4>3. QED
          BY <4>2
    <3>3. CASE Par!Release
      <4>1. ParValue' >= UserSupply /\ UserSupply' = UserSupply
          BY <3>3 DEF Par!Release
      <4>2. QED
          BY <2>1, <4>1
    <3>4. CASE UNCHANGED <<ParValue, UserSupply>>
      <4>1. ParValue' = ParValue /\ UserSupply' = UserSupply
          BY <3>4
      <4>2. QED
          BY <2>1, <4>1
    <3>5. QED
        BY <3>1, <3>2, <3>3, <3>4
  <2>3. QED
      BY <1>3, <2>2, OrdinaryOrOutflow
<1>4. QED
    BY <1>1, <1>2, <1>3, PTL DEF Spec

\* With no losses, and no token ever delisted, every step is ordinary.
LEMMA AllOrdinary ==
    ASSUME LossAmounts = {}, Removable = {}, Swappers = {}, CoreInv, [Next]_vars
    PROVE  [OrdinaryNext]_vars
<1>1. swapper = NoSwapper
    BY DEF CoreInv, TypeOK, TreasuryTypeOK
<1>2. ~Outflow
    BY <1>1 DEF Outflow, Swap
<1>3. QED
    BY <1>2, OrdinaryOrOutflow

\* The property of the run "harvest", for every size of instance: while no vault loses and
\* no token is delisted, the specification of the core implements ParReserve.
THEOREM BackedWithoutLosses ==
    ASSUME LossAmounts = {}, Removable = {}, Swappers = {}
    PROVE  Spec => BackedAtPar
<1>1. CoreInv /\ [Next]_vars => [OrdinaryNext]_vars
    BY AllOrdinary
<1>2. QED
    BY <1>1, InitInv, NextInv, ImplementsParReserve, PTL DEF Spec

==============================================================================
