------------------------------- MODULE Gateway -------------------------------
(***************************************************************************)
(* Gateway.sol: users mint PeggedToken against collateral and redeem it,   *)
(* after a delay unless they are exempt; the AMO mints and burns supply    *)
(* that no collateral backs.  One action per external function, each the   *)
(* whole transaction: the ledger and reserve effects of PeggedToken and    *)
(* Treasury are conjuncts of it.                                           *)
(***************************************************************************)
EXTENDS Treasury

CONSTANTS
    One,                    \* token -> 10 ** decimals
    OnePegged,              \* 10 ** 18
    MAX_FEE_BPS,            \* 500
    MAX_WITHDRAWAL_DELAY,   \* 30 days
    INIT_MINT_LIMIT,
    INIT_WITHDRAWAL_DELAY,
    UMMs,                   \* holders of UMM_ROLE
    CollateralAmounts,      \* amounts of collateral users pass to deposit and withdraw
    PeggedAmounts,          \* amounts of PeggedToken users pass to mint, redeem, requestRedeem
    AmoAmounts,             \* amounts of mintToAMO and burnFromAMO
    Receivers,              \* receivers users name
    Limits, Fees, Delays,   \* arguments of the update* calls
    DelaySwitches,          \* values setWithdrawalDelayEnabled may be given
    Exemptable              \* accounts the instant redeem whitelist may hold

ASSUME GatewayAssumption ==
    /\ IsFiniteSet(Accounts)
    /\ One \in [Tokens -> Nat \ {0}]
    /\ \A t \in Tokens : OnePegged = One[t] * Scale[t]
    /\ MAX_FEE_BPS \in 0..MAX_BPS
    /\ MAX_WITHDRAWAL_DELAY \in Nat
    /\ INIT_MINT_LIMIT \in Nat
    /\ INIT_WITHDRAWAL_DELAY \in 1..MAX_WITHDRAWAL_DELAY
    /\ UMMs \subseteq Users
    /\ CollateralAmounts \subseteq Nat
    /\ PeggedAmounts \subseteq Nat
    /\ AmoAmounts \subseteq Nat
    /\ Limits \subseteq Nat
    /\ Fees \subseteq Nat
    /\ Delays \subseteq Nat
    /\ DelaySwitches \subseteq BOOLEAN
    /\ Exemptable \subseteq Users

VARIABLES
    amoSupply,
    amoMintLimit,
    mintLimit,
    mintFee,                \* token -> bps
    redeemFee,              \* token -> bps
    withdrawalDelay,
    withdrawalDelayEnabled,
    instantRedeemWhitelist,
    redeemRequests          \* user -> [amountLocked, claimableAt]

amoVars == <<amoSupply, amoMintLimit>>
settingVars == <<mintLimit, mintFee, redeemFee, withdrawalDelay, withdrawalDelayEnabled,
                 instantRedeemWhitelist>>
gatewayVars == <<amoVars, settingVars, redeemRequests>>

Requests == [amountLocked : Nat, claimableAt : Nat]
NoRequest == [amountLocked |-> 0, claimableAt |-> 0]

GatewayTypeOK ==
    /\ amoSupply \in Nat
    /\ amoMintLimit \in Nat
    /\ mintLimit \in Nat
    /\ mintFee \in [Tokens -> 0..MAX_FEE_BPS]
    /\ redeemFee \in [Tokens -> 0..MAX_FEE_BPS]
    /\ withdrawalDelay \in 1..MAX_WITHDRAWAL_DELAY
    /\ withdrawalDelayEnabled \in BOOLEAN
    /\ instantRedeemWhitelist \in SUBSET Users
    /\ redeemRequests \in [Users -> Requests]

GatewayInit ==
    /\ amoSupply = 0
    /\ amoMintLimit = 0
    /\ mintLimit = INIT_MINT_LIMIT
    /\ mintFee = [t \in Tokens |-> 0]
    /\ redeemFee = [t \in Tokens |-> 0]
    /\ withdrawalDelay = INIT_WITHDRAWAL_DELAY
    /\ withdrawalDelayEnabled = TRUE
    /\ instantRedeemWhitelist = {}
    /\ redeemRequests = [u \in Users |-> NoRequest]

-----------------------------------------------------------------------------
\* Views.

AfterFee(n, fee) == IF fee > 0 THEN MulDiv(n, MAX_BPS - fee, MAX_BPS) ELSE n

\* _calculatePeggedTokenOutput
PreviewDeposit(t, amountIn) ==
    MulDiv(AfterFee(amountIn, mintFee[t]), MintPrice(t), UNIT) * Scale[t]

\* _calculateTokenOutput
PreviewRedeem(t, peggedIn) ==
    MulDiv(AfterFee(peggedIn, redeemFee[t]), UNIT, RedeemPrice(t)) \div Scale[t]

\* previewMint does not divide by zero.
MintQuotable(t) == PreviewDeposit(t, One[t]) # 0

\* Mutant: rounded in favour of the user.
PreviewMint_Floor(t, peggedOut) == MulDiv(peggedOut, One[t], PreviewDeposit(t, One[t]))

PreviewMint(t, peggedOut) == MulDivUp(peggedOut, One[t], PreviewDeposit(t, One[t]))

\* previewWithdraw does not divide by zero.
WithdrawQuotable(t) == PreviewRedeem(t, OnePegged) # 0

PreviewWithdraw(t, amountOut) == MulDivUp(amountOut, OnePegged, PreviewRedeem(t, OnePegged))

\* The supply that collateral backs.
UserSupply == Monus(supply, amoSupply)

\* Mutant: what was already minted does not count.
MaxMint_Whole == mintLimit

MaxMint == Monus(mintLimit, UserSupply)

MaxAmoMint == Monus(amoMintLimit, amoSupply)

MaxWithdraw(t) ==
    IF supply <= amoSupply THEN 0 ELSE MinOf(Withdrawable(t), PreviewRedeem(t, supply - amoSupply))

InstantRedeemAllowed(u) == withdrawalDelayEnabled => u \in instantRedeemWhitelist

HasRequest(u) == redeemRequests[u].claimableAt # 0

Claimable(u) == HasRequest(u) /\ now >= redeemRequests[u].claimableAt

-----------------------------------------------------------------------------
\* Deposit and mint.

ExecuteDeposit(u, t, amountIn, peggedOut, receiver) ==
    /\ amountIn # 0
    /\ ~Sanctioned(u)
    /\ ~Sanctioned(receiver)
    /\ peggedOut <= MaxMint
    /\ TreasuryDeposit(t, amountIn)
    /\ TokenMint(receiver, peggedOut)
    /\ UNCHANGED <<marketVars, gatewayVars>>

\* deposit: the minimum a user accepts is a further guard, absent here.
Deposit(u, t, amountIn, receiver) ==
    /\ Priced(t)
    /\ ExecuteDeposit(u, t, amountIn, PreviewDeposit(t, amountIn), receiver)

Mint(u, t, peggedOut, receiver) ==
    /\ Priced(t)
    /\ MintQuotable(t)
    /\ ExecuteDeposit(u, t, PreviewMint(t, peggedOut), peggedOut, receiver)

-----------------------------------------------------------------------------
\* Redeem and withdraw.

\* Mutant: a redemption is not held to what the AMO owes.
AmoStillBacked_Skipped == TRUE

\* _checkAmoBacking, on the supply left after the burn.
AmoStillBacked == supply' >= amoSupply

\* _executeWithdraw: the caller's own tokens, no request involved.
BurnFromWallet(u, burn) ==
    /\ InstantRedeemAllowed(u)
    /\ TokenBurnFrom(u, burn)
    /\ UNCHANGED redeemRequests

\* Mutants: a partial redemption leaves the request as it was; a request of which
\* nothing is left is not deleted.
BurnLocked_KeepsAmount(u, burn) ==
    /\ burn <= redeemRequests[u].amountLocked
    /\ TokenBurnFrom(GatewayAddr, burn)
    /\ redeemRequests' = [redeemRequests EXCEPT ![u] =
            IF burn = @.amountLocked THEN NoRequest ELSE @]

BurnLocked_NeverDeletes(u, burn) ==
    /\ burn <= redeemRequests[u].amountLocked
    /\ TokenBurnFrom(GatewayAddr, burn)
    /\ redeemRequests' = [redeemRequests EXCEPT ![u].amountLocked = @ - burn]

\* _processLockedRedeem, first case: the request covers the burn.
BurnLocked(u, burn) ==
    /\ burn <= redeemRequests[u].amountLocked
    /\ TokenBurnFrom(GatewayAddr, burn)
    /\ redeemRequests' = [redeemRequests EXCEPT ![u] =
            IF burn = @.amountLocked THEN NoRequest
            ELSE [redeemRequests[u] EXCEPT !.amountLocked = @ - burn]]

\* Second case: the whole request and the rest from the wallet.
BurnLockedAndWallet(u, burn) ==
    /\ burn > redeemRequests[u].amountLocked
    /\ InstantRedeemAllowed(u)
    /\ TokenBurnFromBoth(u, redeemRequests[u].amountLocked,
                         burn - redeemRequests[u].amountLocked)
    /\ redeemRequests' = [redeemRequests EXCEPT ![u] = NoRequest]

HandleRedeemOrWithdraw(u, t, burn, amountOut, receiver) ==
    /\ ~Sanctioned(u)
    /\ ~Sanctioned(receiver)
    /\ amountOut <= MaxWithdraw(t)
    /\ IF Claimable(u)
       THEN BurnLocked(u, burn) \/ BurnLockedAndWallet(u, burn)
       ELSE BurnFromWallet(u, burn)
    /\ AmoStillBacked
    /\ TreasuryWithdraw(t, amountOut, receiver)
    /\ UNCHANGED <<marketVars, amoVars, settingVars>>

Redeem(u, t, peggedIn, receiver) ==
    /\ Priced(t)
    /\ HandleRedeemOrWithdraw(u, t, peggedIn, PreviewRedeem(t, peggedIn), receiver)

Withdraw(u, t, amountOut, receiver) ==
    /\ Priced(t)
    /\ WithdrawQuotable(t)
    /\ HandleRedeemOrWithdraw(u, t, PreviewWithdraw(t, amountOut), amountOut, receiver)

-----------------------------------------------------------------------------
\* Delayed redemption.

\* Mutant: a merged request keeps the date of the first one.
RequestRedeem_KeepsDate(u, n) ==
    /\ n # 0
    /\ withdrawalDelayEnabled
    /\ ~Sanctioned(u)
    /\ TokenMove(u, GatewayAddr, n)
    /\ redeemRequests' = [redeemRequests EXCEPT ![u] =
            [amountLocked |-> @.amountLocked + n,
             claimableAt |-> IF HasRequest(u) THEN @.claimableAt ELSE now + withdrawalDelay]]
    /\ UNCHANGED <<marketVars, collateralVars, treasuryVars, amoVars, settingVars>>

RequestRedeem(u, n) ==
    /\ n # 0
    /\ withdrawalDelayEnabled
    /\ ~Sanctioned(u)
    /\ TokenMove(u, GatewayAddr, n)
    /\ redeemRequests' = [redeemRequests EXCEPT ![u] =
            [amountLocked |-> @.amountLocked + n, claimableAt |-> now + withdrawalDelay]]
    /\ UNCHANGED <<marketVars, collateralVars, treasuryVars, amoVars, settingVars>>

\* Mutants: a sanctioned user may cancel; only a claimable request may be cancelled.
CancelRedeemRequest_Unchecked(u) ==
    /\ HasRequest(u)
    /\ TokenMove(GatewayAddr, u, redeemRequests[u].amountLocked)
    /\ redeemRequests' = [redeemRequests EXCEPT ![u] = NoRequest]
    /\ UNCHANGED <<marketVars, collateralVars, treasuryVars, amoVars, settingVars>>

CancelRedeemRequest_WhenClaimable(u) ==
    /\ Claimable(u)
    /\ ~Sanctioned(u)
    /\ TokenMove(GatewayAddr, u, redeemRequests[u].amountLocked)
    /\ redeemRequests' = [redeemRequests EXCEPT ![u] = NoRequest]
    /\ UNCHANGED <<marketVars, collateralVars, treasuryVars, amoVars, settingVars>>

CancelRedeemRequest(u) ==
    /\ HasRequest(u)
    /\ ~Sanctioned(u)
    /\ TokenMove(GatewayAddr, u, redeemRequests[u].amountLocked)
    /\ redeemRequests' = [redeemRequests EXCEPT ![u] = NoRequest]
    /\ UNCHANGED <<marketVars, collateralVars, treasuryVars, amoVars, settingVars>>

-----------------------------------------------------------------------------
\* UMM_ROLE

MintToAMO(n, receiver) ==
    /\ n <= MaxAmoMint
    /\ amoSupply' = amoSupply + n
    /\ TokenMint(receiver, n)
    /\ UNCHANGED <<marketVars, collateralVars, treasuryVars, amoMintLimit, settingVars,
                   redeemRequests>>

\* Burns the caller's own PeggedToken, from whatever source.
BurnFromAMO(umm, n) ==
    /\ n # 0
    /\ TokenBurnFrom(umm, n)
    /\ n <= amoSupply
    /\ amoSupply' = amoSupply - n
    /\ UNCHANGED <<marketVars, collateralVars, treasuryVars, amoMintLimit, settingVars,
                   redeemRequests>>

\* harvest subtracts amoSupply from the supply to back, and would underflow below it.
HarvestExcess(t, receiver) ==
    /\ supply >= amoSupply
    /\ Harvest(t, supply - amoSupply, receiver)
    /\ UNCHANGED <<marketVars, tokenVars, gatewayVars>>

-----------------------------------------------------------------------------
\* Settings.

SettingsOnly == UNCHANGED <<marketVars, collateralVars, treasuryVars, tokenVars, redeemRequests>>

\* Mutant: the limit may be set below what the AMO holds.
UpdateAmoMintLimit_Unchecked(limit) ==
    /\ amoMintLimit' = limit
    /\ UNCHANGED <<amoSupply, settingVars>>
    /\ SettingsOnly

UpdateAmoMintLimit(limit) ==
    /\ limit >= amoSupply
    /\ amoMintLimit' = limit
    /\ UNCHANGED <<amoSupply, settingVars>>
    /\ SettingsOnly

UpdateMintLimit(limit) ==
    /\ mintLimit' = limit
    /\ UNCHANGED <<amoVars, mintFee, redeemFee, withdrawalDelay, withdrawalDelayEnabled,
                   instantRedeemWhitelist>>
    /\ SettingsOnly

UpdateMintFee(t, fee) ==
    /\ t \in whitelisted
    /\ fee <= MAX_FEE_BPS
    /\ mintFee' = [mintFee EXCEPT ![t] = fee]
    /\ UNCHANGED <<amoVars, mintLimit, redeemFee, withdrawalDelay, withdrawalDelayEnabled,
                   instantRedeemWhitelist>>
    /\ SettingsOnly

UpdateRedeemFee(t, fee) ==
    /\ t \in whitelisted
    /\ fee <= MAX_FEE_BPS
    /\ redeemFee' = [redeemFee EXCEPT ![t] = fee]
    /\ UNCHANGED <<amoVars, mintLimit, mintFee, withdrawalDelay, withdrawalDelayEnabled,
                   instantRedeemWhitelist>>
    /\ SettingsOnly

UpdateWithdrawalDelay(delay) ==
    /\ delay # 0 /\ delay <= MAX_WITHDRAWAL_DELAY
    /\ withdrawalDelay' = delay
    /\ UNCHANGED <<amoVars, mintLimit, mintFee, redeemFee, withdrawalDelayEnabled,
                   instantRedeemWhitelist>>
    /\ SettingsOnly

SetWithdrawalDelayEnabled(enabled) ==
    /\ withdrawalDelayEnabled' = enabled
    /\ UNCHANGED <<amoVars, mintLimit, mintFee, redeemFee, withdrawalDelay,
                   instantRedeemWhitelist>>
    /\ SettingsOnly

AddToInstantRedeemWhitelist(a) ==
    /\ a \notin instantRedeemWhitelist
    /\ instantRedeemWhitelist' = instantRedeemWhitelist \cup {a}
    /\ UNCHANGED <<amoVars, mintLimit, mintFee, redeemFee, withdrawalDelay,
                   withdrawalDelayEnabled>>
    /\ SettingsOnly

RemoveFromInstantRedeemWhitelist(a) ==
    /\ a \in instantRedeemWhitelist
    /\ instantRedeemWhitelist' = instantRedeemWhitelist \ {a}
    /\ UNCHANGED <<amoVars, mintLimit, mintFee, redeemFee, withdrawalDelay,
                   withdrawalDelayEnabled>>
    /\ SettingsOnly

-----------------------------------------------------------------------------
UserNext ==
    \E u \in Users :
        \/ \E t \in Tokens, r \in Receivers \cap Accounts :
            \/ \E n \in CollateralAmounts : Deposit(u, t, n, r)
            \/ \E n \in PeggedAmounts : Mint(u, t, n, r)
        \/ \E t \in Tokens, r \in Receivers :
            \/ \E n \in CollateralAmounts : Withdraw(u, t, n, r)
            \/ \E n \in PeggedAmounts : Redeem(u, t, n, r)
        \/ \E n \in PeggedAmounts : RequestRedeem(u, n)
        \/ CancelRedeemRequest(u)

UmmNext ==
    \/ \E n \in AmoAmounts, a \in Accounts : MintToAMO(n, a)
    \/ \E umm \in UMMs, n \in AmoAmounts : BurnFromAMO(umm, n)
    \/ \E t \in Tokens, r \in Receivers : HarvestExcess(t, r)

SettingsNext ==
    \/ \E limit \in Limits : UpdateAmoMintLimit(limit) \/ UpdateMintLimit(limit)
    \/ \E t \in Tokens, fee \in Fees : UpdateMintFee(t, fee) \/ UpdateRedeemFee(t, fee)
    \/ \E delay \in Delays : UpdateWithdrawalDelay(delay)
    \/ \E enabled \in DelaySwitches : SetWithdrawalDelayEnabled(enabled)
    \/ \E a \in Exemptable : AddToInstantRedeemWhitelist(a) \/ RemoveFromInstantRedeemWhitelist(a)

=============================================================================
