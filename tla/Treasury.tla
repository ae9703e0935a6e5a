------------------------------ MODULE Treasury ------------------------------
(***************************************************************************)
(* Treasury.sol: the collateral reserve.  Its transactions are those of    *)
(* the admin, maintainer, keeper and UMM roles; deposit and withdraw are   *)
(* onlyGateway and appear here as the effects TreasuryDeposit and          *)
(* TreasuryWithdraw of Gateway transactions.  Roles are implicit: an       *)
(* action is taken by whoever holds the role its handler demands.          *)
(***************************************************************************)
EXTENDS PeggedToken, FiniteSetsExt

CONSTANTS
    Scale,              \* token -> 10 ** (18 - decimals)
    MAX_BPS,            \* 10000 in the code
    MAX_STALE_PERIOD,   \* 72 hours
    MAX_WHITELISTED_TOKENS,
    INIT_PRICE_TOLERANCE,   \* 100 in the code
    UINT_MAX,           \* type(uint256).max: an unlimited deposit cap
    TreasuryAddr,       \* addresses that may not receive collateral
    VaultAddr,
    Removable,          \* tokens the admin may remove from the whitelist
    VaultMoves,         \* amounts the keeper pulls and pushes
    SwapOuts,           \* what a swap may return
    StalePeriods, Caps, Bands, Tolerances,  \* arguments of the update* calls
    Pausable,           \* tokens the keeper may pause
    Swappers,           \* swapper contracts
    SanctionsSwitches   \* whether the admin may set (TRUE) or clear (FALSE) the sanctions list

ASSUME TreasuryAssumption ==
    /\ IsFiniteSet(Tokens)
    /\ Scale \in [Tokens -> Nat \ {0}]
    /\ MAX_BPS \in Nat \ {0}
    /\ MAX_STALE_PERIOD \in Nat
    /\ MAX_WHITELISTED_TOKENS \in Nat
    /\ INIT_PRICE_TOLERANCE \in 0..MAX_BPS
    /\ UINT_MAX \in Nat
    /\ VaultMoves \subseteq Nat
    /\ SwapOuts \subseteq Nat
    /\ StalePeriods \subseteq Nat
    /\ Caps \subseteq Nat
    /\ Bands \subseteq Nat
    /\ Tolerances \subseteq Nat
    /\ SanctionsSwitches \subseteq BOOLEAN

VARIABLES
    whitelisted,        \* whitelistedTokens
    config,             \* tokenConfig
    priceTolerance,
    sanctionsListSet,   \* sanctionsList # address(0)
    swapper          \* swapper # address(0)

treasuryVars == <<whitelisted, config, priceTolerance, sanctionsListSet, swapper>>

NoOracle == "none"
NoSwapper == "none"

TokenConfigs ==
    [oracle : Oracles \cup {NoOracle}, stalePeriod : Nat, depositActive : BOOLEAN,
     withdrawActive : BOOLEAN, depositCap : Nat, netDeposited : Nat, pegBand : Nat]

\* delete tokenConfig[token]
NoConfig ==
    [oracle |-> NoOracle, stalePeriod |-> 0, depositActive |-> FALSE,
     withdrawActive |-> FALSE, depositCap |-> 0, netDeposited |-> 0, pegBand |-> 0]

TreasuryTypeOK ==
    /\ whitelisted \in SUBSET Tokens
    /\ config \in [Tokens -> TokenConfigs]
    /\ priceTolerance \in 0..MAX_BPS
    /\ sanctionsListSet \in BOOLEAN
    /\ swapper \in Swappers \cup {NoSwapper}

TreasuryInit ==
    /\ whitelisted = {}
    /\ config = [t \in Tokens |-> NoConfig]
    /\ priceTolerance = INIT_PRICE_TOLERANCE
    /\ sanctionsListSet = FALSE
    /\ swapper = NoSwapper

Sanctioned(a) == sanctionsListSet /\ IsListed(a)

-----------------------------------------------------------------------------
\* Prices.

Bps(n, bps) == (n * bps) \div MAX_BPS

OraclePrice(t) == feed[config[t].oracle].price

\* _getOraclePrice does not revert.
OracleAnswers(t) ==
    LET round == feed[config[t].oracle] IN
    /\ round.updatedAt <= now
    /\ now - round.updatedAt < config[t].stalePeriod
    /\ round.price > 0

\* _getPrice does not revert: the token has an oracle, whose answer is usable
\* and within priceTolerance of par.
Priced(t) ==
    LET tolerance == Bps(UNIT, priceTolerance) IN
    /\ config[t].oracle # NoOracle
    /\ OracleAnswers(t)
    /\ OraclePrice(t) <= UNIT + tolerance
    /\ OraclePrice(t) >= UNIT - tolerance

MintPrice(t) ==
    IF OraclePrice(t) >= UNIT - Bps(UNIT, config[t].pegBand) THEN UNIT ELSE OraclePrice(t)

RedeemPrice(t) ==
    IF OraclePrice(t) <= UNIT + Bps(UNIT, config[t].pegBand) THEN UNIT ELSE OraclePrice(t)

-----------------------------------------------------------------------------
\* Views of the reserve.

Held(t) == idle[t] + invested[t]

Withdrawable(t) == IF t \in whitelisted THEN Held(t) ELSE 0

\* Mutant: the price is not capped at par.
ReserveOf_Uncapped(t) ==
    IF Held(t) = 0 THEN 0 ELSE MulDiv(Held(t), OraclePrice(t), UNIT) * Scale[t]

\* One token's share of reserve(): its holdings at the oracle price capped at par.
ReserveOf(t) ==
    IF Held(t) = 0 THEN 0
    ELSE MulDiv(Held(t), MinOf(OraclePrice(t), UNIT), UNIT) * Scale[t]

ReserveAnswers == \A t \in whitelisted : Held(t) > 0 => OracleAnswers(t)

Reserve == SumFunction([t \in whitelisted |-> ReserveOf(t)])

\* _excessTokens, given the supply that the reserve has to back and exceeds.
ExcessTokens(t, backed) ==
    MulDiv(Reserve - backed, UNIT, MintPrice(t)) \div Scale[t]

-----------------------------------------------------------------------------
\* Effects, part of a Gateway transaction.

\* The Treasury is taken as the only holder of each yield vault: its shares are worth what the vault
\* holds, so vault deposits and withdrawals move assets one for one.  The vault's own round-down, and the
\* ZeroShares revert of a deposit that would buy no share, are left out.

\* deposit: the collateral has arrived at the Treasury and goes on to the vault.
TreasuryDeposit(t, n) ==
    /\ t \in whitelisted
    /\ config[t].depositActive
    /\ Held(t) + n <= MaxHeld      \* bound of the model, not of the code
    /\ config[t].netDeposited + n <= config[t].depositCap
    /\ config' = [config EXCEPT ![t].netDeposited = @ + n]
    /\ invested' = [invested EXCEPT ![t] = @ + n]
    /\ UNCHANGED <<idle, whitelisted, priceTolerance, sanctionsListSet, swapper>>

\* Mutant: the part paid from idle is not subtracted before the vault pays.
PayOut_Twice(t, n) ==
    /\ n <= Held(t)
    /\ idle' = [idle EXCEPT ![t] = Monus(@, n)]
    /\ invested' = [invested EXCEPT ![t] = Monus(@, n)]

\* Pays n out: idle balance first, the rest from the vault, which burns shares worth exactly that.
PayOut(t, n) ==
    /\ n <= Held(t)
    /\ idle' = [idle EXCEPT ![t] = Monus(@, n)]
    /\ invested' = [invested EXCEPT ![t] = @ - Monus(n, idle[t])]

TreasuryWithdraw(t, n, receiver) ==
    /\ t \in whitelisted
    /\ config[t].withdrawActive
    /\ receiver \notin {TreasuryAddr, VaultAddr}
    /\ config' = [config EXCEPT ![t].netDeposited = Monus(@, n)]
    /\ PayOut(t, n)
    /\ UNCHANGED <<whitelisted, priceTolerance, sanctionsListSet, swapper>>

-----------------------------------------------------------------------------
\* DEFAULT_ADMIN_ROLE

AddToWhitelist(t, o, stale) ==
    /\ stale # 0 /\ stale <= MAX_STALE_PERIOD
    /\ Cardinality(whitelisted) < MAX_WHITELISTED_TOKENS
    /\ t \notin whitelisted
    /\ whitelisted' = whitelisted \cup {t}
    /\ config' = [config EXCEPT ![t] =
            [oracle |-> o, stalePeriod |-> stale, depositActive |-> TRUE,
             withdrawActive |-> TRUE, depositCap |-> UINT_MAX, netDeposited |-> 0,
             pegBand |-> 0]]
    /\ UNCHANGED <<priceTolerance, sanctionsListSet, swapper, collateralVars>>

\* Mutant: shares may stay behind.
RemoveFromWhitelist_KeepsShares(t) ==
    /\ t \in whitelisted
    /\ whitelisted' = whitelisted \ {t}
    /\ config' = [config EXCEPT ![t] = NoConfig]
    /\ UNCHANGED <<priceTolerance, sanctionsListSet, swapper, collateralVars>>

\* Idle collateral may stay behind; vault shares may not.
RemoveFromWhitelist(t) ==
    /\ t \in whitelisted
    /\ invested[t] = 0
    /\ whitelisted' = whitelisted \ {t}
    /\ config' = [config EXCEPT ![t] = NoConfig]
    /\ UNCHANGED <<priceTolerance, sanctionsListSet, swapper, collateralVars>>

Sweep(t) ==
    /\ t \notin whitelisted
    /\ idle' = [idle EXCEPT ![t] = 0]
    /\ UNCHANGED <<invested, treasuryVars>>

UpdateSanctionsList(on) ==
    /\ sanctionsListSet' = on
    /\ UNCHANGED <<whitelisted, config, priceTolerance, swapper, collateralVars>>

-----------------------------------------------------------------------------
\* UMM_ROLE

\* Mutant: harvested yield also frees room under the cap.
Harvest_FreesRoom(t, backed, receiver) ==
    /\ t \in whitelisted
    /\ receiver \notin {TreasuryAddr, VaultAddr}
    /\ ReserveAnswers
    /\ Reserve > backed
    /\ Priced(t)
    /\ LET paid == MinOf(ExcessTokens(t, backed), Held(t))
       IN  /\ PayOut(t, paid)
           /\ config' = [config EXCEPT ![t].netDeposited = Monus(@, paid)]
    /\ UNCHANGED <<whitelisted, priceTolerance, sanctionsListSet, swapper>>

\* Without excess harvest returns 0 and changes nothing: no step.
\* A vault that cannot free the amount at once reverts the whole transaction.
Harvest(t, backed, receiver) ==
    /\ t \in whitelisted
    /\ receiver \notin {TreasuryAddr, VaultAddr}
    /\ ReserveAnswers
    /\ Reserve > backed
    /\ Priced(t)
    /\ LET paid == MinOf(ExcessTokens(t, backed), Held(t))
       IN  paid \in Nat /\ PayOut(t, paid)
    /\ UNCHANGED treasuryVars

-----------------------------------------------------------------------------
\* KEEPER_ROLE

Pull(t, n) ==
    /\ t \in whitelisted
    /\ n <= invested[t]
    /\ idle' = [idle EXCEPT ![t] = @ + n]
    /\ invested' = [invested EXCEPT ![t] = @ - n]
    /\ UNCHANGED treasuryVars

\* type(uint256).max pushes the whole idle balance, for shares worth exactly that.
Push(t, n) ==
    /\ t \in whitelisted
    /\ LET amount == IF n = UINT_MAX THEN idle[t] ELSE n
       IN  /\ amount <= idle[t]
           /\ idle' = [idle EXCEPT ![t] = @ - amount]
           /\ invested' = [invested EXCEPT ![t] = @ + amount]
    /\ UNCHANGED treasuryVars

SetDepositActive(t, active) ==
    /\ t \in whitelisted
    /\ config' = [config EXCEPT ![t].depositActive = active]
    /\ UNCHANGED <<whitelisted, priceTolerance, sanctionsListSet, swapper, collateralVars>>

SetWithdrawActive(t, active) ==
    /\ t \in whitelisted
    /\ config' = [config EXCEPT ![t].withdrawActive = active]
    /\ UNCHANGED <<whitelisted, priceTolerance, sanctionsListSet, swapper, collateralVars>>

\* swap: a token off the whitelist is exchanged for another; the swapper enforces the minimum.
Swap(tokenIn, tokenOut, amountIn, amountOut) ==
    /\ swapper # NoSwapper
    /\ tokenIn \notin whitelisted
    /\ amountIn <= idle[tokenIn]
    /\ Held(tokenOut) + amountOut <= MaxHeld
    /\ idle' = [idle EXCEPT ![tokenIn] = @ - amountIn, ![tokenOut] = @ + amountOut]
    /\ UNCHANGED <<invested, treasuryVars>>

-----------------------------------------------------------------------------
\* MAINTAINER_ROLE

UpdateDepositCap(t, cap) ==
    /\ t \in whitelisted
    /\ config' = [config EXCEPT ![t].depositCap = cap]
    /\ UNCHANGED <<whitelisted, priceTolerance, sanctionsListSet, swapper, collateralVars>>

UpdateOracle(t, o, stale) ==
    /\ t \in whitelisted
    /\ stale # 0 /\ stale <= MAX_STALE_PERIOD
    /\ config' = [config EXCEPT ![t].oracle = o, ![t].stalePeriod = stale]
    /\ UNCHANGED <<whitelisted, priceTolerance, sanctionsListSet, swapper, collateralVars>>

\* The maintainer lowers, the admin raises.
UpdatePegBand(t, band) ==
    /\ t \in whitelisted
    /\ band > 0 => band < priceTolerance
    /\ config' = [config EXCEPT ![t].pegBand = band]
    /\ UNCHANGED <<whitelisted, priceTolerance, sanctionsListSet, swapper, collateralVars>>

\* Mutant: the bands are not looked at.
UpdatePriceTolerance_IgnoresBands(tolerance) ==
    /\ tolerance <= MAX_BPS
    /\ priceTolerance' = tolerance
    /\ UNCHANGED <<whitelisted, config, sanctionsListSet, swapper, collateralVars>>

UpdatePriceTolerance(tolerance) ==
    /\ tolerance <= MAX_BPS
    /\ \A t \in whitelisted : config[t].pegBand > 0 => config[t].pegBand < tolerance
    /\ priceTolerance' = tolerance
    /\ UNCHANGED <<whitelisted, config, sanctionsListSet, swapper, collateralVars>>

UpdateSwapper(s) ==
    /\ swapper' = s
    /\ UNCHANGED <<whitelisted, config, priceTolerance, sanctionsListSet, collateralVars>>

-----------------------------------------------------------------------------
\* Every Treasury transaction but harvest, which reads the Gateway's amoSupply.
TreasuryNext ==
    \/ \E t \in Tokens, o \in Oracles, stale \in StalePeriods :
        AddToWhitelist(t, o, stale) \/ UpdateOracle(t, o, stale)
    \/ \E t \in Removable : RemoveFromWhitelist(t) \/ Sweep(t)
    \/ \E on \in SanctionsSwitches : UpdateSanctionsList(on)
    \/ \E t \in Tokens, n \in VaultMoves : Pull(t, n) \/ Push(t, n)
    \/ \E t \in Pausable, active \in BOOLEAN :
        SetDepositActive(t, active) \/ SetWithdrawActive(t, active)
    \/ \E tokenIn, tokenOut \in Tokens, n \in VaultMoves, m \in SwapOuts :
        Swap(tokenIn, tokenOut, n, m)
    \/ \E t \in Tokens, cap \in Caps : UpdateDepositCap(t, cap)
    \/ \E t \in Tokens, band \in Bands : UpdatePegBand(t, band)
    \/ \E tolerance \in Tolerances : UpdatePriceTolerance(tolerance)
    \/ \E s \in Swappers : UpdateSwapper(s)

=============================================================================
