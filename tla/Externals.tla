------------------------------ MODULE Externals ------------------------------
(***************************************************************************)
(* What the contracts depend on and do not control: the block clock, the   *)
(* price feeds, the sanctions oracle, the collateral tokens held by the    *)
(* Treasury and the ERC-4626 yield vaults it deposits them into.  Each is  *)
(* modelled from the way the contracts use it.                             *)
(*                                                                         *)
(* A yield vault is its book value: `invested[t]' is what                  *)
(* convertToAssets(shares) and maxWithdraw report for the Treasury's       *)
(* shares, `idle[t]' the collateral at the Treasury's own address.  The    *)
(* Treasury holds shares iff the book value is positive: a vault loss is   *)
(* partial (LoseYield leaves at least one unit).                           *)
(***************************************************************************)
EXTENDS FixedPoint

CONSTANTS
    Accounts,       \* addresses that can hold PeggedToken, the Gateway among them
    Tokens,         \* collateral tokens
    Oracles,        \* price feed contracts
    Prices,         \* answers a feed may report; UNIT is par
    UNIT,           \* 10 ** oracle.decimals(), one dollar
    FeedSkews,      \* how far ahead of the block clock a round may be dated
    YieldAmounts,   \* amounts a vault earns
    LossAmounts,    \* amounts a vault loses
    Donations,      \* amounts of collateral sent to the Treasury by others
    Listable,       \* accounts the sanctions oracle may list
    MaxTime,        \* bound on the clock
    MaxHeld         \* bound on what is held of a token, whoever brings it

ASSUME ExternalsAssumption ==
    /\ UNIT \in Nat \ {0}
    /\ Prices \subseteq Int
    /\ FeedSkews \subseteq Nat
    /\ YieldAmounts \subseteq Nat
    /\ LossAmounts \subseteq Nat
    /\ Donations \subseteq Nat
    /\ Listable \subseteq Accounts
    /\ MaxTime \in Nat
    /\ MaxHeld \in Nat

VARIABLES
    now,        \* block.timestamp
    feed,       \* oracle -> its latest round
    listed,     \* accounts the sanctions oracle lists
    idle,       \* token -> balanceOf(treasury)
    invested    \* token -> book value of the Treasury's vault shares

marketVars == <<now, feed, listed>>
collateralVars == <<idle, invested>>

Rounds == [price : Int, updatedAt : Nat]

ExternalsTypeOK ==
    /\ now \in Nat
    /\ feed \in [Oracles -> Rounds]
    /\ listed \in SUBSET Accounts
    /\ idle \in [Tokens -> Nat]
    /\ invested \in [Tokens -> Nat]

ExternalsInit ==
    /\ now = 0
    /\ feed = [o \in Oracles |-> [price |-> UNIT, updatedAt |-> 0]]
    /\ listed = {}
    /\ idle = [t \in Tokens |-> 0]
    /\ invested = [t \in Tokens |-> 0]

-----------------------------------------------------------------------------
Tick ==
    /\ now < MaxTime
    /\ now' = now + 1
    /\ UNCHANGED <<feed, listed, collateralVars>>

AnswerRound(o, p, skew) ==
    /\ feed' = [feed EXCEPT ![o] = [price |-> p, updatedAt |-> now + skew]]
    /\ UNCHANGED <<now, listed, collateralVars>>

SetListed(S) ==
    /\ listed' = S
    /\ UNCHANGED <<now, feed, collateralVars>>

EarnYield(t, n) ==
    /\ invested[t] > 0
    /\ idle[t] + invested[t] + n <= MaxHeld
    /\ invested' = [invested EXCEPT ![t] = @ + n]
    /\ UNCHANGED <<marketVars, idle>>

LoseYield(t, n) ==
    /\ invested[t] > n
    /\ invested' = [invested EXCEPT ![t] = @ - n]
    /\ UNCHANGED <<marketVars, idle>>

\* Anyone may send collateral to the Treasury's address.
Donate(t, n) ==
    /\ idle[t] + invested[t] + n <= MaxHeld
    /\ idle' = [idle EXCEPT ![t] = @ + n]
    /\ UNCHANGED <<marketVars, invested>>

ExternalsNext ==
    \/ Tick
    \/ \E o \in Oracles, p \in Prices, skew \in FeedSkews : AnswerRound(o, p, skew)
    \/ \E S \in SUBSET Listable : SetListed(S)
    \/ \E t \in Tokens :
        \/ \E n \in YieldAmounts : EarnYield(t, n)
        \/ \E n \in LossAmounts : LoseYield(t, n)
        \/ \E n \in Donations : Donate(t, n)

=============================================================================
