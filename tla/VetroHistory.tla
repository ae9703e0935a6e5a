---------------------------- MODULE VetroHistory ----------------------------
(***************************************************************************)
(* Vetro with a history variable that the code does not keep: every lock   *)
(* in a user's open request, when it was made and under which delay.  The  *)
(* code merges them and keeps one date.                                    *)
(***************************************************************************)
EXTENDS Vetro

VARIABLE locks

Locked(u) == redeemRequests[u].amountLocked

Lock(at, delay) == [at |-> at, delay |-> delay]

\* A lock counts with the delay it was made under, or with a lower one under which
\* its owner locked more later.
LocksAfter(u) ==
    IF redeemRequests'[u].amountLocked = 0 THEN {}
    ELSE IF redeemRequests'[u].amountLocked > Locked(u)
         THEN {Lock(l.at, MinOf(l.delay, withdrawalDelay)) : l \in locks[u]} \cup {Lock(now, withdrawalDelay)}
         ELSE locks[u]

HistoryInit ==
    /\ Init
    /\ locks = [u \in Users |-> {}]

HistoryNext ==
    /\ Next
    /\ locks' = [u \in Users |-> LocksAfter(u)]

HistorySpec == HistoryInit /\ [][HistoryNext]_<<vars, locks>>

\* No early exit.  A redemption (a step after which less supply is backed) takes
\* tokens from the wallet of an exempt user only, and locked tokens only once every
\* lock of the request has waited the delay it was made under.  Only its owner can
\* shorten that, by locking more after the delay was lowered: the merged request then
\* has the date of the last lock (requestRedeem).  No other order of requests, partial
\* redemptions, cancellations and setting changes gets a lock out earlier.
NoEarlyExit ==
    [][UserSupply' < UserSupply =>
        \A u \in Users :
            /\ balance'[u] < balance[u] => InstantRedeemAllowed(u)
            /\ redeemRequests'[u].amountLocked < Locked(u) =>
                    \A l \in locks[u] : now >= l.at + l.delay
      ]_<<vars, locks>>

=============================================================================
