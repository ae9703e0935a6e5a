------------------------------- MODULE MCVetro -------------------------------
(***************************************************************************)
(* Vetro with small constants for TLC.  Every run names its own sets in    *)
(* its .cfg; an empty set switches the transactions that draw from it off. *)
(***************************************************************************)
EXTENDS Vetro

\* Collateral with the decimals of PeggedToken, one unit to the whole token.
UnitScale == [t \in Tokens |-> 1]
UnitOne == [t \in Tokens |-> 1]

\* Collateral with fewer decimals: two PeggedToken units to a collateral unit,
\* two collateral units to the whole token.
DoubleScale == [t \in Tokens |-> 2]
DoubleOne == [t \in Tokens |-> 2]

=============================================================================
