--------------------------- MODULE MCVetroHistory ---------------------------
(* VetroHistory with small constants for TLC. *)
EXTENDS VetroHistory

UnitScale == [t \in Tokens |-> 1]
UnitOne == [t \in Tokens |-> 1]

=============================================================================
