----------------------------- MODULE ParReserve -----------------------------
(***************************************************************************)
(* What the reserve promises, without saying how: the collateral, valued   *)
(* at par, covers the supply it has to back.  Every step either leaves the *)
(* surplus no smaller (minting, redeeming, AMO operations, yield) or       *)
(* releases surplus and only surplus (harvest).                            *)
(***************************************************************************)
EXTENDS Integers

VARIABLES
    assets,         \* collateral at par
    liabilities     \* supply the collateral backs

reserveVars == <<assets, liabilities>>

ReserveInit == assets = 0 /\ liabilities = 0

\* Collateral against supply, in either direction, never at the expense of the rest.
Trade ==
    /\ assets' \in Nat
    /\ liabilities' \in Nat
    /\ assets' - liabilities' >= assets - liabilities

\* Surplus leaves.
Release ==
    /\ assets' \in Nat
    /\ assets' >= liabilities
    /\ UNCHANGED liabilities

ReserveNext == Trade \/ Release

ReserveSpec == ReserveInit /\ [][ReserveNext]_reserveVars

Covered == assets \in Nat /\ liabilities \in Nat /\ assets >= liabilities

=============================================================================
