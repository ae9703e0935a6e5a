------------------------------ MODULE MCStaking ------------------------------
(***************************************************************************)
(* Staking with small constants for TLC.                                   *)
(***************************************************************************)
EXTENDS Staking

CONSTANTS alice, bob, funder

\* Stakers and funders start with assets, the contracts with none.
Endowed(stake, yield) ==
    [a \in Holders |-> IF a \in Funders THEN yield ELSE IF a \in Stakers THEN stake ELSE 0]
SmallEndowment == Endowed(2, 2)
PriceEndowment == Endowed(3, 3)
CooldownEndowment == Endowed(2, 1)

\* Bob may act for Alice.
NoDelegation == {}
BobForAlice == {<<alice, bob>>}

=============================================================================
