---------------------------- MODULE MCYieldManager ----------------------------
(***************************************************************************)
(* YieldManager with small constants for TLC: one staker with some assets, *)
(* and a buffer that only harvests fill.                                   *)
(***************************************************************************)
EXTENDS YieldManager

StakerEndowment == [a \in Holders |-> IF a \in Stakers THEN 3 ELSE 0]
NoDelegation == {}

=============================================================================
