----------------------------- MODULE FixedPoint -----------------------------
(***************************************************************************)
(* Integer arithmetic of the contracts: OpenZeppelin's Math.mulDiv in its  *)
(* two rounding directions and Math.min.  All quantities are uint256 in    *)
(* the code; mulDiv computes the product in 512 bits, so no intermediate   *)
(* overflow is modelled.  A zero divisor reverts in Solidity: every action *)
(* that divides by a computed value has "# 0" as a conjunct.               *)
(***************************************************************************)
EXTENDS Integers

\* x.mulDiv(y, d): rounded down.
MulDiv(x, y, d) == (x * y) \div d

\* x.mulDiv(y, d, Rounding.Ceil): rounded up.
MulDivUp(x, y, d) == (x * y + d - 1) \div d

MinOf(a, b) == IF a <= b THEN a ELSE b

\* Mutant: the clamp forgotten.
Monus_Unclamped(a, b) == a - b

\* Subtraction clamped at zero: a > b ? a - b : 0.
Monus(a, b) == IF a > b THEN a - b ELSE 0

=============================================================================
