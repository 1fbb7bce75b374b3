------------------------------- MODULE Binary -------------------------------
(***************************************************************************)
(* Powers of two, for the shifts and masks of the code: x << n multiplies  *)
(* by Pow2[n], x >> n divides by it, and the mask (1 << n) - 1 leaves the  *)
(* remainder.                                                              *)
(***************************************************************************)
EXTENDS Integers

\* 2^n, as a recursive function, which the proofs can reason about.
Pow2[n \in Nat] == IF n = 0 THEN 1 ELSE 2 * Pow2[n - 1]

\* The bit j of x, the lowest being 0.
Bit(x, j) == (x \div Pow2[j]) % 2
=============================================================================
