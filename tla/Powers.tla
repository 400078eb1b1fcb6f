------------------------------- MODULE Powers -------------------------------
\* The powers of two: the shifts 1 << n of the code.
EXTENDS Naturals

Pow2[n \in Nat] == IF n = 0 THEN 1 ELSE 2 * Pow2[n - 1]
=============================================================================
