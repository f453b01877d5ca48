----------------------------- MODULE Arithmetic -----------------------------
(* Integer arithmetic the on-chain programs share: saturating subtraction,      *)
(* minimum, the floor of a fraction, and totals over accounts.  Total is a      *)
(* recursive function over 1 .. n and not a fold, so that Arithmetic_proofs can *)
(* state what it computes for every n.                                          *)
EXTENDS Integers

(* u64::saturating_sub *)
SatSub(a, b) == IF b <= a THEN a - b ELSE 0

(* u64::min *)
Lesser(a, b) == IF a <= b THEN a ELSE b

(* floor(x * num / den): the u128 intermediate of the programs never overflows *)
MulDiv(x, num, den) == (x * num) \div den

PartialSums(f, n) ==
    LET s[i \in 0 .. n] == IF i = 0 THEN 0 ELSE s[i - 1] + f[i]
    IN  s

(* f[1] + ... + f[n] *)
Total(f, n) == PartialSums(f, n)[n]
=============================================================================
