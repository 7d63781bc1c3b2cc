---------------------------- MODULE PowersOfTwo -----------------------------
(***************************************************************************)
(* Powers of two, and the functions of Rust's integer types that the code   *)
(* computes them with.                                                      *)
(***************************************************************************)
EXTENDS Integers

TwoTo[e \in Nat] == IF e = 0 THEN 1 ELSE 2 * TwoTo[e - 1]

\* u32::ilog2, usize::ilog2 of a number that is not 0
Ilog2(m) == CHOOSE e \in 0 .. m : TwoTo[e] <= m /\ m < TwoTo[e + 1]

\* usize::is_power_of_two
IsPowerOfTwo(m) == m # 0 /\ m = TwoTo[Ilog2(m)]

\* usize::next_power_of_two
NextPowerOfTwo(m) == IF m <= 1 THEN 1 ELSE TwoTo[Ilog2(m - 1) + 1]

=============================================================================
