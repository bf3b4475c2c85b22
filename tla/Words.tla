------------------------------- MODULE Words -------------------------------
(***************************************************************************)
(* The arithmetic of C's unsigned long, in which the server numbers its    *)
(* datagrams and every program keeps its counters.  Modulus is 2^64 in the *)
(* build; TLC runs take a small one so that wrapping around is explored.   *)
(* The operators are written by cases rather than with %, which keeps them *)
(* linear: both operands are always words already.                         *)
(***************************************************************************)
EXTENDS Integers

CONSTANT Modulus    \* number of values an unsigned long takes

ASSUME ModulusAssumption == Modulus \in Nat /\ Modulus >= 2

Word == 0 .. (Modulus - 1)

\* a + b and a - b as the code computes them on unsigned long.
Plus(a, b)  == IF a + b < Modulus THEN a + b ELSE a + b - Modulus
Minus(a, b) == IF a >= b THEN a - b ELSE a - b + Modulus

\* a++
Succ(a) == Plus(a, 1)
=============================================================================
