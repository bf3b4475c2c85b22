------------------------------- MODULE GetNum -------------------------------
(***************************************************************************)
(* get_num: the value of an option such as "64k" or "2x3kx5".              *)
(*                                                                         *)
(* A text is the sequence of the factors that strtouq and the separators   *)
(* x, X and * cut it into.  A factor is a number, -1 where there are no    *)
(* digits, the multiplier its suffix stands for, 0 for none, and whether   *)
(* something other than a separator or the end follows.                    *)
(***************************************************************************)
EXTENDS Words, SequencesExt

CONSTANTS Narrow    \* number of values of an int

ASSUME NarrowAssumption == Narrow \in Nat /\ Narrow >= 2 /\ Narrow <= Modulus

NoDigits == -1
NoSuffix == 0

TextFactors == [num : Int, mult : Word, junk : BOOLEAN]

\* errx(): the program ends with a message.  A division by 0 kills it.
Illegal == -1
Killed  == -2

Times(a, b) == (a * b) % Modulus

\* A mistake: the product is compared with a factor.
LooksTooSmall(a, b) == Times(a, b) < a

\* The test for overflow: the product divided by a factor is not the other.
Overflows(a, b) == Times(a, b) \div b # a

\* One factor and its suffix: their value, unless the program ends here.
FactorValue(f) ==
    IF \/ f.num \notin Word          \* no digits, or out of range
       \/ f.mult # NoSuffix /\ Overflows(f.num, f.mult)
       \/ f.junk
    THEN Illegal
    ELSE IF f.mult = NoSuffix THEN f.num ELSE Times(f.num, f.mult)

\* A value, and what the call for the factors after it has returned, if it has.
Joined(num, more) ==
    CASE more < 0 -> more
      [] more = 0 -> Killed
      [] more > 0 -> IF Overflows(num, more) THEN Illegal ELSE Times(num, more)

\* Each call takes one factor and calls get_num for the rest: what the call for
\* the k-th factor returns.
Returned(text) ==
    LET ret[k \in 1 .. Len(text)] ==
          LET num == FactorValue(text[k])
          IN IF num < 0 \/ k = Len(text) THEN num ELSE Joined(num, ret[k + 1])
    IN ret

get_num(text) == Returned(text)[1]

\* What becomes of the value when it is stored in an int.
ToInt(v) == LET low == v % Narrow
            IN IF low < Narrow \div 2 THEN low ELSE low - Narrow

-----------------------------------------------------------------------------
\* The reference: the factors multiplied, without any limit.
Scaled(f) == IF f.mult = NoSuffix THEN f.num ELSE f.num * f.mult

Products(text) ==
    LET prod[k \in 1 .. Len(text)] ==
          IF k = Len(text) THEN Scaled(text[k])
          ELSE Scaled(text[k]) * prod[k + 1]
    IN prod

TrueProduct(text) == Products(text)[1]

WellFormed(text) ==
    \A k \in DOMAIN text : text[k].num \in Word /\ ~text[k].junk

\* get_num gives the product of the factors or ends the program; it ends it
\* for a product of positive factors only if that is too large, and with a
\* signal only if a factor after the first is 0.
IsProduct(text) ==
    LET v == get_num(text)
    IN /\ v \in Word \cup {Illegal, Killed}
       /\ v \in Word => WellFormed(text) /\ v = TrueProduct(text)
       /\ WellFormed(text) /\ (\A k \in DOMAIN text : text[k].num > 0) =>
             (v = Illegal <=> TrueProduct(text) >= Modulus)
       /\ v = Killed => \E k \in DOMAIN text \ {1} : text[k].num = 0
=============================================================================
