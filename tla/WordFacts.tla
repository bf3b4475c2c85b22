----------------------------- MODULE WordFacts -----------------------------
(***************************************************************************)
(* Facts about word arithmetic, for every size of word, that the proofs    *)
(* about the reading programs cite.                                        *)
(***************************************************************************)
EXTENDS Words, TLAPS

\* Adding and subtracting words gives words.
LEMMA WordClosed ==
    ASSUME NEW a \in Word, NEW b \in Word
    PROVE  /\ Plus(a, b) \in Word
           /\ Minus(a, b) \in Word
           /\ Succ(a) \in Word
  BY ModulusAssumption DEF Word, Plus, Minus, Succ

\* Counters start as words.
LEMMA ZeroIsWord == 0 \in Word
  BY ModulusAssumption DEF Word

\* One turn of the loop: the gap added to a drop count that was the difference
\* of the two counters is again their difference.
LEMMA GapStep ==
    ASSUME NEW c \in Word, NEW k \in Word, NEW s \in Word
    PROVE  Plus(Minus(c, k), Minus(s, c)) = Minus(Succ(s), Succ(k))
  BY ModulusAssumption DEF Word, Plus, Minus, Succ

\* Adding to the interval or to the total is the same.
LEMMA PlusMoves ==
    ASSUME NEW a \in Word, NEW b \in Word, NEW c \in Word
    PROVE  Plus(a, Plus(b, c)) = Plus(Plus(a, b), c)
  BY ModulusAssumption DEF Word, Plus

LEMMA PlusZero ==
    ASSUME NEW a \in Word
    PROVE  Plus(a, 0) = a
  BY ModulusAssumption DEF Word, Plus
=============================================================================
