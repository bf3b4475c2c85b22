-------------------------- MODULE MmsgTrendProofs --------------------------
(***************************************************************************)
(* udp-mmsg-trend's batches and counters, for every word size, number and  *)
(* length of slots, and report period.                                     *)
(***************************************************************************)
EXTENDS MmsgTrend, WordFacts

-----------------------------------------------------------------------------
(***************************************************************************)
(* Types.                                                                  *)
(***************************************************************************)

\* The length of a slot is a word, since it is cut to BufSize.
LEMMA SlotLength ==
    ASSUME TypeOK, i < n
    PROVE  /\ i \in Slots
           /\ msg_len[i] \in Word
           /\ slot[i] \in Word
<1>1. i \in Slots
  BY MmsgAssumption DEF TypeOK, Slots
<1>2. 0 .. BufSize \subseteq Word
  BY MmsgAssumption, ModulusAssumption DEF Word
<1> QED
  BY <1>1, <1>2 DEF TypeOK

LEMMA InitType == Init => TypeOK
<1> SUFFICES ASSUME Init PROVE TypeOK
  OBVIOUS
<1>1. 0 \in 0 .. BufSize /\ 0 \in 0 .. RcvBuf /\ 0 \in 0 .. VLen
  BY MmsgAssumption DEF Word
<1>6. i \in 0 .. n /\ ~(i > 0)
  BY DEF Init
<1>2. slot \in [Slots -> Word]
  BY ZeroIsWord DEF Init
<1>3. msg_len \in [Slots -> 0 .. BufSize]
  BY <1>1 DEF Init
<1>4. recvmmsg_count \in 0 .. (ReportEvery - 1)
  BY MmsgAssumption DEF Init
<1>5. reported \in [bytes : Word, drop : Word, count : Word]
  BY ZeroIsWord DEF Init
<1>7. /\ pc \in {"setup", "top", "recv", "batch"} \cup Ended
      /\ rcvq \in 0 .. RcvBuf /\ n \in 0 .. VLen /\ so_error \in BOOLEAN
      /\ pend = {}
  BY <1>1 DEF Init
<1>8. /\ total_read_bytes \in Word /\ total_drop_counter \in Word
      /\ total_read_counter \in Word /\ interval_read_bytes \in Word
      /\ interval_drop_counter \in Word /\ interval_read_counter \in Word
      /\ counted \in Word /\ gap \in Word /\ owed \in Int
  BY ZeroIsWord DEF Init
<1> QED
  BY <1>2, <1>3, <1>4, <1>5, <1>6, <1>7, <1>8 DEF TypeOK

LEMMA NextType == TypeOK /\ [Next]_vars => TypeOK'
<1> SUFFICES ASSUME TypeOK, [Next]_vars PROVE TypeOK'
  OBVIOUS
<1> USE DEF TypeOK, Ended
<1>1. CASE Setup
  BY <1>1 DEF Setup, socket, msgvec, locals, totals, intervals, history
<1>2. CASE StartTurn
  <2>1. pend = {}
    BY <1>2 DEF StartTurn
  <2>2. n' \in 0 .. VLen /\ n' = 0
    BY <1>2, MmsgAssumption DEF StartTurn
  <2>5. i' \in 0 .. n' /\ ~(i' > 0)
    BY <1>2, <2>2 DEF StartTurn, locals
  <2>3. reported' \in [bytes : Word, drop : Word, count : Word]
    <3>1. /\ Plus(reported.bytes, interval_read_bytes) \in Word
          /\ Plus(reported.drop, interval_drop_counter) \in Word
          /\ Plus(reported.count, interval_read_counter) \in Word
      BY WordClosed
    <3> QED
      BY <1>2, <3>1 DEF StartTurn, Report
  <2>4. /\ interval_read_bytes' \in Word
        /\ interval_drop_counter' \in Word
        /\ interval_read_counter' \in Word
    BY <1>2, ZeroIsWord DEF StartTurn, Report, intervals
  <2> QED
    BY <1>2, <2>1, <2>2, <2>3, <2>4, <2>5 DEF StartTurn, socket, msgvec, locals, totals
<1>3. CASE FillSlot
  <2>1. PICK seq \in Word, len \in Lens :
           /\ slot' = [slot EXCEPT ![n] =
                          IF len > 0 /\ BufSize > 0 THEN seq ELSE @]
           /\ msg_len' = [msg_len EXCEPT ![n] =
                             IF len < BufSize THEN len ELSE BufSize]
    BY <1>3 DEF FillSlot
  <2>2. len \in Nat /\ BufSize \in Nat
    BY MmsgAssumption DEF Word
  <2>3. slot' \in [Slots -> Word]
    BY <2>1
  <2>4. msg_len' \in [Slots -> 0 .. BufSize]
    <3>1. (IF len < BufSize THEN len ELSE BufSize) \in 0 .. BufSize
      BY <2>2
    <3> QED
      BY <2>1, <3>1
  <2>5. n' \in 0 .. VLen /\ rcvq' \in 0 .. RcvBuf /\ i \in 0 .. n'
    BY <1>3, MmsgAssumption DEF FillSlot
  <2>6. pend = {}
    BY <1>3 DEF FillSlot
  <2> QED
    BY <1>3, <2>3, <2>4, <2>5, <2>6
    DEF FillSlot, locals, totals, intervals, history
<1>4. CASE RecvReturns
  BY <1>4 DEF RecvReturns, socket, msgvec, locals, totals, intervals, history
<1>5. CASE RecvFails
  BY <1>5 DEF RecvFails, socket, msgvec, locals, totals, intervals, history
<1>6. CASE CountSlot
  <2>1. Minus(slot[i], total_read_counter) \in Word
    BY <1>6, SlotLength, WordClosed DEF CountSlot
  <2>2. /\ interval_read_bytes' \in Word
        /\ interval_drop_counter' \in Word
        /\ interval_read_counter' \in Word
        /\ counted' \in Word
    BY <1>6, <2>1, SlotLength, WordClosed DEF CountSlot
  <2>3. owed' \in Int
    BY <1>6 DEF CountSlot
  <2> QED
    BY <1>6, <2>1, <2>2, <2>3
    DEF CountSlot, socket, msgvec, totals, Globals
<1>7. ASSUME NEW x, Stored(x), gap' \in Word, total_read_bytes' \in Word,
             total_drop_counter' \in Word, total_read_counter' \in Word
      PROVE  TypeOK'
  <2>1. i' \in 0 .. n /\ n' = n /\ (pend' # {} => i' < n)
    BY <1>7 DEF Stored
  <2> QED
    BY <1>7, <2>1 DEF Stored, socket, msgvec, intervals, history
<1>8. CASE StoreBytes
  BY <1>7, <1>8, SlotLength, WordClosed DEF StoreBytes, Stored
<1>9. CASE StoreDrop
  BY <1>7, <1>9, WordClosed, ZeroIsWord DEF StoreDrop
<1>10. CASE StoreCounter
  BY <1>7, <1>10, SlotLength, WordClosed DEF StoreCounter, Stored
<1>11. CASE EndBatch
  <2>1. recvmmsg_count' \in 0 .. (ReportEvery - 1)
    BY <1>11, MmsgAssumption DEF EndBatch
  <2>2. i' \in 0 .. n'
    BY <1>11 DEF EndBatch
  <2> QED
    BY <1>11, <2>1, <2>2 DEF EndBatch, socket, msgvec, totals, intervals, history
<1>12. CASE SigInt
  BY <1>12 DEF SigInt, socket, msgvec, locals, totals, intervals, history
<1>13. CASE Arrive
  <2>1. rcvq' \in 0 .. RcvBuf /\ owed' \in Int
    BY <1>13, MmsgAssumption DEF Arrive
  <2> QED
    BY <1>13, <2>1 DEF Arrive, msgvec, locals, totals, intervals
<1>14. CASE Unreachable
  BY <1>14 DEF Unreachable, msgvec, locals, totals, intervals, history
<1>15. CASE UNCHANGED vars
  BY <1>15 DEF vars, socket, msgvec, locals, totals, intervals, history
<1> QED
  BY <1>1, <1>2, <1>3, <1>4, <1>5, <1>6, <1>8, <1>9, <1>10, <1>11, <1>12,
     <1>13, <1>14, <1>15 DEF Next, Loop

\* Counters stay words and the loop never leaves the slots of msgvec.
THEOREM TypeCorrect == Spec => []TypeOK
  BY InitType, NextType, PTL DEF Spec

-----------------------------------------------------------------------------
(***************************************************************************)
(* The counters.  Accounting and ReportsAddUp speak of the totals once the *)
(* stores of the turn have landed.  NothingLostInBatch needs that nothing  *)
(* is left to store while the kernel fills slots, which is in TypeOK.      *)
(***************************************************************************)
IInv == TypeOK /\ Accounting /\ ReportsAddUp /\ NothingLostInBatch

SettledSame == /\ SettledBytes' = SettledBytes
               /\ SettledDrop' = SettledDrop
               /\ SettledCounter' = SettledCounter

LEMMA InitInv == Init => IInv
<1> SUFFICES ASSUME Init PROVE IInv
  OBVIOUS
<1>1. TypeOK
  BY InitType
<1>2. Plus(0, 0) = 0 /\ Minus(0, 0) = 0
  BY ModulusAssumption DEF Plus, Minus
<1>3. Accounting /\ ReportsAddUp
  BY <1>2 DEF Init, Accounting, ReportsAddUp, SettledBytes, SettledDrop,
              SettledCounter
<1>4. NothingLostInBatch
  BY DEF Init, NothingLostInBatch, Taken
<1> QED
  BY <1>1, <1>3, <1>4 DEF IInv

\* A step that leaves the totals and this turn's values alone, or that runs
\* while nothing is pending, settles nothing.
LEMMA NothingSettles ==
    ASSUME UNCHANGED <<totals, pend>>,
           pend = {} \/ UNCHANGED <<msgvec, i, gap>>
    PROVE  SettledSame
  BY DEF SettledSame, totals, msgvec, SettledBytes, SettledDrop, SettledCounter

\* A store moves a value from pending to memory.
LEMMA StoreSettles ==
    ASSUME IInv, StoreBytes \/ StoreDrop \/ StoreCounter
    PROVE  SettledSame /\ UNCHANGED <<intervals, history>>
<1> DEFINE Same == /\ UNCHANGED <<intervals, history, msgvec>>
                   /\ pend' # {} => i' = i
<1>1. ASSUME NEW x, Stored(x)
      PROVE  Same
  BY <1>1 DEF Stored
<1>2. CASE StoreBytes
  BY <1>1, <1>2 DEF StoreBytes, Stored, SettledSame, SettledBytes, SettledDrop,
                    SettledCounter, msgvec
<1>3. CASE StoreDrop
  BY <1>1, <1>3 DEF StoreDrop, Stored, SettledSame, SettledBytes, SettledDrop,
                    SettledCounter, msgvec
<1>4. CASE StoreCounter
  BY <1>1, <1>4 DEF StoreCounter, Stored, SettledSame, SettledBytes,
                    SettledDrop, SettledCounter, msgvec
<1> QED
  BY <1>2, <1>3, <1>4

\* When nothing settles and no counter of the loop moves, the sums stay.
LEMMA SumsStay ==
    ASSUME IInv, SettledSame, UNCHANGED <<intervals, reported, counted>>
    PROVE  Accounting' /\ ReportsAddUp'
  BY DEF IInv, Accounting, ReportsAddUp, SettledSame, intervals

\* A report moves an interval into the lines printed.
LEMMA ReportKeepsSums ==
    ASSUME IInv, StartTurn
    PROVE  Accounting' /\ ReportsAddUp'
<1>1. SettledSame
  BY NothingSettles DEF IInv, TypeOK, Ended, StartTurn, locals
<1>2. CASE recvmmsg_count # 0
  BY <1>1, <1>2, SumsStay DEF StartTurn
<1>3. CASE recvmmsg_count = 0
  <2>1. /\ Plus(reported.bytes, interval_read_bytes) \in Word
        /\ Plus(reported.drop, interval_drop_counter) \in Word
        /\ Plus(reported.count, interval_read_counter) \in Word
    BY WordClosed DEF IInv, TypeOK
  <2>2. /\ Plus(Plus(reported.bytes, interval_read_bytes), 0)
             = Plus(reported.bytes, interval_read_bytes)
        /\ Plus(Plus(reported.drop, interval_drop_counter), 0)
             = Plus(reported.drop, interval_drop_counter)
        /\ Plus(Plus(reported.count, interval_read_counter), 0)
             = Plus(reported.count, interval_read_counter)
    BY <2>1, PlusZero
  <2>3. counted' = counted
    BY DEF StartTurn
  <2> QED
    BY <1>1, <1>3, <2>2, <2>3
    DEF IInv, Accounting, ReportsAddUp, SettledSame, StartTurn, Report
<1> QED
  BY <1>2, <1>3

\* One slot: the gap and the datagram are counted in the interval and in the
\* totals alike, and the gap keeps the drop count equal to the difference.
LEMMA CountKeepsSums ==
    ASSUME IInv, CountSlot
    PROVE  /\ Accounting' /\ ReportsAddUp'
           /\ SettledCounter' = Succ(slot[i])
<1> DEFINE g == Minus(slot[i], total_read_counter)
           l == msg_len[i]
<1>1. pend = {} /\ l \in Word /\ slot[i] \in Word /\ g \in Word /\ 1 \in Word
  <2>1. pend = {} /\ i < n
    BY DEF CountSlot
  <2>2. l \in Word /\ slot[i] \in Word
    BY <2>1, SlotLength DEF IInv
  <2>3. g \in Word
    BY <2>2, WordClosed DEF IInv, TypeOK
  <2>4. 1 \in Word
    BY ModulusAssumption DEF Word
  <2> QED
    BY <2>1, <2>2, <2>3, <2>4
<1>2. /\ SettledBytes = total_read_bytes
      /\ SettledDrop = total_drop_counter
      /\ SettledCounter = total_read_counter
  BY <1>1 DEF SettledBytes, SettledDrop, SettledCounter
<1>3. /\ SettledBytes' = Plus(total_read_bytes, l)
      /\ SettledDrop' = Plus(total_drop_counter, g)
      /\ SettledCounter' = Succ(slot[i])
  BY DEF CountSlot, SettledBytes, SettledDrop, SettledCounter, totals, msgvec,
         Globals
<1>4. Accounting'
  <2>1. total_drop_counter = Minus(total_read_counter, counted)
    BY <1>2 DEF IInv, Accounting
  <2>2. Plus(Minus(total_read_counter, counted), g)
          = Minus(Succ(slot[i]), Succ(counted))
    BY <1>1, GapStep DEF IInv, TypeOK
  <2> QED
    BY <1>3, <2>1, <2>2 DEF CountSlot, Accounting
<1>5. ReportsAddUp'
  <2>1. /\ Plus(reported.bytes, Plus(interval_read_bytes, l))
             = Plus(total_read_bytes, l)
        /\ Plus(reported.drop, Plus(interval_drop_counter, g))
             = Plus(total_drop_counter, g)
        /\ Plus(reported.count, Plus(interval_read_counter, 1))
             = Plus(counted, 1)
    <3> HIDE DEF g, l
    <3>1. /\ reported.bytes \in Word
          /\ reported.drop \in Word
          /\ reported.count \in Word
      BY DEF IInv, TypeOK
    <3> QED
      BY <1>1, <1>2, <3>1, PlusMoves DEF IInv, TypeOK, ReportsAddUp
  <2> QED
    BY <1>3, <2>1 DEF CountSlot, ReportsAddUp, Succ
<1> QED
  BY <1>3, <1>4, <1>5

\* No step of the kernel or of the loop loses a datagram.
LEMMA NothingLostStep ==
    ASSUME IInv, [Next]_vars
    PROVE  NothingLostInBatch'
<1> USE DEF IInv, TypeOK, NothingLostInBatch, Taken, Ended
<1>1. CASE Setup
  BY <1>1 DEF Setup, socket, locals, history
<1>2. CASE StartTurn
  BY <1>2 DEF StartTurn, socket, locals
<1>3. CASE FillSlot
  BY <1>3, MmsgAssumption DEF FillSlot, locals, history
<1>4. CASE RecvReturns
  BY <1>4 DEF RecvReturns, socket, locals, history
<1>5. CASE RecvFails
  BY <1>5 DEF RecvFails
<1>6. CASE CountSlot
  BY <1>6, MmsgAssumption DEF CountSlot, socket, Globals
<1>7. ASSUME NEW x, Stored(x)
      PROVE  NothingLostInBatch'
  BY <1>7, MmsgAssumption DEF Stored, socket, history
<1>8. CASE StoreBytes \/ StoreDrop \/ StoreCounter
  BY <1>7, <1>8 DEF StoreBytes, StoreDrop, StoreCounter
<1>9. CASE EndBatch
  BY <1>9 DEF EndBatch, socket, history
<1>10. CASE SigInt
  BY <1>10 DEF SigInt
<1>11. CASE Arrive
  BY <1>11, MmsgAssumption DEF Arrive, locals
<1>12. CASE Unreachable \/ UNCHANGED vars
  BY <1>12 DEF Unreachable, vars, socket, locals, history
<1> QED
  BY <1>1, <1>2, <1>3, <1>4, <1>5, <1>6, <1>8, <1>9, <1>10, <1>11, <1>12
  DEF Next, Loop

\* The steps that neither count, report nor store.
QuietStep == \/ Setup \/ FillSlot \/ RecvReturns \/ RecvFails \/ EndBatch
             \/ SigInt \/ Arrive \/ Unreachable \/ UNCHANGED vars

LEMMA QuietSettlesNothing ==
    ASSUME IInv, QuietStep
    PROVE  SettledSame /\ UNCHANGED <<intervals, reported, counted>>
<1>1. CASE FillSlot \/ EndBatch
  <2>1. pend = {} /\ UNCHANGED <<totals, pend>>
    BY <1>1 DEF IInv, TypeOK, Ended, FillSlot, EndBatch, locals
  <2> QED
    BY <1>1, <2>1, NothingSettles DEF FillSlot, EndBatch, history
<1>2. CASE \/ Setup \/ RecvReturns \/ RecvFails \/ SigInt \/ Arrive
           \/ Unreachable \/ UNCHANGED vars
  <2>1. UNCHANGED <<totals, pend, msgvec, i, gap, intervals, reported, counted>>
    BY <1>2 DEF Setup, RecvReturns, RecvFails, SigInt, Arrive, Unreachable,
                vars, locals, history
  <2> QED
    BY <2>1, NothingSettles
<1> QED
  BY <1>1, <1>2 DEF QuietStep

LEMMA NextInv == IInv /\ [Next]_vars => IInv'
<1> SUFFICES ASSUME IInv, [Next]_vars PROVE IInv'
  OBVIOUS
<1>1. TypeOK'
  BY NextType DEF IInv
<1>2. Accounting' /\ ReportsAddUp'
  <2>1. CASE StartTurn
    BY <2>1, ReportKeepsSums
  <2>2. CASE CountSlot
    BY <2>2, CountKeepsSums
  <2>3. CASE StoreBytes \/ StoreDrop \/ StoreCounter
    BY <2>3, StoreSettles, SumsStay DEF history
  <2>4. CASE QuietStep
    BY <2>4, QuietSettlesNothing, SumsStay
  <2> QED
    BY <2>1, <2>2, <2>3, <2>4 DEF Next, Loop, QuietStep
<1> QED
  BY <1>1, <1>2, NothingLostStep DEF IInv

LEMMA Invariance == Spec => []IInv
  BY InitInv, NextInv, PTL DEF Spec

\* Batches, stale slots, losses and wrapping notwithstanding, the drop counter
\* is the last number counted plus one, less the datagrams counted.
THEOREM AccountingHolds == Spec => []Accounting
<1>1. IInv => Accounting
  BY DEF IInv
<1> QED
  BY <1>1, Invariance, PTL

\* The printed intervals and the current one add up to the totals.
THEOREM ReportsAddUpHolds == Spec => []ReportsAddUp
<1>1. IInv => ReportsAddUp
  BY DEF IInv
<1> QED
  BY <1>1, Invariance, PTL

\* A datagram that reached the socket is queued, in a slot of the batch, or
\* counted, wherever an error cuts a batch.
THEOREM NothingLostInBatchHolds == Spec => []NothingLostInBatch
<1>1. IInv => NothingLostInBatch
  BY DEF IInv
<1> QED
  BY <1>1, Invariance, PTL

-----------------------------------------------------------------------------
(***************************************************************************)
(* The refinement: counting a slot is one Count of the meter, all other    *)
(* steps stutter or stop it.                                               *)
(***************************************************************************)
LEMMA InitRefines == Init => Meter!MeterInit
  BY DEF Init, Meter!MeterInit, SettledCounter, SettledDrop, Ended

LEMMA MeterWords ==
    /\ \A a, b \in Word : Meter!Minus(a, b) = Minus(a, b)
    /\ \A a \in Word : Meter!Succ(a) = Succ(a)
    /\ Meter!Word = Word
  BY DEF Meter!Minus, Minus, Meter!Succ, Succ, Meter!Plus, Plus, Meter!Word,
         Word

LEMMA SlotIsCount ==
    ASSUME IInv, CountSlot
    PROVE  slot[i] \in Meter!Word /\ Meter!Count(slot[i])
<1>1. /\ slot[i] \in Word /\ counted \in Word
      /\ counted' \in Word /\ SettledCounter' \in Word
  BY SlotLength, WordClosed, CountKeepsSums DEF IInv, TypeOK, CountSlot
<1>2. /\ SettledCounter' = Meter!Succ(slot[i])
      /\ counted' = Meter!Succ(counted)
  BY <1>1, CountKeepsSums, MeterWords DEF CountSlot
<1>3. SettledDrop' = Meter!Minus(SettledCounter', counted')
  BY <1>1, CountKeepsSums, MeterWords DEF Accounting
<1>4. pc \notin Ended /\ (pc \notin Ended)' = (pc \notin Ended)
  BY DEF CountSlot, Ended
<1> QED
  BY <1>1, <1>2, <1>3, <1>4, MeterWords DEF Meter!Count

LEMMA StepRefines ==
    IInv /\ [Next]_vars => [Meter!MeterNext]_(Meter!meterVars)
<1> SUFFICES ASSUME IInv, [Next]_vars
             PROVE  [Meter!MeterNext]_(Meter!meterVars)
  OBVIOUS
<1>1. CASE CountSlot
  BY <1>1, SlotIsCount DEF Meter!MeterNext
<1>2. CASE StoreBytes \/ StoreDrop \/ StoreCounter
  <2>1. SettledSame /\ counted' = counted
    BY <1>2, StoreSettles DEF history
  <2>2. (pc \notin Ended)' = (pc \notin Ended)
    BY <1>2 DEF StoreBytes, StoreDrop, StoreCounter, Stored, Ended
  <2> QED
    BY <2>1, <2>2 DEF SettledSame, Meter!meterVars
<1>3. CASE StartTurn
  <2>1. SettledSame
    BY <1>3, NothingSettles DEF IInv, TypeOK, Ended, StartTurn, locals
  <2>2. counted' = counted /\ (pc \notin Ended)' = (pc \notin Ended)
    BY <1>3 DEF StartTurn, Ended
  <2> QED
    BY <2>1, <2>2 DEF SettledSame, Meter!meterVars
<1>4. CASE QuietStep
  <2>1. SettledSame /\ counted' = counted
    BY <1>4, QuietSettlesNothing
  <2>2. \/ pc \notin Ended
        \/ (pc \notin Ended)' = (pc \notin Ended)
    BY <1>4 DEF QuietStep, Setup, FillSlot, RecvReturns, RecvFails, EndBatch,
                SigInt, Arrive, Unreachable, vars, Ended
  <2> QED
    BY <2>1, <2>2
    DEF SettledSame, Meter!meterVars, Meter!MeterNext, Meter!Stop
<1> QED
  BY <1>1, <1>2, <1>3, <1>4 DEF Next, Loop, QuietStep

\* udp-mmsg-trend with its batches and its stores in any order implements the
\* one-step meter.
THEOREM Refinement == Spec => ImplementsMeter
  BY InitRefines, StepRefines, Invariance, PTL
  DEF Spec, ImplementsMeter, Meter!MeterSpec
=============================================================================
