------------------------------- MODULE Pacing -------------------------------
(***************************************************************************)
(* The server's busy waits.  bz_usleep spins on gettimeofday, the clock of *)
(* the day, which may be set while it spins; bz_nanosleep on the monotonic *)
(* clock, which may not.                                                   *)
(***************************************************************************)
EXTENDS Integers

CONSTANTS
    Waits,     \* what a wait may be asked for, as an int or a long
    MaxTime    \* bound: how far the clocks go

ASSUME PacingAssumption == Waits \subseteq Int /\ MaxTime \in Nat

VARIABLES
    day, mono,    \* the two clocks, in the unit of the wait
    clock,        \* the one the wait looks at
    wait,         \* usec or nsec
    target,
    wpc,          \* "before", "spin" or "after"
    began,        \* history: the monotonic clock at the call
    set_ahead     \* history: how far the clock of the day was set ahead

pvars == <<day, mono, clock, wait, target, wpc, began, set_ahead>>

\* gettime_ll of bz_usleep.c and of bz_nanosleep.c.
usleep_clock    == day
nanosleep_clock == mono

gettime_ll == IF clock = "day" THEN usleep_clock ELSE nanosleep_clock

PInit ==
    /\ day \in 0 .. MaxTime /\ mono = 0
    /\ clock \in {"day", "mono"}
    /\ wait \in Waits
    /\ target = 0
    /\ wpc = "before"
    /\ began = 0
    /\ set_ahead = 0

\* A mistake: the wait is taken for a time of day.
TakeTargetAbsolute ==
    /\ wpc = "before"
    /\ target' = wait
    /\ began' = mono
    /\ wpc' = "spin"
    /\ UNCHANGED <<day, mono, clock, wait, set_ahead>>

TakeTarget ==
    /\ wpc = "before"
    /\ target' = gettime_ll + wait
    /\ began' = mono
    /\ wpc' = "spin"
    /\ UNCHANGED <<day, mono, clock, wait, set_ahead>>

\* The spinning itself changes nothing.
Reached ==
    /\ wpc = "spin" /\ gettime_ll >= target
    /\ wpc' = "after"
    /\ UNCHANGED <<day, mono, clock, wait, target, began, set_ahead>>

\* Time passes.
Tick ==
    /\ day < MaxTime /\ mono < MaxTime
    /\ day' = day + 1 /\ mono' = mono + 1
    /\ UNCHANGED <<clock, wait, target, wpc, began, set_ahead>>

\* The clock of the day is set.
SetDay ==
    /\ day' \in 0 .. MaxTime
    /\ set_ahead' = IF wpc = "spin" /\ day' > day
                    THEN set_ahead + (day' - day) ELSE set_ahead
    /\ set_ahead' <= MaxTime
    /\ UNCHANGED <<mono, clock, wait, target, wpc, began>>

PNext == TakeTarget \/ Reached \/ Tick \/ SetDay

PSpec == PInit /\ [][PNext]_pvars

-----------------------------------------------------------------------------
\* A datagram is not sent before its wait is over: bz_nanosleep never returns
\* early, and bz_usleep only by as much as the clock was set ahead meanwhile.
NeverEarly ==
    wpc = "after" =>
        mono - began >= wait - (IF clock = "day" THEN set_ahead ELSE 0)
=============================================================================
