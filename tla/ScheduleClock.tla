--------------------------- MODULE ScheduleClock ---------------------------
(***************************************************************************)
(* When a benchmark schedule is due (src/tms/bench/schedules.py, and       *)
(* set_schedule_enabled of service.py): the clock JobRuns leaves out.      *)
(*                                                                         *)
(* A schedule's row holds its next time and whether it is enabled.  The    *)
(* ticker claims what is due in one statement; an operator's press reads   *)
(* the row, and writes what it computed after the audit store was probed.  *)
(* TMS may be down, or slow, for any number of minutes.                    *)
(***************************************************************************)
EXTENDS Integers

CONSTANTS
    Every,      \* interval_minutes
    Pressers,   \* operators at the schedule list
    MaxMinute,  \* bound on the time
    MaxPresses  \* bound on presses of enable and disable

ASSUME ScheduleClockAssumption ==
    /\ Every \in Nat \ {0}
    /\ MaxMinute \in Nat \ {0}
    /\ MaxPresses \in Nat

VARIABLES
    minute,   \* the time
    first,    \* history: the starts_at of the schedule
    nextRun,  \* next_run_at
    enabled,
    pressed,  \* what each operator's press is about to write
    presses,
    claimed,  \* history: when a time was claimed last
    tardy     \* history: a press wrote a next time that had come before it did

clockVars == <<minute, first, nextRun, enabled, pressed, presses, claimed, tardy>>

-----------------------------------------------------------------------------
\* Mutated form of AdvanceSchedule: one step forward, however much was missed.
AdvanceOneStep(next, now) == next + Every

\* Mutated form of AdvanceSchedule: from now on.
AdvanceFromNow(next, now) == now + Every

\* advance: the next time after this one, past whole missed intervals.
AdvanceSchedule(next, now) ==
    IF next + Every > now THEN next + Every
    ELSE next + Every * ((now - next) \div Every + 1)

\* Mutated form of Claimed: an interval missed exactly is not counted.
ClaimedShort(next, now) == next + Every * ((now - next + Every - 1) \div Every)

\* The same in SQL, of a time that has come.
Claimed(next, now) == next + Every * (1 + (now - next) \div Every)

NotClaimed == -1

Unpressed == [on |-> FALSE, enable |-> FALSE, next |-> 0, at |-> 0]

Slots == 0..MaxMinute + (MaxPresses + 2) * Every

ClockTypeOK ==
    /\ minute \in 0..MaxMinute
    /\ first \in 0..Every
    /\ nextRun \in Slots
    /\ enabled \in BOOLEAN
    /\ pressed \in [Pressers -> [on : BOOLEAN, enable : BOOLEAN, next : Slots,
                              at : 0..MaxMinute]]
    /\ presses \in 0..MaxPresses
    /\ claimed \in {NotClaimed} \union 0..MaxMinute
    /\ tardy \in BOOLEAN

\* create_schedule: the first time may lie before or after this moment.
ClockInit ==
    /\ minute = 1
    /\ first \in 0..Every
    /\ nextRun = first
    /\ enabled = TRUE
    /\ pressed = [o \in Pressers |-> Unpressed]
    /\ presses = 0
    /\ claimed = NotClaimed
    /\ tardy = FALSE

-----------------------------------------------------------------------------
MinutePasses ==
    /\ minute < MaxMinute
    /\ minute' = minute + 1
    /\ UNCHANGED <<first, nextRun, enabled, pressed, presses, claimed, tardy>>

\* claim_due: selecting and moving on are one statement.
ClaimDue ==
    /\ enabled
    /\ nextRun <= minute
    /\ claimed' = minute
    /\ nextRun' = Claimed(nextRun, minute)
    /\ UNCHANGED <<minute, first, enabled, pressed, presses, tardy>>

\* _fire: the turn was the last of too many failures.
PausedByTurn ==
    /\ enabled
    /\ claimed # NotClaimed
    /\ enabled' = FALSE
    /\ UNCHANGED <<minute, first, nextRun, pressed, presses, claimed, tardy>>

\* set_schedule_enabled reads the row and computes what it will write.
PressEnabled(o, enable) ==
    /\ ~pressed[o].on
    /\ presses < MaxPresses
    /\ presses' = presses + 1
    /\ pressed' = [pressed EXCEPT ![o] =
          [on |-> TRUE, enable |-> enable,
           next |-> IF enable THEN AdvanceSchedule(nextRun, minute) ELSE 0, at |-> minute]]
    /\ UNCHANGED <<minute, first, nextRun, enabled, claimed, tardy>>

\* Its UPDATE, or the refusal of the audit guard or the store.
WriteEnabled(o) ==
    /\ pressed[o].on
    /\ pressed' = [pressed EXCEPT ![o] = Unpressed]
    /\ \/ /\ enabled' = pressed[o].enable
          /\ IF pressed[o].enable
             THEN /\ nextRun' = pressed[o].next
                  /\ tardy' = (tardy \/ pressed[o].next \in pressed[o].at + 1..minute)
             ELSE UNCHANGED <<nextRun, tardy>>
       \/ UNCHANGED <<enabled, nextRun, tardy>>
    /\ UNCHANGED <<minute, first, presses, claimed>>

ClockNext ==
    \/ MinutePasses \/ ClaimDue \/ PausedByTurn
    \/ \E o \in Pressers :
          \/ \E enable \in BOOLEAN : PressEnabled(o, enable)
          \/ WriteEnabled(o)

ClockSpec == ClockInit /\ [][ClockNext]_clockVars

-----------------------------------------------------------------------------
(* Properties.                                                             *)

\* What is due next lies after the last claim: no claim makes up for what was
\* missed before another, and none is for a time that had been claimed.  And a
\* schedule keeps to its hour through pauses, missed intervals and two operators
\* at it.  Only a press that is written after the time it had computed can have
\* a time claimed twice (advance: "must not produce a burst of catch-up
\* benchmarks", "stays at 03:00 instead of drifting").
SlotsKept ==
    /\ ~tardy => nextRun > claimed
    /\ (nextRun - first) % Every = 0
=============================================================================
