------------------------------ MODULE Schedule ------------------------------
(***************************************************************************)
(* The schedule grammar of workflows (workflows/schedule.py): parse and    *)
(* next_run, and how a scheduler uses them, which asks for the next run    *)
(* after the start of the last one, the start being late by some delay.    *)
(*                                                                         *)
(* A schedule text is the form it matches and the numbers in it.  Moments  *)
(* are local time in ticks of half a minute, so that a moment may lie      *)
(* between two minutes; moment 0 is a Monday, 00:00.                       *)
(***************************************************************************)
EXTENDS Naturals, FiniteSets

CONSTANTS
    Hours, Minutes,     \* hours of a day, minutes of an hour
    Days,               \* days of a week
    MaxAmount,          \* bound: the number in `every <n>m`
    MaxDelay            \* bound: how late a run may start, in ticks

ASSUME ScheduleAssumption ==
    /\ Hours \in Nat \ {0} /\ Minutes \in Nat \ {0} /\ Days \in Nat \ {0}
    /\ MaxAmount \in Nat /\ MaxDelay \in Nat

VARIABLES
    text,       \* the schedule of the workflow
    last        \* when its last run started

vars == <<text, last>>

MinuteTicks == 2
HourTicks == Minutes * MinuteTicks
DayTicks  == Hours * HourTicks
WeekTicks == Days * DayTicks

-----------------------------------------------------------------------------
(* Schedule.parse: what the three regular expressions match.  Two digits   *)
(* may be more than an hour or a minute can be.                            *)
Texts ==
    [form : {"every"}, amount : 0..MaxAmount, unit : {"m", "h"}]
    \cup [form : {"daily"}, hh : 0..Hours, mm : 0..Minutes]
    \cup [form : {"weekly"}, day : 0..(Days - 1), hh : 0..Hours, mm : 0..Minutes]

(* Neither a zero interval nor a time that time(hh, mm) refuses. *)
Parses(t) ==
    IF t.form = "every" THEN t.amount # 0 ELSE t.hh < Hours /\ t.mm < Minutes

Interval(t) == t.amount * (IF t.unit = "m" THEN MinuteTicks ELSE HourTicks)

(* Schedule.at, as the ticks since midnight. *)
At(t) == t.hh * HourTicks + t.mm * MinuteTicks

-----------------------------------------------------------------------------
(* Schedule.next_run.                                                      *)

Weekday(moment) == (moment \div DayTicks) % Days
Midnight(moment) == moment - (moment % DayTicks)

(* Mutants of Rejected: a run exactly on time is due again at once; the    *)
(* weekday is compared before the candidate has left the past.             *)
RejectedBefore(t, candidate, after) ==
    \/ candidate < after
    \/ t.form = "weekly" /\ Weekday(candidate) # t.day
RejectedEither(t, candidate, after) ==
    IF t.form = "weekly" THEN Weekday(candidate) # t.day ELSE candidate <= after

(* The condition of the while loop. *)
Rejected(t, candidate, after) ==
    \/ candidate <= after
    \/ t.form = "weekly" /\ Weekday(candidate) # t.day

NextRun(t, after) ==
    IF t.form = "every"
    THEN after + Interval(t)
    ELSE LET first == Midnight(after) + At(t)
             search[k \in 0..(Days + 1)] ==
                 LET candidate == first + k * DayTicks IN
                 IF k <= Days /\ Rejected(t, candidate, after)
                 THEN search[k + 1]
                 ELSE candidate
         IN search[0]

-----------------------------------------------------------------------------
Init == text \in {t \in Texts : Parses(t)} /\ last \in 0..(WeekTicks - 1)

(* A poll finds the workflow due and starts it. *)
Start(delay) ==
    /\ last < WeekTicks
    /\ last' = NextRun(text, last) + delay
    /\ UNCHANGED text

Next == \E delay \in 0..MaxDelay : Start(delay)

Spec == Init /\ [][Next]_vars

-----------------------------------------------------------------------------
(* Is this a moment the text of a daily or weekly schedule names? *)
Names(t, moment) ==
    /\ moment % DayTicks = At(t)
    /\ t.form = "weekly" => Weekday(moment) = t.day

Between(a, b) == {m \in (a + 1)..b : Names(text, m)}

(* next_run gives the first moment after its argument that the schedule    *)
(* names, across midnight, across the week's end and when the argument is  *)
(* such a moment itself; the loop that looks for it ends.                  *)
NextRunIsTheFirst ==
    text.form # "every" =>
        Between(last, NextRun(text, last)) = {NextRun(text, last)}

(* However late each run starts, as long as it is less than a period: each *)
(* moment the schedule names is served by one run, none twice, none never. *)
EachMomentIsServedOnce ==
    [][text.form # "every" => Cardinality(Between(last, last')) = 1]_vars
=============================================================================
