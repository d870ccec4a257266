---------------------------- MODULE MCWorkflows ----------------------------
(***************************************************************************)
(* Workflows for TLC, with time in minutes and a day of two of them: one   *)
(* workflow runs daily at 00:00, the other every minute.                   *)
(***************************************************************************)
EXTENDS Workflows

CONSTANTS text, last    \* the variables of Schedule, which next_run ignores

S == INSTANCE Schedule WITH Hours <- 1, Minutes <- 2, Days <- 2,
                            MaxAmount <- 1, MaxDelay <- 0

Text(w) == IF w = "brief" THEN [form |-> "daily", hh |-> 0, mm |-> 0]
                          ELSE [form |-> "every", amount |-> 1, unit |-> "m"]

MCFiles == <<"brief", "poll">>
MCNextDue ==
    [w \in {"brief", "poll"} |->
        [t \in 0..MaxTime |-> S!NextRun(Text(w), 2 * t) \div 2]]
=============================================================================
