---------------------------- MODULE MCScheduled ----------------------------
(* Small schedules for ScheduledRunner. *)
EXTENDS ScheduledRunner

CONSTANTS t1, r1, c1

\* A task that runs twice, whose first run asks; the same stopped and resumed by its
\* owner; and a task that runs once, asks twice, and loses a process.
MCBounds ==
    {[kinds |-> {"calendar"}, turns |-> <<2, 1>>, crashes |-> 0, stops |-> FALSE],
     [kinds |-> {"calendar"}, turns |-> <<1, 1>>, crashes |-> 0, stops |-> TRUE],
     [kinds |-> {"once"}, turns |-> <<3, 1>>, crashes |-> 1, stops |-> TRUE]}
=============================================================================
