---------------------------- MODULE MCActionExecutor ----------------------------
(* Schedules and cron expressions for TLC: offsets in one cycle. *)
EXTENDS ActionExecutor

First == {0}
Twice == {0, 3}

\* The conditions under which the properties are proved.
ASSUME Conditions == \E p \in 1 .. Cycle : Regular(p) /\ Clear(p) /\ Serial(p)
================================================================================
