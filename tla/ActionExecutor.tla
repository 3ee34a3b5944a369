----------------------------- MODULE ActionExecutor -----------------------------
(***************************************************************************)
(* The CronJob of templates/cron-init.yaml and the program of its Pods,    *)
(* actionexecutor.start: it looks up the actions that carry a cron or an   *)
(* autoexec annotation and calls those that are due.                       *)
(*                                                                         *)
(* Time is a number of ticks, and both cron expressions are sets of        *)
(* offsets in one cycle.  There is one action of each kind: one whose cron *)
(* expression is Cron, and one to be executed once.  A Pod of a slot       *)
(* starts some time after it, and nothing keeps the Pods of two slots      *)
(* apart.                                                                  *)
(***************************************************************************)
EXTENDS Integers

CONSTANTS
  Cycle, Schedule,     \* the slots of the CronJob
  Cron,                \* the instants of the action
  MinDelay, MaxDelay,  \* between a slot and the start of its Pod
  MaxRun,              \* time a Pod takes
  Horizon,             \* bound: the last tick
  MaxFailed            \* bound: Pods and requests that fail

ASSUME CycleAssumption ==
  /\ Cycle \in Nat \ {0} /\ Horizon \in Nat /\ MaxFailed \in Nat
  /\ Schedule \subseteq 0 .. Cycle - 1 /\ Schedule # {}
  /\ Cron \subseteq 0 .. Cycle - 1
  /\ MinDelay \in Nat /\ MaxDelay \in Nat /\ MaxRun \in Nat

Slot    == { t \in 0 .. Horizon : t % Cycle \in Schedule }
Instant == { t \in 0 .. Horizon : t % Cycle \in Cron }

\* The next slot after time t (croniter.get_next).
NextSlot(t) ==
  CHOOSE u \in t + 1 .. t + Cycle :
    u % Cycle \in Schedule /\ \A v \in t + 1 .. u - 1 : v % Cycle \notin Schedule

\* from_cron_to_seconds: the distance of the two slots that follow t.
Interval(t) == NextSlot(NextSlot(t)) - NextSlot(t)

\* (Mutation: the interval before the start, and the one after it.)
WindowWide(t) == { x \in Instant : t - Interval(t) =< x /\ x =< t + Interval(t) }

\* action_should_trigger: the instants for which a Pod that started at time t
\* calls the action, both ends included.
Window(t) == { x \in Instant : t - Interval(t) =< x /\ x =< t }

VARIABLES
  now,     \* the time
  phase,   \* of each slot's Pod: "pending", the call it is at, or "done"
  start,   \* its currentDate
  due,     \* the time by which it starts
  seen,    \* it read that the other action is to be executed once
  auto,    \* that annotation in the database
  calls,   \* calls of the first action, for each instant they are due to
  runs,    \* calls of the second action
  failed

execVars == << now, phase, start, due, seen, auto, calls, runs, failed >>

ExecInit ==
  /\ now = 0
  /\ phase = [s \in Slot |-> "pending"] /\ start = [s \in Slot |-> 0]
  /\ due = [s \in Slot |-> s + MaxDelay] /\ seen = [s \in Slot |-> FALSE]
  /\ auto = TRUE /\ calls = [x \in Instant |-> 0] /\ runs = 0 /\ failed = 0

Fails == failed < MaxFailed /\ failed' = failed + 1

Goes(s, p, q) == phase[s] = p /\ phase' = [phase EXCEPT ![s] = q]
Active(s) == phase[s] \notin {"pending", "done"}
--------------------------------------------------------------------------------
\* Time passes: a Pod starts, and ends, before its time is over.
Tick ==
  /\ now < Horizon /\ now' = now + 1
  /\ \A s \in Slot : phase[s] = "pending" => now < due[s]
  /\ \A s \in Slot : Active(s) => now < start[s] + MaxRun
  /\ UNCHANGED << phase, start, due, seen, auto, calls, runs, failed >>

\* start: the Pod takes its currentDate and the interval.
Start(s) ==
  /\ now >= s + MinDelay /\ Goes(s, "pending", "started")
  /\ start' = [start EXCEPT ![s] = now]
  /\ UNCHANGED << now, due, seen, auto, calls, runs, failed >>

\* get_cron_aware_actions: the annotations are those of this moment.
Query(s) ==
  /\ Goes(s, "started", "cron") /\ seen' = [seen EXCEPT ![s] = auto]
  /\ UNCHANGED << now, start, due, auto, calls, runs, failed >>

\* CouchDB does not answer: the Pod ends without an error.
NoAnswer(s) ==
  /\ Fails /\ Goes(s, "started", "done")
  /\ UNCHANGED << now, start, due, seen, auto, calls, runs >>

\* handle_action for the first action.  The result of the call is only logged.
Call(s) ==
  /\ Goes(s, "cron", "autoexec")
  /\ \/ /\ calls' = [x \in Instant |-> IF x \in Window(start[s]) THEN calls[x] + 1 ELSE calls[x]]
        /\ UNCHANGED failed
     \/ Fails /\ UNCHANGED calls
  /\ UNCHANGED << now, start, due, seen, auto, runs >>

\* handle_action for the second one: a call that raises may have been made.
CallOnce(s) ==
  /\ IF seen[s]
     THEN \/ Goes(s, "autoexec", "unschedule") /\ runs' = runs + 1 /\ UNCHANGED failed
          \/ Fails /\ Goes(s, "autoexec", "done") /\ runs' \in {runs, runs + 1}
     ELSE Goes(s, "autoexec", "done") /\ UNCHANGED << runs, failed >>
  /\ UNCHANGED << now, start, due, seen, auto, calls >>

\* (Mutation: the annotation is written as it was read.)
UnscheduleKeeps(s) ==
  /\ Goes(s, "unschedule", "done")
  /\ UNCHANGED << now, start, due, seen, auto, calls, runs, failed >>

\* unschedule_autoexec_action: its failure is only logged.
Unschedule(s) ==
  /\ Goes(s, "unschedule", "done")
  /\ \/ auto' = FALSE /\ UNCHANGED failed
     \/ Fails /\ UNCHANGED auto
  /\ UNCHANGED << now, start, due, seen, calls, runs >>

\* The container fails and is started again, with a later currentDate
\* (restartPolicy OnFailure).
Crash(s) ==
  /\ Fails /\ Active(s)
  /\ phase' = [phase EXCEPT ![s] = "pending"] /\ due' = [due EXCEPT ![s] = now + MaxDelay]
  /\ UNCHANGED << now, start, seen, auto, calls, runs >>

Work(s) == Start(s) \/ Query(s) \/ Call(s) \/ CallOnce(s) \/ Unschedule(s)
ExecNext == Tick \/ \E s \in Slot : Work(s) \/ NoAnswer(s) \/ Crash(s)

ExecSpec == ExecInit /\ [][ExecNext]_execVars

\* Time passes, and Kubernetes runs the Pod of every slot.
FairExecSpec == ExecSpec /\ WF_execVars(Tick) /\ \A s \in Slot : WF_execVars(Work(s))
--------------------------------------------------------------------------------
\* An instant of the cron expression is not executed twice, by two Pods that
\* take it for theirs, as long as no Pod starts again.
NeverTwice == failed = 0 => \A x \in Instant : calls[x] =< 1

\* actionexecutor.py:54: an action is called when it "should have been
\* triggered since the last execution": when the Pod of the first slot after
\* an instant is through, and those before it, one of them has called it.
NeverMissed ==
  \A x \in Instant :
    (failed = 0 /\ NextSlot(x) \in Slot /\ \A s \in Slot : s =< NextSlot(x) => phase[s] = "done")
      => calls[x] > 0

\* Every instant is served once, by one Pod.
ServedOnce == NeverTwice /\ NeverMissed

\* handle_action calls it "execute_once": no second call is made as long as no
\* request fails and no Pod starts again.
OnceOnly == failed = 0 => runs =< 1

\* The action is executed once as long as nothing fails, and a request or a Pod
\* that failed is made good by a later one.
AutoexecOnce == [](failed = 0 => runs =< 1) /\ <>(runs > 0)
--------------------------------------------------------------------------------
(* What the properties ask of the constants, and why they hold then.       *)

\* The slots are the multiples of a period.
Regular(period) ==
  /\ period \in 1 .. Cycle /\ Cycle % period = 0
  /\ Schedule = { o \in 0 .. Cycle - 1 : o % period = 0 }

\* A Pod starts before the next slot, and no instant is due between its earliest
\* and its latest start.
Clear(period) ==
  MaxDelay < period /\ \A x \in Instant : x % period \notin MinDelay .. MaxDelay

\* A Pod is over before the next one starts.
Serial(period) == MaxDelay + MaxRun < period + MinDelay

ExecTypeOK ==
  /\ now \in Nat /\ failed \in Nat /\ runs \in Nat /\ auto \in BOOLEAN
  /\ phase \in [Slot -> {"pending", "started", "cron", "autoexec", "unschedule", "done"}]
  /\ start \in [Slot -> Nat] /\ due \in [Slot -> Nat] /\ seen \in [Slot -> BOOLEAN]
  /\ calls \in [Instant -> Nat]

\* As long as no Pod starts again, it starts within the delays of its slot and is
\* over in time.
Timely ==
  failed = 0 => \A s \in Slot :
    /\ due[s] = s + MaxDelay /\ (phase[s] = "pending" => now =< due[s])
    /\ phase[s] # "pending" =>
         s + MinDelay =< start[s] /\ start[s] =< due[s] /\ start[s] =< now
    /\ Active(s) => now =< start[s] + MaxRun

\* The Pod is past its call of the first action.
Called(s) == phase[s] \in {"autoexec", "unschedule", "done"}

\* A call of an instant is that of a Pod that has it in its window.
Counted ==
  failed = 0 => \A x \in Instant :
    calls[x] > 0 <=> \E s \in Slot : Called(s) /\ x \in Window(start[s])

\* The annotation is there until the action was executed and its Pod has had the
\* time to take it away, and no other Pod has read it.
Scheduled ==
  failed = 0 =>
    /\ runs > 0 => ~auto \/ \E s \in Slot : phase[s] = "unschedule"
    /\ \A s \in Slot : phase[s] \in {"cron", "autoexec"} /\ seen[s] => runs = 0

ServedInv == ExecTypeOK /\ Timely /\ Counted /\ NeverTwice
OnceInv   == ExecTypeOK /\ Timely /\ Scheduled /\ OnceOnly

================================================================================
