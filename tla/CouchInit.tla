------------------------------- MODULE CouchInit -------------------------------
(***************************************************************************)
(* The Job couchdb-init that whisk_create applies with CouchDB             *)
(* (templates/couchdb-init.yaml), the program its Pods run                 *)
(* (couchdb.init over couchdb_util.CouchDB), and the operator that stores  *)
(* the metadata of the user nuvolaris when its own work is done.           *)
(*                                                                         *)
(* The data are on a volume claim of the StatefulSet: they outlive a Pod,  *)
(* the Job and the Whisk object.  A request answers with what the code     *)
(* takes for success, with a refusal, or not at all: the client raises,    *)
(* and the Pod is over.  The waits for CouchDB are not steps of their own: *)
(* after one that fails the requests that follow it fail.                  *)
(***************************************************************************)
EXTENDS Integers, Sequences

CONSTANTS
  BackoffLimit,  \* of the Job: 3
  MaxFaults,     \* bound: requests and Pods that fail
  MaxInstalls    \* bound: times the Whisk object is created

ASSUME BackoffAssumption == BackoffLimit \in Nat
ASSUME BoundAssumption == MaxFaults \in Nat /\ MaxInstalls \in Nat

\* (Mutation: the roles of a database before the database.)
InitPlanSwapped == << "single_node", "reduce_limit", "controller", "invoker",
  "subjects_role", "subjects", "subjects_docs",
  "activations", "activations_role", "activations_docs",
  "whisks", "whisks_role", "whisks_docs",
  "initial_subjects", "users_metadata" >>

\* init: init_system, init_subjects, init_activations, init_actions,
\* add_initial_subjects, init_users_metadata.  The design documents of a
\* database are one step, as are the initial subjects.
InitPlan == << "single_node", "reduce_limit", "controller", "invoker",
  "subjects", "subjects_role", "subjects_docs",
  "activations", "activations_role", "activations_docs",
  "whisks", "whisks_role", "whisks_docs",
  "initial_subjects", "users_metadata" >>

Artifact == { InitPlan[i] : i \in 1 .. Len(InitPlan) }
PlanEnd  == Len(InitPlan) + 1

\* The requests CouchDB refuses when they were carried out before: the set-up
\* of the node, a user (409) and a database (412).  The others overwrite.
Once == {"single_node", "controller", "invoker",
         "subjects", "activations", "whisks", "users_metadata"}

\* The database a step writes into.
Database(s) ==
  CASE s \in {"subjects_role", "subjects_docs", "initial_subjects"} -> {"subjects"}
    [] s \in {"activations_role", "activations_docs"} -> {"activations"}
    [] s \in {"whisks_role", "whisks_docs"} -> {"whisks"}
    [] OTHER -> {}

VARIABLES
  made,      \* what CouchDB has of the artifacts
  job,       \* "none", "active", "complete" or "failed"
  failures,  \* Pods of the Job that failed
  pos,       \* the next step of the present Pod
  res,       \* the local "res" of init
  post,      \* the operator reached whisk_post_create
  saved,     \* the metadata document of nuvolaris exists
  faults, installs

vars == << made, job, failures, pos, res, post, saved, faults, installs >>

Init ==
  /\ made = {} /\ job = "none" /\ failures = 0 /\ pos = 1 /\ res = TRUE
  /\ post = FALSE /\ saved = FALSE /\ faults = 0 /\ installs = 0

Fault == faults < MaxFaults /\ faults' = faults + 1
--------------------------------------------------------------------------------
\* couchdb.create applies the Job: its first Pod starts.
Apply ==
  /\ job = "none" /\ installs < MaxInstalls /\ installs' = installs + 1
  /\ job' = "active" /\ failures' = 0 /\ pos' = 1 /\ res' = TRUE
  /\ post' = FALSE
  /\ UNCHANGED << made, saved, faults >>

\* The Whisk object is deleted, and with it the Job it owns.
Withdraw ==
  /\ job # "none" /\ job' = "none"
  /\ UNCHANGED << made, failures, pos, res, post, saved, faults, installs >>

Step == InitPlan[pos]
Running == job = "active" /\ pos < PlanEnd
Accepted == ~(Step \in Once /\ Step \in made) /\ Database(Step) \subseteq made

\* (Mutation: the last answer decides.)
CheckLast(ok) == res' = ok

\* check: one failure makes the result of the whole of init a failure.
Check(ok) == res' = (res /\ ok)

Make ==
  /\ Running /\ Accepted
  /\ made' = made \cup {Step} /\ Check(TRUE) /\ pos' = pos + 1
  /\ UNCHANGED << job, failures, post, saved, faults, installs >>

\* (Mutation: init gives up at the first refusal.)
RefusedStops ==
  /\ Running /\ ~Accepted
  /\ Check(FALSE) /\ pos' = PlanEnd
  /\ UNCHANGED << made, job, failures, post, saved, faults, installs >>

\* A refusal is noted, and init goes on.
Refused ==
  /\ Running /\ ~Accepted
  /\ Check(FALSE) /\ pos' = pos + 1
  /\ UNCHANGED << made, job, failures, post, saved, faults, installs >>

\* CouchDB answers with an error of its own.
Errs ==
  /\ Running /\ Fault
  /\ Check(FALSE) /\ pos' = pos + 1
  /\ UNCHANGED << made, job, failures, post, saved, installs >>

\* The Job counts a Pod that failed, and starts another one up to its limit.
PodFails ==
  /\ failures' = failures + 1
  /\ IF failures + 1 > BackoffLimit THEN job' = "failed" ELSE UNCHANGED job
  /\ pos' = 1 /\ res' = TRUE

\* The connection breaks before or after the request took effect, or the Pod
\* is killed.
Dies ==
  /\ Running /\ Fault /\ PodFails
  /\ \/ UNCHANGED made
     \/ Accepted /\ made' = made \cup {Step}
  /\ UNCHANGED << post, saved, installs >>

\* init returns "not res": the exit code of the Pod.
Succeeds ==
  /\ job = "active" /\ pos = PlanEnd /\ res
  /\ job' = "complete"
  /\ UNCHANGED << made, failures, pos, res, post, saved, faults, installs >>

Exits ==
  /\ job = "active" /\ pos = PlanEnd /\ ~res
  /\ PodFails
  /\ UNCHANGED << made, post, saved, faults, installs >>

\* whisk_post_create stores the metadata of nuvolaris; it waits for the Pod of
\* CouchDB and not for the Job, and ignores the failure.
PostCreate ==
  /\ job # "none" /\ ~post /\ post' = TRUE
  /\ \/ saved' = (saved \/ "users_metadata" \in made) /\ UNCHANGED faults
     \/ Fault /\ UNCHANGED saved
  /\ UNCHANGED << made, job, failures, pos, res, installs >>

Pod == Make \/ Refused \/ Errs \/ Dies \/ Succeeds \/ Exits
Next == Apply \/ Withdraw \/ Pod \/ PostCreate

Spec == Init /\ [][Next]_vars

\* Kubernetes runs the Pods of the Job, and the operator reaches the end.
FairSpec == Spec /\ WF_vars(Pod) /\ WF_vars(PostCreate)
--------------------------------------------------------------------------------
JobType ==
  /\ made \in SUBSET Artifact
  /\ job \in {"none", "active", "complete", "failed"}
  /\ failures \in 0 .. BackoffLimit + 1
  /\ pos \in 1 .. PlanEnd
  /\ faults \in 0 .. MaxFaults /\ installs \in 0 .. MaxInstalls

FlagType == res \in BOOLEAN /\ post \in BOOLEAN /\ saved \in BOOLEAN

TypeOK == JobType /\ FlagType

\* A Job that completed has initialised everything: no failure of a Pod before
\* its last one, and none of a step, is forgotten on the way.
CompleteInitialised == job = "complete" => Artifact \subseteq made

\* The Pod in progress owes its good result so far to the steps it took.
ResultTruthful ==
  job = "active" /\ res => \A i \in 1 .. PlanEnd - 1 : i < pos => InitPlan[i] \in made

\* A Job that is still active has Pods left.
WithinLimit == job = "active" => failures =< BackoffLimit

\* The invariant that is inductive.
Inductive == TypeOK /\ WithinLimit /\ ResultTruthful /\ CompleteInitialised

\* Although a Pod after the first can only fail, with at most BackoffLimit
\* failures from outside everything is initialised in the end.
InitHappens == (job = "active") ~> (Artifact \subseteq made \/ job = "none")

\* The Job of a first, undisturbed installation completes.
FirstJobCompletes ==
  (job = "active" /\ made = {} /\ faults = 0)
    ~> (job \in {"none", "complete"} \/ faults > 0)
================================================================================
