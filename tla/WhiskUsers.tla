------------------------------ MODULE WhiskUsers -------------------------------
(***************************************************************************)
(* The handlers of a WhiskUser object: user_handlers.whisk_user_create     *)
(* gives the user a subject, ingresses, storage and databases in the       *)
(* components of the installation and stores what it gave in a document;   *)
(* whisk_user_delete takes it back; whisk_user_resume renews the Redis user*)
(* when the operator starts.                                               *)
(*                                                                         *)
(* They run in threads of the operator next to the handlers of the Whisk   *)
(* object and read the configuration those write: cfg is empty until       *)
(* whisk_create or whisk_resume filled it, and for a moment whenever       *)
(* config_from_spec replaces it.  A failing call is logged and the handler *)
(* goes on, except for the one that raises.                                *)
(***************************************************************************)
EXTENDS Integers, Sequences

CONSTANTS
  Wants,     \* what the spec of the user enables
  Provides,  \* components that are on in the Whisk object
  MaxFaults, \* bound: calls that fail
  MaxStarts, \* bound: restarts of the operator, of Redis, replacements of cfg
  MaxUsers   \* bound: times the object is created

ASSUME WantAssumption ==
  /\ Wants \subseteq {"data", "route", "mongodb", "redis", "postgres"}
  /\ Provides \subseteq {"minio", "static", "mongodb", "redis", "postgres"}
ASSUME BoundAssumption == MaxFaults \in Nat /\ MaxStarts \in Nat /\ MaxUsers \in Nat

\* whisk_user_create.  create_ow_storage is the steps "user" to "policy".
CreatePlan == << "subject", "api", "user", "data", "route", "policy", "static",
                 "mongodb", "redis", "postgres", "doc" >>

\* (Mutation: the ingress of the static content is left behind.)
RemovePlanForgets == << "api", "subject", "data", "route", "user", "policy",
                        "mongodb", "redis", "postgres", "doc" >>

\* whisk_user_delete.
RemovePlan == << "api", "subject", "data", "route", "user", "policy", "static",
                 "mongodb", "redis", "postgres", "doc" >>

Part == { CreatePlan[i] : i \in 1 .. Len(CreatePlan) }
Storage == {"user", "data", "route", "policy"}

VARIABLES
  cfg,       \* "empty" or "ready"
  apihost,   \* cm/config has the apihost annotation
  obj,       \* "none", "present" or "deleting"
  handled,   \* kopf takes the creation for handled
  handler,   \* "idle", "create", "resume" or "delete"
  pos,       \* its next step
  meta,      \* the local user_metadata: the parts it names
  accounts,  \* the parts that exist
  saved,     \* the parts the stored document names
  fresh,     \* the present object's handler stored it
  clean,     \* no failure and no empty cfg in the deletion so far
  faults, starts, users

vars == << cfg, apihost, obj, handled, handler, pos, meta, accounts, saved,
           fresh, clean, faults, starts, users >>

\* The Whisk object of the installation was created before.
Init ==
  /\ cfg = "ready" /\ apihost \in BOOLEAN
  /\ obj = "none" /\ handled = FALSE /\ handler = "idle" /\ pos = 1
  /\ meta = {} /\ accounts = {} /\ saved = {} /\ fresh = FALSE /\ clean = TRUE
  /\ faults = 0 /\ starts = 0 /\ users = 0

Fault == faults < MaxFaults /\ faults' = faults + 1

\* The conditions of the handlers, over the configuration of this moment.
Offered == IF cfg = "ready" THEN Provides ELSE {}
Applies(on, s) ==
  CASE s \in {"subject", "api", "doc"} -> TRUE
    [] s \in {"user", "policy"} -> "minio" \in on /\ Wants \cap {"data", "route"} # {}
    [] s \in {"data", "route"} -> "minio" \in on /\ s \in Wants
    [] s = "static" -> {"minio", "static"} \subseteq on /\ "route" \in Wants
    [] s \in {"mongodb", "redis", "postgres"} -> s \in on \cap Wants
Active(s) == Applies(Offered, s)
--------------------------------------------------------------------------------
\* The world around the handlers: the Whisk object's handlers fill, empty and
\* replace cfg (config_from_spec) and annotate the apihost; users come and go.
Configure ==
  /\ cfg = "empty" /\ cfg' = "ready"
  /\ UNCHANGED << apihost, obj, handled, handler, pos, meta, accounts, saved, fresh, clean, faults, starts, users >>

Annotate ==
  /\ ~apihost /\ apihost' = TRUE
  /\ UNCHANGED << cfg, obj, handled, handler, pos, meta, accounts, saved, fresh, clean, faults, starts, users >>

Replace ==
  /\ cfg = "ready" /\ starts < MaxStarts /\ starts' = starts + 1
  /\ cfg' = "empty"
  /\ UNCHANGED << apihost, obj, handled, handler, pos, meta, accounts, saved, fresh, clean, faults, users >>

\* Redis keeps its users in memory.
RedisRestarts ==
  /\ starts < MaxStarts /\ starts' = starts + 1
  /\ "redis" \in accounts /\ accounts' = accounts \ {"redis"}
  /\ UNCHANGED << cfg, apihost, obj, handled, handler, pos, meta, saved, fresh, clean, faults, users >>

Add ==
  /\ obj = "none" /\ users < MaxUsers /\ users' = users + 1
  /\ obj' = "present" /\ handled' = FALSE /\ fresh' = FALSE
  /\ UNCHANGED << cfg, apihost, handler, pos, meta, accounts, saved, clean, faults, starts >>

Remove ==
  /\ obj = "present" /\ obj' = "deleting" /\ fresh' = FALSE
  /\ UNCHANGED << cfg, apihost, handled, handler, pos, meta, accounts, saved, clean, faults, starts, users >>

\* The operator's Pod restarts: what its handlers knew is gone, and kopf runs
\* the resume handler of an object whose creation was handled.
Restart ==
  /\ starts < MaxStarts /\ starts' = starts + 1
  /\ cfg' = "empty" /\ meta' = {} /\ pos' = 1
  /\ handler' = IF obj = "present" /\ handled THEN "resume" ELSE "idle"
  /\ UNCHANGED << apihost, obj, handled, accounts, saved, fresh, clean, faults, users >>
--------------------------------------------------------------------------------
CreateBegins ==
  /\ handler = "idle" /\ obj = "present" /\ ~handled
  /\ handler' = "create" /\ pos' = 1 /\ meta' = {}
  /\ UNCHANGED << cfg, apihost, obj, handled, accounts, saved, fresh, clean, faults, starts, users >>

Creating(s) == handler = "create" /\ s = CreatePlan[pos]
Goes == pos' = pos + 1

\* A part whose component is off.
CreateSkips ==
  /\ handler = "create" /\ ~Active(CreatePlan[pos]) /\ Goes
  /\ UNCHANGED << cfg, apihost, obj, handled, handler, meta, accounts, saved, fresh, clean, faults, starts, users >>

\* get_user_static_hostname raises outside of the try block when the apihost
\* is not known: kopf calls the handler again.
CreateRaises ==
  /\ \E s \in {"api", "static"} : Creating(s) /\ Active(s) /\ ~apihost
  /\ handler' = "idle"
  /\ UNCHANGED << cfg, apihost, obj, handled, pos, meta, accounts, saved, fresh, clean, faults, starts, users >>

\* mc makes no bucket that exists already.
Exists(s) == s \in {"data", "route"} /\ s \in accounts
Ready(s) == Creating(s) /\ Active(s) /\ s # "doc" /\ (s \in {"api", "static"} => apihost)

CreateGives(s) ==
  /\ Ready(s) /\ ~Exists(s) /\ Goes
  /\ accounts' = accounts \cup {s} /\ meta' = meta \cup ({s} \ {"policy"})
  /\ UNCHANGED << cfg, apihost, obj, handled, handler, saved, fresh, clean, faults, starts, users >>

\* The bucket that exists is not named in the metadata of this attempt.
CreateExists(s) ==
  /\ Ready(s) /\ Exists(s) /\ Goes
  /\ UNCHANGED << cfg, apihost, obj, handled, handler, meta, accounts, saved, fresh, clean, faults, starts, users >>

\* (Mutation: what was attempted is named in the metadata.)
CreateFailsNamed(s) ==
  /\ Ready(s) /\ Fault /\ Goes
  /\ accounts' \in {accounts, accounts \cup {s}} /\ meta' = meta \cup {s}
  /\ UNCHANGED << cfg, apihost, obj, handled, handler, saved, fresh, clean, starts, users >>

\* A call fails, with or without having taken effect.  The URLs of the
\* ingresses are in the metadata before the ingresses are made.
CreateFails(s) ==
  /\ Ready(s) /\ Fault /\ Goes
  /\ accounts' \in {accounts, accounts \cup {s}}
  /\ meta' = meta \cup ({s} \cap {"api", "static"})
  /\ UNCHANGED << cfg, apihost, obj, handled, handler, saved, fresh, clean, starts, users >>

\* psql and redis-cli end without an error although a statement of their
\* script failed.
CreateFooled(s) ==
  /\ Ready(s) /\ s \in {"mongodb", "redis", "postgres"} /\ Fault /\ Goes
  /\ meta' = meta \cup {s}
  /\ UNCHANGED << cfg, apihost, obj, handled, handler, accounts, saved, fresh, clean, starts, users >>

\* save_user_metadata; the handler returns whether it worked or not, and kopf
\* takes the creation for handled unless the object is gone meanwhile.
CreateEnds ==
  /\ Creating("doc") /\ handler' = "idle" /\ handled' = TRUE
  /\ \/ saved' = meta /\ accounts' = accounts \cup {"doc"} /\ fresh' = (obj = "present")
        /\ UNCHANGED faults
     \/ Fault /\ UNCHANGED << saved, accounts, fresh >>
  /\ UNCHANGED << cfg, apihost, obj, pos, meta, clean, starts, users >>
--------------------------------------------------------------------------------
\* whisk_user_resume: redis.create_db_user, whose failure is logged.
Resume ==
  /\ handler = "resume" /\ handler' = "idle"
  /\ \/ accounts' = accounts \cup ({"redis"} \cap Offered \cap Wants) /\ UNCHANGED faults
     \/ Fault /\ UNCHANGED accounts
  /\ UNCHANGED << cfg, apihost, obj, handled, pos, meta, saved, fresh, clean, starts, users >>
--------------------------------------------------------------------------------
RemoveBegins ==
  /\ handler = "idle" /\ obj = "deleting"
  /\ handler' = "delete" /\ pos' = 1 /\ clean' = TRUE
  /\ UNCHANGED << cfg, apihost, obj, handled, meta, accounts, saved, fresh, faults, starts, users >>

Removing(s) == handler = "delete" /\ pos =< Len(RemovePlan) /\ s = RemovePlan[pos]

RemoveSkips ==
  /\ \E s \in Part : Removing(s) /\ ~Active(s)
  /\ Goes /\ clean' = (clean /\ cfg = "ready")
  /\ UNCHANGED << cfg, apihost, obj, handled, handler, meta, accounts, saved, fresh, faults, starts, users >>

\* (Mutation: removing what is not there ends the handler.)
RemoveMissing(s) ==
  /\ Removing(s) /\ Active(s)
  /\ IF s \in accounts THEN Goes /\ UNCHANGED handler ELSE handler' = "idle" /\ UNCHANGED pos
  /\ accounts' = accounts \ {s}
  /\ saved' = IF s = "doc" THEN {} ELSE saved
  /\ UNCHANGED << cfg, apihost, obj, handled, meta, fresh, clean, faults, starts, users >>

\* What is not there fails to be removed, which is logged.
RemoveTakes(s) ==
  /\ Removing(s) /\ Active(s) /\ Goes
  /\ accounts' = accounts \ {s}
  /\ saved' = IF s = "doc" THEN {} ELSE saved
  /\ UNCHANGED << cfg, apihost, obj, handled, handler, meta, fresh, clean, faults, starts, users >>

RemoveFails(s) ==
  /\ Removing(s) /\ Active(s) /\ Fault /\ Goes
  /\ clean' = FALSE
  /\ UNCHANGED << cfg, apihost, obj, handled, handler, meta, accounts, saved, fresh, starts, users >>

\* kopf takes its finalizer from the object.
RemoveEnds ==
  /\ handler = "delete" /\ pos = Len(RemovePlan) + 1
  /\ handler' = "idle" /\ obj' = "none"
  /\ UNCHANGED << cfg, apihost, handled, pos, meta, accounts, saved, fresh, clean, faults, starts, users >>
--------------------------------------------------------------------------------
Create == \/ CreateBegins \/ CreateSkips \/ CreateRaises \/ CreateEnds
          \/ \E s \in Part : CreateGives(s) \/ CreateExists(s) \/ CreateFails(s) \/ CreateFooled(s)
Delete == \/ RemoveBegins \/ RemoveSkips \/ RemoveEnds
          \/ \E s \in Part : RemoveTakes(s) \/ RemoveFails(s)
Handler == Create \/ Resume \/ Delete
Around == Configure \/ Annotate \/ Replace \/ RedisRestarts \/ Restart \/ Add \/ Remove
Next == Handler \/ Around

Spec == Init /\ [][Next]_vars

\* The handlers of kopf run, and those of the Whisk object configure and
\* annotate in the end.
FairSpec == Spec /\ WF_vars(Handler) /\ WF_vars(Configure) /\ WF_vars(Annotate)
--------------------------------------------------------------------------------
\* What the metadata vouch for: the calls whose result create_ow_user and
\* create_ow_storage look at.
Vouched == {"subject"} \cup Storage

\* The document whisk_user_create stored names no subject, storage user or
\* bucket that does not exist, whatever failed and was tried again before.
SavedTruthful == fresh => saved \cap Vouched \subseteq accounts

\* The same of the metadata a creation is collecting.
MetaTruthful ==
  handler = "create" /\ obj = "present" => meta \cap Vouched \subseteq accounts

\* kopf runs one handler of the object at a time, and none without it.
Turns ==
  /\ handler = "delete" => obj = "deleting"
  /\ obj = "none" => handler = "idle"
  /\ fresh => obj = "present"

\* The invariant that is inductive.
Inductive == Turns /\ MetaTruthful /\ SavedTruthful

\* A deletion in which no call failed and cfg was there leaves nothing of the
\* user, whatever the creation and the deletions before it left.
DeletedClean == obj = "none" /\ users > 0 /\ clean => accounts = {}

\* The strengthening of it that every step preserves: where the handlers are;
\* what exists belongs to a component the installation provides, so that a
\* configured deletion skips none of it; and the deletion has passed nothing
\* that is still there.
Positions ==
  /\ cfg \in {"empty", "ready"}
  /\ handler = "create" => pos \in 1 .. Len(CreatePlan)
  /\ handler = "delete" => pos \in 1 .. Len(RemovePlan) + 1

ProvidedOnly == \A s \in accounts : s \in Part /\ Applies(Provides, s)

PassedRemoved ==
  handler = "delete" /\ clean =>
    \A i \in 1 .. Len(RemovePlan) : i < pos => RemovePlan[i] \notin accounts

Removal == Turns /\ Positions /\ ProvidedOnly /\ PassedRemoved /\ DeletedClean

\* The creation of a user is handled, however often it is tried and whatever
\* an attempt left, or overtaken by its deletion; a deletion ends, whatever of
\* the user exists.
UserHandled ==
  /\ (obj = "present") ~> (handled \/ obj # "present")
  /\ (obj = "deleting") ~> (obj = "none")
================================================================================
