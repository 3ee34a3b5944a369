----------------------------- MODULE WhiskOperator -----------------------------
(***************************************************************************)
(* The life of one Whisk custom resource under nuvolaris/main.py: the      *)
(* kopf handlers whisk_create, whisk_resume and whisk_delete, the global   *)
(* configuration (config.py) they share, and the Kubernetes objects the    *)
(* component modules apply and remove.                                     *)
(*                                                                         *)
(* The API server's state survives everything.  The operator's memory      *)
(* (cfg, the handler in progress) is lost when its Pod restarts.  kopf is  *)
(* external: one handler at a time for one object, a handler that raises   *)
(* is run again from its first line, one that returns is remembered in the *)
(* object's annotations, and when all the handlers of the cause are done   *)
(* the spec is stored as last-handled.                                     *)
(***************************************************************************)
EXTENDS Integers, Sequences

CONSTANTS
  Specs,              \* the specs a user may install: sets of components
  Kube,               \* nuvolaris.kube, the detected kind of cluster
  MinioExtraIngress,  \* the spec enables the s3 or the console ingress
  MaxFaults,          \* bound: kubectl calls that fail
  MaxCrashes,         \* bound: restarts of the operator and Redis Pods
  MaxInstalls         \* bound: times the Whisk object is created

Component == {"openwhisk", "couchdb", "redis", "tls", "cron", "minio",
              "static", "postgres", "mongodb"}

\* What else of a spec matters here: spec.configs and spec.nuvolaris.apihost,
\* each at its default value or at another one.
Setting == {"configs", "hostname"}
Switch == Component \cup Setting

ASSUME SpecsAssumption == Specs \subseteq SUBSET Switch
ASSUME SwitchAssumption == MinioExtraIngress \in BOOLEAN
ASSUME BoundAssumption ==
  MaxFaults \in Nat /\ MaxCrashes \in Nat /\ MaxInstalls \in Nat

\* What whisk_create deploys, in its order.  A component that deploys in two
\* parts, with a failure possible between them, has two entries.
CreatePlan == << "preloader", "couchdb", "redis", "issuer", "cron",
                 "minio", "minio-ingress", "static", "static-ingress",
                 "postgres-operator", "postgres", "mongodb",
                 "openwhisk", "apihost", "endpoint" >>

\* What whisk_delete removes, in its order.  The annotation is not removed.
\* (Mutation: the extra ingresses of MinIO are forgotten.)
DeletePlanForgets == << "preloader", "openwhisk", "endpoint", "issuer", "redis",
                        "couchdb", "mongodb", "cron", "static-ingress", "static",
                        "minio", "postgres", "postgres-operator" >>

DeletePlan == << "preloader", "openwhisk", "endpoint", "issuer", "redis",
                 "couchdb", "mongodb", "cron", "static-ingress", "static",
                 "minio-ingress", "minio", "postgres", "postgres-operator" >>

Resource == { CreatePlan[i] : i \in 1 .. Len(CreatePlan) }

\* Objects that carry an owner reference when whisk_create has an owner, and
\* whose spec is kept in cfg (state.<component>.spec) when it has none.
Ownable == Resource \ {"issuer", "endpoint", "apihost", "minio-ingress",
                       "static-ingress"}

\* The key of the report under which a resource's outcome appears.
Key(r) ==
  CASE r = "minio-ingress"     -> "minio"
    [] r = "static-ingress"    -> "static"
    [] r = "postgres-operator" -> "postgres"
    [] r = "apihost"           -> "endpoint"
    [] OTHER                   -> r

ReportKey == { Key(r) : r \in Resource } \cup {"whisk-system"}
Outcome   == {"?", "on", "off", "error"}

\* The parts whisk_create deploys outside any try block.
Unguarded == {"minio", "minio-ingress", "static", "static-ingress",
              "postgres-operator", "postgres", "mongodb"}

\* (Mutation: FerretDB does not bring its database along.)
WantedAsSaid(c, k) ==
  CASE k \in {"preloader", "openwhisk", "endpoint"} -> "openwhisk" \in c
    [] k = "issuer" -> "tls" \in c /\ Kube \notin {"kind", "openshift"}
    [] OTHER        -> k \in c

\* The condition of whisk_create on a key, over the component switches c.
Wanted(c, k) ==
  CASE k \in {"preloader", "openwhisk", "endpoint"} -> "openwhisk" \in c
    [] k = "issuer"   -> "tls" \in c /\ Kube \notin {"kind", "openshift"}
    [] k = "postgres" -> "postgres" \in c \/ "mongodb" \in c
    [] OTHER          -> k \in c

\* The condition of whisk_delete on a key.
Unwanted(c, k) ==
  CASE k \in {"preloader", "openwhisk", "endpoint"} -> "openwhisk" \in c
    [] k = "issuer"   -> "tls" \in c /\ Kube # "kind"
    [] OTHER          -> k \in c

NoSpec == {"no spec"}

VARIABLES
  cr,         \* the Whisk object: "none", "present" or "deleting"
  spec,       \* its spec: the components and settings switched on
  handled,    \* kopf's last-handled configuration, NoSpec at first
  done,       \* handlers of the present cause kopf recorded as succeeded
  status,     \* status.whisk_create, all "?" while there is none
  live,       \* resources that exist in the cluster
  owned,      \* resources that carry the object's owner reference
  redisUser,  \* Redis knows the nuvolaris user: ACLs are in its memory
  comps,      \* cfg: components.*
  specs,      \* cfg: resources whose state.<component>.spec is kept
  handler,    \* the handler in progress
  pos,        \* its next step
  owner,      \* the local "owner" of whisk_create is not None
  report,     \* the local "state" of whisk_create
  listed,     \* the object was met in the listing after a restart
  faults, crashes, installs

api     == << cr, spec, handled, done, status >>
cluster == << live, owned, redisUser >>
memory  == << comps, specs >>
running == << handler, pos, owner, report, listed >>
budget  == << faults, crashes, installs >>
vars    == << api, cluster, memory, running, budget >>

\* Beyond the last step of the create and the delete plan.
CreateEnd == Len(CreatePlan) + 1
DeleteEnd == Len(DeletePlan) + 1

EmptyReport == [k \in ReportKey |-> "?"]

\* The handlers of the cause kopf detects: a fresh object is a creation, a spec
\* other than the last-handled one (WhiskUpdate) an update; the resume handlers
\* are mixed in when the object was met in the initial listing.
Needed == (CASE handled = NoSpec -> {"create"}
             [] handled \notin {NoSpec, comps} -> {"update"}
             [] OTHER -> {})
            \cup (IF listed THEN {"resume"} ELSE {})

Fault == faults < MaxFaults /\ faults' = faults + 1

Init ==
  /\ cr = "none" /\ spec = {} /\ handled = NoSpec /\ done = {}
  /\ status = EmptyReport
  /\ live = {} /\ owned = {} /\ redisUser = FALSE
  /\ comps = {} /\ specs = {}
  /\ handler = "idle" /\ pos = 1 /\ owner = FALSE /\ report = EmptyReport
  /\ listed = FALSE
  /\ faults = 0 /\ crashes = 0 /\ installs = 0
--------------------------------------------------------------------------------
(***************************************************************************)
(* The user and the cluster.                                               *)
(***************************************************************************)
\* The object is created again only once the garbage collector is done with
\* the objects of the last one.
Install ==
  /\ cr = "none" /\ owned = {} /\ installs < MaxInstalls
  /\ installs' = installs + 1
  /\ cr' = "present" /\ spec' \in Specs /\ handled' = NoSpec /\ done' = {}
  /\ status' = EmptyReport
  /\ UNCHANGED << cluster, memory, running, faults, crashes >>

\* kopf's finalizer holds the object until the delete handler succeeds.
Destroy ==
  /\ cr = "present"
  /\ cr' = "deleting"
  /\ UNCHANGED << spec, handled, done, status, cluster, memory, running, budget >>

\* The garbage collector removes what the vanished object owned.
Collect ==
  /\ cr = "none"
  /\ \E r \in owned : /\ live' = live \ {r}
                      /\ owned' = owned \ {r}
                      /\ redisUser' = (redisUser /\ r # "redis")
  /\ UNCHANGED << api, memory, running, budget >>

\* The operator's Pod restarts: its memory is gone, and it lists the objects.
Crash ==
  /\ crashes < MaxCrashes /\ crashes' = crashes + 1
  /\ comps' = {} /\ specs' = {}
  /\ handler' = "idle" /\ pos' = 1 /\ owner' = FALSE /\ report' = EmptyReport
  /\ listed' = (cr # "none")
  /\ UNCHANGED << api, cluster, faults, installs >>

\* The Redis Pod restarts, and forgets its users.
RedisRestart ==
  /\ crashes < MaxCrashes /\ crashes' = crashes + 1
  /\ redisUser /\ redisUser' = FALSE
  /\ UNCHANGED << api, live, owned, memory, running, faults, installs >>
--------------------------------------------------------------------------------
(***************************************************************************)
(* What the handlers have in common.                                       *)
(***************************************************************************)
Runnable(h) ==
  /\ handler = "idle"
  /\ CASE h = "create" -> cr = "present" /\ handled = NoSpec /\ h \notin done
       [] h = "resume" -> cr = "present" /\ listed /\ h \notin done
       [] h = "delete" -> cr = "deleting"

Start(h) == handler' = h /\ pos' = 1

\* An exception leaves the handler: kopf will run it again from the start.
Raise == handler' = "idle" /\ pos' = 1

\* config_from_spec: the old configuration is dropped, kept specs included.
ConfigFromSpec == comps' = spec /\ specs' = {}

\* kopf records the outcome of a handler that returned; the last handler of
\* the cause makes the spec it saw the last-handled one.
Succeed(h) ==
  /\ Raise
  /\ IF Needed \subseteq done \cup {h}
     THEN handled' = comps /\ done' = {} /\ listed' = FALSE
     ELSE done' = done \cup {h} /\ UNCHANGED << handled, listed >>
--------------------------------------------------------------------------------
(***************************************************************************)
(* whisk_create.                                                           *)
(***************************************************************************)
\* kube.get answers None when the call fails: the workloads get no owner.
CreateStart ==
  /\ Runnable("create") /\ Start("create") /\ ConfigFromSpec
  /\ report' = EmptyReport
  /\ \/ owner' = TRUE /\ UNCHANGED faults
     \/ Fault /\ owner' = FALSE
  /\ UNCHANGED << api, cluster, listed, crashes, installs >>

\* cfg.detect asks the cluster for its node labels, and may fail.
ConfigFails ==
  /\ Runnable("create") \/ Runnable("resume")
  /\ Fault /\ ConfigFromSpec
  /\ UNCHANGED << api, cluster, running, crashes, installs >>

Current == CreatePlan[pos]
LastPart == pos + 1 = CreateEnd \/ Key(CreatePlan[pos + 1]) # Key(Current)

CreateSkip ==
  /\ handler = "create" /\ pos < CreateEnd /\ ~Wanted(comps, Key(Current))
  /\ report' = [report EXCEPT ![Key(Current)] = "off"]
  /\ pos' = pos + 1
  /\ UNCHANGED << api, cluster, memory, handler, owner, listed, budget >>

\* The object's spec is kept in cfg when it gets no owner; the issuer's always.
Kept == IF Current = "issuer" \/ (Current \in Ownable /\ ~owner)
        THEN {Current} ELSE {}

Applied ==
  /\ live' = live \cup {Current}
  /\ owned' = IF Current \in Ownable /\ owner THEN owned \cup {Current}
                                              ELSE owned \ {Current}
  /\ specs' = specs \cup Kept

\* Nothing was done, or cfg remembers what was not applied, or it was applied
\* and what follows it (a wait, an annotation) failed.
PartlyApplied ==
  \/ UNCHANGED << live, owned, specs >>
  \/ specs' = specs \cup Kept /\ UNCHANGED << live, owned >>
  \/ Applied

\* The Redis user is added last, in a function that swallows its failures.
CreateStep ==
  /\ handler = "create" /\ pos < CreateEnd /\ Wanted(comps, Key(Current))
  /\ Applied
  /\ \/ /\ redisUser' = (redisUser \/ Current = "redis")
        /\ UNCHANGED faults
     \/ Current = "redis" /\ Fault /\ UNCHANGED redisUser
  /\ report' = IF LastPart THEN [report EXCEPT ![Key(Current)] = "on"]
                           ELSE report
  /\ pos' = pos + 1
  /\ UNCHANGED << api, comps, handler, owner, listed, crashes, installs >>

\* (Mutation: each component has a try block of its own.)
CreateStepFailsAlone ==
  /\ handler = "create" /\ pos < CreateEnd /\ Wanted(comps, Key(Current))
  /\ Current \notin Unguarded
  /\ Fault /\ PartlyApplied
  /\ report' = [report EXCEPT ![Key(Current)] = "error"]
  /\ pos' = pos + 1
  /\ UNCHANGED << api, redisUser, comps, handler, owner, listed,
                  crashes, installs >>

\* A failure in a try block is reported.  OpenWhisk and its endpoint share a
\* block: one of them failing ends both.
CreateStepFails ==
  /\ handler = "create" /\ pos < CreateEnd /\ Wanted(comps, Key(Current))
  /\ Current \notin Unguarded
  /\ Fault /\ PartlyApplied
  /\ IF Key(Current) \in {"openwhisk", "endpoint"}
     THEN /\ report' = [report EXCEPT !["openwhisk"] = "error",
                                      !["endpoint"]  = "error"]
          /\ pos' = CreateEnd
     ELSE /\ report' = [report EXCEPT ![Key(Current)] = "error"]
          /\ pos' = pos + 1
  /\ UNCHANGED << api, redisUser, comps, handler, owner, listed,
                  crashes, installs >>

\* (Mutations: every component has a try block; objects are made with "kubectl
\* create", which an object of an earlier run makes fail.)
CreateStepSwallows ==
  /\ handler = "create" /\ pos < CreateEnd /\ Wanted(comps, Key(Current))
  /\ Current \in Unguarded
  /\ Fault /\ PartlyApplied
  /\ report' = [report EXCEPT ![Key(Current)] = "error"] /\ pos' = pos + 1
  /\ UNCHANGED << api, redisUser, comps, handler, owner, listed,
                  crashes, installs >>

CreateStepNotIdempotent ==
  /\ handler = "create" /\ pos < CreateEnd /\ Wanted(comps, Key(Current))
  /\ Current \in Unguarded
  /\ \/ Fault /\ PartlyApplied
     \/ Current \in live /\ UNCHANGED << live, owned, specs, faults >>
  /\ Raise
  /\ UNCHANGED << api, redisUser, comps, owner, report, listed,
                  crashes, installs >>

\* A failure outside a try block leaves whisk_create.
CreateStepRaises ==
  /\ handler = "create" /\ pos < CreateEnd /\ Wanted(comps, Key(Current))
  /\ Current \in Unguarded
  /\ Fault /\ PartlyApplied /\ Raise
  /\ UNCHANGED << api, redisUser, comps, owner, report, listed,
                  crashes, installs >>

\* whisk_post_create deploys the system actions: its outcome is reported, but
\* the annotation that follows it may raise.
PostCreate ==
  /\ handler = "create" /\ pos = CreateEnd
  /\ \/ /\ report' = [report EXCEPT !["whisk-system"] = "on"]
        /\ pos' = pos + 1 /\ UNCHANGED << handler, faults >>
     \/ /\ Fault /\ report' = [report EXCEPT !["whisk-system"] = "error"]
        /\ pos' = pos + 1 /\ UNCHANGED handler
     \/ Fault /\ Raise /\ UNCHANGED report
  /\ UNCHANGED << api, cluster, memory, owner, listed, crashes, installs >>

\* The value whisk_create returns becomes status.whisk_create.
CreateReturn ==
  /\ handler = "create" /\ pos = CreateEnd + 1
  /\ Succeed("create") /\ status' = report
  /\ UNCHANGED << cr, spec, cluster, memory, owner, report, budget >>
--------------------------------------------------------------------------------
(***************************************************************************)
(* whisk_resume.                                                           *)
(***************************************************************************)
ResumeStart ==
  /\ Runnable("resume") /\ Start("resume") /\ ConfigFromSpec
  /\ UNCHANGED << api, cluster, owner, report, listed, budget >>

\* get_apihost_from_config_map fails when nothing wrote the annotation.
ResumeRaises ==
  /\ handler = "resume" /\ pos = 1
  /\ \/ "apihost" \notin live /\ UNCHANGED faults
     \/ Fault
  /\ Raise
  /\ UNCHANGED << api, cluster, memory, owner, report, listed,
                  crashes, installs >>

\* (Mutation: the user of Redis is left as it is.)
ResumeWithoutRedis ==
  /\ handler = "resume" /\ pos = 1 /\ "apihost" \in live
  /\ pos' = 2
  /\ UNCHANGED << api, cluster, memory, handler, owner, report, listed, budget >>

\* whisk_post_resume gives Redis its nuvolaris user back; the failure of that
\* is swallowed, as are those of what follows.
ResumeStep ==
  /\ handler = "resume" /\ pos = 1 /\ "apihost" \in live
  /\ \/ /\ redisUser' = (redisUser \/ "redis" \in comps \cap live)
        /\ UNCHANGED faults
     \/ Fault /\ UNCHANGED redisUser
  /\ pos' = 2
  /\ UNCHANGED << api, live, owned, memory, handler, owner, report, listed,
                  crashes, installs >>

ResumeReturn ==
  /\ handler = "resume" /\ pos = 2
  /\ Succeed("resume")
  /\ UNCHANGED << cr, spec, status, cluster, memory, owner, report, budget >>
--------------------------------------------------------------------------------
(***************************************************************************)
(* whisk_delete.  It reads cfg as the last handler left it.                *)
(***************************************************************************)
Target == DeletePlan[pos]

DeleteStart ==
  /\ Runnable("delete") /\ Start("delete")
  /\ UNCHANGED << api, cluster, memory, owner, report, listed, budget >>

\* A workload is deleted by the spec cfg keeps; the ingresses by their names.
Addressed ==
  /\ Unwanted(comps, Key(Target))
  /\ Target \in Ownable \cup {"issuer"} => Target \in specs

\* (Mutation: the ingresses of the endpoint must have been there.)
LenientButEndpoint(r) == \/ r = "static-ingress"
                         \/ r = "minio-ingress" /\ ~MinioExtraIngress

\* These swallow a failed "kubectl delete".
Lenient(r) == \/ r \in {"endpoint", "static-ingress"}
              \/ r = "minio-ingress" /\ ~MinioExtraIngress

Removed ==
  /\ live' = live \ {Target} /\ owned' = owned \ {Target}
  /\ redisUser' = (redisUser /\ Target # "redis")

DeleteSkip ==
  /\ handler = "delete" /\ pos < DeleteEnd /\ ~Addressed
  /\ pos' = pos + 1
  /\ UNCHANGED << api, cluster, memory, handler, owner, report, listed, budget >>

\* openwhisk_standalone.delete, alone, also forgets the spec.
DeleteStep ==
  /\ handler = "delete" /\ pos < DeleteEnd /\ Addressed
  /\ Target \in live /\ Removed
  /\ specs' = specs \ (IF Target = "openwhisk" THEN {Target} ELSE {})
  /\ pos' = pos + 1
  /\ UNCHANGED << api, comps, handler, owner, report, listed, budget >>

\* The call fails, with or without its effect, or finds nothing to delete.
DeleteFailure ==
  \/ Target \notin live /\ UNCHANGED << cluster, faults >>
  \/ Target \in live /\ Fault /\ UNCHANGED cluster
  \/ Target \in live /\ Fault /\ Removed

DeleteStepFails ==
  /\ handler = "delete" /\ pos < DeleteEnd /\ Addressed /\ Lenient(Target)
  /\ DeleteFailure /\ pos' = pos + 1
  /\ UNCHANGED << api, memory, handler, owner, report, listed,
                  crashes, installs >>

\* Elsewhere it raises; so does get_apihost before the lenient part, and the
\* removal of the action Pods that follows OpenWhisk's, its spec kept or not.
DeleteStepRaises ==
  /\ handler = "delete" /\ pos < DeleteEnd /\ Unwanted(comps, Key(Target))
  /\ \/ Addressed /\ ~Lenient(Target) /\ DeleteFailure /\ UNCHANGED specs
     \/ /\ Target \in {"endpoint", "static-ingress", "openwhisk"}
        /\ Fault /\ UNCHANGED << cluster, specs >>
     \/ /\ Target = "openwhisk" /\ Target \in specs \cap live
        /\ Fault /\ Removed /\ specs' = specs \ {Target}
  /\ Raise
  /\ UNCHANGED << api, comps, owner, report, listed, crashes, installs >>

\* The finalizer is removed, and with it the object.
DeleteReturn ==
  /\ handler = "delete" /\ pos = DeleteEnd
  /\ Raise /\ cr' = "none" /\ listed' = FALSE
  /\ UNCHANGED << spec, handled, done, status, cluster, memory, owner, report,
                  budget >>
--------------------------------------------------------------------------------
Create == \/ CreateStart \/ CreateSkip \/ CreateStep \/ CreateStepFails
          \/ CreateStepRaises \/ PostCreate \/ CreateReturn
Resume == ResumeStart \/ ResumeRaises \/ ResumeStep \/ ResumeReturn
Delete == \/ DeleteStart \/ DeleteSkip \/ DeleteStep \/ DeleteStepFails
          \/ DeleteStepRaises \/ DeleteReturn

Operator == Create \/ Resume \/ Delete
Environment == \/ Install \/ Destroy \/ Collect \/ Crash \/ RedisRestart
               \/ ConfigFails

Next == Operator \/ Environment
Spec == Init /\ [][Next]_vars

\* kopf runs a handler that can run and starts again one that raised.  Of the
\* handlers of a cause it picks the one tried least, so that none starves:
\* starting one is strongly fair.  Kubernetes collects in the end.
Fairness == /\ WF_vars(Create) /\ SF_vars(CreateStart)
            /\ WF_vars(Resume) /\ SF_vars(ResumeStart)
            /\ WF_vars(Delete) /\ WF_vars(Collect)
FairSpec == Spec /\ Fairness
--------------------------------------------------------------------------------
(***************************************************************************)
(* What the operator promises.                                             *)
(***************************************************************************)
TypeOK ==
  /\ cr \in {"none", "present", "deleting"}
  /\ spec \in SUBSET Switch
  /\ handled \in (SUBSET Switch) \cup {NoSpec}
  /\ done \in SUBSET {"create", "resume", "update"}
  /\ status \in [ReportKey -> Outcome]
  /\ live \in SUBSET Resource /\ owned \in SUBSET Ownable
  /\ comps \in SUBSET Switch
  /\ specs \in SUBSET (Ownable \cup {"issuer"})
  /\ handler \in {"idle", "create", "resume", "delete", "update"}
  /\ pos \in 1 .. CreateEnd + 1
  /\ report \in [ReportKey -> Outcome]
  /\ redisUser \in BOOLEAN /\ owner \in BOOLEAN /\ listed \in BOOLEAN
  /\ faults \in 0 .. MaxFaults /\ crashes \in 0 .. MaxCrashes
  /\ installs \in 0 .. MaxInstalls

Parts(k) == { r \in Resource : Key(r) = k }

\* What "kubectl get wsk" shows as on exists: whatever failed, was retried or
\* was interrupted on the way, no component is reported before it is there.
StatusTruthful ==
  cr = "present" =>
    \A k \in ReportKey : status[k] = "on" => Parts(k) \subseteq live

\* Once kopf takes the spec for handled, everything of it whose failure is not
\* merely reported exists.
HandledComplete ==
  cr = "present" /\ handled # NoSpec =>
    \A r \in Unguarded : Wanted(handled, Key(r)) => r \in live

\* The strengthening of both that every step preserves.

\* kopf runs no handler for an object that is gone, and one at a time.
Phases ==
  /\ handler \in {"create", "resume"} => cr # "none" /\ comps = spec
  /\ handler = "delete" => cr = "deleting"
  /\ handler # "update"

\* What the create handler in progress means to report is already there, and
\* so is the first part of the component it is in the middle of.
ReportTruthful ==
  handler = "create" =>
    /\ \A k \in ReportKey : report[k] = "on" => Parts(k) \subseteq live
    /\ pos \in 2 .. Len(CreatePlan) /\ Wanted(comps, Key(Current))
         /\ Key(CreatePlan[pos - 1]) = Key(Current)
         => CreatePlan[pos - 1] \in live

Deployed(c) == \A r \in Unguarded : Wanted(c, Key(r)) => r \in live

\* The unguarded steps it has passed have been taken.
PassedDeployed ==
  handler = "create" =>
    \A i \in 1 .. Len(CreatePlan) :
      i < pos /\ CreatePlan[i] \in Unguarded /\ Wanted(comps, Key(CreatePlan[i]))
        => CreatePlan[i] \in live

\* What kopf remembers, of the handlers or of the spec, is of this spec.
RememberedDeployed ==
  cr = "present" =>
    /\ "create" \in done => Deployed(spec)
    /\ handled # NoSpec => handled = spec /\ Deployed(spec)

Inductive == /\ TypeOK /\ Phases /\ StatusTruthful /\ ReportTruthful
             /\ PassedDeployed /\ RememberedDeployed

\* FerretDB keeps its documents in Postgres: it is never deployed before it.
MongoOnPostgres ==
  [][ "mongodb" \in live' \ live => "postgres" \in live ]_vars

\* whisk_resume reads the apihost annotation first.  Once no creation will write
\* it any more, a resume handler that does not find it raises for ever.
ResumeHopeless ==
  listed /\ "apihost" \notin live /\ ("create" \in done \/ handled # NoSpec)

\* A ClusterIssuer that cfg remembers and kubectl will not find: after a failing
\* call whisk_delete meets it on every retry.
IssuerLost == faults > 0 /\ "issuer" \in specs \ live

\* An installation ends, or waits for a resume that cannot succeed: the handlers
\* are retried until the spec is handled, whatever is there already.
CreateCompletes ==
  (cr = "present" /\ handled = NoSpec)
    ~> (cr # "present" \/ handled # NoSpec \/ ResumeHopeless)

\* A deletion ends: the finalizer goes, and the object with it, although calls
\* fail and the operator restarts; only a lost ClusterIssuer holds it up.
DeleteCompletes == (cr = "deleting") ~> (cr = "none" \/ IssuerLost)

\* A deletion nothing disturbed leaves only what Kubernetes collects, and the
\* annotations of the operator's own config map.
DestroyedClean ==
  cr = "none" /\ faults = 0 /\ crashes = 0 => live \ owned \subseteq {"apihost"}

\* The strengthening of it: while nothing was disturbed, what the garbage
\* collector will not take was deployed by the one creation of this object, and
\* cfg still holds what whisk_delete needs to find it.
Loose == live \ (owned \cup {"apihost"})

CreatedOnce ==
  /\ ~listed
  /\ handler = "create" => handled = NoSpec /\ owner
  /\ cr = "none" => Loose = {}
  /\ cr = "present" /\ handled = NoSpec /\ handler # "create" => Loose = {}

Deletable ==
  /\ live \cap Ownable \subseteq owned
  /\ \A r \in Loose : Wanted(comps, Key(r)) /\ (r = "issuer" => r \in specs)

PassedRemoved ==
  handler = "delete" =>
    \A i \in 1 .. Len(DeletePlan) : i < pos => DeletePlan[i] \notin Loose

Undisturbed ==
  faults = 0 /\ crashes = 0 => CreatedOnce /\ Deletable /\ PassedRemoved

\* operator_util.py:84: after a restart the operator restores the nuvolaris user
\* of Redis, "if redis is active", whatever Redis forgot in the meantime, unless
\* the call that does it fails, which is swallowed.
RedisRestored ==
  (listed /\ handler = "idle" /\ "redis" \in live)
    ~> (redisUser \/ cr # "present" \/ ResumeHopeless \/ faults > 0)
================================================================================
