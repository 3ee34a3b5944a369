-------------------------------- MODULE Rollout --------------------------------
(***************************************************************************)
(* An installation made step by step: the handlers of the Whisk object     *)
(* (main.py: whisk_create, whisk_delete, whisk_resume) run in one thread,  *)
(* the watcher of the map of runtimes in another, and Kubernetes starts    *)
(* and loses Pods under both.                                              *)
(*                                                                         *)
(* A handler is a sequence of steps [c, w, do]: the component whose create *)
(* it belongs to, the workload it is about and the call.  The files of     *)
(* deploy/runtimes are shared by both threads, those of the other          *)
(* components are not and are rendered and applied in one step.  There is  *)
(* one Whisk object, created once; edits of its spec are in WhiskUpdate.   *)
(***************************************************************************)
EXTENDS Integers, Sequences, SequencesExt

CONSTANTS
  Renamed,     \* workloads whose Pods get another name when replaced: Deployments
  Cuts,        \* bound: how many keys are annotated before the annotation fails
  Unread,      \* bound: keys whose annotation a failing call leaves unread
  Instances    \* bounds a behaviour has one of: [comps, versions, troubles], what
               \* the spec switches on beside openwhisk and couchdb, contents of the
               \* map of runtimes, and failing calls, lost Pods and restarts

Workloads ==
  {"couchdb", "redis", "minio", "kubegres", "postgres", "mongodb", "controller"}

ASSUME RenamedAssumption == Renamed \subseteq Workloads
ASSUME BoundAssumption ==
  /\ Cuts \subseteq Nat
  /\ \A i \in Instances :
       /\ i.comps \subseteq {"redis", "minio", "postgres", "mongodb"}
       /\ i.versions \in Nat \ {0} /\ i.troubles \in Nat

VARIABLES
  bound,    \* the instance the behaviour is one of
  obj,      \* the Whisk object: "absent", "present", "deleting" or "gone"
  due,      \* the handler kopf owes it: "none", "create", "delete" or "resume"
  cfgd,     \* the configuration of the process holds the spec
  memory,   \* state.preloader.spec: NoSpec, or the version it preloads
  version,  \* of cm/openwhisk-runtimes
  pending,  \* an event of it waits for the watcher
  tpl,      \* deploy/runtimes: version in the patch spooled last, 0 when none is
  kust,     \* deploy/runtimes/kustomization.yaml: "none", "torn" or "full"
  job,      \* Job preload-runtimes: [v, owned], v is 0 when there is none
  pods,     \* [Workloads -> [n, up, v]]: name (0: no Pod), ready, runtimes read
  made,     \* accounts, buckets, rights and services there are
  dbReady,  \* the Job of CouchDB has made the databases
  notes,    \* keys the annotations of cm/config give
  doc,      \* keys the stored metadata of nuvolaris give, {} when there are none
  sys,      \* system actions in CouchDB: "none", "part" or "all"
  sysnote,  \* annotation system_action_status
  th,       \* the two threads
  crossed,  \* ghost: both threads were inside the preloader at a time, or the
            \* configuration was cleared before the watcher asked what it remembers
  dropped,  \* ghost: the configuration was cleared that remembered a Job
  missed,   \* ghost: an edit did not restart the controller there was
  troubles

object == << bound, obj, due >>
config == << cfgd, memory >>
runtimes == << version, pending >>
files == << tpl, kust >>
stored == << notes, doc, sys, sysnote >>
cluster == << pods, made, dbReady >>
ghosts == << crossed, dropped, missed >>
vars == << object, config, runtimes, files, job, cluster, stored, th, ghosts, troubles >>

NoSpec == -1
Comps == bound.comps
Threads == {"whisk", "watcher"}
Idle == [op |-> "idle", left |-> << >>, owner |-> FALSE, pod |-> 0, seen |-> 0, spec |-> 0]
--------------------------------------------------------------------------------
\* The handlers, as sequences of steps.
Of(c, w, dos) == [i \in DOMAIN dos |-> [c |-> c, w |-> w, do |-> dos[i]]]
If(cond, steps) == IF cond THEN steps ELSE << >>
Deployed == << "apply", "pick", "wait" >>

Begun == Of("config", "none", << "clean", "configure" >>)
Preloader == Of("preloader", "none", << "read", "patch", "open", "close", "build", "create" >>)
CouchDB == Of("couchdb", "couchdb", Deployed)
RedisUser == Of("redis user", "redis", << "account", "note" >>)
Redis == Of("redis", "redis", Deployed) \o RedisUser
Storage ==
  Of("minio user", "minio", << "user", "note" >>) \o Of("data bucket", "minio", << "bucket", "note" >>)
    \o Of("web bucket", "minio", << "bucket", "note" >>) \o Of("policy", "minio", << "grant" >>)
Minio == Of("minio", "minio", Deployed) \o Storage
Postgres ==
  Of("kubegres", "kubegres", Deployed) \o Of("postgres", "postgres", Deployed \o << "service" >>)
    \o Of("postgres keys", "postgres", << "note" >>)
Ferret == Of("mongodb", "mongodb", Deployed) \o Of("mongodb keys", "mongodb", << "note" >>)
Controller == Of("openwhisk", "controller", Deployed \o << "endpoint" >>)
Openwhisk == Of("openwhisk", "couchdb", << "pick", "wait" >>) \o Controller
PostCreate == Of("metadata", "none", << "save" >>) \o Of("system", "controller", << "deploy" >>)

\* (Mutation: the metadata are stored before the last components are there.)
WhiskCreateHasty ==
  Begun \o Of("config", "none", << "owner" >>) \o Preloader \o CouchDB
    \o If("redis" \in Comps, Redis) \o If("minio" \in Comps, Minio)
    \o Of("metadata", "none", << "save" >>)
    \o If(Comps \cap {"postgres", "mongodb"} # {}, Postgres)
    \o If("mongodb" \in Comps, Ferret) \o Openwhisk \o Of("system", "controller", << "deploy" >>)

WhiskCreate ==
  Begun \o Of("config", "none", << "owner" >>) \o Preloader \o CouchDB
    \o If("redis" \in Comps, Redis) \o If("minio" \in Comps, Minio)
    \o If(Comps \cap {"postgres", "mongodb"} # {}, Postgres)
    \o If("mongodb" \in Comps, Ferret) \o Openwhisk \o PostCreate
WhiskResume ==
  Begun \o Of("config", "none", << "apihost" >>)
    \o If("redis" \in Comps, RedisUser) \o Of("system", "controller", << "deploy" >>)
WhiskDelete == Of("removal", "none", << "forget", "delete" >>)
Watcher(owner) ==
  Of("preloader", "none", IF owner THEN << "build", "remove" >> ELSE << "forget" >>)
    \o Preloader \o Of("restart", "controller", << "rollout" >>)

Program == [create |-> WhiskCreate, resume |-> WhiskResume, delete |-> WhiskDelete]

Init ==
  /\ bound \in Instances
  /\ obj = "absent" /\ due = "none" /\ cfgd = FALSE /\ memory = NoSpec
  /\ version = 1 /\ pending = FALSE /\ tpl = 0 /\ kust = "none"
  /\ job = [v |-> 0, owned |-> FALSE]
  /\ pods = [w \in Workloads |-> [n |-> 0, up |-> FALSE, v |-> 0]]
  /\ made = {} /\ dbReady = FALSE
  /\ notes = {} /\ doc = {} /\ sys = "none" /\ sysnote = "none"
  /\ th = [t \in Threads |-> Idle] /\ crossed = FALSE /\ dropped = FALSE /\ missed = FALSE /\ troubles = 0

Now(t) == Head(th[t].left)
At(t, do) == th[t].left # << >> /\ Now(t).do = do
Goes(t) == th' = [th EXCEPT ![t].left = Tail(@)]
Trouble == troubles < bound.troubles /\ troubles' = troubles + 1
--------------------------------------------------------------------------------
\* The world around the operator.
AddWhisk ==
  /\ obj = "absent" /\ obj' = "present" /\ due' = "create"
  /\ UNCHANGED << bound, config, runtimes, files, job, cluster, stored, th, ghosts, troubles >>

\* kopf sees a deletion when the handler of the object has returned.
DiscardWhisk ==
  /\ obj = "present" /\ th["whisk"].op = "idle" /\ obj' = "deleting" /\ due' = "delete"
  /\ UNCHANGED << bound, config, runtimes, files, job, cluster, stored, th, ghosts, troubles >>

\* (Mutation: a bound is missing.)
EditUnbounded ==
  /\ version' = version + 1 /\ pending' = TRUE
  /\ UNCHANGED << object, config, files, job, cluster, stored, th, ghosts, troubles >>

EditRuntimes ==
  /\ version < bound.versions /\ version' = version + 1 /\ pending' = TRUE
  /\ UNCHANGED << object, config, files, job, cluster, stored, th, ghosts, troubles >>

PodReady(w) ==
  /\ pods[w].n > 0 /\ ~pods[w].up /\ pods' = [pods EXCEPT ![w].up = TRUE]
  /\ UNCHANGED << object, config, runtimes, files, job, made, dbReady, stored, th,
                  ghosts, troubles >>

\* The accounts of Redis are in the memory of its Pod.
PodLost(w) ==
  /\ pods[w].n > 0 /\ Trouble
  /\ pods' = [pods EXCEPT ![w] = [n |-> IF w \in Renamed THEN @.n + 1 ELSE @.n,
                                  up |-> FALSE, v |-> version]]
  /\ made' = IF w = "redis" THEN made \ {"redis user"} ELSE made
  /\ UNCHANGED << object, config, runtimes, files, job, dbReady, stored, th, ghosts >>

\* CouchInit has the Job; it may fail.
DatabasesMade ==
  /\ pods["couchdb"].up /\ ~dbReady /\ dbReady' = TRUE
  /\ UNCHANGED << object, config, runtimes, files, job, pods, made, stored, th,
                  ghosts, troubles >>

\* Kubernetes collects what the object owned.
Collect ==
  /\ obj = "gone" /\ (job.owned \/ \E w \in Workloads : pods[w].n > 0)
  /\ job' = IF job.owned THEN [v |-> 0, owned |-> FALSE] ELSE job
  /\ pods' = [w \in Workloads |-> [n |-> 0, up |-> FALSE, v |-> 0]]
  /\ UNCHANGED << object, config, runtimes, files, made, dbReady, stored, th,
                  ghosts, troubles >>

\* The operator's Pod restarts: threads, configuration and files are gone, the
\* first listing of the map is no MODIFIED event.
Restart ==
  /\ Trouble
  /\ th' = [t \in Threads |-> Idle] /\ cfgd' = FALSE /\ memory' = NoSpec
  /\ tpl' = 0 /\ kust' = "none" /\ pending' = FALSE
  /\ due' = IF obj = "present" /\ due = "none" THEN "resume" ELSE due
  /\ missed' = (missed \/ pending \/ th["watcher"].op # "idle")
  /\ UNCHANGED << bound, obj, version, job, cluster, stored, crossed, dropped >>
--------------------------------------------------------------------------------
\* Beginning, ending and failing.
Begin ==
  /\ due # "none" /\ th["whisk"].op = "idle"
  /\ th' = [th EXCEPT !["whisk"] = [Idle EXCEPT !.op = due, !.left = Program[due]]]
  /\ UNCHANGED << object, config, runtimes, files, job, cluster, stored, ghosts, troubles >>

\* runtimes_cm_event_watcher; kube.get answers None for a call that fails, too.
Watch(found) ==
  /\ pending /\ th["watcher"].op = "idle" /\ pending' = FALSE
  /\ IF found = (obj \in {"present", "deleting"}) THEN UNCHANGED troubles
     ELSE ~found /\ Trouble
  /\ th' = [th EXCEPT !["watcher"] = [Idle EXCEPT !.op = "watch", !.owner = found,
                                                  !.left = Watcher(found)]]
  /\ UNCHANGED << object, config, version, files, job, cluster, stored, ghosts >>

End(t) ==
  /\ th[t].op # "idle" /\ th[t].left = << >> /\ th' = [th EXCEPT ![t] = Idle]
  /\ due' = IF th[t].op = due THEN "none" ELSE due
  /\ obj' = IF th[t].op = "delete" THEN "gone" ELSE obj
  /\ UNCHANGED << bound, config, runtimes, files, job, cluster, stored, ghosts, troubles >>

\* What a try around the call catches; anything else ends the handler and kopf
\* calls it again.
Caught ==
  {"preloader", "couchdb", "redis", "redis user", "minio user", "postgres keys",
   "mongodb keys", "openwhisk", "metadata", "system", "restart"}
Inside(c) == IF c = "redis" THEN {"redis", "redis user"} ELSE {c}

\* The steps after those of the components cs.
After(steps, cs) ==
  LET kept == {i \in 1 .. Len(steps) : steps[i].c \notin cs}
  IN IF kept = {} THEN << >> ELSE SubSeq(steps, Min(kept), Len(steps))
Skips(t, cs) == th' = [th EXCEPT ![t].left = After(@, cs)]

Raise(t) ==
  IF Now(t).c \in Caught THEN Skips(t, Inside(Now(t).c))
  ELSE th' = [th EXCEPT ![t] = Idle]

\* kubectl that fails without an effect.
Calls == {"apihost", "read", "create", "remove", "apply", "account", "service",
          "endpoint", "save", "rollout", "forget", "delete"}
CallFails(t) ==
  /\ th[t].left # << >> /\ Now(t).do \in Calls /\ Trouble /\ Raise(t)
  /\ missed' = (missed \/ Now(t).do = "rollout")
  /\ memory' = IF Now(t).do = "create" /\ ~th[t].owner THEN th[t].spec ELSE memory
  /\ UNCHANGED << object, cfgd, runtimes, files, job, cluster, stored, crossed, dropped >>
--------------------------------------------------------------------------------
\* config_from_spec, in two steps: the watcher may look in between.
Clean(t) ==
  /\ At(t, "clean") /\ Goes(t) /\ cfgd' = FALSE /\ memory' = NoSpec
  /\ crossed' = (crossed \/ At("watcher", "forget")) /\ dropped' = (dropped \/ memory > 0)
  /\ UNCHANGED << object, runtimes, files, job, cluster, stored, missed, troubles >>

Configure(t) ==
  /\ At(t, "configure") /\ Goes(t) /\ cfgd' = TRUE
  /\ UNCHANGED << object, memory, runtimes, files, job, cluster, stored, ghosts, troubles >>

\* get_apihost_from_config_map.
Apihost(t) ==
  /\ At(t, "apihost") /\ IF "APIHOST" \in notes THEN Goes(t) ELSE Raise(t)
  /\ UNCHANGED << object, config, runtimes, files, job, cluster, stored, ghosts, troubles >>

\* kube.get of the object by the handler: None, too, when the call fails.
GetOwner(t) ==
  /\ At(t, "owner")
  /\ \/ th' = [th EXCEPT ![t].left = Tail(@), ![t].owner = TRUE] /\ UNCHANGED troubles
     \/ Goes(t) /\ Trouble
  /\ UNCHANGED << object, config, runtimes, files, job, cluster, stored, ghosts >>
--------------------------------------------------------------------------------
\* runtimes_preloader: create, delete_by_owner, delete_by_spec.
ReadRuntimes(t) ==
  /\ At(t, "read") /\ th' = [th EXCEPT ![t].left = Tail(@), ![t].seen = version]
  /\ UNCHANGED << object, config, runtimes, files, job, cluster, stored, troubles >>

\* patchTemplates: the window in which the patch is torn has the outcomes of
\* the one of kustomization.yaml and is not told apart from it.
Patch(t) ==
  /\ At(t, "patch") /\ Goes(t) /\ tpl' = th[t].seen
  /\ UNCHANGED << object, config, runtimes, kust, job, cluster, stored, troubles >>

\* kustomize opens the file, which truncates it, and writes when it closes it.
OpenKustomization(t) ==
  /\ At(t, "open") /\ Goes(t) /\ kust' = "torn"
  /\ UNCHANGED << object, config, runtimes, tpl, job, cluster, stored, troubles >>

CloseKustomization(t) ==
  /\ At(t, "close") /\ Goes(t) /\ kust' = "full"
  /\ UNCHANGED << object, config, runtimes, tpl, job, cluster, stored, troubles >>

\* What kustomize build makes of the folder: an empty list, spec 0, of one
\* without a whole kustomization.yaml.  Its failure is not looked at.
Build(t) ==
  /\ At(t, "build")
  /\ th' = [th EXCEPT ![t].left = Tail(@), ![t].spec = IF kust = "full" THEN tpl ELSE 0]
  /\ UNCHANGED << object, config, runtimes, files, job, cluster, stored, troubles >>

\* kubectl refuses an empty list and another template for a Job there is.
Applied(t) ==
  LET s == th[t].spec IN
  IF s = 0 \/ job.v \notin {0, s} THEN Raise(t) /\ UNCHANGED job
  ELSE Goes(t) /\ job' = [v |-> s, owned |-> th[t].owner]
\* (Mutation: the process does not remember what it made.)
CreateJobForgets(t) ==
  /\ At(t, "create") /\ Applied(t)
  /\ UNCHANGED << object, config, runtimes, files, cluster, stored, troubles >>

CreateJob(t) ==
  /\ At(t, "create") /\ Applied(t)
  /\ memory' = IF th[t].owner THEN memory ELSE th[t].spec
  /\ UNCHANGED << object, cfgd, runtimes, files, cluster, stored, troubles >>

\* kubectl delete: nothing for an empty list, an error for a Job there is not.
Removed(t, spec) ==
  IF spec > 0 /\ job.v = 0 THEN Raise(t) /\ UNCHANGED job
  ELSE Goes(t) /\ job' = IF spec > 0 THEN [v |-> 0, owned |-> FALSE] ELSE job

\* (Mutation: the watcher does not delete the Job before it makes it again.)
RemoveNothing(t) ==
  /\ At(t, "remove") /\ Goes(t)
  /\ UNCHANGED << object, config, runtimes, files, job, cluster, stored, troubles >>

RemoveByOwner(t) ==
  /\ At(t, "remove") /\ Removed(t, th[t].spec)
  /\ UNCHANGED << object, config, runtimes, files, cluster, stored, troubles >>

\* whisk_delete asks only when its configuration has openwhisk.
RemoveBySpec(t) ==
  /\ At(t, "forget")
  /\ IF t = "whisk" /\ ~cfgd THEN Goes(t) /\ UNCHANGED job ELSE Removed(t, memory)
  /\ UNCHANGED << object, config, runtimes, files, cluster, stored, troubles >>

InPreloader(t) ==
  th[t].left # << >> /\ Now(t).c = "preloader" /\ ~(t = "whisk" /\ Now(t).do = "read")
Preloads(t) ==
  /\ \/ ReadRuntimes(t) \/ Patch(t) \/ OpenKustomization(t) \/ CloseKustomization(t)
     \/ Build(t) \/ CreateJob(t) \/ RemoveByOwner(t) \/ RemoveBySpec(t)
  /\ crossed' = (crossed \/ (\A s \in Threads : InPreloader(s)'))
  /\ UNCHANGED << dropped, missed >>

\* restart_whisk: a failing rollout is not noticed.
Rollout ==
  /\ At("watcher", "rollout") /\ Goes("watcher")
  /\ LET there == pods["controller"].n > 0 IN
     /\ pods' = IF cfgd /\ there
                THEN [pods EXCEPT !["controller"].up = FALSE, !["controller"].v = version]
                ELSE pods
     /\ missed' = (missed \/ (there /\ ~cfgd))
  /\ UNCHANGED << object, config, runtimes, files, job, made, dbReady, stored, crossed,
                  dropped, troubles >>

--------------------------------------------------------------------------------
\* What the create of every component does: apply its manifest, and wait for
\* the Pod found first under its label.
Apply(t) ==
  /\ At(t, "apply") /\ Goes(t)
  /\ LET w == Now(t).w IN
     pods' = IF pods[w].n > 0 THEN pods ELSE [pods EXCEPT ![w].n = 1, ![w].v = version]
  /\ UNCHANGED << object, config, runtimes, files, job, made, dbReady, stored, ghosts,
                  troubles >>

PickPod(t) ==
  /\ At(t, "pick") /\ pods[Now(t).w].n > 0
  /\ th' = [th EXCEPT ![t].left = Tail(@), ![t].pod = pods[Now(t).w].n]
  /\ UNCHANGED << object, config, runtimes, files, job, cluster, stored, ghosts, troubles >>

\* get_pod_name gives up, and wait_for_pod_ready returns all the same.
NoPod(t) ==
  /\ At(t, "pick") /\ (IF pods[Now(t).w].n = 0 THEN UNCHANGED troubles ELSE Trouble)
  /\ th' = [th EXCEPT ![t].left = Tail(Tail(@))]
  /\ UNCHANGED << object, config, runtimes, files, job, cluster, stored, ghosts >>

\* A failing kubectl wait is tried again, for the same name.
WaitForPod(t) ==
  /\ At(t, "wait") /\ pods[Now(t).w].n = th[t].pod /\ pods[Now(t).w].up /\ Goes(t)
  /\ UNCHANGED << object, config, runtimes, files, job, cluster, stored, ghosts, troubles >>

\* The keys the annotations of a component give, in order.
Keys == [c \in {"redis user", "minio user", "data bucket", "web bucket", "postgres keys",
                "mongodb keys"} |->
  CASE c = "redis user" -> << "REDIS_URL", "REDIS_PREFIX" >>
    [] c = "minio user" ->
         << "MINIO_HOST", "MINIO_ACCESS_KEY", "MINIO_SECRET_KEY", "S3_HOST",
            "S3_ACCESS_KEY", "S3_SECRET_KEY", "S3_PROVIDER", "MINIO_PORT", "S3_PORT" >>
    [] c = "data bucket" -> << "MINIO_BUCKET_DATA", "S3_BUCKET_DATA" >>
    [] c = "web bucket" -> << "MINIO_BUCKET_STATIC", "S3_BUCKET_STATIC" >>
    [] c = "postgres keys" ->
         << "POSTGRES_HOST", "POSTGRES_PORT", "POSTGRES_DATABASE", "POSTGRES_USERNAME",
            "POSTGRES_PASSWORD", "POSTGRES_URL" >>
    [] OTHER -> << "MONGODB_URL" >>]

\* openwhisk.annotate, retried for two minutes, key by key.
Annotate(t) ==
  /\ At(t, "note") /\ Goes(t) /\ notes' = notes \cup ToSet(Keys[Now(t).c])
  /\ UNCHANGED << object, config, runtimes, files, job, cluster, doc, sys, sysnote,
                  ghosts, troubles >>

AnnotateFails(t) ==
  /\ At(t, "note") /\ Trouble /\ Raise(t)
  /\ \E k \in Cuts :
       notes' = notes \cup ToSet(SubSeq(Keys[Now(t).c], 1, Min({k, Len(Keys[Now(t).c]) - 1})))
  /\ UNCHANGED << object, config, runtimes, files, job, cluster, doc, sys, sysnote, ghosts >>

\* (Mutation: what the call answers is not looked at.)
GainTrusting(t, c) ==
  \/ made' = made \cup {c} /\ Goes(t) /\ UNCHANGED troubles
  \/ Trouble /\ UNCHANGED made /\ Goes(t)

\* A call that answers whether it made c.  Without it the keys are not given.
Gain(t, c) ==
  \/ made' = made \cup {c} /\ Goes(t) /\ UNCHANGED troubles
  \/ Trouble /\ UNCHANGED made /\ Skips(t, {c})

\* redis.create_nuvolaris_db_user: the command runs in the Pod.
Account(t) ==
  /\ At(t, "account")
  /\ IF pods["redis"].up THEN made' = made \cup {"redis user"} /\ Goes(t)
     ELSE Raise(t) /\ UNCHANGED made
  /\ UNCHANGED << object, config, runtimes, files, job, pods, dbReady, stored, ghosts,
                  troubles >>

\* MinioClient.add_user; without a user there is no storage at all.
AddUser(t) ==
  /\ At(t, "user")
  /\ \/ pods["minio"].up /\ made' = made \cup {"minio user"} /\ Goes(t) /\ UNCHANGED troubles
     \/ /\ UNCHANGED made
        /\ Skips(t, {"minio user", "data bucket", "web bucket", "policy"})
        /\ IF pods["minio"].up THEN Trouble ELSE UNCHANGED troubles
  /\ UNCHANGED << object, config, runtimes, files, job, pods, dbReady, stored, ghosts >>

\* make_bucket, make_public_bucket: mb refuses a bucket there is, and a public
\* one may be made and not be public.
MakeBucket(t) ==
  /\ At(t, "bucket")
  /\ LET c == Now(t).c IN
     \/ pods["minio"].up /\ c \notin made /\ Gain(t, c)
     \/ (c \in made \/ ~pods["minio"].up) /\ Skips(t, {c}) /\ UNCHANGED << made, troubles >>
     \/ c = "web bucket" /\ Trouble /\ made' = made \cup {c} /\ Skips(t, {c})
  /\ UNCHANGED << object, config, runtimes, files, job, pods, dbReady, stored, ghosts >>

\* assign_rw_bucket_policy_to_user: what it answers is not looked at.
Grant(t) ==
  /\ At(t, "grant") /\ Goes(t)
  /\ \/ pods["minio"].up /\ made' = made \cup {"policy"} /\ UNCHANGED troubles
     \/ UNCHANGED made /\ (IF pods["minio"].up THEN Trouble ELSE UNCHANGED troubles)
  /\ UNCHANGED << object, config, runtimes, files, job, pods, dbReady, stored, ghosts >>

\* wait_for_service: Kubegres makes the Service of the primary.
WaitForService(t) ==
  /\ At(t, "service")
  /\ IF pods["postgres"].up THEN made' = made \cup {"postgres"} /\ Goes(t)
     ELSE Raise(t) /\ UNCHANGED made
  /\ UNCHANGED << object, config, runtimes, files, job, pods, dbReady, stored, ghosts,
                  troubles >>

\* endpoint.create, of which Endpoints has the rest.
Endpoint(t) ==
  /\ At(t, "endpoint") /\ Goes(t) /\ notes' = notes \cup {"APIHOST"}
  /\ UNCHANGED << object, config, runtimes, files, job, cluster, doc, sys, sysnote,
                  ghosts, troubles >>
--------------------------------------------------------------------------------
\* NuvolarisMetadata: AUTH and a key for every annotation that is read.
Document(keys) == (keys \ {"APIHOST"}) \cup {"AUTH"}

\* update_nuvolaris_metadata: without the databases nothing is stored, and
\* nothing is said of it.
Save(t) ==
  /\ At(t, "save") /\ Goes(t)
  /\ IF ~(dbReady /\ pods["couchdb"].up) THEN UNCHANGED << doc, troubles >>
     ELSE \/ doc' = Document(notes) /\ UNCHANGED troubles
          \/ \E k \in notes \cap Unread : doc' = Document(notes \ {k}) /\ Trouble
  /\ UNCHANGED << object, config, runtimes, files, job, cluster, notes, sys, sysnote, ghosts >>

\* (Mutation: the names of buckets are not translated.)
AliasesShort ==
  << << "S3_HOST", "MINIO_HOST" >>, << "S3_PORT", "MINIO_PORT" >>,
     << "S3_ACCESS_KEY", "MINIO_ACCESS_KEY" >>, << "S3_SECRET_KEY", "MINIO_SECRET_KEY" >> >>

\* build_response of the login action: the keys of the document, and others
\* under the names of other tools, in order: << name, what it is taken from >>.
Aliases ==
  << << "MINIO_DATA_BUCKET", "S3_BUCKET_DATA" >>, << "MINIO_STATIC_BUCKET", "S3_BUCKET_STATIC" >>,
     << "S3_HOST", "MINIO_HOST" >>, << "S3_PORT", "MINIO_PORT" >>,
     << "S3_ACCESS_KEY", "MINIO_ACCESS_KEY" >>, << "S3_SECRET_KEY", "MINIO_SECRET_KEY" >>,
     << "S3_BUCKET_DATA", "MINIO_BUCKET_DATA" >>,
     << "S3_BUCKET_STATIC", "MINIO_BUCKET_STATIC" >> >>

\* None is taken from a name that another one gives before it.
Login(keys) == keys \cup { Aliases[i][1] : i \in {j \in DOMAIN Aliases : Aliases[j][2] \in keys} }

Answers == pods["controller"].up /\ dbReady

\* The end of deploy_whisk_system_action, which whisk_post_create annotates.
Result(t, done) ==
  IF th[t].op # "create" THEN Goes(t)
  ELSE th' = [th EXCEPT ![t].left = Of("result", "none", << IF done THEN "created" ELSE "failed" >>)]

\* safe_deploy: wsk project deploy, then wsk action list.
Deploy(t) ==
  /\ At(t, "deploy") /\ Answers /\ Result(t, TRUE) /\ sys' = "all"
  /\ UNCHANGED << object, config, runtimes, files, job, cluster, notes, doc, sysnote,
                  ghosts, troubles >>

\* process_wsk_result raises, nuv_retry calls again.
DeployFails(t) ==
  /\ At(t, "deploy") /\ Answers /\ Trouble
  /\ sys' = (IF sys = "none" THEN "part" ELSE sys) /\ UNCHANGED th
  /\ UNCHANGED << object, config, runtimes, files, job, cluster, notes, doc, sysnote, ghosts >>

\* (Mutation: the retries have no deadline.)
DeployForever(t) == At(t, "deploy") /\ ~Answers /\ UNCHANGED vars

DeployGivesUp(t) ==
  /\ At(t, "deploy") /\ ~Answers /\ Result(t, FALSE)
  /\ UNCHANGED << object, config, runtimes, files, job, cluster, stored, ghosts, troubles >>

\* The annotation system_action_status; one that fails has kopf call again.
Report(t) ==
  /\ At(t, "created") \/ At(t, "failed")
  /\ \/ Goes(t) /\ sysnote' = Now(t).do /\ UNCHANGED troubles
     \/ th' = [th EXCEPT ![t] = Idle] /\ Trouble /\ UNCHANGED sysnote
  /\ UNCHANGED << object, config, runtimes, files, job, cluster, notes, doc, sys, ghosts >>

\* whisk_delete, but for the preloader; WhiskOperator has its parts.
Delete(t) ==
  /\ At(t, "delete") /\ Goes(t)
  /\ UNCHANGED << object, config, runtimes, files, job, cluster, stored, ghosts, troubles >>
--------------------------------------------------------------------------------
Configures(t) == Clean(t) \/ Configure(t) \/ Apihost(t) \/ GetOwner(t)
Creates(t) ==
  \/ Apply(t) \/ PickPod(t) \/ NoPod(t) \/ WaitForPod(t)
  \/ Annotate(t) \/ AnnotateFails(t) \/ Account(t) \/ AddUser(t) \/ MakeBucket(t) \/ Grant(t)
  \/ WaitForService(t) \/ Endpoint(t)
Finishes(t) ==
  Save(t) \/ Deploy(t) \/ DeployFails(t) \/ DeployGivesUp(t) \/ Report(t) \/ Delete(t)
Whisk ==
  LET t == "whisk" IN
  Begin \/ End(t) \/ CallFails(t) \/ Configures(t) \/ Preloads(t) \/ Creates(t) \/ Finishes(t)
WatcherStep ==
  LET t == "watcher" IN
  (\E found \in BOOLEAN : Watch(found)) \/ End(t) \/ CallFails(t) \/ Preloads(t) \/ Rollout
Around ==
  \/ AddWhisk \/ DiscardWhisk \/ EditRuntimes \/ DatabasesMade \/ Collect \/ Restart
  \/ \E w \in Workloads : PodReady(w) \/ PodLost(w)
Next == Whisk \/ WatcherStep \/ Around

\* The threads run and Kubernetes starts the Pods it is to run; nothing says
\* that the databases are ever made.
Spec ==
  /\ Init /\ [][Next]_vars /\ WF_vars(Whisk) /\ WF_vars(WatcherStep)
  /\ \A w \in Workloads : WF_vars(PodReady(w))
--------------------------------------------------------------------------------
TypeOK ==
  /\ bound \in Instances
  /\ obj \in {"absent", "present", "deleting", "gone"}
  /\ due \in {"none", "create", "delete", "resume"}
  /\ cfgd \in BOOLEAN /\ memory \in NoSpec .. bound.versions
  /\ version \in 1 .. bound.versions /\ pending \in BOOLEAN
  /\ tpl \in 0 .. bound.versions /\ kust \in {"none", "torn", "full"}
  /\ job \in [v : 0 .. bound.versions, owned : BOOLEAN]
  /\ pods \in [Workloads -> [n : 0 .. bound.troubles + 1, up : BOOLEAN, v : 0 .. bound.versions]]
  /\ made \subseteq {"redis user", "minio user", "data bucket", "web bucket", "policy",
                     "postgres"}
  /\ dbReady \in BOOLEAN
  /\ doc \subseteq Document(UNION { ToSet(Keys[c]) : c \in DOMAIN Keys })
  /\ notes \subseteq doc \cup (UNION { ToSet(Keys[c]) : c \in DOMAIN Keys }) \cup {"APIHOST"}
  /\ sys \in {"none", "part", "all"} /\ sysnote \in {"none", "created", "failed"}
  /\ \A t \in Threads : Len(th[t].left) =< Len(WhiskCreate) /\ th[t].pod \in 0 .. bound.troubles + 1
  /\ crossed \in BOOLEAN /\ dropped \in BOOLEAN /\ missed \in BOOLEAN /\ troubles \in 0 .. bound.troubles

\* Nothing runs and nothing is due; and nothing failed.
Resting == ~pending /\ due = "none" /\ \A t \in Threads : th[t].op = "idle"
Settled == Resting /\ troubles = 0

\* What a key of the metadata is about; MongoDB is FerretDB over Postgres.
About(k) ==
  IF \E i \in DOMAIN Keys["redis user"] : k = Keys["redis user"][i] THEN "redis user"
  ELSE CHOOSE c \in DOMAIN Keys \cup {"postgres"} :
         IF k = "MONGODB_URL" \/ k \in ToSet(Keys["postgres keys"]) THEN c = "postgres"
         ELSE c \in DOMAIN Keys /\ k \in ToSet(Keys[c])

\* The keys the annotations and the stored document give name accounts,
\* buckets and services there are, wherever a creation was cut off and begun
\* again (minio.create_nuv_storage and redis.create_nuvolaris_db_user look at
\* what the call answers).  Redis forgets with its Pod.
KeysTrue ==
  \A k \in (notes \cup doc) \ {"APIHOST", "AUTH"} :
    About(k) \in made \/ (About(k) = "redis user" /\ troubles > 0)

\* A creation without trouble gives every key of what is switched on, with
\* the rights to use it; the document has them when there were databases.
Wanted ==
  { c \in DOMAIN Keys :
      \/ c = "redis user" /\ "redis" \in Comps
      \/ c \in {"minio user", "data bucket", "web bucket"} /\ "minio" \in Comps
      \/ c = "postgres keys" /\ Comps \cap {"postgres", "mongodb"} # {}
      \/ c = "mongodb keys" /\ "mongodb" \in Comps }
KeysGiven ==
  Settled /\ obj = "present" =>
    /\ \A c \in Wanted : ToSet(Keys[c]) \subseteq notes
    /\ "minio" \in Comps => "policy" \in made
    /\ doc # {} => doc = Document(notes)

\* The annotation says created only where all system actions are deployed
\* (whisk_actions_deployer.process_wsk_result).
SystemTrue == sysnote = "created" => sys = "all"

\* What is on record of an installation is so.
RecordsTrue == KeysTrue /\ SystemTrue

\* An edit of the map reaches the preloader, unless both threads were at it.
PreloaderCurrent == Settled /\ ~crossed /\ obj = "present" => job.v = version

\* An edit of the map reaches the controller, though calls fail, the preloader
\* does and handlers are begun again (patcher.patch_preloader catches), unless
\* the rollout itself was missed: it failed, the operator restarted, or
\* config_from_spec had cleared the configuration.
ControllerCurrent ==
  Resting /\ obj = "present" /\ ~missed /\ pods["controller"].n > 0 =>
    pods["controller"].v = version

\* An edit of the map of runtimes has its effect on both who use it.
RuntimesCurrent == PreloaderCurrent /\ ControllerCurrent

\* The Job of the preloader is the object's, or the process remembers it and
\* deletes it with the object (runtimes_preloader.delete_by_spec); one that
\* config_from_spec made it forget outlives the object.
JobAccounted ==
  Settled /\ ~crossed /\ job.v > 0 =>
    job.owned \/ memory = job.v \/ (obj = "gone" /\ dropped)

\* A tool that asks for S3_X at login gets it when the document has it under
\* either spelling, though an annotation was cut off between the two.
LoginComplete ==
  \A x \in {<< "MINIO_HOST", "S3_HOST" >>, << "MINIO_PORT", "S3_PORT" >>,
            << "MINIO_ACCESS_KEY", "S3_ACCESS_KEY" >>,
            << "MINIO_SECRET_KEY", "S3_SECRET_KEY" >>,
            << "MINIO_BUCKET_DATA", "S3_BUCKET_DATA" >>,
            << "MINIO_BUCKET_STATIC", "S3_BUCKET_STATIC" >>} :
    doc \cap ToSet(x) # {} => x[2] \in Login(doc)

\* A handler ends, or waits for a Pod whose name is gone
\* (util.wait_for_pod_ready).
WaitsForNoPod ==
  At("whisk", "wait") /\ Now("whisk").w \in Renamed
    /\ th["whisk"].pod # pods[Now("whisk").w].n
HandlersEnd == (th["whisk"].op # "idle") ~> (th["whisk"].op = "idle" \/ WaitsForNoPod)
================================================================================
