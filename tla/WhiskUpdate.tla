------------------------------- MODULE WhiskUpdate -------------------------------
(***************************************************************************)
(* WhiskOperator with a user who edits the spec of the installed object,   *)
(* and the handler of the edits: whisk_update in main.py, the patcher, and *)
(* the decision kopf_util takes from kopf's diff of the last-handled spec  *)
(* and the new one.                                                        *)
(***************************************************************************)
EXTENDS WhiskOperator

CONSTANTS
  Edits,    \* the edits considered, pairs of an old and a new spec
  MaxEdits  \* bound: edits of the spec

ASSUME EditsAssumption == Edits \subseteq (SUBSET Switch) \X (SUBSET Switch)
ASSUME MaxEditsAssumption == MaxEdits \in Nat

\* (Mutation: the patcher overlooks cron.)
PatchPlanForgets == << "postgres", "mongodb", "redis", "minio", "static",
                       "openwhisk", "endpoint" >>

\* What patcher.patch looks at, in its order.
PatchPlan == << "postgres", "mongodb", "redis", "cron", "minio", "static",
                "openwhisk", "endpoint" >>
PatchKey == { PatchPlan[i] : i \in 1 .. Len(PatchPlan) }
PatchEnd == Len(PatchPlan) + 1

VARIABLES
  todo,   \* the local "what_to_do" of patcher.patch
  grown,  \* every edit so far only switched things on (no code: for properties)
  edits

user == << grown, edits >>
updateVars == << vars, todo, user >>

NoChange == [k \in PatchKey |-> "none"]

UpdateInit == Init /\ todo = NoChange /\ grown = TRUE /\ edits = 0

Edit ==
  /\ cr = "present" /\ edits < MaxEdits /\ edits' = edits + 1
  /\ \E e \in Edits : /\ e[1] = spec /\ spec' = e[2]
                     /\ grown' = (grown /\ e[1] \subseteq e[2])
  /\ UNCHANGED << cr, handled, done, status, cluster, memory, running, budget,
                  todo >>
--------------------------------------------------------------------------------
Changed(old, new) == (old \ new) \cup (new \ old)

Readdressed(old, new) == Changed(old, new) \cap {"tls", "hostname"} # {}

\* check_component.
Switched(old, new, k) ==
  CASE k \in new \ old -> "create"
    [] k \in old \ new -> "delete"
    [] OTHER           -> "none"

\* (Mutation: what was on is switched off, whatever the new spec says.)
ActionOnOld(old, new, k) ==
  CASE k = "openwhisk" -> IF "configs" \in Changed(old, new) THEN "update" ELSE "none"
    [] k = "endpoint"  -> IF Readdressed(old, new) THEN "update" ELSE "none"
    [] OTHER           -> IF k \in old THEN "delete" ELSE Switched(old, new, k)

\* evaluate_differences: components are switched on or off; a change of
\* spec.configs updates OpenWhisk, one of tls or the apihost the endpoint.
Action(old, new, k) ==
  CASE k = "openwhisk" -> IF "configs" \in Changed(old, new) THEN "update" ELSE "none"
    [] k = "endpoint"  -> IF Readdressed(old, new) THEN "update" ELSE "none"
    [] OTHER           -> Switched(old, new, k)

\* The endpoint's update takes static, when it is on, along.  The differences
\* come in no fixed order: if static was just switched on, the last one decides.
StaticActions(old, new) ==
  (IF Readdressed(old, new) /\ "static" \in new THEN {"update"} ELSE {})
    \cup (IF Readdressed(old, new) /\ "static" \in old \cap new THEN {}
          ELSE {Action(old, new, "static")})

WhatToDo(old, new) ==
  { [k \in PatchKey |-> IF k = "static" THEN a ELSE Action(old, new, k)] :
      a \in StaticActions(old, new) }

UpdateStart ==
  /\ handler = "idle" /\ cr = "present"
  /\ handled \notin {NoSpec, spec} /\ "update" \notin done
  /\ handler' = "update" /\ pos' = 1 /\ ConfigFromSpec
  /\ \/ owner' = TRUE /\ UNCHANGED faults
     \/ Fault /\ owner' = FALSE
  /\ todo' \in WhatToDo(handled, spec)
  /\ UNCHANGED << api, cluster, report, listed, crashes, installs, user >>

Patched == PatchPlan[pos]
Patching == handler = "update" /\ pos < PatchEnd

\* The parts of a component, as its own create function deploys them again.
Deploy(rs) ==
  /\ live' = live \cup rs
  /\ owned' = IF owner THEN owned \cup (rs \cap Ownable) ELSE owned \ rs
  /\ specs' = specs \cup (IF owner THEN rs \cap {"issuer"}
                                   ELSE rs \cap (Ownable \cup {"issuer"}))

\* A failure part way leaves the parts before it.
DeployPart(k) == \E rs \in SUBSET Parts(k) :
  /\ "postgres" \in rs => "postgres-operator" \in rs
  /\ k \in rs \/ rs \cap {"minio-ingress", "static-ingress"} = {}
  /\ Deploy(rs)

\* (Mutation: cron has no patch function of that kind.)
PatchCreatesButCron ==
  \/ todo[Patched] = "create" /\ Patched \notin {"minio", "cron"}
  \/ Patched = "openwhisk" /\ todo[Patched] = "update"

\* patch functions of components: what create raises is swallowed, and the
\* status they write is a copy nobody stores.  redeploy_controller is alike.
PatchCreates ==
  \/ todo[Patched] = "create" /\ Patched # "minio"
  \/ Patched = "openwhisk" /\ todo[Patched] = "update"

PatchSkip ==
  /\ Patching /\ todo[Patched] = "none"
  /\ pos' = pos + 1
  /\ UNCHANGED << api, cluster, memory, handler, owner, report, listed, budget,
                  todo, user >>

PatchCreate ==
  /\ Patching /\ PatchCreates
  /\ \/ /\ Deploy(Parts(Patched))
        /\ redisUser' = (redisUser \/ Patched = "redis")
        /\ UNCHANGED faults
     \/ DeployPart(Patched) /\ Fault /\ UNCHANGED redisUser
  /\ pos' = pos + 1
  /\ UNCHANGED << api, comps, handler, owner, report, listed, crashes, installs,
                  todo, user >>

\* Removal by owner needs the kustomization files of this very container, and
\* removal without an owner the specs that config_from_spec just dropped: a
\* part is removed or not.
Remove(k) == \E rs \in SUBSET (Parts(k) \cap live) :
  /\ live' = live \ rs /\ owned' = owned \ rs
  /\ redisUser' = (redisUser /\ "redis" \notin rs)
  /\ UNCHANGED specs

\* Whatever a removal or an update did, it then writes status['whisk_update'],
\* which never exists, and the handler for that writes it too; the patch of
\* minio calls a function that does not exist.  The endpoint is not reached:
\* its patch begins with the issuer's, which deploys the issuer again.
PatchRaises ==
  /\ Patching /\ todo[Patched] # "none" /\ ~PatchCreates
  /\ \/ /\ Patched \notin {"minio", "endpoint"} \/ todo[Patched] = "delete"
        /\ Remove(Patched)
     \/ /\ Patched = "minio" /\ todo[Patched] = "create"
        /\ DeployPart(Patched) /\ UNCHANGED redisUser
     \/ Patched = "endpoint" /\ Deploy({"issuer"}) /\ UNCHANGED redisUser
  /\ Raise
  /\ UNCHANGED << api, comps, owner, report, listed, budget, todo, user >>

\* whisk_post_create runs when a component was patched; its annotation may raise.
PostUpdate ==
  /\ handler = "update" /\ pos = PatchEnd
  /\ \/ pos' = pos + 1 /\ UNCHANGED << handler, faults >>
     \/ todo # NoChange /\ Fault /\ Raise
  /\ UNCHANGED << api, cluster, memory, owner, report, listed,
                  crashes, installs, todo, user >>

UpdateReturn ==
  /\ handler = "update" /\ pos = PatchEnd + 1
  /\ Succeed("update")
  /\ UNCHANGED << cr, spec, status, cluster, memory, owner, report, budget,
                  todo, user >>

\* detect_labels may fail before the patcher is reached.
UpdateConfigFails ==
  /\ handler = "idle" /\ cr = "present"
  /\ handled \notin {NoSpec, spec} /\ "update" \notin done
  /\ Fault /\ ConfigFromSpec
  /\ UNCHANGED << api, cluster, running, crashes, installs, todo, user >>
--------------------------------------------------------------------------------
Update == \/ UpdateStart \/ PatchSkip \/ PatchCreate \/ PatchRaises
          \/ PostUpdate \/ UpdateReturn

UpdateNext == \/ Next /\ UNCHANGED << todo, user >>
              \/ Update \/ Edit \/ UpdateConfigFails

UpdateSpec == UpdateInit /\ [][UpdateNext]_updateVars

FairUpdateSpec == /\ UpdateSpec /\ Fairness
                  /\ WF_updateVars(Update) /\ SF_updateVars(UpdateStart)
--------------------------------------------------------------------------------
\* An edit is handled in the end (patcher.py:86-89: the diff tells "which
\* components needs to be added/removed", and they are).
UpdateCompletes ==
  (cr = "present" /\ handled \notin {NoSpec, spec})
    ~> (cr # "present" \/ handled = spec)

\* What is only added to a spec is dealt with: no call that fails, at any
\* moment of the installation or of an edit before it, keeps an edit that
\* switches components on from being handled.
GrowthCompletes ==
  (cr = "present" /\ grown /\ handled \notin {NoSpec, spec})
    ~> (cr # "present" \/ handled = spec \/ ~grown)

\* And it is deployed once it is handled, when nothing failed on the way.
GrownComplete ==
  cr = "present" /\ handled # NoSpec /\ grown /\ faults = 0 /\ crashes = 0 =>
    \A r \in Resource : Wanted(handled, Key(r)) => r \in live

\* An update takes away nothing that the new spec still asks for, with two
\* exceptions: static, when its address changes (kopf_util.py:46 means to update
\* it, static.patch removes it), and the Postgres switched off under FerretDB.
UpdateKeepsWanted ==
  [][ handler = "update" =>
        \A r \in live \ live' : Wanted(comps, Key(r)) =>
          \/ Key(r) = "static" /\ todo["static"] = "update"
          \/ Key(r) = "postgres" /\ "postgres" \notin comps ]_updateVars

UpdateTypeOK ==
  /\ TypeOK
  /\ todo \in [PatchKey -> {"none", "create", "delete", "update"}]
  /\ grown \in BOOLEAN /\ edits \in 0 .. MaxEdits

\* The strengthening of both that every step preserves.  The patcher in progress
\* works off the difference between the last-handled spec and the one in cfg.
Planned ==
  /\ handler \in {"create", "resume", "update"} => cr # "none"
  /\ handler = "delete" => cr = "deleting"
  /\ handler = "update" => handled # NoSpec /\ todo \in WhatToDo(handled, comps)

\* Going from one spec to the other switches on only what the patcher has an eye
\* for: not CouchDB or OpenWhisk, FerretDB only with the Postgres it wants, and
\* no address under a static that is there.
Grows(old, new) ==
  /\ old \subseteq new
  /\ {"couchdb", "openwhisk"} \cap (new \ old) = {}
  /\ "mongodb" \in new \ old => "postgres" \in new
  /\ "static" \in old => ~Readdressed(old, new)

EditsGrow == \A e \in Edits : e[1] \subseteq e[2] => Grows(e[1], e[2])

Complete(c) == \A r \in Resource : Wanted(c, Key(r)) => r \in live

\* The handlers have done what they passed.
Created ==
  handler = "create" =>
    /\ handled = NoSpec /\ Grows(comps, spec)
    /\ \A i \in 1 .. Len(CreatePlan) :
         i < pos /\ Wanted(comps, Key(CreatePlan[i])) => CreatePlan[i] \in live

Patches ==
  handler = "update" =>
    /\ Grows(handled, comps) /\ Grows(comps, spec)
    /\ \A i \in 1 .. Len(PatchPlan) : i < pos =>
         /\ todo[PatchPlan[i]] # "none" => Parts(PatchPlan[i]) \subseteq live
         /\ PatchPlan[i] = "endpoint" => todo["endpoint"] = "none"

Smooth == grown /\ faults = 0 /\ crashes = 0

Growth ==
  /\ ~listed /\ handler # "resume" /\ Created /\ Patches
  /\ cr = "present" /\ handled # NoSpec => Grows(handled, spec) /\ Complete(handled)

UpdateInductive == UpdateTypeOK /\ Planned /\ (Smooth => Growth)
================================================================================
