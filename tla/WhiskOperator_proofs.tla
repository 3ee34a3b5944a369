-------------------------- MODULE WhiskOperator_proofs --------------------------
(***************************************************************************)
(* Proofs about WhiskOperator, for every set of specs, kind of cluster and *)
(* bound: the types, that the status and kopf's last-handled spec tell the *)
(* truth about the cluster, and that an undisturbed deletion leaves what   *)
(* Kubernetes collects.  And about WhiskUpdate, for every set of edits:    *)
(* what an update takes away, and that what only grew is deployed.         *)
(***************************************************************************)
EXTENDS WhiskUpdate, TLAPS

\* The plan has fifteen steps.
LEMMA PlanLength == Len(CreatePlan) = 15 /\ CreateEnd = 16 /\ DeleteEnd = 15
  BY DEF CreatePlan, DeletePlan, CreateEnd, DeleteEnd

\* Its steps are resources, with keys of the report.
LEMMA PlanTypes ==
  \A i \in 1 .. 15 : CreatePlan[i] \in Resource /\ Key(CreatePlan[i]) \in ReportKey
  BY PlanLength DEF Resource, ReportKey

\* Only the last two parts of the plan share a key with an earlier one, and
\* the parts of a key follow each other.
LEMMA PartsOfKey ==
  ASSUME NEW i \in 1 .. 15, NEW r \in Resource, Key(r) = Key(CreatePlan[i]),
         i = 15 \/ Key(CreatePlan[i + 1]) # Key(CreatePlan[i])
  PROVE  \/ r = CreatePlan[i]
         \/ i > 1 /\ r = CreatePlan[i - 1] /\ Key(CreatePlan[i - 1]) = Key(CreatePlan[i])
  <1>1. PICK j \in 1 .. 15 : r = CreatePlan[j]
    BY PlanLength DEF Resource
  <1>2. j = i \/ j = i - 1
    BY <1>1 DEF Key, CreatePlan
  <1> QED BY <1>1, <1>2

\* After OpenWhisk every step of the plan is guarded.
LEMMA GuardedTail ==
  ASSUME NEW i \in 1 .. 15, NEW j \in i .. 15,
         Key(CreatePlan[i]) \in {"openwhisk", "endpoint"}
  PROVE  CreatePlan[j] \notin Unguarded
  BY DEF Key, CreatePlan, Unguarded
--------------------------------------------------------------------------------
\* The report of a handler that has not started is a report.
LEMMA EmptyReportType == EmptyReport \in [ReportKey -> Outcome]
  BY DEF EmptyReport, Outcome

\* What cfg keeps of a deployed resource is a resource it can delete.
LEMMA KeptType == Kept \subseteq Ownable \cup {"issuer"}
  BY DEF Kept

\* Every step of the plan has its outcome in the report.
LEMMA Keys ==
  /\ {"openwhisk", "endpoint", "whisk-system"} \subseteq ReportKey
  <1>1. "openwhisk" = CreatePlan[13] /\ "endpoint" = CreatePlan[15]
    BY DEF CreatePlan
  <1>2. Key("openwhisk") = "openwhisk" /\ Key("endpoint") = "endpoint"
    BY DEF Key
  <1> QED BY <1>1, <1>2, PlanLength DEF ReportKey, Resource

\* A handler that returns leaves kopf's bookkeeping well typed.
LEMMA SucceedType ==
  ASSUME TypeOK, NEW h \in {"create", "resume", "update"}, Succeed(h)
  PROVE  /\ handler' = "idle" /\ pos' = 1
         /\ handled' \in (SUBSET Switch) \cup {NoSpec}
         /\ done' \in SUBSET {"create", "resume", "update"}
         /\ listed' \in BOOLEAN
  <1>1. CASE Needed \subseteq done \cup {h}
    BY <1>1 DEF Succeed, Raise, TypeOK
  <1>2. CASE ~(Needed \subseteq done \cup {h})
    BY <1>2 DEF Succeed, Raise, TypeOK
  <1> QED BY <1>1, <1>2

\* Removing a resource leaves the cluster well typed.
LEMMA RemovedType ==
  ASSUME TypeOK, Removed
  PROVE  /\ live' \in SUBSET Resource /\ owned' \in SUBSET Ownable
         /\ redisUser' \in BOOLEAN
  <1>1. redisUser' \in BOOLEAN
    BY Zenon DEF Removed
  <1> QED BY <1>1 DEF Removed, TypeOK

\* Every step keeps every variable in its type.
LEMMA TypeStep == ASSUME TypeOK, [Next]_vars PROVE TypeOK'
<1> USE PlanLength, BoundAssumption
<1>1. CASE Install
  <2>1. spec' \in SUBSET Switch
    BY <1>1, SpecsAssumption DEF Install
  <2> QED BY <1>1, <2>1, EmptyReportType
          DEF Install, TypeOK, cluster, memory, running
<1>2. CASE Destroy
  BY <1>2 DEF Destroy, TypeOK, cluster, memory, running, budget
<1>3. CASE Collect
  <2>1. redisUser' \in BOOLEAN
    BY <1>3, Zenon DEF Collect
  <2> QED BY <1>3, <2>1 DEF Collect, TypeOK, api, memory, running, budget
<1>4. CASE Crash
  <2>1. listed' \in BOOLEAN /\ owner' \in BOOLEAN
    BY <1>4, Zenon DEF Crash
  <2> QED BY <1>4, <2>1, EmptyReportType DEF Crash, TypeOK, api, cluster
<1>5. CASE RedisRestart
  <2>1. redisUser' \in BOOLEAN
    BY <1>5, Zenon DEF RedisRestart
  <2> QED BY <1>5, <2>1 DEF RedisRestart, TypeOK, api, memory, running
<1>6. CASE ConfigFails
  BY <1>6 DEF ConfigFails, ConfigFromSpec, Fault, TypeOK, api, cluster, running
<1>7. CASE CreateStart
  <2>1. owner' \in BOOLEAN
    BY <1>7, Zenon DEF CreateStart
  <2> QED BY <1>7, <2>1, EmptyReportType
          DEF CreateStart, Start, ConfigFromSpec, Fault, TypeOK, api, cluster
<1>8. ASSUME handler = "create", pos < CreateEnd
      PROVE  /\ pos \in 1 .. 15 /\ Current \in Resource
             /\ Key(Current) \in ReportKey
  BY <1>8, PlanTypes DEF TypeOK, Current
<1>9. CASE CreateSkip
  BY <1>8, <1>9 DEF CreateSkip, TypeOK, Outcome, api, cluster, memory, budget
<1>10. CASE CreateStep
  <2>1. live' \in SUBSET Resource /\ owned' \in SUBSET Ownable
    BY <1>8, <1>10 DEF CreateStep, Applied, TypeOK
  <2>2. specs' \in SUBSET (Ownable \cup {"issuer"})
    BY <1>10, KeptType DEF CreateStep, Applied, TypeOK
  <2>3. redisUser' \in BOOLEAN
    BY <1>10, Zenon DEF CreateStep, TypeOK
  <2>4. faults' \in 0 .. MaxFaults
    BY <1>10 DEF CreateStep, Fault, TypeOK
  <2>5. report' \in [ReportKey -> Outcome] /\ pos' \in 1 .. CreateEnd + 1
    BY <1>8, <1>10 DEF CreateStep, TypeOK, Outcome
  <2> QED BY <1>10, <2>1, <2>2, <2>3, <2>4, <2>5 DEF CreateStep, TypeOK, api
<1>11. ASSUME handler = "create", pos < CreateEnd, PartlyApplied
       PROVE  /\ live' \in SUBSET Resource /\ owned' \in SUBSET Ownable
              /\ specs' \in SUBSET (Ownable \cup {"issuer"})
  BY <1>8, <1>11, KeptType DEF PartlyApplied, Applied, TypeOK
<1>12. CASE CreateStepFails
  <2>1. report' \in [ReportKey -> Outcome] /\ pos' \in 1 .. CreateEnd + 1
    BY <1>8, <1>12, Keys DEF CreateStepFails, TypeOK, Outcome
  <2> QED BY <1>11, <1>12, <2>1 DEF CreateStepFails, Fault, TypeOK, api
<1>13. CASE CreateStepRaises
  BY <1>11, <1>13 DEF CreateStepRaises, Raise, Fault, TypeOK, api
<1>14. CASE PostCreate
  <2>1. report' \in [ReportKey -> Outcome]
    BY <1>14, Keys DEF PostCreate, TypeOK, Outcome
  <2> QED BY <1>14, <2>1
          DEF PostCreate, Raise, Fault, TypeOK, api, cluster, memory
<1>15. CASE CreateReturn
  BY <1>15, SucceedType DEF CreateReturn, TypeOK, cluster, memory, budget
<1>16. CASE ResumeStart
  BY <1>16 DEF ResumeStart, Start, ConfigFromSpec, TypeOK, api, cluster, budget
<1>17. CASE ResumeRaises
  BY <1>17 DEF ResumeRaises, Raise, Fault, TypeOK, api, cluster, memory
<1>18. CASE ResumeStep
  <2>1. redisUser' \in BOOLEAN
    BY <1>18, Zenon DEF ResumeStep, TypeOK
  <2> QED BY <1>18, <2>1 DEF ResumeStep, Fault, TypeOK, api, memory
<1>19. CASE ResumeReturn
  BY <1>19, SucceedType DEF ResumeReturn, TypeOK, cluster, memory, budget
<1>20. CASE DeleteStart
  BY <1>20 DEF DeleteStart, Start, TypeOK, api, cluster, memory, budget
<1>21. CASE DeleteSkip
  BY <1>21 DEF DeleteSkip, TypeOK, api, cluster, memory, budget
<1>22. CASE DeleteStep
  BY <1>22, RemovedType DEF DeleteStep, TypeOK, api, budget
<1>23. CASE DeleteStepFails
  BY <1>23, RemovedType
  DEF DeleteStepFails, DeleteFailure, Fault, TypeOK, api, cluster, memory
<1>24. CASE DeleteStepRaises
  BY <1>24, RemovedType
  DEF DeleteStepRaises, DeleteFailure, Raise, Fault, TypeOK, api, cluster, memory
<1>25. CASE DeleteReturn
  <2>1. listed' \in BOOLEAN
    BY <1>25, Zenon DEF DeleteReturn
  <2> QED BY <1>25, <2>1
          DEF DeleteReturn, Raise, TypeOK, cluster, memory, budget
<1>26. CASE UNCHANGED vars
  BY <1>26 DEF TypeOK, vars, api, cluster, memory, running, budget
<1> QED
  BY <1>1, <1>2, <1>3, <1>4, <1>5, <1>6, <1>7, <1>9, <1>10, <1>12, <1>13,
     <1>14, <1>15, <1>16, <1>17, <1>18, <1>19, <1>20, <1>21, <1>22, <1>23,
     <1>24, <1>25, <1>26
  DEF Next, Operator, Environment, Create, Resume, Delete

\* Every variable of the operator and of the API server keeps to its type.
THEOREM TypeCorrect == Spec => []TypeOK
<1>1. Init => TypeOK
  <2> SUFFICES ASSUME Init PROVE TypeOK
    OBVIOUS
  <2>1. redisUser \in BOOLEAN /\ owner \in BOOLEAN /\ listed \in BOOLEAN
    BY Zenon DEF Init
  <2> QED BY <2>1, EmptyReportType, PlanLength, BoundAssumption
          DEF Init, TypeOK
<1> QED BY <1>1, TypeStep, PTL DEF Spec
--------------------------------------------------------------------------------
\* Everything unguarded is a step of the plan.
LEMMA UnguardedPlanned == \A r \in Unguarded : \E i \in 1 .. 15 : r = CreatePlan[i]
  <1>1. CreatePlan[6] = "minio" /\ CreatePlan[7] = "minio-ingress"
        /\ CreatePlan[8] = "static" /\ CreatePlan[9] = "static-ingress"
        /\ CreatePlan[10] = "postgres-operator" /\ CreatePlan[11] = "postgres"
        /\ CreatePlan[12] = "mongodb"
    BY DEF CreatePlan
  <1> QED BY <1>1 DEF Unguarded

\* A create handler that has passed the whole plan has deployed its spec.
LEMMA PassedAll ==
  ASSUME PassedDeployed, handler = "create", pos > 15, pos \in Int
  PROVE  Deployed(comps)
  BY UnguardedPlanned, PlanLength DEF PassedDeployed, Deployed

\* The steps outside whisk_create, and those of it that only begin, leave or
\* end it, keep what is remembered as long as nothing of it is taken away
\* while the object is present.
LEMMA KeepsRemembered ==
  ASSUME RememberedDeployed, StatusTruthful,
         UNCHANGED << spec, handled, done, status >>,
         cr' = "present" => cr = "present" /\ live \subseteq live'
  PROVE  RememberedDeployed' /\ StatusTruthful'
  BY DEF RememberedDeployed, StatusTruthful, Deployed

\* While it is in progress, a create handler that stays at its step keeps its
\* own report truthful if nothing disappears.
LEMMA KeepsReport ==
  ASSUME ReportTruthful, PassedDeployed, UNCHANGED << handler, comps, pos, report >>,
         handler = "create" => live \subseteq live'
  PROVE  ReportTruthful' /\ PassedDeployed'
  BY DEF ReportTruthful, PassedDeployed, Current

\* Outside whisk_create there is no report to be truthful about.
LEMMA NoReport ==
  ASSUME handler' # "create" PROVE ReportTruthful' /\ PassedDeployed'
  BY DEF ReportTruthful, PassedDeployed

\* A step of the plan, taken or skipped, moves to the next one.
LEMMA NextStep ==
  ASSUME TypeOK, ReportTruthful, PassedDeployed, handler = "create",
         pos < CreateEnd, pos' = pos + 1, UNCHANGED << handler, comps >>,
         live \subseteq live',
         Wanted(comps, Key(Current)) =>
           Current \in live' \/ Current \notin Unguarded,
         \A k \in ReportKey : report'[k] = "on" => Parts(k) \subseteq live',
         \/ ~Wanted(comps, Key(Current)) \/ Current \in live'
         \/ Key(Current) \notin {"minio", "static", "postgres", "endpoint"}
  PROVE  ReportTruthful' /\ PassedDeployed'
  <1>1. pos \in 1 .. 15 /\ Key(Current) \in ReportKey
    BY PlanLength, PlanTypes DEF TypeOK, Current
  <1>3. ASSUME pos + 1 \in 2 .. 15, Key(CreatePlan[pos + 1]) = Key(CreatePlan[pos])
        PROVE  Key(Current) \in {"minio", "static", "postgres", "endpoint"}
    BY <1>1, <1>3 DEF CreatePlan, Key, Current
  <1>4. ReportTruthful'
    BY <1>1, <1>3, PlanLength DEF ReportTruthful, Current
  <1>5. PassedDeployed'
    BY <1>1, PlanLength DEF PassedDeployed, Current
  <1> QED BY <1>4, <1>5

\* A component reported as on after its last part is there with all its parts.
LEMMA AllParts ==
  ASSUME TypeOK, ReportTruthful, handler = "create", pos < CreateEnd,
         Wanted(comps, Key(Current)), LastPart,
         live' = live \cup {Current}
  PROVE  Parts(Key(Current)) \subseteq live'
  <1>1. pos \in 1 .. 15
    BY PlanLength DEF TypeOK
  <1>2. SUFFICES ASSUME NEW r \in Resource, Key(r) = Key(Current) PROVE r \in live'
    BY DEF Parts
  <1>3. \/ r = Current
        \/ pos > 1 /\ r = CreatePlan[pos - 1] /\ Key(CreatePlan[pos - 1]) = Key(Current)
    BY <1>1, <1>2, PartsOfKey, PlanLength DEF LastPart, Current
  <1> QED BY <1>1, <1>2, <1>3, PlanLength DEF ReportTruthful

\* Each step of the operator and of its environment keeps the invariant.
LEMMA InductiveStep == ASSUME Inductive, [Next]_vars PROVE Inductive'
<1> USE DEF Inductive
<1>0. TypeOK'
  BY TypeStep
<1>1. CASE Install
  <2>1. handler = "idle"
    BY <1>1 DEF Install, Phases, TypeOK
  <2>2. Phases'
    BY <1>1, <2>1 DEF Install, Phases, running
  <2>3. StatusTruthful' /\ RememberedDeployed'
    BY <1>1 DEF Install, StatusTruthful, RememberedDeployed, EmptyReport
  <2> QED BY <1>0, <1>1, <2>1, <2>2, <2>3, NoReport DEF Install, running
<1>2. CASE Destroy
  <2>1. Phases'
    BY <1>2 DEF Destroy, Phases, running, memory
  <2>2. StatusTruthful' /\ RememberedDeployed'
    BY <1>2 DEF Destroy, StatusTruthful, RememberedDeployed
  <2>3. ReportTruthful' /\ PassedDeployed'
    BY <1>2, KeepsReport DEF Destroy, running, memory, cluster
  <2> QED BY <1>0, <2>1, <2>2, <2>3
<1>3. CASE Collect
  <2>1. handler # "create" /\ Phases'
    BY <1>3 DEF Collect, Phases, api, running, memory
  <2>2. StatusTruthful' /\ RememberedDeployed'
    BY <1>3 DEF Collect, StatusTruthful, RememberedDeployed, api
  <2> QED BY <1>0, <1>3, <2>1, <2>2, NoReport DEF Collect, running
<1>4. CASE Crash
  <2>1. Phases'
    BY <1>4 DEF Crash, Phases
  <2> QED BY <1>0, <1>4, <2>1, KeepsRemembered, NoReport DEF Crash, api, cluster
<1>5. CASE RedisRestart
  <2>1. Phases'
    BY <1>5 DEF RedisRestart, Phases, api, running, memory
  <2> QED BY <1>0, <1>5, <2>1, KeepsRemembered, KeepsReport
          DEF RedisRestart, api, running, memory
<1>6. CASE ConfigFails
  <2>1. handler = "idle" /\ Phases'
    BY <1>6 DEF ConfigFails, Runnable, Phases, running
  <2> QED BY <1>0, <1>6, <2>1, KeepsRemembered, NoReport
          DEF ConfigFails, api, running, cluster
<1>7. CASE CreateStart
  <2>1. Phases'
    BY <1>7 DEF CreateStart, Runnable, Start, ConfigFromSpec, Phases, api
  <2>2. ReportTruthful' /\ PassedDeployed'
    BY <1>7 DEF CreateStart, Start, ReportTruthful, PassedDeployed, EmptyReport
  <2> QED BY <1>0, <1>7, <2>1, <2>2, KeepsRemembered DEF CreateStart, api, cluster
<1>8. CASE CreateSkip
  <2>1. Phases'
    BY <1>8 DEF CreateSkip, Phases, api, memory
  <2>2. \A k \in ReportKey : report'[k] = "on" => Parts(k) \subseteq live'
    BY <1>8 DEF CreateSkip, ReportTruthful, TypeOK, cluster
  <2>3. ReportTruthful' /\ PassedDeployed'
    BY <1>8, <2>2, NextStep DEF CreateSkip, cluster, memory
  <2> QED BY <1>0, <1>8, <2>1, <2>3, KeepsRemembered DEF CreateSkip, api, cluster
<1>9. CASE CreateStep
  <2>1. Phases'
    BY <1>9 DEF CreateStep, Phases, api
  <2>2. live' = live \cup {Current}
    BY <1>9 DEF CreateStep, Applied
  <2>3. \A k \in ReportKey : report'[k] = "on" => Parts(k) \subseteq live'
    BY <1>9, <2>2, AllParts DEF CreateStep, ReportTruthful, TypeOK
  <2>4. ReportTruthful' /\ PassedDeployed'
    BY <1>9, <2>2, <2>3, NextStep DEF CreateStep
  <2> QED BY <1>0, <1>9, <2>1, <2>2, <2>4, KeepsRemembered DEF CreateStep, api
<1>10. CASE CreateStepFails
  <2>1. Phases'
    BY <1>10 DEF CreateStepFails, Phases, api
  <2>2. live \subseteq live'
    BY <1>10 DEF CreateStepFails, PartlyApplied, Applied
  <2>3. \A k \in ReportKey : report'[k] = "on" => Parts(k) \subseteq live'
    BY <1>10, <2>2 DEF CreateStepFails, ReportTruthful, TypeOK
  <2>4. ASSUME Key(Current) \in {"openwhisk", "endpoint"}
        PROVE  ReportTruthful' /\ PassedDeployed'
    <3>1. pos' = CreateEnd /\ pos \in 1 .. 15
      BY <1>10, <2>4, PlanLength DEF CreateStepFails, TypeOK
    <3>2. ReportTruthful'
      BY <1>10, <2>3, <3>1, PlanLength DEF CreateStepFails, ReportTruthful
    <3>3. PassedDeployed'
      BY <1>10, <2>2, <2>4, <3>1, GuardedTail, PlanLength
      DEF CreateStepFails, PassedDeployed, Current
    <3> QED BY <3>2, <3>3
  <2>5. ASSUME Key(Current) \notin {"openwhisk", "endpoint"}
        PROVE  ReportTruthful' /\ PassedDeployed'
    <3>1. Key(Current) \notin {"minio", "static", "postgres", "endpoint"}
      BY <1>10, <2>5, PlanLength
      DEF CreateStepFails, TypeOK, Current, CreatePlan, Key, Unguarded
    <3> QED BY <1>10, <2>2, <2>3, <2>5, <3>1, NextStep DEF CreateStepFails
  <2> QED BY <1>0, <1>10, <2>1, <2>2, <2>4, <2>5, KeepsRemembered
          DEF CreateStepFails, api
<1>11. CASE CreateStepRaises
  <2>1. Phases' /\ handler' # "create"
    BY <1>11 DEF CreateStepRaises, Raise, Phases
  <2>2. live \subseteq live'
    BY <1>11 DEF CreateStepRaises, PartlyApplied, Applied
  <2> QED BY <1>0, <1>11, <2>1, <2>2, KeepsRemembered, NoReport
          DEF CreateStepRaises, api
<1>12. CASE PostCreate
  <2>1. Phases'
    BY <1>12 DEF PostCreate, Raise, Phases, api, memory
  <2>2. CASE handler' = "idle"
    BY <1>0, <1>12, <2>1, <2>2, KeepsRemembered, NoReport
    DEF PostCreate, api, cluster
  <2>3. CASE handler' # "idle"
    <3>1. pos = 16 /\ pos' = 17 /\ handler' = "create"
      BY <1>12, <2>3, PlanLength DEF PostCreate, Raise
    <3>2. \A k \in ReportKey : k # "whisk-system" => report'[k] = report[k]
      BY <1>12, <2>3 DEF PostCreate, Raise, TypeOK
    <3>3. Parts("whisk-system") = {}
      BY PlanLength DEF Parts, Resource, Key, CreatePlan
    <3>4. ReportTruthful'
      BY <1>12, <3>1, <3>2, <3>3, PlanLength
      DEF PostCreate, ReportTruthful, cluster, memory, Parts
    <3>5. PassedDeployed'
      BY <1>12, <3>1, PlanLength DEF PostCreate, PassedDeployed, cluster, memory
    <3> QED BY <1>0, <1>12, <2>1, <3>4, <3>5, KeepsRemembered
            DEF PostCreate, api, cluster
  <2> QED BY <2>2, <2>3
<1>13. CASE CreateReturn
  <2>1. handler' = "idle" /\ Phases'
    BY <1>13 DEF CreateReturn, Succeed, Raise, Phases
  <2>2. Deployed(spec) /\ comps = spec
    BY <1>13, PassedAll, PlanLength DEF CreateReturn, Phases
  <2>3. StatusTruthful'
    BY <1>13 DEF CreateReturn, StatusTruthful, ReportTruthful, cluster
  <2>4. RememberedDeployed'
    BY <1>13, <2>2
    DEF CreateReturn, Succeed, RememberedDeployed, Deployed, cluster
  <2> QED BY <1>0, <2>1, <2>3, <2>4, NoReport
<1>14. CASE ResumeStart
  <2>1. handler' = "resume" /\ Phases'
    BY <1>14 DEF ResumeStart, Runnable, Start, ConfigFromSpec, Phases, api
  <2> QED BY <1>0, <1>14, <2>1, KeepsRemembered, NoReport
          DEF ResumeStart, api, cluster
<1>15. CASE ResumeRaises
  <2>1. handler' = "idle" /\ Phases'
    BY <1>15 DEF ResumeRaises, Raise, Phases
  <2> QED BY <1>0, <1>15, <2>1, KeepsRemembered, NoReport
          DEF ResumeRaises, api, cluster
<1>16. CASE ResumeStep
  <2>1. handler' = "resume" /\ Phases'
    BY <1>16 DEF ResumeStep, Phases, api, memory
  <2> QED BY <1>0, <1>16, <2>1, KeepsRemembered, NoReport DEF ResumeStep, api
<1>17. CASE ResumeReturn
  <2>1. handler' = "idle" /\ Phases'
    BY <1>17 DEF ResumeReturn, Succeed, Raise, Phases
  <2>2. StatusTruthful'
    BY <1>17 DEF ResumeReturn, StatusTruthful, cluster
  <2>3. comps = spec
    BY <1>17 DEF ResumeReturn, Phases
  <2>4. RememberedDeployed'
    BY <1>17, <2>3
    DEF ResumeReturn, Succeed, Needed, RememberedDeployed, Deployed, cluster
  <2> QED BY <1>0, <2>1, <2>2, <2>4, NoReport
<1>18. CASE DeleteStart
  <2>1. handler' = "delete" /\ Phases'
    BY <1>18 DEF DeleteStart, Runnable, Start, Phases, api
  <2> QED BY <1>0, <1>18, <2>1, KeepsRemembered, NoReport
          DEF DeleteStart, api, cluster
<1>19. ASSUME Delete, handler' \in {"idle", "delete"},
              UNCHANGED << spec, handled, done, status >>, cr' # "present",
              handler' = "delete" => cr' = "deleting"
       PROVE  Inductive'
  <2>1. Phases'
    BY <1>19 DEF Phases
  <2>2. StatusTruthful' /\ RememberedDeployed'
    BY <1>19 DEF StatusTruthful, RememberedDeployed
  <2> QED BY <1>0, <1>19, <2>1, <2>2, NoReport
<1>20. CASE DeleteSkip
  BY <1>19, <1>20 DEF DeleteSkip, Delete, Phases, api
<1>21. CASE DeleteStep
  BY <1>19, <1>21 DEF DeleteStep, Delete, Phases, api
<1>22. CASE DeleteStepFails
  BY <1>19, <1>22 DEF DeleteStepFails, Delete, Phases, api
<1>23. CASE DeleteStepRaises
  BY <1>19, <1>23 DEF DeleteStepRaises, Delete, Raise, Phases, api
<1>24. CASE DeleteReturn
  BY <1>19, <1>24 DEF DeleteReturn, Delete, Raise
<1>25. CASE UNCHANGED vars
  <2> USE DEF vars, api, cluster, memory, running
  <2>1. Phases'
    BY <1>25 DEF Phases
  <2> QED BY <1>0, <1>25, <2>1, KeepsRemembered, KeepsReport
<1> QED
  BY <1>1, <1>2, <1>3, <1>4, <1>5, <1>6, <1>7, <1>8, <1>9, <1>10, <1>11, <1>12,
     <1>13, <1>14, <1>15, <1>16, <1>17, <1>18, <1>20, <1>21, <1>22, <1>23,
     <1>24, <1>25
  DEF Next, Operator, Environment, Create, Resume, Delete

\* The invariant holds of every behaviour.
THEOREM InductiveCorrect == Spec => []Inductive
<1>1. Init => Inductive
  <2> SUFFICES ASSUME Init PROVE Inductive
    OBVIOUS
  <2>1. TypeOK
    <3>1. redisUser \in BOOLEAN /\ owner \in BOOLEAN /\ listed \in BOOLEAN
      BY Zenon DEF Init
    <3> QED BY <3>1, EmptyReportType, PlanLength, BoundAssumption
            DEF Init, TypeOK
  <2> QED BY <2>1 DEF Init, Inductive, Phases, StatusTruthful, ReportTruthful,
                      PassedDeployed, RememberedDeployed
<1> QED BY <1>1, InductiveStep, PTL DEF Spec

\* The status of the Whisk object never shows on what is not all there.
THEOREM StatusCorrect == Spec => []StatusTruthful
<1>1. Inductive => StatusTruthful
  BY DEF Inductive
<1> QED BY <1>1, InductiveCorrect, PTL

\* A spec that kopf has as handled has its unguarded components deployed.
THEOREM HandledCorrect == Spec => []HandledComplete
<1>1. Inductive => HandledComplete
  BY DEF Inductive, RememberedDeployed, Deployed, HandledComplete
<1> QED BY <1>1, InductiveCorrect, PTL

\* Only whisk_create adds to the cluster: the resource of its present step.
LEMMA OnlyCreateAdds ==
  ASSUME Inductive, [Next]_vars, NEW r \in live' \ live
  PROVE  /\ handler = "create" /\ pos < CreateEnd /\ r = Current
         /\ Wanted(comps, Key(Current))
<1>1. CASE CreateStep
  BY <1>1 DEF CreateStep, Applied
<1>2. CASE CreateStepFails
  BY <1>2 DEF CreateStepFails, PartlyApplied, Applied
<1>3. CASE CreateStepRaises
  BY <1>3 DEF CreateStepRaises, PartlyApplied, Applied
<1>4. CASE Environment
  BY <1>4 DEF Environment, Install, Destroy, Collect, Crash, RedisRestart,
              ConfigFails, cluster
<1>5. CASE CreateStart \/ CreateSkip \/ PostCreate \/ CreateReturn
  BY <1>5 DEF CreateStart, CreateSkip, PostCreate, CreateReturn, cluster
<1>6. CASE Resume
  BY <1>6 DEF Resume, ResumeStart, ResumeRaises, ResumeStep, ResumeReturn, cluster
<1>7. CASE Delete
  BY <1>7 DEF Delete, DeleteStart, DeleteSkip, DeleteStep, DeleteStepFails,
              DeleteStepRaises, DeleteReturn, DeleteFailure, Removed, cluster
<1>8. CASE UNCHANGED vars
  BY <1>8 DEF vars, cluster
<1> QED BY <1>1, <1>2, <1>3, <1>4, <1>5, <1>6, <1>7, <1>8
        DEF Next, Operator, Create

\* FerretDB is never deployed before the Postgres it keeps its documents in.
THEOREM MongoCorrect == Spec => MongoOnPostgres
<1>1. ASSUME Inductive, [Next]_vars
      PROVE  "mongodb" \in live' \ live => "postgres" \in live
  <2> SUFFICES ASSUME "mongodb" \in live' \ live PROVE "postgres" \in live
    OBVIOUS
  <2>1. /\ handler = "create" /\ pos < CreateEnd /\ Current = "mongodb"
        /\ Wanted(comps, Key(Current))
    BY <1>1, OnlyCreateAdds
  <2>2. pos = 12
    BY <1>1, <2>1, PlanLength DEF Inductive, TypeOK, Current, CreatePlan
  <2>3. CreatePlan[11] = "postgres" /\ Key("postgres") = "postgres"
    BY DEF CreatePlan, Key
  <2>4. Wanted(comps, "postgres")
    BY <2>1 DEF Wanted, Key
  <2> QED BY <1>1, <2>1, <2>2, <2>3, <2>4, PlanLength
          DEF Inductive, PassedDeployed, Unguarded
<1> QED BY <1>1, InductiveCorrect, PTL DEF Spec, MongoOnPostgres
--------------------------------------------------------------------------------
\* A state without faults and crashes was preceded by one.
LEMMA StaysDisturbed ==
  ASSUME TypeOK, [Next]_vars, faults' = 0, crashes' = 0
  PROVE  faults = 0 /\ crashes = 0 /\ ~Fault /\ ~Crash /\ ~RedisRestart
<1>1. ~Fault /\ ~Crash /\ ~RedisRestart
  BY DEF Fault, Crash, RedisRestart, TypeOK
<1>2. CASE Environment
  BY <1>1, <1>2
  DEF Environment, Install, Destroy, Collect, ConfigFails, budget
<1>3. CASE Create
  BY <1>1, <1>3
  DEF Create, CreateStart, CreateSkip, CreateStep, CreateStepFails,
      CreateStepRaises, PostCreate, CreateReturn, budget
<1>4. CASE Resume
  BY <1>1, <1>4
  DEF Resume, ResumeStart, ResumeRaises, ResumeStep, ResumeReturn, budget
<1>5. CASE Delete
  <2>1. DeleteFailure => UNCHANGED faults
    BY <1>1 DEF DeleteFailure
  <2>2. CASE DeleteStepRaises
    BY <1>1, <2>1, <2>2 DEF DeleteStepRaises
  <2> QED
    BY <1>1, <1>5, <2>1, <2>2
    DEF Delete, DeleteStart, DeleteSkip, DeleteStep, DeleteStepFails,
        DeleteReturn, budget
<1>6. CASE UNCHANGED vars
  BY <1>1, <1>6 DEF vars, budget
<1> QED
  BY <1>1, <1>2, <1>3, <1>4, <1>5, <1>6 DEF Next, Operator

\* What the garbage collector will not take is one of four resources, and
\* whisk_delete has a step for each of them.
LEMMA LooseRemovable ==
  ASSUME TypeOK, Deletable, NEW r \in Loose
  PROVE  /\ r \in {"issuer", "endpoint", "minio-ingress", "static-ingress"}
         /\ \E i \in 1 .. Len(DeletePlan) : r = DeletePlan[i]
<1>1. r \in Resource \ Ownable /\ r # "apihost"
  BY DEF Loose, Deletable, TypeOK
<1>2. r \in {"issuer", "endpoint", "minio-ingress", "static-ingress"}
  BY <1>1 DEF Ownable
<1>3. /\ Len(DeletePlan) = 14
      /\ DeletePlan[3] = "endpoint" /\ DeletePlan[4] = "issuer"
      /\ DeletePlan[9] = "static-ingress" /\ DeletePlan[11] = "minio-ingress"
  BY DEF DeletePlan
<1> QED
  BY <1>2, <1>3

\* The condition whisk_delete tests holds wherever that of whisk_create held.
LEMMA WantedUnwanted ==
  ASSUME NEW c, NEW r \in {"issuer", "endpoint", "minio-ingress", "static-ingress"},
         Wanted(c, Key(r))
  PROVE  Unwanted(c, Key(r))
BY DEF Wanted, Unwanted, Key

\* What whisk_delete stands at and will not address is not loose.
LEMMA LooseAddressed ==
  ASSUME TypeOK, Deletable, Target \in Loose
  PROVE  Addressed
<1>1. Target \in {"issuer", "endpoint", "minio-ingress", "static-ingress"}
  BY LooseRemovable
<1> QED
  BY <1>1, WantedUnwanted DEF Addressed, Deletable, Ownable

\* A step of the deletion keeps what it passed removed when the part it stands
\* at is not loose after it.
LEMMA PassOne ==
  ASSUME TypeOK, PassedRemoved, handler = "delete", pos' = pos + 1,
         Loose' \subseteq Loose, Target \notin Loose'
  PROVE  PassedRemoved'
<1> SUFFICES ASSUME NEW i \in 1 .. Len(DeletePlan), i < pos'
             PROVE  DeletePlan[i] \notin Loose'
  BY DEF PassedRemoved
<1>1. pos \in Nat /\ i \in Nat
  BY PlanLength DEF TypeOK
<1>2. i < pos \/ i = pos
  BY <1>1
<1> QED
  BY <1>2 DEF PassedRemoved, Target

\* Nothing becomes loose when nothing is deployed, and collecting or removing a
\* resource takes the reference to its owner with it.
LEMMA FewerLoose ==
  /\ UNCHANGED cluster => Loose' = Loose
  /\ Removed => Loose' = Loose \ {Target}
  /\ \A r \in owned : live' = live \ {r} /\ owned' = owned \ {r} => Loose' = Loose
BY DEF Loose, cluster, Removed

\* The steps that touch neither the cluster nor cfg.
LEMMA KeepsDeletable ==
  ASSUME Deletable, UNCHANGED << cluster, memory >>
  PROVE  Deletable' /\ Loose' = Loose
BY DEF Deletable, Loose, cluster, memory

\* Each step keeps what holds of an undisturbed installation.
LEMMA UndisturbedStep ==
  ASSUME Inductive, Undisturbed, [Next]_vars
  PROVE  Undisturbed'
<1> SUFFICES ASSUME faults' = 0, crashes' = 0
             PROVE  CreatedOnce' /\ Deletable' /\ PassedRemoved'
  BY DEF Undisturbed
<1>0. /\ CreatedOnce /\ Deletable /\ PassedRemoved /\ TypeOK /\ Phases
      /\ ~Fault /\ ~Crash /\ ~RedisRestart
  BY StaysDisturbed DEF Undisturbed, Inductive
<1>1. CASE Install
  <2>1. handler = "idle"
    BY <1>0, <1>1 DEF Install, Phases, TypeOK
  <2> QED
    BY <1>0, <1>1, <2>1, KeepsDeletable
    DEF Install, CreatedOnce, PassedRemoved, running
<1>2. CASE Destroy
  BY <1>0, <1>2, KeepsDeletable DEF Destroy, CreatedOnce, PassedRemoved, running
<1>3. CASE Collect
  <2>1. PICK r \in owned : live' = live \ {r} /\ owned' = owned \ {r}
    BY <1>3 DEF Collect
  <2>2. Loose' = Loose
    BY <2>1, FewerLoose
  <2>3. Deletable'
    BY <1>0, <1>3, <2>1, <2>2 DEF Collect, Deletable, memory
  <2> QED
    BY <1>0, <1>3, <2>2, <2>3 DEF Collect, CreatedOnce, PassedRemoved, running, api
<1>4. CASE CreateStart
  <2>1. Loose = {} /\ ~listed /\ Loose' = Loose /\ handled = NoSpec
    BY <1>0, <1>4, FewerLoose DEF CreateStart, Runnable, CreatedOnce
  <2>2. owner' /\ handler' = "create" /\ UNCHANGED << cluster, listed, cr, handled >>
    BY <1>0, <1>4 DEF CreateStart, Start, api
  <2> QED
    BY <1>0, <2>1, <2>2
    DEF CreatedOnce, Deletable, PassedRemoved, cluster
<1>5. CASE CreateSkip
  BY <1>0, <1>5, KeepsDeletable DEF CreateSkip, CreatedOnce, PassedRemoved, api
<1>6. CASE CreateStep
  <2>1. Applied /\ handler = "create" /\ Wanted(comps, Key(Current))
        /\ UNCHANGED << cr, handled, comps, handler, owner, listed >>
    BY <1>6 DEF CreateStep, api
  <2>2. owner /\ cr # "none"
    BY <1>0, <2>1 DEF CreatedOnce, Phases
  <2>3. Loose' \subseteq Loose \cup ({Current} \ Ownable)
    BY <2>1, <2>2 DEF Applied, Loose
  <2>4. Deletable'
    <3>1. specs \subseteq specs' /\ (Current = "issuer" => "issuer" \in specs')
      BY <2>1 DEF Applied, Kept
    <3>2. live' \cap Ownable \subseteq owned'
      BY <1>0, <2>1, <2>2 DEF Applied, Deletable
    <3> QED
      BY <1>0, <2>1, <2>3, <3>1, <3>2 DEF Deletable
  <2> QED
    BY <1>0, <2>1, <2>2, <2>4 DEF CreatedOnce, PassedRemoved
<1>7. CASE PostCreate
  BY <1>0, <1>7, KeepsDeletable
  DEF PostCreate, CreatedOnce, PassedRemoved, api
<1>8. CASE CreateReturn
  <2>1. handler = "create" /\ handled = NoSpec /\ ~listed /\ comps # NoSpec /\ cr # "none"
    BY <1>0, <1>8 DEF CreateReturn, CreatedOnce, TypeOK, NoSpec, Switch, Component, Setting, Phases
  <2>2. Needed = {"create"}
    BY <2>1 DEF Needed
  <2>3. handled' = comps /\ ~listed' /\ handler' = "idle" /\ cr' = cr
    BY <1>8, <2>2 DEF CreateReturn, Succeed, Raise
  <2> QED
    BY <1>0, <1>8, <2>1, <2>3, KeepsDeletable
    DEF CreateReturn, CreatedOnce, PassedRemoved
<1>9. CASE ResumeStart
  BY <1>0, <1>9 DEF ResumeStart, Runnable, CreatedOnce
<1>10. CASE ResumeRaises
  BY <1>0, <1>10, KeepsDeletable
  DEF ResumeRaises, Raise, CreatedOnce, PassedRemoved, api
<1>11. CASE ResumeStep
  <2>1. Deletable' /\ Loose' = Loose
    BY <1>0, <1>11 DEF ResumeStep, Deletable, Loose, memory
  <2> QED
    BY <1>0, <1>11, <2>1 DEF ResumeStep, CreatedOnce, PassedRemoved, api
<1>12. CASE ResumeReturn
  <2>1. handler' = "idle" /\ cr # "none" /\ handler = "resume"
        /\ UNCHANGED << cr, cluster, memory >>
    BY <1>0, <1>12 DEF ResumeReturn, Succeed, Raise, Phases
  <2>2. ~listed' /\ (handled' = NoSpec => handled = NoSpec)
    BY <1>0, <1>12
    DEF ResumeReturn, Succeed, CreatedOnce, TypeOK, NoSpec, Switch, Component, Setting
  <2> QED
    BY <1>0, <2>1, <2>2, KeepsDeletable DEF CreatedOnce, PassedRemoved
<1>13. CASE DeleteStart
  <2>1. PassedRemoved'
    <3>1. pos' = 1
      BY <1>13 DEF DeleteStart, Start
    <3> QED
      BY <3>1 DEF PassedRemoved
  <2> QED
    BY <1>0, <1>13, <2>1, KeepsDeletable DEF DeleteStart, Start, Runnable, CreatedOnce, api
<1>14. CASE DeleteSkip
  <2>1. Target \notin Loose
    BY <1>0, <1>14, LooseAddressed DEF DeleteSkip
  <2>2. Deletable' /\ Loose' = Loose
    BY <1>0, <1>14, KeepsDeletable DEF DeleteSkip
  <2>3. PassedRemoved'
    BY <1>0, <1>14, <2>1, <2>2, PassOne DEF DeleteSkip
  <2> QED
    BY <1>0, <1>14, <2>2, <2>3 DEF DeleteSkip, CreatedOnce, api
<1>15. CASE DeleteStep
  <2>1. Loose' = Loose \ {Target}
    BY <1>15, FewerLoose DEF DeleteStep
  <2>2. Deletable'
    BY <1>0, <1>15, <2>1 DEF DeleteStep, Removed, Deletable
  <2>3. PassedRemoved'
    BY <1>0, <1>15, <2>1, PassOne DEF DeleteStep
  <2> QED
    BY <1>0, <1>15, <2>1, <2>2, <2>3 DEF DeleteStep, CreatedOnce, api
<1>16. CASE DeleteStepFails
  <2>1. Target \notin live /\ UNCHANGED << cluster, memory >>
    BY <1>0, <1>16 DEF DeleteStepFails, DeleteFailure
  <2>2. Deletable' /\ Loose' = Loose /\ Target \notin Loose
    BY <1>0, <2>1, KeepsDeletable DEF Loose
  <2>3. PassedRemoved'
    BY <1>0, <1>16, <2>2, PassOne DEF DeleteStepFails
  <2> QED
    BY <1>0, <1>16, <2>2, <2>3 DEF DeleteStepFails, CreatedOnce, api
<1>17. CASE DeleteStepRaises
  <2>1. UNCHANGED << cluster, memory, cr, handled, listed >> /\ handler' = "idle"
        /\ handler = "delete"
    BY <1>0, <1>17 DEF DeleteStepRaises, DeleteFailure, Raise, memory, api
  <2> QED
    BY <1>0, <2>1, KeepsDeletable DEF CreatedOnce, PassedRemoved
<1>18. CASE DeleteReturn
  <2>1. Loose = {}
    <3> SUFFICES ASSUME NEW r \in Loose PROVE FALSE
      OBVIOUS
    <3>1. PICK i \in 1 .. Len(DeletePlan) : r = DeletePlan[i]
      BY <1>0, LooseRemovable
    <3>2. i < pos
      BY <1>18, <3>1 DEF DeleteReturn, DeleteEnd, DeletePlan
    <3> QED
      BY <1>0, <1>18, <3>1, <3>2 DEF DeleteReturn, PassedRemoved
  <2> QED
    BY <1>0, <1>18, <2>1, KeepsDeletable
    DEF DeleteReturn, Raise, CreatedOnce, PassedRemoved
<1>19. CASE UNCHANGED vars
  BY <1>0, <1>19, KeepsDeletable
  DEF vars, api, running, CreatedOnce, PassedRemoved
<1> QED
  BY <1>0, <1>1, <1>2, <1>3, <1>4, <1>5, <1>6, <1>7, <1>8, <1>9, <1>10, <1>11,
     <1>12, <1>13, <1>14, <1>15, <1>16, <1>17, <1>18, <1>19
  DEF Next, Operator, Environment, Create, Resume, Delete, ConfigFails,
      CreateStepFails, CreateStepRaises

\* A deletion nothing disturbed leaves only what Kubernetes collects, and the
\* annotations of the operator's own config map.
THEOREM DestroyedCorrect == Spec => []DestroyedClean
<1>1. Init => Undisturbed
  BY DEF Init, Undisturbed, CreatedOnce, Deletable, PassedRemoved, Loose
<1>2. Inductive /\ Inductive' /\ Undisturbed /\ [Next]_vars => Undisturbed'
  BY UndisturbedStep
<1>3. Undisturbed => DestroyedClean
  BY DEF Undisturbed, CreatedOnce, Loose, DestroyedClean
<1> QED
  BY <1>1, <1>2, <1>3, InductiveCorrect, PTL DEF Spec
--------------------------------------------------------------------------------
(***************************************************************************)
(* WhiskUpdate: the same with edits of the spec and the patcher.           *)
(***************************************************************************)
\* The patcher looks at eight keys.
LEMMA PatchPlanFacts ==
  /\ Len(PatchPlan) = 8 /\ PatchEnd = 9
  /\ \A i \in 1 .. 8 : PatchPlan[i] \in PatchKey
  /\ PatchKey = {"postgres", "mongodb", "redis", "cron", "minio", "static",
                 "openwhisk", "endpoint"}
<1>1. Len(PatchPlan) = 8
  BY DEF PatchPlan
<1>2. \A i \in 1 .. 8 : PatchPlan[i] \in PatchKey
  BY <1>1 DEF PatchKey
<1>3. PatchKey = {"postgres", "mongodb", "redis", "cron", "minio", "static",
                  "openwhisk", "endpoint"}
  BY <1>1 DEF PatchKey, PatchPlan
<1> QED
  BY <1>1, <1>2, <1>3 DEF PatchEnd

\* What kopf's diff makes of a key other than static.
LEMMA ActionTypes ==
  ASSUME NEW old, NEW new, NEW k \in PatchKey
  PROVE  /\ Action(old, new, k) \in {"none", "create", "delete", "update"}
         /\ StaticActions(old, new) \subseteq {"none", "create", "delete", "update"}
BY DEF Action, StaticActions, Switched

\* OpenWhisk and its endpoint are only ever updated.
LEMMA ActionUpdates ==
  ASSUME NEW old, NEW new, NEW k \in {"openwhisk", "endpoint"}
  PROVE  Action(old, new, k) \in {"update", "none"}
<1>1. CASE k = "openwhisk"
  BY <1>1 DEF Action
<1>2. CASE k = "endpoint"
  BY <1>2 DEF Action
<1> QED
  BY <1>1, <1>2

\* The plan of an update has an action for each key.
LEMMA WhatToDoTypes ==
  ASSUME NEW old, NEW new, NEW t \in WhatToDo(old, new)
  PROVE  /\ t \in [PatchKey -> {"none", "create", "delete", "update"}]
         /\ \A k \in PatchKey : k # "static" => t[k] = Action(old, new, k)
         /\ t["static"] \in StaticActions(old, new)
<1>1. PICK a \in StaticActions(old, new) :
        t = [k \in PatchKey |-> IF k = "static" THEN a ELSE Action(old, new, k)]
  BY DEF WhatToDo
<1>2. a \in {"none", "create", "delete", "update"}
  BY PatchPlanFacts, ActionTypes
<1> QED
  BY <1>1, <1>2, PatchPlanFacts, ActionTypes

\* Deploying resources leaves the cluster and the memory well typed.
LEMMA DeployTypes ==
  ASSUME TypeOK, NEW rs \in SUBSET Resource, Deploy(rs)
  PROVE  /\ live' = live \cup rs /\ live' \in SUBSET Resource
         /\ owned' \in SUBSET Ownable
         /\ specs' \in SUBSET (Ownable \cup {"issuer"})
BY DEF TypeOK, Deploy

LEMMA PartsTypes == \A k : Parts(k) \subseteq Resource
BY DEF Parts

LEMMA IssuerResource == "issuer" \in Resource
<1>1. CreatePlan[4] = "issuer"
  BY DEF CreatePlan
<1> QED
  BY <1>1, PlanLength DEF Resource

LEMMA DeployPartTypes ==
  ASSUME TypeOK, NEW k, DeployPart(k)
  PROVE  /\ live \subseteq live' /\ live' \in SUBSET Resource
         /\ owned' \in SUBSET Ownable
         /\ specs' \in SUBSET (Ownable \cup {"issuer"})
<1>1. PICK rs \in SUBSET Parts(k) : Deploy(rs)
  BY DEF DeployPart
<1> QED
  BY <1>1, DeployTypes, PartsTypes

\* The steps of the patcher and the edits keep every variable in its type.
LEMMA UpdateTypeStep ==
  ASSUME UpdateTypeOK, [UpdateNext]_updateVars
  PROVE  UpdateTypeOK'
<1> USE PlanLength, PatchPlanFacts, BoundAssumption, MaxEditsAssumption DEF UpdateTypeOK
<1>1. CASE Next /\ UNCHANGED << todo, user >>
  BY <1>1, TypeStep DEF user
<1>2. CASE Edit
  <2>1. spec' \in SUBSET Switch
    BY <1>2, EditsAssumption DEF Edit
  <2>2. grown' \in BOOLEAN
    BY <1>2, Zenon DEF Edit
  <2> QED
    BY <1>2, <2>1, <2>2 DEF Edit, TypeOK, cluster, memory, running, budget
<1>3. CASE UpdateStart
  <2>1. owner' \in BOOLEAN
    BY <1>3, Zenon DEF UpdateStart
  <2>2. todo' \in [PatchKey -> {"none", "create", "delete", "update"}]
    BY <1>3, WhatToDoTypes DEF UpdateStart
  <2> QED
    BY <1>3, <2>1, <2>2
    DEF UpdateStart, ConfigFromSpec, Fault, TypeOK, api, cluster, user
<1>4. CASE PatchSkip
  BY <1>4 DEF PatchSkip, Patching, TypeOK, api, cluster, memory, budget, user
<1>5. CASE PatchCreate
  <2>1. /\ live' \in SUBSET Resource /\ owned' \in SUBSET Ownable
        /\ specs' \in SUBSET (Ownable \cup {"issuer"})
    BY <1>5, DeployTypes, DeployPartTypes, PartsTypes DEF PatchCreate
  <2>2. redisUser' \in BOOLEAN
    BY <1>5, Zenon DEF PatchCreate, TypeOK
  <2>3. faults' \in 0 .. MaxFaults
    BY <1>5 DEF PatchCreate, Fault, TypeOK
  <2> QED
    BY <1>5, <2>1, <2>2, <2>3 DEF PatchCreate, Patching, TypeOK, api, user
<1>6. CASE PatchRaises
  <2>1. /\ live' \in SUBSET Resource /\ owned' \in SUBSET Ownable
        /\ specs' \in SUBSET (Ownable \cup {"issuer"})
    <3>1. ASSUME NEW k, Remove(k)
          PROVE  /\ live' \in SUBSET Resource /\ owned' \in SUBSET Ownable
                 /\ specs' \in SUBSET (Ownable \cup {"issuer"})
      BY <3>1 DEF Remove, TypeOK
    <3> QED
      BY <1>6, <3>1, DeployTypes, DeployPartTypes, IssuerResource DEF PatchRaises
  <2>2. redisUser' \in BOOLEAN
    <3>1. ASSUME NEW k, Remove(k)
          PROVE  redisUser' \in BOOLEAN
      BY <3>1, Zenon DEF Remove
    <3> QED
      BY <1>6, <3>1 DEF PatchRaises, TypeOK
  <2> QED
    BY <1>6, <2>1, <2>2 DEF PatchRaises, Raise, TypeOK, api, budget, user
<1>7. CASE PostUpdate
  BY <1>7 DEF PostUpdate, Raise, Fault, TypeOK, api, cluster, memory, user
<1>8. CASE UpdateReturn
  BY <1>8, SucceedType DEF UpdateReturn, TypeOK, cluster, memory, budget, user
<1>9. CASE UpdateConfigFails
  BY <1>9 DEF UpdateConfigFails, ConfigFromSpec, Fault, TypeOK, api, cluster, running, user
<1>10. CASE UNCHANGED updateVars
  BY <1>10, TypeStep DEF updateVars, user
<1> QED
  BY <1>1, <1>2, <1>3, <1>4, <1>5, <1>6, <1>7, <1>8, <1>9, <1>10
  DEF UpdateNext, Update

LEMMA UpdateTypeInitially == UpdateInit => UpdateTypeOK
<1> SUFFICES ASSUME UpdateInit PROVE UpdateTypeOK
  OBVIOUS
<1>1. redisUser \in BOOLEAN /\ owner \in BOOLEAN /\ listed \in BOOLEAN
      /\ grown \in BOOLEAN
  BY Zenon DEF UpdateInit, Init
<1>2. TypeOK
  BY <1>1, EmptyReportType, PlanLength, BoundAssumption DEF UpdateInit, Init, TypeOK
<1> QED
  BY <1>1, <1>2, MaxEditsAssumption DEF UpdateInit, NoChange, UpdateTypeOK

\* Under edits, too, every variable keeps to its type.
THEOREM UpdateTypeCorrect == UpdateSpec => []UpdateTypeOK
BY UpdateTypeInitially, UpdateTypeStep, PTL DEF UpdateSpec
--------------------------------------------------------------------------------
\* No handler runs without its object, and the plan of an update in progress
\* stays the difference it was made of.
LEMMA PlannedStep ==
  ASSUME UpdateTypeOK, Planned, [UpdateNext]_updateVars
  PROVE  Planned'
<1> USE DEF Planned
<1>1. CASE Next /\ UNCHANGED << todo, user >>
  <2>1. ASSUME UNCHANGED << handler, handled, comps >>, cr' = cr
        PROVE  Planned'
    BY <1>1, <2>1
  <2>2. ASSUME handler' = "idle"
        PROVE  Planned'
    BY <2>2
  <2>3. CASE Environment
    <3>1. \/ handler = "idle" /\ handler' = "idle"
          \/ UNCHANGED << handler, handled, comps >> /\ (cr' = cr \/ cr' = "deleting")
          \/ handler' = "idle"
      BY <2>3
      DEF UpdateTypeOK, TypeOK, Environment, Install, Destroy, Collect, Crash, RedisRestart,
          ConfigFails, Runnable, api, memory, running
    <3> QED
      BY <1>1, <2>2, <3>1
  <2>4. CASE CreateStart \/ ResumeStart \/ DeleteStart
    BY <2>4 DEF CreateStart, ResumeStart, DeleteStart, Runnable, Start, api
  <2>5. CASE CreateSkip \/ CreateStep \/ CreateStepFails \/ ResumeStep
    BY <2>5 DEF CreateSkip, CreateStep, CreateStepFails, ResumeStep, api
  <2>6. CASE PostCreate
    BY <2>6 DEF PostCreate, Raise, api
  <2>7. CASE DeleteSkip \/ DeleteStep \/ DeleteStepFails
    BY <2>7 DEF DeleteSkip, DeleteStep, DeleteStepFails, api
  <2>8. CASE CreateStepRaises \/ CreateReturn \/ ResumeRaises \/ ResumeReturn
             \/ DeleteStepRaises \/ DeleteReturn
    BY <2>2, <2>8
    DEF CreateStepRaises, CreateReturn, ResumeRaises, ResumeReturn, DeleteStepRaises,
        DeleteReturn, Succeed, Raise
  <2> QED
    BY <1>1, <2>3, <2>4, <2>5, <2>6, <2>7, <2>8
    DEF Next, Operator, Create, Resume, Delete
<1>2. CASE Edit
  BY <1>2 DEF Edit, memory, running
<1>3. CASE UpdateStart
  BY <1>3 DEF UpdateStart, ConfigFromSpec, api
<1>4. CASE PatchSkip \/ PatchCreate
  BY <1>4 DEF PatchSkip, PatchCreate, api, memory
<1>5. CASE PatchRaises \/ PostUpdate \/ UpdateReturn
  BY <1>5 DEF PatchRaises, PostUpdate, UpdateReturn, Succeed, Raise, api, memory
<1>6. CASE UpdateConfigFails
  BY <1>6 DEF UpdateConfigFails, api, running
<1>7. CASE UNCHANGED updateVars
  BY <1>7 DEF updateVars, vars, api, memory, running
<1> QED
  BY <1>1, <1>2, <1>3, <1>4, <1>5, <1>6, <1>7 DEF UpdateNext, Update

\* What an update takes away its plan says to remove, or it is static, removed
\* where it was to be updated.
LEMMA PatchTakes ==
  ASSUME UpdateTypeOK, Planned, PatchRaises, NEW r \in live \ live'
  PROVE  /\ Key(r) \in PatchKey /\ todo[Key(r)] # "create"
         /\ \/ /\ todo[Key(r)] = "delete" /\ Key(r) \in handled \ comps
               /\ Key(r) \notin {"openwhisk", "endpoint"}
            \/ todo[Key(r)] = "update" /\ Key(r) = "static"
               /\ Readdressed(handled, comps) /\ "static" \in comps
<1>1. handler = "update" /\ pos \in 1 .. 8
  BY PatchPlanFacts DEF PatchRaises, Patching, UpdateTypeOK, TypeOK
<1>2. Patched \in PatchKey /\ todo \in WhatToDo(handled, comps)
  BY <1>1, PatchPlanFacts DEF Patched, Planned
<1>3. /\ r \in Parts(Patched)
      /\ Patched \notin {"minio", "endpoint"} \/ todo[Patched] = "delete"
  <2>1. ~(DeployPart(Patched) \/ Deploy({"issuer"}))
    BY DEF DeployPart, Deploy
  <2> QED
    BY <2>1 DEF PatchRaises, Remove
<1>4. Key(r) = Patched
  BY <1>3 DEF Parts
<1>5. CASE Patched # "static"
  <2>1. todo[Patched] = Action(handled, comps, Patched)
    BY <1>2, <1>5, WhatToDoTypes
  <2>2. todo[Patched] # "none" /\ ~PatchCreates
    BY DEF PatchRaises
  <2>3. Patched \notin {"openwhisk", "endpoint"}
    <3>1. Action(handled, comps, "openwhisk") \in {"update", "none"}
          /\ Action(handled, comps, "endpoint") \in {"update", "none"}
      BY ActionUpdates
    <3>2. Patched # "openwhisk"
      BY <2>1, <2>2, <3>1 DEF PatchCreates
    <3>3. Patched # "endpoint"
      BY <1>3, <2>1, <2>2, <3>1
    <3> QED
      BY <3>2, <3>3
  <2>4. todo[Patched] = "delete" /\ Patched \in handled \ comps
    BY <1>3, <2>1, <2>2, <2>3 DEF Action, Switched, PatchCreates
  <2> QED
    BY <1>2, <1>4, <2>3, <2>4
<1>6. CASE Patched = "static"
  <2>1. todo[Patched] \in StaticActions(handled, comps)
    BY <1>2, <1>6, WhatToDoTypes
  <2>2. todo[Patched] # "none" /\ ~PatchCreates
    BY DEF PatchRaises
  <2> QED
    BY <1>2, <1>4, <1>6, <2>1, <2>2 DEF StaticActions, Action, Switched, PatchCreates
<1> QED
  BY <1>5, <1>6

\* An update takes away nothing that the new spec still asks for, but for static
\* under a new address and Postgres under FerretDB.
THEOREM UpdateKeepsCorrect == UpdateSpec => UpdateKeepsWanted
<1>1. UpdateInit => Planned
  BY DEF UpdateInit, Init, Planned
<1>2. ASSUME UpdateTypeOK, Planned, [UpdateNext]_updateVars, handler = "update",
             NEW r \in live \ live', Wanted(comps, Key(r))
      PROVE  \/ Key(r) = "static" /\ todo["static"] = "update"
             \/ Key(r) = "postgres" /\ "postgres" \notin comps
  <2>1. ~(Next \/ Edit \/ UpdateStart \/ PatchSkip \/ PatchCreate \/ PostUpdate
          \/ UpdateReturn \/ UpdateConfigFails \/ UNCHANGED updateVars)
    <3>1. ~Next
      <4>1. ~Create
        BY <1>2
        DEF Create, CreateStart, CreateSkip, CreateStep, CreateStepFails,
            CreateStepRaises, PostCreate, CreateReturn, Runnable
      <4>2. ~Resume
        BY <1>2
        DEF Resume, ResumeStart, ResumeRaises, ResumeStep, ResumeReturn, Runnable
      <4>3. ~Delete
        BY <1>2
        DEF Delete, DeleteStart, DeleteSkip, DeleteStep, DeleteStepFails,
            DeleteStepRaises, DeleteReturn, Runnable
      <4>4. ~Environment
        BY <1>2
        DEF Environment, Install, Destroy, Collect, Crash, RedisRestart,
            ConfigFails, Runnable, cluster, Planned
      <4> QED
        BY <4>1, <4>2, <4>3, <4>4 DEF Next, Operator
    <3>2. ~PatchCreate
      BY <1>2 DEF PatchCreate, Deploy, DeployPart
    <3> QED
      BY <1>2, <3>1, <3>2
      DEF Edit, UpdateStart, PatchSkip, PostUpdate, UpdateReturn,
          UpdateConfigFails, updateVars, vars, cluster
  <2>2. PatchRaises
    BY <1>2, <2>1 DEF UpdateNext, Update
  <2>3. /\ Key(r) \in PatchKey
        /\ \/ Key(r) \in handled \ comps /\ Key(r) \notin {"openwhisk", "endpoint"}
           \/ todo[Key(r)] = "update" /\ Key(r) = "static"
    BY <1>2, <2>2, PatchTakes
  <2>4. CASE Key(r) \in handled \ comps /\ Key(r) \notin {"openwhisk", "endpoint"}
    <3>1. Key(r) \notin {"preloader", "openwhisk", "endpoint", "issuer"}
      BY <2>3, <2>4, PatchPlanFacts
    <3> QED
      BY <1>2, <2>4, <3>1 DEF Wanted
  <2> QED
    BY <2>3, <2>4
<1>3. UpdateTypeOK /\ Planned /\ [UpdateNext]_updateVars
        => (handler = "update" =>
              \A r \in live \ live' : Wanted(comps, Key(r)) =>
                \/ Key(r) = "static" /\ todo["static"] = "update"
                \/ Key(r) = "postgres" /\ "postgres" \notin comps)
  BY <1>2
<1> QED
  BY <1>1, <1>3, PlannedStep, UpdateTypeCorrect, PTL DEF UpdateSpec, UpdateKeepsWanted
--------------------------------------------------------------------------------
\* Growing is transitive: several edits grow a spec as one does.
LEMMA GrowsTransitive ==
  \A a, b, c : Grows(a, b) /\ Grows(b, c) => Grows(a, c)
BY DEF Grows, Readdressed, Changed

LEMMA GrowsReflexive == \A a : Grows(a, a)
BY DEF Grows, Readdressed, Changed

\* What a creation that passed the plan leaves is complete.
LEMMA CreatedAll ==
  ASSUME Created, handler = "create", pos > 15, pos \in Int
  PROVE  Complete(comps)
<1> SUFFICES ASSUME NEW r \in Resource, Wanted(comps, Key(r))
             PROVE  r \in live
  BY DEF Complete
<1>1. PICK i \in 1 .. 15 : r = CreatePlan[i]
  BY PlanLength DEF Resource
<1> QED
  BY <1>1, PlanLength DEF Created

\* The components whose condition is their own switch.
LEMMA KeysOfResources ==
  \A r \in Resource : Key(r) \in {"preloader", "couchdb", "redis", "issuer", "cron",
    "minio", "static", "postgres", "mongodb", "openwhisk", "endpoint"}
<1> SUFFICES ASSUME NEW r \in Resource
             PROVE  Key(r) \in {"preloader", "couchdb", "redis", "issuer", "cron",
                      "minio", "static", "postgres", "mongodb", "openwhisk", "endpoint"}
  OBVIOUS
<1>1. PICK i \in 1 .. 15 : r = CreatePlan[i]
  BY PlanLength DEF Resource
<1> QED
  BY <1>1 DEF CreatePlan, Key

\* A patcher that passed the plan completes what was complete.
LEMMA PatchedAll ==
  ASSUME Planned, Patches, Complete(handled), handler = "update", pos > 8, pos \in Int
  PROVE  Complete(comps)
<1> SUFFICES ASSUME NEW r \in Resource, Wanted(comps, Key(r)), r \notin live
             PROVE  FALSE
  BY DEF Complete
<1>1. Grows(handled, comps) /\ todo \in WhatToDo(handled, comps) /\ ~Wanted(handled, Key(r))
  BY DEF Patches, Planned, Complete
<1>2. \A k \in PatchKey : todo[k] # "none" => Parts(k) \subseteq live
  <2> SUFFICES ASSUME NEW k \in PatchKey
               PROVE  todo[k] # "none" => Parts(k) \subseteq live
    OBVIOUS
  <2>1. PICK i \in 1 .. 8 : k = PatchPlan[i]
    BY PatchPlanFacts DEF PatchKey
  <2> QED
    BY <2>1, PatchPlanFacts DEF Patches
<1>3. todo["endpoint"] = "none"
  <2>1. PatchPlan[8] = "endpoint"
    BY DEF PatchPlan
  <2> QED
    BY <2>1, PatchPlanFacts DEF Patches
<1>4. ~Readdressed(handled, comps)
  <2>1. todo["endpoint"] = Action(handled, comps, "endpoint")
    BY <1>1, WhatToDoTypes, PatchPlanFacts
  <2> QED
    BY <1>3, <2>1 DEF Action
<1>5. ASSUME NEW k \in {"redis", "cron", "minio", "static", "mongodb", "postgres"},
             k \in comps \ handled
      PROVE  Parts(k) \subseteq live
  <2>1. Action(handled, comps, k) = "create"
    BY <1>5 DEF Action, Switched
  <2>2. k # "static" => todo[k] = "create"
    BY <1>1, <1>5, <2>1, WhatToDoTypes, PatchPlanFacts
  <2>3. k = "static" => todo[k] = "create"
    BY <1>1, <1>4, <2>1, WhatToDoTypes DEF StaticActions
  <2> QED
    BY <1>2, <2>2, <2>3, PatchPlanFacts
<1>6. r \in Parts(Key(r))
  BY DEF Parts
<1>7. CASE Key(r) \in {"preloader", "openwhisk", "endpoint"}
  BY <1>1, <1>7 DEF Wanted, Grows
<1>8. CASE Key(r) = "issuer"
  BY <1>1, <1>4, <1>8 DEF Wanted, Readdressed, Changed
<1>9. CASE Key(r) = "couchdb"
  BY <1>1, <1>9 DEF Wanted, Grows
<1>10. CASE Key(r) = "postgres"
  <2>1. "postgres" \in comps \ handled
    BY <1>1, <1>10 DEF Wanted, Grows
  <2> QED
    BY <1>5, <1>6, <1>10, <2>1
<1>11. CASE Key(r) \in {"redis", "cron", "minio", "static", "mongodb"}
  <2>1. Key(r) \in comps \ handled
    BY <1>1, <1>11 DEF Wanted
  <2> QED
    BY <1>5, <1>6, <1>11, <2>1
<1> QED
  BY <1>7, <1>8, <1>9, <1>10, <1>11, KeysOfResources
--------------------------------------------------------------------------------
\* A state of an undisturbed growth was preceded by one.
LEMMA StaysSmooth ==
  ASSUME UpdateTypeOK, [UpdateNext]_updateVars, Smooth'
  PROVE  Smooth /\ ~Fault /\ ~Crash /\ ~RedisRestart
<1>1. faults' = 0 /\ crashes' = 0 /\ grown'
  BY DEF Smooth
<1>2. ~Fault
  BY <1>1 DEF Fault, UpdateTypeOK, TypeOK
<1>3. grown
  BY <1>1
  DEF UpdateNext, Update, UpdateStart, PatchSkip, PatchCreate, PatchRaises,
      PostUpdate, UpdateReturn, Edit, UpdateConfigFails, user, updateVars
<1>4. CASE [Next]_vars
  BY <1>1, <1>3, <1>4, StaysDisturbed DEF UpdateTypeOK, Smooth
<1>5. CASE ~[Next]_vars
  <2>1. faults = 0 /\ crashes = 0
    BY <1>1, <1>2, <1>5
    DEF UpdateNext, Update, UpdateStart, PatchSkip, PatchCreate, PatchRaises,
        PostUpdate, UpdateReturn, Edit, UpdateConfigFails, updateVars, budget
  <2>2. ~Crash /\ ~RedisRestart
    BY <1>1, <2>1 DEF Crash, RedisRestart
  <2> QED
    BY <1>1, <1>2, <1>3, <2>1, <2>2 DEF Smooth
<1> QED
  BY <1>4, <1>5

\* Outside of a creation and an update nothing that is wanted goes.
LEMMA KeepsGrowth ==
  ASSUME Growth, ~listed', handler' \in {"idle", "delete"},
         cr' = "present" =>
           cr = "present" /\ live \subseteq live' /\ UNCHANGED << handled, spec >>
  PROVE  Growth'
BY DEF Growth, Created, Patches, Complete

\* A handler that stays where it is loses nothing either.
LEMMA StaysGrowth ==
  ASSUME Growth, UNCHANGED << handler, pos, handled, spec, comps, todo, listed >>,
         cr' = "present" => cr = "present", live \subseteq live'
  PROVE  Growth'
BY DEF Growth, Created, Patches, Complete

\* A step of the creation, taken or skipped.
LEMMA CreateGrowth ==
  ASSUME UpdateTypeOK, Growth, handler = "create", pos' = pos + 1,
         UNCHANGED << handler, handled, spec, comps, listed, cr >>,
         live \subseteq live',
         pos \in 1 .. 15 /\ Wanted(comps, Key(CreatePlan[pos])) => CreatePlan[pos] \in live'
  PROVE  Growth'
<1>1. Created'
  <2> SUFFICES ASSUME NEW i \in 1 .. Len(CreatePlan), i < pos',
                      Wanted(comps, Key(CreatePlan[i]))
               PROVE  CreatePlan[i] \in live'
    BY DEF Growth, Created
  <2>1. pos \in Int /\ Len(CreatePlan) = 15
    BY PlanLength DEF UpdateTypeOK, TypeOK
  <2>2. i < pos \/ i = pos
    BY <2>1
  <2> QED
    BY <2>1, <2>2 DEF Growth, Created
<1> QED
  BY <1>1 DEF Growth, Patches, Complete

\* A step of the patcher, taken or skipped.
LEMMA PatchGrowth ==
  ASSUME UpdateTypeOK, Growth, handler = "update", pos' = pos + 1,
         UNCHANGED << handler, handled, spec, comps, todo, listed, cr >>,
         live \subseteq live',
         pos \in 1 .. 8 =>
           /\ todo[PatchPlan[pos]] # "none" => Parts(PatchPlan[pos]) \subseteq live'
           /\ PatchPlan[pos] = "endpoint" => todo["endpoint"] = "none"
  PROVE  Growth'
<1>1. Patches'
  <2> SUFFICES ASSUME NEW i \in 1 .. Len(PatchPlan), i < pos'
               PROVE  /\ todo[PatchPlan[i]] # "none" => Parts(PatchPlan[i]) \subseteq live'
                      /\ PatchPlan[i] = "endpoint" => todo["endpoint"] = "none"
    BY DEF Growth, Patches
  <2>1. pos \in Int /\ Len(PatchPlan) = 8
    BY PlanLength, PatchPlanFacts DEF UpdateTypeOK, TypeOK
  <2>2. i < pos \/ i = pos
    BY <2>1
  <2> QED
    BY <2>1, <2>2 DEF Growth, Patches
<1> QED
  BY <1>1 DEF Growth, Created, Complete
--------------------------------------------------------------------------------
\* A handler that returns ends, and kopf may take what it saw for handled.
LEMMA SucceedOutcome ==
  ASSUME NEW h, Succeed(h)
  PROVE  /\ handler' = "idle" /\ pos' = 1
         /\ handled' = handled \/ handled' = comps
         /\ ~listed => ~listed'
<1>1. CASE Needed \subseteq done \cup {h}
  BY <1>1 DEF Succeed, Raise
<1>2. CASE ~(Needed \subseteq done \cup {h})
  BY <1>2 DEF Succeed, Raise
<1> QED
  BY <1>1, <1>2

\* The steps of WhiskOperator keep a growth.
LEMMA OperatorGrows ==
  ASSUME UpdateTypeOK, Planned, Growth, Next, UNCHANGED << todo, user >>,
         ~Fault, ~Crash, ~RedisRestart
  PROVE  Growth'
<1>0. ~listed /\ handler # "resume"
  BY DEF Growth
<1>1. CASE Environment
  <2>1. CASE Install
    <3>1. handler = "idle"
      BY <2>1 DEF Install, Planned, UpdateTypeOK, TypeOK
    <3> QED
      BY <1>0, <2>1, <3>1 DEF Install, Growth, Created, Patches, running
  <2>2. CASE Destroy
    BY <2>2, StaysGrowth DEF Destroy, running, memory, cluster
  <2>3. CASE Collect
    <3>1. handler \notin {"create", "update", "resume", "delete"}
      BY <2>3 DEF Collect, Planned
    <3> QED
      BY <1>0, <2>3, <3>1 DEF Collect, Growth, Created, Patches, running, api
  <2> QED
    BY <1>1, <2>1, <2>2, <2>3 DEF Environment, ConfigFails
<1>2. CASE CreateStart
  BY <1>0, <1>2, GrowsReflexive
  DEF CreateStart, Runnable, Start, ConfigFromSpec, Growth, Created, Patches, api
<1>3. CASE CreateSkip
  BY <1>3, CreateGrowth DEF CreateSkip, Current, api, cluster, memory
<1>4. CASE CreateStep
  <2>1. live' = live \cup {Current}
    BY <1>4 DEF CreateStep, Applied
  <2> QED
    BY <1>4, <2>1, CreateGrowth DEF CreateStep, Current, api
<1>5. CASE PostCreate
  <2>1. pos = 16 /\ pos' = pos + 1 /\ handler = "create"
        /\ UNCHANGED << handler, api, cluster, memory, listed >>
    BY <1>5, PlanLength DEF PostCreate
  <2> QED
    BY <2>1, CreateGrowth DEF api, cluster, memory
<1>6. CASE CreateReturn
  <2>1. handler = "create" /\ handler' = "idle" /\ pos = 17
        /\ (handled' = handled \/ handled' = comps) /\ ~listed'
        /\ UNCHANGED << cr, spec, live >>
    BY <1>0, <1>6, PlanLength, SucceedOutcome DEF CreateReturn, cluster
  <2>2. Grows(comps, spec) /\ Complete(comps) /\ handled = NoSpec
    BY <2>1, CreatedAll DEF Growth, Created
  <2> QED
    BY <1>0, <2>1, <2>2 DEF Growth, Created, Patches, Complete
<1>7. CASE Resume
  BY <1>0, <1>7
  DEF Resume, ResumeStart, ResumeRaises, ResumeStep, ResumeReturn, Runnable
<1>8. CASE Delete
  <2>1. cr' # "present" /\ handler' \in {"idle", "delete"} /\ ~listed'
    <3>1. CASE DeleteStart \/ DeleteReturn
      BY <1>0, <3>1 DEF DeleteStart, DeleteReturn, Runnable, Start, Raise, api
    <3>2. CASE DeleteSkip \/ DeleteStep \/ DeleteStepFails \/ DeleteStepRaises
      BY <1>0, <3>2 DEF DeleteSkip, DeleteStep, DeleteStepFails, DeleteStepRaises,
                  Raise, Planned, api
    <3> QED
      BY <1>8, <3>1, <3>2 DEF Delete
  <2> QED
    BY <1>0, <2>1, KeepsGrowth
<1> QED
  BY <1>1, <1>2, <1>3, <1>4, <1>5, <1>6, <1>7, <1>8
  DEF Next, Operator, Create, CreateStepFails, CreateStepRaises

\* The patcher keeps a growth.
LEMMA UpdateGrows ==
  ASSUME UpdateTypeOK, Planned, Growth, Update, ~Fault
  PROVE  Growth'
<1>0. ~listed /\ handler # "resume"
  BY DEF Growth
<1>1. CASE UpdateStart
  <2>1. handler' = "update" /\ pos' = 1 /\ comps' = spec /\ Grows(handled, spec)
        /\ UNCHANGED << cr, handled, spec, live, listed >>
    BY <1>1 DEF UpdateStart, ConfigFromSpec, Growth, api, cluster
  <2>2. Patches'
    BY <2>1, GrowsReflexive, PatchPlanFacts DEF Patches
  <2> QED
    BY <1>0, <2>1, <2>2 DEF Growth, Created, Complete
<1>2. CASE PatchSkip
  <2>1. todo[Patched] = "none" /\ UNCHANGED live
    BY <1>2 DEF PatchSkip, cluster
  <2> QED
    BY <1>2, <2>1, PatchGrowth DEF PatchSkip, Patching, Patched, api, memory
<1>3. CASE PatchCreate
  <2>1. live' = live \cup Parts(Patched)
    BY <1>3 DEF PatchCreate, Deploy
  <2>2. handler = "update" /\ pos \in 1 .. 8
    BY <1>3, PatchPlanFacts DEF PatchCreate, Patching, UpdateTypeOK, TypeOK
  <2>3. Patched # "endpoint"
    <3>1. todo \in WhatToDo(handled, comps) /\ PatchCreates
      BY <1>3, <2>2 DEF Planned, PatchCreate
    <3>2. todo["endpoint"] \in {"update", "none"}
      BY <3>1, WhatToDoTypes, PatchPlanFacts, ActionUpdates
    <3> QED
      BY <3>1, <3>2 DEF PatchCreates
  <2> QED
    BY <1>3, <2>1, <2>2, <2>3, PatchGrowth DEF PatchCreate, Patched, api
<1>4. CASE PatchRaises
  <2>1. handler = "update" /\ handler' = "idle"
        /\ UNCHANGED << cr, handled, spec, listed, comps >>
    BY <1>4 DEF PatchRaises, Patching, Raise, api
  <2>2. Grows(handled, comps)
    BY <2>1 DEF Growth, Patches
  <2>3. Complete(handled) => Complete(handled)'
    <3> SUFFICES ASSUME Complete(handled), NEW r \in Resource, Wanted(handled, Key(r)),
                        r \notin live'
                 PROVE  FALSE
      BY <2>1 DEF Complete
    <3>1. r \in live \ live'
      BY DEF Complete
    <3>2. Key(r) = "static" /\ Readdressed(handled, comps)
      BY <1>4, <2>2, <3>1, PatchTakes DEF Grows
    <3> QED
      BY <2>2, <3>2 DEF Wanted, Grows
  <2> QED
    BY <1>0, <2>1, <2>3 DEF Growth, Created, Patches
<1>5. CASE PostUpdate
  <2>1. pos = 9 /\ pos' = pos + 1 /\ handler = "update"
        /\ UNCHANGED << handler, api, cluster, memory, listed, todo >>
    BY <1>5, PatchPlanFacts DEF PostUpdate
  <2> QED
    BY <2>1, PatchGrowth DEF api, cluster, memory
<1>6. CASE UpdateReturn
  <2>1. handler = "update" /\ handler' = "idle" /\ pos = 10
        /\ (handled' = handled \/ handled' = comps) /\ ~listed'
        /\ UNCHANGED << cr, spec, live, comps >>
    BY <1>0, <1>6, PatchPlanFacts, SucceedOutcome DEF UpdateReturn, cluster, memory
  <2>2. cr = "present" => Grows(comps, spec) /\ Complete(comps)
    <3> SUFFICES ASSUME cr = "present" PROVE Grows(comps, spec) /\ Complete(comps)
      OBVIOUS
    <3>1. Grows(comps, spec) /\ handled # NoSpec /\ Complete(handled)
      BY <2>1 DEF Growth, Patches, Planned
    <3> QED
      BY <2>1, <3>1, PatchedAll DEF Growth
  <2> QED
    BY <1>0, <2>1, <2>2 DEF Growth, Created, Patches, Complete
<1> QED
  BY <1>1, <1>2, <1>3, <1>4, <1>5, <1>6 DEF Update

\* An edit that grows the spec keeps a growth.
LEMMA EditGrows ==
  ASSUME Growth, NEW e \in Edits, e[1] = spec, spec' = e[2], Grows(e[1], e[2]),
         UNCHANGED << cr, handled, cluster, memory, running, todo >>
  PROVE  Growth'
<1>1. \A c : Grows(c, spec) => Grows(c, spec')
  BY GrowsTransitive
<1>2. Created' /\ Patches'
  BY <1>1 DEF Growth, Created, Patches, cluster, memory, running
<1> QED
  BY <1>1, <1>2 DEF Growth, Complete, cluster, running

\* When every edit that only switches things on switches on what the patcher has
\* an eye for, then what was only added to a spec is deployed once it is handled,
\* if nothing failed on the way.
THEOREM GrownCorrect ==
  ASSUME EditsGrow
  PROVE  UpdateSpec => []GrownComplete
<1>1. UpdateInit => UpdateInductive
  <2> SUFFICES ASSUME UpdateInit PROVE UpdateInductive
    OBVIOUS
  <2>1. UpdateTypeOK
    BY UpdateTypeInitially
  <2> QED
    BY <2>1
    DEF UpdateInit, Init, UpdateInductive, Planned, Growth, Created, Patches
<1>2. ASSUME UpdateInductive, [UpdateNext]_updateVars
      PROVE  UpdateInductive'
  <2>1. UpdateTypeOK' /\ Planned'
    BY <1>2, UpdateTypeStep, PlannedStep DEF UpdateInductive
  <2>2. ASSUME Smooth'
        PROVE  Growth'
    <3>1. /\ UpdateTypeOK /\ Planned /\ Growth
          /\ ~Fault /\ ~Crash /\ ~RedisRestart /\ grown /\ grown'
      BY <1>2, <2>2, StaysSmooth DEF UpdateInductive, Smooth
    <3>2. CASE Next /\ UNCHANGED << todo, user >>
      BY <3>1, <3>2, OperatorGrows
    <3>3. CASE Update
      BY <3>1, <3>3, UpdateGrows
    <3>4. CASE Edit
      <4>1. PICK e \in Edits : e[1] = spec /\ spec' = e[2] /\ e[1] \subseteq e[2]
        BY <3>1, <3>4 DEF Edit
      <4> QED
        BY <3>1, <3>4, <4>1, EditGrows DEF Edit, EditsGrow
    <3>5. CASE UNCHANGED updateVars
      BY <3>1, <3>5, StaysGrowth DEF updateVars, vars, api, cluster, memory, running
    <3> QED
      BY <1>2, <3>1, <3>2, <3>3, <3>4, <3>5 DEF UpdateNext, UpdateConfigFails
  <2> QED
    BY <2>1, <2>2 DEF UpdateInductive
<1>3. UpdateInductive => GrownComplete
  BY DEF UpdateInductive, Smooth, Growth, Complete, GrownComplete
<1> QED
  BY <1>1, <1>2, <1>3, PTL DEF UpdateSpec
================================================================================
