------------------------------- MODULE Jobs_proofs -------------------------------
(***************************************************************************)
(* The two programs that Kubernetes runs beside the operator.              *)
(*                                                                         *)
(* The Job couchdb-init completes only over a CouchDB that has everything, *)
(* for every limit of its Pods and every number of failures.  The          *)
(* inductive invariant ties the result of the Pod in progress to the steps *)
(* it took: what a step made is never unmade, and one failure is never     *)
(* forgotten, because check only ever lowers the result.                   *)
(*                                                                         *)
(* The Pods of the CronJob share the instants of a regular schedule        *)
(* among them: their windows leave no instant out and have none in common. *)
(***************************************************************************)
EXTENDS CouchInit, ActionExecutor, TLAPS

\* The plan has fifteen steps.
LEMMA Ends == PlanEnd = 16
<1>1. Len(InitPlan) = 15
  BY DEF InitPlan
<1> QED
  BY <1>1 DEF PlanEnd

\* Every step of the plan makes an artifact, and every artifact is made.
LEMMA Plan ==
  /\ \A i \in 1 .. 15 : InitPlan[i] \in Artifact
  /\ \A a \in Artifact : \E i \in 1 .. 15 : a = InitPlan[i]
<1>1. Len(InitPlan) = 15
  BY DEF InitPlan
<1> QED
  BY <1>1 DEF Artifact

\* The step in progress is one of the artifacts.
LEMMA StepIsArtifact ==
  ASSUME JobType, Running
  PROVE  /\ Step \in Artifact /\ Step = InitPlan[pos]
         /\ pos \in 1 .. 15 /\ job = "active"
BY Plan, Ends DEF JobType, Running, Step

\* A new Pod, of a Job just applied or after one that failed, owes nothing.
LEMMA NewPod ==
  ASSUME pos' = 1
  PROVE  ResultTruthful'
BY DEF ResultTruthful

\* The failure of a Pod keeps to the limit, and does not complete the Job.
LEMMA PodFailure ==
  ASSUME JobType, WithinLimit, job = "active", PodFails
  PROVE  /\ failures' \in 0 .. BackoffLimit + 1
         /\ WithinLimit'
         /\ job' \in {"active", "failed"}
         /\ pos' = 1
BY BackoffAssumption DEF JobType, WithinLimit, PodFails
--------------------------------------------------------------------------------
\* The flags are Boolean.
LEMMA Flags == FlagType /\ [Next]_vars => FlagType'
BY DEF FlagType, Next, vars, Apply, Withdraw, Pod, Make, Refused, Errs, Dies, PodFails,
       Check, Succeeds, Exits, PostCreate

LEMMA Initially == Init => Inductive
<1> SUFFICES ASSUME Init
             PROVE  Inductive
  OBVIOUS
<1>1. JobType
  BY BackoffAssumption, BoundAssumption, Ends DEF Init, JobType
<1>2. FlagType
  BY DEF Init, FlagType
<1>3. WithinLimit /\ ResultTruthful /\ CompleteInitialised
  BY DEF Init, WithinLimit, ResultTruthful, CompleteInitialised
<1> QED
  BY <1>1, <1>2, <1>3 DEF Inductive, TypeOK

\* Every step of the system keeps the inductive invariant.
LEMMA Preserved == Inductive /\ [Next]_vars => Inductive'
<1> SUFFICES ASSUME Inductive, [Next]_vars
             PROVE  Inductive'
  OBVIOUS
<1>a. JobType /\ WithinLimit /\ ResultTruthful /\ CompleteInitialised
  BY DEF Inductive, TypeOK
<1>b. FlagType'
  BY Flags DEF Inductive, TypeOK
<1> SUFFICES JobType' /\ WithinLimit' /\ ResultTruthful' /\ CompleteInitialised'
  BY <1>b DEF Inductive, TypeOK
<1> USE BackoffAssumption, BoundAssumption, Ends
<1>1. CASE Apply
  BY <1>1, <1>a, NewPod DEF Apply, JobType, WithinLimit, CompleteInitialised
<1>2. CASE Withdraw
  BY <1>2, <1>a DEF Withdraw, JobType, WithinLimit, ResultTruthful, CompleteInitialised
<1>3. CASE Make
  <2>1. Step \in Artifact /\ Step = InitPlan[pos] /\ pos \in 1 .. 15 /\ job = "active"
    BY <1>3, <1>a, StepIsArtifact DEF Make
  <2>2. /\ made' = made \cup {Step} /\ pos' = pos + 1 /\ (res' <=> res)
        /\ UNCHANGED << job, failures, faults, installs >>
    BY <1>3 DEF Make, Check
  <2>3. JobType' /\ WithinLimit' /\ CompleteInitialised'
    BY <1>a, <2>1, <2>2 DEF JobType, WithinLimit, CompleteInitialised
  <2>4. ResultTruthful'
    \* The step that was taken is made, and those before it stay made.
    BY <1>a, <2>1, <2>2 DEF ResultTruthful, JobType
  <2> QED
    BY <2>3, <2>4
<1>4. CASE Refused \/ Errs
  <2>1. pos \in 1 .. 15 /\ job = "active"
    BY <1>4, <1>a, StepIsArtifact DEF Refused, Errs
  <2>2. /\ pos' = pos + 1 /\ ~res'
        /\ UNCHANGED << made, job, failures, installs >>
        /\ faults' = faults \/ Fault
    BY <1>4 DEF Refused, Errs, Check
  <2> QED
    BY <1>a, <2>1, <2>2 DEF Fault, JobType, WithinLimit, ResultTruthful, CompleteInitialised
<1>5. CASE Dies
  <2>1. Step \in Artifact /\ job = "active"
    BY <1>5, <1>a, StepIsArtifact DEF Dies
  <2>2. /\ made' = made \/ made' = made \cup {Step}
        /\ PodFails /\ Fault /\ UNCHANGED installs
    BY <1>5 DEF Dies
  <2> QED
    BY <1>a, <2>1, <2>2, PodFailure, NewPod DEF Fault, JobType, CompleteInitialised
<1>6. CASE Succeeds
  \* The result is good at the end of the plan: every step of it was made.
  <2>1. \A i \in 1 .. 15 : InitPlan[i] \in made
    BY <1>6, <1>a DEF Succeeds, ResultTruthful
  <2>2. Artifact \subseteq made
    BY <2>1, Plan
  <2>3. /\ job' = "complete"
        /\ UNCHANGED << made, failures, pos, faults, installs >>
    BY <1>6 DEF Succeeds
  <2> QED
    BY <1>a, <2>2, <2>3 DEF JobType, WithinLimit, ResultTruthful, CompleteInitialised
<1>7. CASE Exits
  <2>1. job = "active" /\ PodFails /\ UNCHANGED << made, faults, installs >>
    BY <1>7 DEF Exits
  <2> QED
    BY <1>a, <2>1, PodFailure, NewPod DEF JobType, CompleteInitialised
<1>8. CASE PostCreate
  <2>1. /\ UNCHANGED << made, job, failures, pos, res, installs >>
        /\ faults' = faults \/ Fault
    BY <1>8 DEF PostCreate
  <2> QED
    BY <1>a, <2>1 DEF Fault, JobType, WithinLimit, ResultTruthful, CompleteInitialised
<1>9. CASE UNCHANGED vars
  BY <1>9, <1>a DEF vars, JobType, WithinLimit, ResultTruthful, CompleteInitialised
<1> QED
  BY <1>1, <1>2, <1>3, <1>4, <1>5, <1>6, <1>7, <1>8, <1>9 DEF Next, Pod

\* The inductive invariant holds in every behaviour.
THEOREM InductiveCorrect == Spec => []Inductive
BY Initially, Preserved, PTL DEF Spec

\* Every variable keeps to its type: no Pod runs past the plan, and no Job
\* past its limit.
THEOREM TypeCorrect == Spec => []TypeOK
BY InductiveCorrect, PTL DEF Inductive

\* A Job that completed has initialised everything in CouchDB, whatever
\* failed, was refused or was half done before.
THEOREM CompleteCorrect == Spec => []CompleteInitialised
BY InductiveCorrect, PTL DEF Inductive
--------------------------------------------------------------------------------
(* Arithmetic of schedules.                                                *)

\* A number is its quotient and its remainder.
LEMMA Division ==
  ASSUME NEW a \in Nat, NEW b \in Nat \ {0}
  PROVE  \E q \in Nat, r \in 0 .. b - 1 : a = b * q + r /\ a % b = r
<1>1. /\ a % b \in 0 .. b - 1 /\ a \div b \in Nat
      /\ a = b * (a \div b) + (a % b)
  OBVIOUS
<1> QED
  BY <1>1

\* There is one remainder.
LEMMA Remainder ==
  ASSUME NEW b \in Nat \ {0}, NEW q \in Int, NEW r \in 0 .. b - 1
  PROVE  (b * q + r) % b = r
OBVIOUS

\* The slots of a regular schedule are the multiples of its period.
LEMMA Multiples ==
  ASSUME NEW P, Regular(P), NEW t \in Nat
  PROVE  t % Cycle \in Schedule <=> t % P = 0
<1>1. Cycle \in Nat \ {0} /\ P \in Nat \ {0} /\ Cycle % P = 0
  BY CycleAssumption DEF Regular
<1>2. PICK q \in Nat, r \in 0 .. Cycle - 1 : t = Cycle * q + r /\ t % Cycle = r
  BY <1>1, Division
<1>3. PICK k \in Nat : Cycle = P * k
  <2>1. PICK k \in Nat, z \in 0 .. P - 1 : Cycle = P * k + z /\ Cycle % P = z
    BY <1>1, Division
  <2>2. Cycle = P * k
    BY <1>1, <2>1
  <2> QED
    BY <2>2
<1>4. PICK j \in Nat, m \in 0 .. P - 1 : r = P * j + m /\ r % P = m
  <2>1. r \in Nat /\ P \in Nat \ {0}
    BY <1>1
  <2> QED
    BY <2>1, Division
<1>5. t = P * (k * q + j) + m
  <2>1. ASSUME NEW pp \in Nat, NEW kk \in Nat, NEW qq \in Nat, NEW jj \in Nat, NEW mm \in Nat
        PROVE  (pp * kk) * qq + (pp * jj + mm) = pp * (kk * qq + jj) + mm
    OBVIOUS
  <2>2. m \in Nat /\ P \in Nat
    BY <1>1, <1>4
  <2>3. t = (P * k) * q + (P * j + m)
    BY <1>2, <1>3, <1>4
  <2> QED
    BY <2>1, <2>2, <2>3
<1>6. t % P = m
  <2>1. k * q + j \in Int
    OBVIOUS
  <2> QED
    BY <1>1, <1>5, <2>1, Remainder
<1>7. r \in Schedule <=> r % P = 0
  BY DEF Regular
<1> QED
  BY <1>2, <1>4, <1>6, <1>7

\* The slot that follows a time.
LEMMA NextMultiple ==
  ASSUME NEW P, Regular(P), NEW t \in Nat
  PROVE  /\ t % P \in 0 .. P - 1
         /\ NextSlot(t) = t - (t % P) + P
         /\ (t - (t % P)) % P = 0 /\ (t - (t % P) + P) % P = 0
         /\ t - (t % P) \in Nat
<1>1. Cycle \in Nat \ {0} /\ P \in Nat \ {0} /\ P =< Cycle
  BY CycleAssumption DEF Regular
<1>2. PICK q \in Nat, r \in 0 .. P - 1 : t = P * q + r /\ t % P = r
  BY <1>1, Division
<1> DEFINE u == t - r + P
<1>3. /\ t - r = P * q + 0 /\ u = P * (q + 1) + 0
      /\ t - r \in Nat /\ u \in Nat /\ u > t
  <2>1. P * q \in Nat /\ P * (q + 1) = P * q + P
    BY <1>1, <1>2
  <2> QED
    BY <1>1, <1>2, <2>1
<1>4. (t - r) % P = 0 /\ u % P = 0
  BY <1>1, <1>2, <1>3, Remainder
<1>5. ASSUME NEW v \in t + 1 .. u - 1
      PROVE  v % P # 0
  <2>1. r + (v - t) \in 1 .. P - 1 /\ v = P * q + (r + (v - t))
    <3>1. P * q \in Nat
      BY <1>1, <1>2
    <3> QED
      BY <1>1, <1>2, <3>1
  <2> DEFINE e == r + (v - t)
  <2>2. v % P = e
    <3>1. e \in 0 .. P - 1 /\ v = P * q + e /\ q \in Int /\ P \in Nat \ {0}
      BY <1>1, <2>1
    <3> HIDE DEF e
    <3> QED
      BY <3>1, Remainder
  <2> QED
    BY <2>1, <2>2
<1> DEFINE Is(w) == w % Cycle \in Schedule /\ \A v \in t + 1 .. w - 1 : v % Cycle \notin Schedule
<1>6. \A w \in t + 1 .. t + Cycle : Is(w) <=> w = u
  <2>1. ASSUME NEW w \in t + 1 .. t + Cycle
        PROVE  w \in Nat /\ (w % Cycle \in Schedule <=> w % P = 0)
    <3>1. w \in Nat
      BY <1>1
    <3> QED
      BY <3>1, Multiples
  <2>2. u \in t + 1 .. t + Cycle
    BY <1>1, <1>2, <1>3
  <2>3. ASSUME NEW w \in t + 1 .. t + Cycle, Is(w)
        PROVE  w = u
    <3>1. w % P = 0
      BY <2>1, <2>3
    <3>2. ~(w < u)
      <4>1. w \in Int /\ t + 1 =< w /\ u \in Int
        BY <1>1, <1>3
      <4>2. w < u => w \in t + 1 .. u - 1
        BY <4>1
      <4> QED
        BY <1>5, <3>1, <4>2
    <3>3. ~(u < w)
      <4>1. u % Cycle \in Schedule
        BY <2>1, <2>2, <1>4
      <4>2. w \in Int /\ u \in Int /\ t \in Int /\ t < u
        BY <1>3
      <4>3. u < w => u \in t + 1 .. w - 1
        BY <4>2
      <4> QED
        BY <2>3, <4>1, <4>3
    <3> QED
      BY <1>3, <3>2, <3>3
  <2>4. Is(u)
    <3>1. u % Cycle \in Schedule
      BY <2>1, <2>2, <1>4
    <3>2. ASSUME NEW v \in t + 1 .. u - 1
          PROVE  v % Cycle \notin Schedule
      <4>1. v \in t + 1 .. t + Cycle
        BY <1>1, <1>2, <1>3, <2>2
      <4> QED
        BY <4>1, <2>1, <1>5
    <3> QED
      BY <3>1, <3>2
  <2> QED
    BY <2>3, <2>4
<1>7. u \in t + 1 .. t + Cycle
  BY <1>1, <1>2, <1>3
<1>8. NextSlot(t) = u
  <2> HIDE DEF u
  <2> QED
    BY <1>6, <1>7 DEF NextSlot
<1> QED
  BY <1>2, <1>3, <1>4, <1>8

\* Between two slots there is a period, whenever one looks.
LEMMA Period ==
  ASSUME NEW P, Regular(P), NEW t \in Nat
  PROVE  Interval(t) = P
<1>1. P \in Nat \ {0}
  BY CycleAssumption DEF Regular
<1> DEFINE u == NextSlot(t)
<1>2. u \in Nat /\ u % P = 0
  <2>1. /\ t % P \in 0 .. P - 1 /\ u = t - (t % P) + P
        /\ (t - (t % P) + P) % P = 0 /\ t - (t % P) \in Nat
    BY NextMultiple
  <2>2. u % P = 0
    BY <2>1
  <2>3. u \in Nat
    <3> DEFINE d == t - (t % P)
    <3>1. d \in Nat /\ u = d + P
      BY <2>1
    <3> HIDE DEF d, u
    <3> QED
      BY <1>1, <3>1
  <2> QED
    BY <2>2, <2>3
<1>3. NextSlot(u) = u + P
  <2> HIDE DEF u
  <2>1. NextSlot(u) = u - (u % P) + P
    BY <1>2, NextMultiple
  <2> QED
    BY <1>1, <1>2, <2>1
<1> QED
  BY <1>1, <1>2, <1>3 DEF Interval

\* Two slots are a period apart, at least.
LEMMA Apart ==
  ASSUME NEW P, Regular(P),
         NEW s \in Slot, NEW z \in Slot, s < z
  PROVE  s + P =< z
<1>1. s \in Nat /\ z \in Nat /\ P \in Nat \ {0}
  BY CycleAssumption DEF Regular, Slot
<1>2. s % P = 0 /\ z % P = 0
  BY <1>1, Multiples DEF Slot
<1>3. PICK i \in Nat, k \in Nat : s = P * i /\ z = P * k
  <2>1. PICK i \in Nat, a \in 0 .. P - 1 : s = P * i + a /\ s % P = a
    BY <1>1, Division
  <2>2. PICK k \in Nat, a2 \in 0 .. P - 1 : z = P * k + a2 /\ z % P = a2
    BY <1>1, Division
  <2>3. s = P * i /\ z = P * k
    BY <1>1, <1>2, <2>1, <2>2
  <2> QED
    BY <2>3
<1>4. i + 1 =< k
  <2>1. ASSUME k =< i
        PROVE  P * k =< P * i
    BY <2>1, <1>1, <1>3
  <2> QED
    BY <1>1, <1>3, <2>1
<1>5. P * (i + 1) =< P * k /\ P * (i + 1) = P * i + P
  BY <1>1, <1>3, <1>4
<1> QED
  BY <1>1, <1>3, <1>5
--------------------------------------------------------------------------------
(* The windows of two Pods, and of the Pods around an instant.             *)

\* The Pods of two slots that start within the delays have no instant in common.
LEMMA Disjoint ==
  ASSUME NEW P, Regular(P), Clear(P),
         NEW s \in Slot, NEW z \in Slot, s # z,
         NEW a \in Nat, NEW b \in Nat,
         s + MinDelay =< a, a =< s + MaxDelay, z + MinDelay =< b, b =< z + MaxDelay
  PROVE  Window(a) \cap Window(b) = {}
<1>1. P \in Nat \ {0} /\ MinDelay \in Nat /\ MaxDelay \in Nat
  BY CycleAssumption DEF Regular
<1>2. ASSUME NEW c \in Slot, NEW d \in Slot, c < d, NEW e \in Nat, NEW f \in Nat,
             c + MinDelay =< e, e =< c + MaxDelay, d + MinDelay =< f, f =< d + MaxDelay,
             NEW x \in Window(e), x \in Window(f)
      PROVE  FALSE
  <2>1. c \in Nat /\ d \in Nat /\ c + P =< d /\ c % P = 0
    <3>1. c \in Nat /\ d \in Nat
      BY DEF Slot
    <3> QED
      BY <1>2, <3>1, Apart, Multiples DEF Slot
  <2>2. x \in Instant /\ x \in Nat /\ x =< e /\ f - P =< x
    <3>1. Interval(f) = P
      BY Period
    <3>2. x \in Instant /\ x =< e /\ f - P =< x
      BY <1>2, <3>1 DEF Window
    <3> QED
      BY <3>2 DEF Instant
  \* The instant is between the earliest and the latest start of the first one.
  <2>3. x - c \in MinDelay .. MaxDelay /\ x - c \in 0 .. P - 1
    BY <1>1, <1>2, <2>1, <2>2 DEF Clear
  <2>4. x % P = x - c
    <3>1. PICK k \in Nat, z0 \in 0 .. P - 1 : c = P * k + z0 /\ c % P = z0
      <4>1. c \in Nat
        BY <2>1
      <4> QED
        BY <1>1, <4>1, Division
    <3> DEFINE g == x - c
    <3>2. g \in 0 .. P - 1 /\ x = P * k + g /\ k \in Int
      BY <1>1, <2>1, <2>2, <2>3, <3>1
    <3> HIDE DEF g
    <3>3. x % P = g
      BY <1>1, <3>2, Remainder
    <3> QED
      BY <3>3 DEF g
  <2> QED
    BY <2>2, <2>3, <2>4 DEF Clear
<1>3. s \in Int /\ z \in Int
  BY DEF Slot
<1>4. CASE s < z
  BY <1>2, <1>4
<1>5. CASE z < s
  BY <1>2, <1>5
<1> QED
  BY <1>3, <1>4, <1>5

\* An instant is in the window of the Pod of the slot after it, or of the one
\* before that.
LEMMA Covered ==
  ASSUME NEW P, Regular(P), Clear(P),
         NEW x \in Instant, NextSlot(x) \in Slot,
         NEW st \in [Slot -> Nat],
         \A s \in Slot : s =< NextSlot(x) =>
           s + MinDelay =< st[s] /\ st[s] =< s + MaxDelay
  PROVE  \E s \in Slot : s =< NextSlot(x) /\ x \in Window(st[s])
<1>1. P \in Nat \ {0} /\ MinDelay \in Nat /\ MaxDelay \in Nat /\ x \in Nat
  BY CycleAssumption DEF Regular, Instant
<1> DEFINE r == x % P
           b == x - r
           n == NextSlot(x)
<1>2. r \in 0 .. P - 1 /\ n = b + P /\ b % P = 0 /\ b \in Nat
  BY <1>1, NextMultiple
<1>3. b \in Slot
  <2>1. b % Cycle \in Schedule
    BY <1>1, <1>2, Multiples
  <2>2. b \in 0 .. Horizon
    BY <1>1, <1>2, CycleAssumption DEF Slot
  <2> QED
    BY <2>1, <2>2 DEF Slot
<1>4. r < MinDelay \/ MaxDelay < r
  BY <1>1, <1>2 DEF Clear
<1>5. Interval(st[b]) = P /\ Interval(st[n]) = P /\ st[b] \in Nat /\ st[n] \in Nat
  <2>1. st[b] \in Nat /\ st[n] \in Nat
    BY <1>3
  <2> QED
    BY <2>1, Period
<1> DEFINE sb == st[b]
           sn == st[n]
<1>6. x = b + r /\ MaxDelay < P
  BY <1>1, <1>2 DEF Clear
<1>6b. b =< n
  BY <1>1, <1>2
<1>7. /\ b + MinDelay =< sb /\ sb =< b + MaxDelay
      /\ n + MinDelay =< sn /\ sn =< n + MaxDelay
  <2>1. n \in Nat /\ n =< n
    BY <1>1, <1>2
  <2> QED
    BY <1>3, <1>6b, <2>1
<1> HIDE DEF r, b, n, sb, sn
<1>8. \/ sb - P =< x /\ x =< sb
      \/ sn - P =< x /\ x =< sn
  BY <1>1, <1>2, <1>4, <1>5, <1>6, <1>7 DEF sb, sn
<1>9. x \in Window(sb) \/ x \in Window(sn)
  BY <1>5, <1>8 DEF Window, sb, sn
<1> QED
  BY <1>1, <1>2, <1>3, <1>6b, <1>9 DEF n, sb, sn
--------------------------------------------------------------------------------
(* The Pods of the CronJob.                                                *)

LEMMA ExecType ==
  ASSUME ExecTypeOK, [ExecNext]_execVars
  PROVE  ExecTypeOK'
<1> USE DEF ExecTypeOK
<1>1. CASE Tick
  BY <1>1 DEF Tick
<1>2. ASSUME NEW s \in Slot, Start(s)
      PROVE  ExecTypeOK'
  BY <1>2 DEF Start, Goes
<1>3. ASSUME NEW s \in Slot, Query(s)
      PROVE  ExecTypeOK'
  BY <1>3 DEF Query, Goes
<1>4. ASSUME NEW s \in Slot, Call(s)
      PROVE  ExecTypeOK'
  BY <1>4 DEF Call, Goes, Fails
<1>5. ASSUME NEW s \in Slot, CallOnce(s)
      PROVE  ExecTypeOK'
  <2>1. phase' \in [Slot -> {"pending", "started", "cron", "autoexec", "unschedule", "done"}]
    BY <1>5 DEF CallOnce, Goes
  <2>2. runs' \in Nat /\ failed' \in Nat
    BY <1>5 DEF CallOnce, Fails
  <2>3. UNCHANGED << now, start, due, seen, auto, calls >>
    BY <1>5 DEF CallOnce
  <2> QED
    BY <2>1, <2>2, <2>3
<1>6. ASSUME NEW s \in Slot, Unschedule(s)
      PROVE  ExecTypeOK'
  <2>1. phase' \in [Slot -> {"pending", "started", "cron", "autoexec", "unschedule", "done"}]
    BY <1>6 DEF Unschedule, Goes
  <2>2. auto' \in BOOLEAN
    BY <1>6 DEF Unschedule
  <2>4. failed' \in Nat
    BY <1>6 DEF Unschedule, Fails
  <2>3. UNCHANGED << now, start, due, seen, calls, runs >>
    BY <1>6 DEF Unschedule
  <2> QED
    BY <2>1, <2>2, <2>3, <2>4
<1>7. ASSUME NEW s \in Slot, NoAnswer(s)
      PROVE  ExecTypeOK'
  BY <1>7 DEF NoAnswer, Goes, Fails
<1>8. ASSUME NEW s \in Slot, Crash(s)
      PROVE  ExecTypeOK'
  BY <1>8, CycleAssumption DEF Crash, Fails
<1>9. CASE UNCHANGED execVars
  BY <1>9 DEF execVars
<1> QED
  BY <1>1, <1>2, <1>3, <1>4, <1>5, <1>6, <1>7, <1>8, <1>9 DEF ExecNext, Work

\* A step after which nothing has failed is one of a clock or a Pod that works,
\* and nothing had failed before it.
LEMMA Unfailing ==
  ASSUME ExecTypeOK, [ExecNext]_execVars, failed' = 0
  PROVE  /\ failed = 0
         /\ Tick \/ (\E s \in Slot : Work(s)) \/ UNCHANGED execVars
<1>1. ASSUME NEW s \in Slot
      PROVE  ~NoAnswer(s) /\ ~Crash(s)
  BY DEF NoAnswer, Crash, Fails, ExecTypeOK
<1>2. failed = 0
  BY DEF ExecNext, Work, Tick, Start, Query, Call, CallOnce,
         Unschedule, NoAnswer, Crash, Fails, ExecTypeOK, execVars
<1> QED
  BY <1>1, <1>2 DEF ExecNext

\* A Pod that works moves itself only, and takes the time only when it starts.
LEMMA Moves ==
  ASSUME ExecTypeOK, NEW s \in Slot, Work(s)
  PROVE  /\ \A z \in Slot \ {s} : phase'[z] = phase[z] /\ start'[z] = start[z]
         /\ UNCHANGED << now, due >>
         /\ \/ Start(s) /\ phase[s] = "pending" /\ phase'[s] = "started" /\ start'[s] = now
            \/ /\ phase[s] # "pending" /\ phase'[s] # "pending" /\ start'[s] = start[s]
               /\ phase[s] # "done" /\ phase'[s] # "started"
BY DEF ExecTypeOK, Work, Start, Query, Call, CallOnce,
       Unschedule, Goes

LEMMA TimelyKept ==
  ASSUME ExecTypeOK, Timely, [ExecNext]_execVars
  PROVE  Timely'
<1> SUFFICES ASSUME failed' = 0, NEW z \in Slot
             PROVE  /\ due'[z] = z + MaxDelay /\ (phase'[z] = "pending" => now' =< due'[z])
                    /\ phase'[z] # "pending" =>
                         z + MinDelay =< start'[z] /\ start'[z] =< due'[z] /\ start'[z] =< now'
                    /\ Active(z)' => now' =< start'[z] + MaxRun
  BY DEF Timely
<1>1. /\ failed = 0
      /\ Tick \/ (\E s \in Slot : Work(s)) \/ UNCHANGED execVars
  BY Unfailing
<1>2. /\ due[z] = z + MaxDelay /\ (phase[z] = "pending" => now =< due[z])
      /\ phase[z] # "pending" =>
           z + MinDelay =< start[z] /\ start[z] =< due[z] /\ start[z] =< now
      /\ Active(z) => now =< start[z] + MaxRun
  BY <1>1 DEF Timely
<1>3. /\ z \in Nat /\ MinDelay \in Nat /\ MaxDelay \in Nat /\ MaxRun \in Nat
      /\ now \in Nat /\ due[z] \in Nat /\ start[z] \in Nat
  BY CycleAssumption DEF Slot, ExecTypeOK
<1>4. CASE Tick
  <2>1. /\ now' = now + 1 /\ UNCHANGED << phase, start, due >>
        /\ phase[z] = "pending" => now < due[z]
        /\ Active(z) => now < start[z] + MaxRun
    BY <1>4 DEF Tick
  <2>2. Active(z)' <=> Active(z)
    BY <2>1 DEF Active
  <2> QED
    BY <1>2, <1>3, <2>1, <2>2
<1>5. ASSUME NEW s \in Slot, Work(s)
      PROVE  /\ due'[z] = z + MaxDelay /\ (phase'[z] = "pending" => now' =< due'[z])
             /\ phase'[z] # "pending" =>
                  z + MinDelay =< start'[z] /\ start'[z] =< due'[z] /\ start'[z] =< now'
             /\ Active(z)' => now' =< start'[z] + MaxRun
  <2>1. UNCHANGED << now, due >>
    BY <1>5, Moves
  <2>2. CASE phase'[z] = phase[z] /\ start'[z] = start[z]
    <3>1. Active(z)' <=> Active(z)
      BY <2>2 DEF Active
    <3> QED
      BY <1>2, <2>1, <2>2, <3>1
  <2>3. CASE /\ s = z /\ phase[z] # "pending" /\ phase'[z] # "pending"
             /\ start'[z] = start[z] /\ phase[z] # "done"
    <3>1. Active(z)
      BY <2>3 DEF Active
    <3> QED
      BY <1>2, <2>1, <2>3, <3>1
  <2>4. CASE s = z /\ Start(s) /\ phase[z] = "pending" /\ phase'[z] = "started" /\ start'[z] = now
    <3>1. now >= z + MinDelay
      BY <2>4 DEF Start
    <3> QED
      BY <1>2, <1>3, <2>1, <2>4, <3>1
  <2> QED
    BY <1>5, <2>2, <2>3, <2>4, Moves
<1>6. CASE UNCHANGED execVars
  BY <1>2, <1>6 DEF execVars, Active
<1> QED
  BY <1>1, <1>4, <1>5, <1>6

\* A step of a Pod that works does not take an instant from those that were
\* called, and gives it to none but the Pod that calls.
LEMMA CountedKept ==
  ASSUME NEW P, Regular(P), Clear(P),
         ExecTypeOK, ExecTypeOK', Timely, Timely', Counted, NeverTwice,
         [ExecNext]_execVars
  PROVE  Counted' /\ NeverTwice'
<1> SUFFICES ASSUME failed' = 0, NEW x \in Instant
             PROVE  /\ calls'[x] =< 1
                    /\ calls'[x] > 0 <=>
                         \E s \in Slot : Called(s)' /\ x \in Window(start'[s])
  BY DEF Counted, NeverTwice
<1>1. /\ failed = 0
      /\ Tick \/ (\E s \in Slot : Work(s)) \/ UNCHANGED execVars
  BY Unfailing
<1>2. /\ calls[x] =< 1 /\ calls[x] \in Nat
      /\ calls[x] > 0 <=> \E s \in Slot : Called(s) /\ x \in Window(start[s])
  BY <1>1 DEF Counted, NeverTwice, ExecTypeOK
<1>3. CASE UNCHANGED << phase, start, calls >>
  BY <1>2, <1>3 DEF Called
<1>4. ASSUME NEW s \in Slot, Work(s), ~Call(s)
      PROVE  /\ calls'[x] =< 1
             /\ calls'[x] > 0 <=>
                  \E z \in Slot : Called(z)' /\ x \in Window(start'[z])
  <2>1. calls' = calls
    BY <1>4 DEF Work, Start, Query, CallOnce, Unschedule
  <2>2. /\ Called(s)' <=> Called(s)
        /\ Called(s) => start'[s] = start[s]
    BY <1>4 DEF Work, Start, Query, CallOnce, Unschedule, Goes,
                Called, ExecTypeOK
  <2>3. \A z \in Slot : /\ Called(z)' <=> Called(z)
                        /\ Called(z) => start'[z] = start[z]
    <3>1. ASSUME NEW z \in Slot, z # s
          PROVE  /\ Called(z)' <=> Called(z)
                 /\ Called(z) => start'[z] = start[z]
      <4>1. phase'[z] = phase[z] /\ start'[z] = start[z]
        BY <1>4, <3>1, Moves
      <4> QED
        BY <4>1 DEF Called
    <3> QED
      BY <2>2, <3>1
  <2>4. \A z \in Slot :
          Called(z)' /\ x \in Window(start'[z]) <=> Called(z) /\ x \in Window(start[z])
    BY <2>3
  <2> QED
    BY <1>2, <2>1, <2>4
<1>5. ASSUME NEW s \in Slot, Call(s)
      PROVE  /\ calls'[x] =< 1
             /\ calls'[x] > 0 <=>
                  \E z \in Slot : Called(z)' /\ x \in Window(start'[z])
  <2>1. /\ ~Called(s) /\ Called(s)' /\ start' = start
        /\ \A z \in Slot \ {s} : Called(z)' <=> Called(z)
    BY <1>5 DEF Call, Goes, Called, ExecTypeOK
  <2>2. calls'[x] = IF x \in Window(start[s]) THEN calls[x] + 1 ELSE calls[x]
    BY <1>1, <1>5 DEF Call, Fails
  \* No Pod that has called has the instant, too.
  <2>3. ASSUME x \in Window(start[s]), NEW z \in Slot, Called(z),
               x \in Window(start[z])
        PROVE  FALSE
    <3>1. /\ s # z /\ phase[s] # "pending" /\ phase[z] # "pending"
      BY <1>5, <2>1, <2>3 DEF Call, Goes, Called
    <3>2. /\ s + MinDelay =< start[s] /\ start[s] =< s + MaxDelay
          /\ z + MinDelay =< start[z] /\ start[z] =< z + MaxDelay
      BY <1>1, <3>1 DEF Timely
    <3>3. start[s] \in Nat /\ start[z] \in Nat
      BY DEF ExecTypeOK
    <3> DEFINE a == start[s]
               b == start[z]
    <3> HIDE DEF a, b
    <3>4. Window(a) \cap Window(b) = {}
      BY <3>1, <3>2, <3>3, Disjoint DEF a, b
    <3> QED
      BY <2>3, <3>4 DEF a, b
  <2> QED
    BY <1>2, <2>1, <2>2, <2>3
<1> QED
  BY <1>1, <1>3, <1>4, <1>5 DEF Tick, execVars, Work

\* An instant is not missed once the Pods around it are through.
LEMMA NotMissed ==
  ASSUME NEW P, Regular(P), Clear(P), ServedInv
  PROVE  NeverMissed
<1> SUFFICES ASSUME NEW x \in Instant, failed = 0, NextSlot(x) \in Slot,
                    \A s \in Slot : s =< NextSlot(x) => phase[s] = "done"
             PROVE  calls[x] > 0
  BY DEF NeverMissed
<1>1. \A s \in Slot : s =< NextSlot(x) =>
        s + MinDelay =< start[s] /\ start[s] =< s + MaxDelay
  BY DEF ServedInv, Timely
<1>2. start \in [Slot -> Nat]
  BY DEF ServedInv, ExecTypeOK
<1>3. PICK s \in Slot : s =< NextSlot(x) /\ x \in Window(start[s])
  BY <1>1, <1>2, Covered
<1> QED
  BY <1>3 DEF ServedInv, Counted, Called

LEMMA ExecInitially ==
  ASSUME ExecInit
  PROVE  /\ ExecTypeOK /\ Timely /\ Counted /\ NeverTwice
         /\ Scheduled /\ OnceOnly
<1>1. Slot \subseteq Nat /\ MaxDelay \in Nat
  BY CycleAssumption DEF Slot
<1>2. ExecTypeOK
  BY <1>1 DEF ExecInit, ExecTypeOK
<1>3. Timely
  BY <1>1 DEF ExecInit, Timely, Active
<1>4. Counted /\ NeverTwice
  BY DEF ExecInit, Counted, NeverTwice, Called
<1>5. Scheduled /\ OnceOnly
  BY DEF ExecInit, Scheduled, OnceOnly
<1> QED
  BY <1>2, <1>3, <1>4, <1>5

\* Every instant of a cron expression is served once, whatever the Pods' delays,
\* by two of them that never take the same one for theirs and leave none out
\* between them, on a regular schedule whose delays the instants keep clear of.
THEOREM ServedCorrect ==
  ASSUME NEW P
  PROVE  Regular(P) /\ Clear(P)
           => (ExecSpec => []ServedOnce)
<1> SUFFICES ASSUME Regular(P), Clear(P)
             PROVE  ExecSpec => []ServedOnce
  OBVIOUS
<1>1. ExecInit => ServedInv
  BY ExecInitially DEF ServedInv
<1>2. ServedInv /\ [ExecNext]_execVars => ServedInv'
  BY ExecType, TimelyKept, CountedKept DEF ServedInv
<1>3. ServedInv => ServedOnce
  BY NotMissed DEF ServedInv, ServedOnce
<1> QED
  BY <1>1, <1>2, <1>3, PTL DEF ExecSpec
--------------------------------------------------------------------------------
(* The action that is executed once.                                       *)

\* Two Pods of a schedule that leaves them time do not work at the same time.
LEMMA OneAtWork ==
  ASSUME NEW P, Regular(P), Serial(P),
         ExecTypeOK, Timely, failed = 0,
         NEW s \in Slot, NEW z \in Slot, Active(s), Active(z)
  PROVE  s = z
<1>1. ASSUME NEW a \in Slot, NEW b \in Slot, a < b, Active(a), Active(b)
      PROVE  FALSE
  <2>1. /\ start[a] =< a + MaxDelay /\ now =< start[a] + MaxRun
        /\ b + MinDelay =< start[b] /\ start[b] =< now
    BY <1>1 DEF Timely, Active
  <2>2. a + P =< b
    BY <1>1, Apart
  <2>3. /\ a \in Nat /\ b \in Nat /\ start[a] \in Nat /\ start[b] \in Nat /\ now \in Nat
        /\ P \in Nat /\ MinDelay \in Nat /\ MaxDelay \in Nat /\ MaxRun \in Nat
    <3>1. a \in Nat /\ b \in Nat
      BY DEF Slot
    <3>2. start[a] \in Nat /\ start[b] \in Nat /\ now \in Nat
      BY DEF ExecTypeOK
    <3>3. P \in Nat /\ MinDelay \in Nat /\ MaxDelay \in Nat /\ MaxRun \in Nat
      BY CycleAssumption DEF Regular
    <3> QED
      BY <3>1, <3>2, <3>3
  <2> QED
    BY <2>1, <2>2, <2>3 DEF Serial
<1>2. s \in Int /\ z \in Int
  BY DEF Slot
<1> QED
  BY <1>1, <1>2

LEMMA OnceKept ==
  ASSUME NEW P, Regular(P), Serial(P),
         ExecTypeOK, Timely, Scheduled, OnceOnly, [ExecNext]_execVars
  PROVE  Scheduled' /\ OnceOnly'
<1> DEFINE Kept ==
      /\ runs' =< 1
      /\ runs' > 0 => ~auto' \/ \E z \in Slot : phase'[z] = "unschedule"
      /\ \A z \in Slot : phase'[z] \in {"cron", "autoexec"} /\ seen'[z] => runs' = 0
<1> SUFFICES ASSUME failed' = 0
             PROVE  Kept
  BY DEF Scheduled, OnceOnly
<1>1. /\ failed = 0
      /\ Tick \/ (\E s \in Slot : Work(s)) \/ UNCHANGED execVars
  BY Unfailing
<1>2. /\ runs =< 1 /\ runs \in Nat
      /\ runs > 0 => ~auto \/ \E z \in Slot : phase[z] = "unschedule"
      /\ \A z \in Slot : phase[z] \in {"cron", "autoexec"} /\ seen[z] => runs = 0
  BY <1>1 DEF Scheduled, OnceOnly, ExecTypeOK
<1>3. CASE UNCHANGED << phase, seen, auto, runs >>
  BY <1>2, <1>3
<1>4. ASSUME NEW s \in Slot, Start(s) \/ Call(s)
      PROVE  Kept
  <2>1. /\ phase[s] \in {"pending", "cron"} /\ phase'[s] \in {"started", "autoexec"}
        /\ phase'[s] = "autoexec" => phase[s] = "cron"
        /\ UNCHANGED << seen, auto, runs >>
        /\ \A z \in Slot \ {s} : phase'[z] = phase[z]
    BY <1>4 DEF Start, Call, Goes, ExecTypeOK
  <2> QED
    BY <1>2, <2>1
<1>5. ASSUME NEW s \in Slot, Query(s)
      PROVE  Kept
  <2>1. /\ phase[s] = "started" /\ phase'[s] = "cron" /\ seen'[s] = auto
        /\ UNCHANGED << auto, runs >>
        /\ \A z \in Slot \ {s} : phase'[z] = phase[z] /\ seen'[z] = seen[z]
    BY <1>5 DEF Query, Goes, ExecTypeOK
  \* A Pod that is about to take the annotation away would be at work, too.
  <2>2. \A z \in Slot : phase[z] # "unschedule"
    <3>1. ASSUME NEW z \in Slot, phase[z] = "unschedule"
          PROVE  FALSE
      <4>1. Active(s) /\ Active(z)
        BY <2>1, <3>1 DEF Active
      <4>2. s = z
        BY <1>1, <4>1, OneAtWork
      <4> QED
        BY <2>1, <3>1, <4>2
    <3> QED
      BY <3>1
  <2>3. auto => runs = 0
    BY <1>2, <2>2
  <2> QED
    BY <1>2, <2>1, <2>2, <2>3
<1>6. ASSUME NEW s \in Slot, CallOnce(s)
      PROVE  Kept
  <2>1. phase[s] = "autoexec" /\ UNCHANGED << auto, seen >>
    BY <1>6 DEF CallOnce, Goes
  <2>2. \A z \in Slot \ {s} : phase'[z] = phase[z]
    BY <1>6 DEF CallOnce, Goes, ExecTypeOK
  <2>3. CASE seen[s]
    <3>1. runs = 0 /\ runs' = runs + 1 /\ phase'[s] = "unschedule"
      BY <1>1, <1>2, <1>6, <2>1, <2>3 DEF CallOnce, Goes, Fails, ExecTypeOK
    <3>2. \A z \in Slot \ {s} : phase[z] \notin {"cron", "autoexec"}
      <4>1. ASSUME NEW z \in Slot \ {s}, phase[z] \in {"cron", "autoexec"}
            PROVE  FALSE
        <5>1. Active(s) /\ Active(z)
          BY <2>1, <4>1 DEF Active
        <5>2. s = z
          BY <1>1, <5>1, OneAtWork
        <5> QED
          BY <5>2
      <4> QED
        BY <4>1
    <3> QED
      BY <2>2, <3>1, <3>2
  <2>4. CASE ~seen[s]
    <3>1. runs' = runs /\ phase'[s] = "done"
      BY <1>6, <2>4 DEF CallOnce, Goes, ExecTypeOK
    <3> QED
      BY <1>2, <2>1, <2>2, <3>1
  <2> QED
    BY <2>3, <2>4
<1>7. ASSUME NEW s \in Slot, Unschedule(s)
      PROVE  Kept
  <2>1. phase'[s] = "done" /\ UNCHANGED << seen, runs >>
    BY <1>7 DEF Unschedule, Goes, ExecTypeOK
  <2>2. \A z \in Slot \ {s} : phase'[z] = phase[z]
    BY <1>7 DEF Unschedule, Goes, ExecTypeOK
  <2>3. ~auto'
    BY <1>1, <1>7 DEF Unschedule, Fails
  <2> QED
    BY <1>2, <2>1, <2>2, <2>3
<1> HIDE DEF Kept
<1> QED
  BY <1>1, <1>3, <1>4, <1>5, <1>6, <1>7 DEF Tick, execVars, Work

\* The action to be executed once is not executed twice, as long as no request
\* fails and no Pod starts again, on a schedule that leaves its Pods time to end.
THEOREM OnceCorrect ==
  ASSUME NEW P
  PROVE  Regular(P) /\ Serial(P)
           => (ExecSpec => []OnceOnly)
<1> SUFFICES ASSUME Regular(P), Serial(P)
             PROVE  ExecSpec => []OnceOnly
  OBVIOUS
<1>1. ExecInit => OnceInv
  BY ExecInitially DEF OnceInv
<1>2. OnceInv /\ [ExecNext]_execVars => OnceInv'
  BY ExecType, TimelyKept, OnceKept DEF OnceInv
<1>3. OnceInv => OnceOnly
  BY DEF OnceInv
<1> QED
  BY <1>1, <1>2, <1>3, PTL DEF ExecSpec
================================================================================
