---------------------------- MODULE WhiskUsers_proofs ----------------------------
(***************************************************************************)
(* The document stored for a user vouches for nothing that does not exist, *)
(* for every user, installation and bound.  The invariant that is          *)
(* inductive says the same of the metadata under way: an attempt starts    *)
(* with none, and names a part only after it has made it.                  *)
(*                                                                         *)
(* A deletion that no call failed in and that found the configuration there*)
(* leaves nothing of the user.  Its invariant, Removal, is kept separately:*)
(* it is about the plan of the deletion, not about what was stored.        *)
(***************************************************************************)
EXTENDS WhiskUsers, TLAPS

\* Redis restarts, and the document is written, without touching what the
\* metadata vouch for.
LEMMA NotVouched == "redis" \notin Vouched /\ "doc" \notin Vouched
BY DEF Vouched, Storage

LEMMA Initially == Init => Inductive
BY DEF Init, Inductive, Turns, MetaTruthful, SavedTruthful

\* The world around the handlers keeps the invariant.
LEMMA AroundPreserves == Inductive /\ Around => Inductive'
<1> SUFFICES ASSUME Inductive, Around
             PROVE  Inductive'
  OBVIOUS
<1> USE DEF Inductive, Turns, MetaTruthful, SavedTruthful
<1>1. CASE Configure \/ Annotate \/ Replace
  BY <1>1 DEF Configure, Annotate, Replace
<1>2. CASE RedisRestarts
  BY <1>2, NotVouched DEF RedisRestarts
<1>3. CASE Restart
  BY <1>3 DEF Restart
<1>4. CASE Add \/ Remove
  BY <1>4 DEF Add, Remove
<1> QED
  BY <1>1, <1>2, <1>3, <1>4 DEF Around

\* whisk_user_create keeps it: a part is named only when it was made.
LEMMA CreatePreserves == Inductive /\ Create => Inductive'
<1> SUFFICES ASSUME Inductive, Create
             PROVE  Inductive'
  OBVIOUS
<1> USE DEF Inductive, Turns, MetaTruthful, SavedTruthful
<1>1. CASE CreateBegins \/ CreateSkips
  BY <1>1 DEF CreateBegins, CreateSkips
<1>5. CASE CreateRaises
  <2>1. handler' = "idle" /\ UNCHANGED << obj, accounts, saved, fresh >>
    BY <1>5 DEF CreateRaises
  <2>2. obj # "none"
    BY <1>5 DEF CreateRaises, Creating
  <2> QED
    BY <2>1, <2>2
<1>2. CASE CreateEnds
  <2>1. handler = "create" /\ handler' = "idle" /\ UNCHANGED obj
    BY <1>2 DEF CreateEnds, Creating
  <2>2. \/ saved' = meta /\ accounts' = accounts \cup {"doc"} /\ (fresh' <=> obj = "present")
        \/ UNCHANGED << saved, accounts, fresh >>
    BY <1>2 DEF CreateEnds
  <2> QED
    BY <2>1, <2>2
<1>3. ASSUME NEW s \in Part, CreateGives(s) \/ CreateExists(s)
      PROVE  Inductive'
  BY <1>3 DEF CreateGives, CreateExists
<1>4. ASSUME NEW s \in Part, CreateFails(s) \/ CreateFooled(s)
      PROVE  Inductive'
  <2>1. {"api", "static", "mongodb", "redis", "postgres"} \cap Vouched = {}
    BY DEF Vouched, Storage
  <2> QED
    BY <1>4, <2>1 DEF CreateFails, CreateFooled
<1> QED
  BY <1>1, <1>2, <1>3, <1>4, <1>5 DEF Create

\* whisk_user_delete keeps it: it takes parts away only when the document is
\* no longer the one of a present object.
LEMMA DeletePreserves == Inductive /\ (Delete \/ Resume) => Inductive'
<1> SUFFICES ASSUME Inductive, Delete \/ Resume
             PROVE  Inductive'
  OBVIOUS
<1> USE DEF Inductive, Turns, MetaTruthful, SavedTruthful
<1>1. CASE Resume
  BY <1>1 DEF Resume
<1>2. CASE RemoveBegins \/ RemoveSkips \/ RemoveEnds
  BY <1>2 DEF RemoveBegins, RemoveSkips, RemoveEnds, Removing
<1>3. ASSUME NEW s \in Part, RemoveTakes(s) \/ RemoveFails(s)
      PROVE  Inductive'
  BY <1>3 DEF RemoveTakes, RemoveFails, Removing
<1> QED
  BY <1>1, <1>2, <1>3 DEF Delete

\* The inductive invariant holds in every behaviour.
THEOREM InductiveCorrect == Spec => []Inductive
<1>1. Inductive /\ UNCHANGED vars => Inductive'
  BY DEF vars, Inductive, Turns, MetaTruthful, SavedTruthful
<1>2. Inductive /\ [Next]_vars => Inductive'
  BY <1>1, AroundPreserves, CreatePreserves, DeletePreserves DEF Next, Handler
<1> QED
  BY Initially, <1>2, PTL DEF Spec

\* The document whisk_user_create stored names no subject, storage user or
\* bucket that does not exist.
THEOREM SavedCorrect == Spec => []SavedTruthful
BY InductiveCorrect, PTL DEF Inductive
--------------------------------------------------------------------------------
\* Both plans go through the same parts.
LEMMA PartsOfRemoval ==
  /\ Len(CreatePlan) = 11 /\ Len(RemovePlan) = 11
  /\ \A i \in 1 .. 11 : CreatePlan[i] \in Part
  /\ \A s \in Part : \E i \in 1 .. Len(RemovePlan) : RemovePlan[i] = s
<1>1. Len(CreatePlan) = 11 /\ Len(RemovePlan) = 11
  BY DEF CreatePlan, RemovePlan
<1>2. \A i \in 1 .. 11 : CreatePlan[i] \in Part
  BY <1>1 DEF Part
<1>3. Part = {"subject", "api", "user", "data", "route", "policy", "static",
              "mongodb", "redis", "postgres", "doc"}
  BY <1>1 DEF Part, CreatePlan
<1>4. ASSUME NEW s \in Part
      PROVE  \E i \in 1 .. Len(RemovePlan) : RemovePlan[i] = s
  <2>1. /\ RemovePlan[1] = "api" /\ RemovePlan[2] = "subject" /\ RemovePlan[3] = "data"
        /\ RemovePlan[4] = "route" /\ RemovePlan[5] = "user" /\ RemovePlan[6] = "policy"
        /\ RemovePlan[7] = "static" /\ RemovePlan[8] = "mongodb" /\ RemovePlan[9] = "redis"
        /\ RemovePlan[10] = "postgres" /\ RemovePlan[11] = "doc"
    BY DEF RemovePlan
  <2> QED
    BY <1>1, <1>3, <2>1
<1> QED
  BY <1>1, <1>2, <1>4

\* The document is made last, by a step of its own.
LEMMA DocLast == \A i \in 1 .. 11 : CreatePlan[i] = "doc" => i = 11
BY DEF CreatePlan

\* What is on for the handlers is on in the installation.
LEMMA ActiveProvided ==
  ASSUME NEW s \in Part, Active(s)
  PROVE  Applies(Provides, s)
<1>1. Offered \subseteq Provides
  BY DEF Offered
<1>2. s \in {"subject", "api", "user", "data", "route", "policy", "static",
            "mongodb", "redis", "postgres", "doc"}
  BY DEF Part, CreatePlan
<1>3. CASE s \in {"subject", "api", "doc"}
  BY <1>3 DEF Applies
<1>4. CASE s \in {"user", "policy"}
  BY <1>4, <1>1 DEF Active, Applies
<1>5. CASE s \in {"data", "route"}
  BY <1>5, <1>1 DEF Active, Applies
<1>6. CASE s = "static"
  BY <1>6, <1>1 DEF Active, Applies
<1>7. CASE s \in {"mongodb", "redis", "postgres"}
  BY <1>7, <1>1 DEF Active, Applies
<1> QED
  BY <1>2, <1>3, <1>4, <1>5, <1>6, <1>7

LEMMA RemovalInitially == Init => Removal
BY DEF Init, Removal, Turns, Positions, ProvidedOnly, PassedRemoved, DeletedClean

\* The world around the handlers adds nothing to a user and moves no handler
\* but by a restart.
LEMMA AroundKeepsRemoval == Removal /\ Around => Removal'
<1> SUFFICES ASSUME Removal, Around
             PROVE  Removal'
  OBVIOUS
<1> USE DEF Removal, Turns, Positions, ProvidedOnly, PassedRemoved, DeletedClean
<1>1. CASE Configure \/ Annotate \/ Replace
  BY <1>1 DEF Configure, Annotate, Replace
<1>2. CASE RedisRestarts
  <2>1. accounts' \subseteq accounts
        /\ UNCHANGED << cfg, obj, handler, pos, fresh, clean, users >>
    BY <1>2 DEF RedisRestarts
  <2>2. Turns' /\ Positions'
    BY <2>1
  <2>3. ProvidedOnly'
    BY <2>1
  <2>4. PassedRemoved'
    BY <2>1
  <2>5. DeletedClean'
    BY <2>1
  <2> QED
    BY <2>2, <2>3, <2>4, <2>5
<1>3. CASE Restart
  BY <1>3 DEF Restart
<1>4. CASE Add \/ Remove
  BY <1>4 DEF Add, Remove
<1> QED
  BY <1>1, <1>2, <1>3, <1>4 DEF Around

\* whisk_user_create gives only parts whose component is on.
LEMMA CreateKeepsRemoval == Removal /\ (Create \/ Resume) => Removal'
<1> SUFFICES ASSUME Removal, Create \/ Resume
             PROVE  Removal'
  OBVIOUS
<1> USE DEF Removal, Turns, Positions, ProvidedOnly, PassedRemoved, DeletedClean
<1>1. CASE CreateBegins
  BY <1>1, PartsOfRemoval DEF CreateBegins
<1>2. CASE CreateSkips
  <2>1. CreatePlan[pos] # "doc"
    BY <1>2 DEF CreateSkips, Active, Applies
  <2>2. pos \in 1 .. 11 /\ pos # 11
    BY <1>2, <2>1, PartsOfRemoval DEF CreateSkips, CreatePlan
  <2> QED
    BY <1>2, <2>2, PartsOfRemoval DEF CreateSkips, Goes
<1>3. CASE CreateRaises
  <2>1. handler = "create"
        /\ handler' = "idle" /\ UNCHANGED << cfg, obj, accounts, fresh, users, clean >>
    BY <1>3 DEF CreateRaises, Creating
  <2> QED
    BY <2>1
<1>4. CASE CreateEnds
  <2>1. handler = "create" /\ handler' = "idle"
        /\ UNCHANGED << cfg, obj, users, clean, pos >>
    BY <1>4 DEF CreateEnds, Creating
  <2>2. "doc" \in Part /\ Applies(Provides, "doc")
    BY PartsOfRemoval DEF Applies, Part, CreatePlan
  <2>3. accounts' \in {accounts, accounts \cup {"doc"}}
    BY <1>4 DEF CreateEnds
  <2>4. fresh' => obj = "present"
    BY <1>4 DEF CreateEnds
  <2> QED
    BY <2>1, <2>2, <2>3, <2>4
<1>5. ASSUME NEW s \in Part,
             CreateGives(s) \/ CreateExists(s) \/ CreateFails(s) \/ CreateFooled(s)
      PROVE  Removal'
  <2>1. Ready(s) /\ pos' = pos + 1 /\ UNCHANGED << cfg, obj, handler, users, clean, fresh >>
    BY <1>5 DEF CreateGives, CreateExists, CreateFails, CreateFooled, Goes
  <2>2. handler = "create" /\ s = CreatePlan[pos] /\ s # "doc" /\ Active(s)
    BY <2>1 DEF Ready, Creating
  <2>3. accounts' \in {accounts, accounts \cup {s}}
    BY <1>5 DEF CreateGives, CreateExists, CreateFails, CreateFooled
  <2>4. pos' \in 1 .. Len(CreatePlan)
    <3>1. pos \in 1 .. 11 /\ pos # 11
      BY <2>2, PartsOfRemoval DEF CreatePlan
    <3> QED
      BY <2>1, <3>1, PartsOfRemoval
  <2>5. Applies(Provides, s)
    BY <2>2, ActiveProvided
  <2> QED
    BY <2>1, <2>2, <2>3, <2>4, <2>5
<1>6. CASE Resume
  <2>1. handler' = "idle" /\ handler = "resume"
        /\ UNCHANGED << cfg, obj, users, clean, fresh, pos >>
    BY <1>6 DEF Resume
  <2>2. accounts' \in {accounts, accounts \cup ({"redis"} \cap Offered \cap Wants)}
    BY <1>6 DEF Resume
  <2>3. "redis" \in Offered \cap Wants => "redis" \in Part /\ Applies(Provides, "redis")
    <3>1. Offered \subseteq Provides
      BY DEF Offered
    <3>2. "redis" \in Part
      BY PartsOfRemoval DEF Part, CreatePlan
    <3> QED
      BY <3>1, <3>2 DEF Applies
  <2> QED
    BY <2>1, <2>2, <2>3
<1> QED
  BY <1>1, <1>2, <1>3, <1>4, <1>5, <1>6 DEF Create

\* A step of the deletion keeps what it passed removed when the part it stands
\* at is gone after it, or the deletion no longer counts as clean.
LEMMA PassOne ==
  ASSUME Removal, handler = "delete", pos =< Len(RemovePlan), pos' = pos + 1,
         accounts' \subseteq accounts, UNCHANGED << cfg, obj, handler, users, fresh >>,
         clean' => clean /\ RemovePlan[pos] \notin accounts'
  PROVE  Removal'
<1> USE DEF Removal, Turns, Positions, ProvidedOnly, PassedRemoved, DeletedClean
<1>1. pos \in 1 .. Len(RemovePlan) /\ Len(RemovePlan) = 11
  BY PartsOfRemoval
<1>2. PassedRemoved'
  <2> SUFFICES ASSUME clean', NEW i \in 1 .. Len(RemovePlan), i < pos'
               PROVE  RemovePlan[i] \notin accounts'
    OBVIOUS
  <2>1. i < pos \/ i = pos
    BY <1>1
  <2> QED
    BY <2>1
<1>3. Positions'
  BY <1>1
<1> QED
  BY <1>2, <1>3

\* whisk_user_delete goes through every part.
LEMMA DeleteKeepsRemoval == Removal /\ Delete => Removal'
<1> SUFFICES ASSUME Removal, Delete
             PROVE  Removal'
  OBVIOUS
<1> USE DEF Removal, Turns, Positions, ProvidedOnly, PassedRemoved, DeletedClean
<1>1. CASE RemoveBegins
  BY <1>1, PartsOfRemoval DEF RemoveBegins
<1>2. CASE RemoveSkips
  <2>1. PICK s \in Part : Removing(s) /\ ~Active(s)
    BY <1>2 DEF RemoveSkips
  <2>2. clean' => clean /\ s \notin accounts
    BY <1>2, <2>1 DEF RemoveSkips, Active, Offered
  <2> QED
    BY <1>2, <2>1, <2>2, PassOne DEF RemoveSkips, Removing, Goes
<1>3. ASSUME NEW s \in Part, RemoveTakes(s)
      PROVE  Removal'
  BY <1>3, PassOne DEF RemoveTakes, Removing, Goes
<1>4. ASSUME NEW s \in Part, RemoveFails(s)
      PROVE  Removal'
  BY <1>4, PassOne DEF RemoveFails, Removing, Goes
<1>5. CASE RemoveEnds
  <2>1. pos = Len(RemovePlan) + 1 /\ handler = "delete" /\ obj' = "none" /\ handler' = "idle"
        /\ UNCHANGED << cfg, pos, accounts, clean, users, fresh >>
    BY <1>5 DEF RemoveEnds
  <2>2. DeletedClean'
    <3> SUFFICES ASSUME clean, NEW s \in accounts
                 PROVE  FALSE
      BY <2>1
    <3>1. PICK i \in 1 .. Len(RemovePlan) : RemovePlan[i] = s
      BY PartsOfRemoval
    <3>2. i < pos
      BY <2>1, <3>1, PartsOfRemoval
    <3> QED
      BY <2>1, <3>1, <3>2
  <2> QED
    BY <2>1, <2>2
<1> QED
  BY <1>1, <1>2, <1>3, <1>4, <1>5 DEF Delete

\* The invariant of the deletion holds in every behaviour.
THEOREM RemovalCorrect == Spec => []Removal
<1>1. Removal /\ UNCHANGED vars => Removal'
  BY DEF vars, Removal, Turns, Positions, ProvidedOnly, PassedRemoved, DeletedClean
<1>2. Removal /\ [Next]_vars => Removal'
  BY <1>1, AroundKeepsRemoval, CreateKeepsRemoval, DeleteKeepsRemoval DEF Next, Handler
<1> QED
  BY RemovalInitially, <1>2, PTL DEF Spec

\* A deletion in which no call failed and the configuration was there leaves
\* nothing of the user, whatever the creation and the deletions before it left.
THEOREM DeletedCorrect == Spec => []DeletedClean
BY RemovalCorrect, PTL DEF Removal
================================================================================
