---------------------------- MODULE Subjects_proofs ----------------------------
(***************************************************************************)
(* The processes of Subjects implement the atomic commands of SubjectStore,*)
(* for every set of documents, clients and commands and any number of lost *)
(* requests.  A write that CouchDB accepts carries the revision of the     *)
(* document, hence was computed from its content: this is the inductive    *)
(* invariant, and it makes the write the atomic command.                   *)
(***************************************************************************)
EXTENDS Subjects, TLAPS

\* The document a client is at.
At(c) == Head(todo[c])

\* What Head and Tail of a list of documents are.
LEMMA HeadTail ==
  ASSUME NEW S, NEW q \in Seq(S), q # << >>
  PROVE  Head(q) \in S /\ Tail(q) \in Seq(S)
OBVIOUS

LEMMA TargetsAreDocs ==
  ASSUME NEW k
  PROVE  Targets(k) \subseteq Docs
BY ConstantsAssumption DEF Targets

\* What a command writes is a document of the kind it is about, and not one
\* that is absent unless the command deletes.
LEMMA EditedType ==
  ASSUME NEW k \in Commands, NEW d \in Targets(k),
         NEW body \in Body(d) \union {Absent}, ~Refuses(k, body)
  PROVE  Edited(k, body) \in Body(d) \union {Absent}
<1>1. k.op \in LimitOps \union SubjectOps
  BY CommandsAssumption
<1>2. ASSUME k.op = "setLimits"
      PROVE  Edited(k, body) \in Body(d)
  <2>1. d \in LimitDocs /\ Body(d) = Limited /\ k.given \in Limited
    BY <1>2, CommandsAssumption DEF Targets, LimitOps, Body
  <2>2. Edited(k, body) =
          [l \in Limits |-> IF k.given[l] # Unset THEN k.given[l]
                            ELSE IF body = Absent THEN Unset ELSE body[l]]
    BY <1>2 DEF Edited, LimitsSet
  <2>3. \A l \in Limits : k.given[l] \in Values \union {Unset}
    BY <2>1 DEF Limited
  <2>4. body # Absent => \A l \in Limits : body[l] \in Values \union {Unset}
    BY <2>1 DEF Limited
  <2> QED
    BY <2>1, <2>2, <2>3, <2>4 DEF Limited
<1>3. ASSUME k.op \in SubjectOps
      PROVE  d \in Docs /\ Body(d) = Subject
  BY <1>3 DEF Targets, SubjectOps, LimitOps, Body
<1>4. ASSUME k.op \in {"create", "addSubject"}
      PROVE  Edited(k, body) \in Body(d)
  <2>1. New(k) \in Entry /\ Body(d) = Subject
    BY <1>3, <1>4, CommandsAssumption DEF New, Entry, SubjectOps
  <2>2. [blocked |-> FALSE, namespaces |-> {New(k)}] \in Subject
    BY <2>1 DEF Subject
  <2>3. CASE k.op = "create" /\ body # Absent
    <3>1. Edited(k, body) =
            [body EXCEPT !.namespaces = (@ \ Named(body, k.name)) \union {New(k)}]
      BY <2>3 DEF Edited, Created
    <3> QED
      BY <2>1, <2>3, <3>1 DEF Subject
  <2> QED
    BY <1>4, <2>1, <2>2, <2>3 DEF Edited, Created, OnlyNamespace
<1>5. ASSUME k.op \in {"deleteNs", "block", "unblock"}
      PROVE  Edited(k, body) \in Body(d)
  <2>1. Body(d) = Subject /\ body \in Subject
    BY <1>3, <1>5 DEF SubjectOps, Refuses
  <2>2. CASE k.op = "deleteNs"
    <3>1. Edited(k, body) = [body EXCEPT !.namespaces = @ \ Named(body, k.name)]
      BY <2>2 DEF Edited, NamespaceDeleted
    <3> QED
      BY <2>1, <3>1 DEF Subject
  <2>3. CASE k.op = "block"
    BY <2>1, <2>3 DEF Edited, Blocked, Subject
  <2>4. CASE k.op = "unblock"
    BY <2>1, <2>4 DEF Edited, Unblocked, Subject
  <2> QED
    BY <1>5, <2>2, <2>3, <2>4
<1>6. ASSUME k.op \notin {"create", "addSubject", "deleteNs", "block", "unblock", "setLimits"}
      PROVE  Edited(k, body) = Absent
  BY <1>6 DEF Edited
<1> QED
  BY <1>1, <1>2, <1>4, <1>5, <1>6
--------------------------------------------------------------------------------
LEMMA Initially == Init => Inductive
<1> SUFFICES ASSUME Init
             PROVE  Inductive
  OBVIOUS
<1>1. PICK s \in InitialStores :
        docs = [d \in Docs |-> [rev |-> IF s[d] = Absent THEN NoRev ELSE 1, body |-> s[d]]]
  BY DEF Init
<1>2. \A d \in Docs : docs[d] \in Document(d)
  BY <1>1, StoresAssumption DEF Document, NoRev
<1>3. \A c \in Clients : cmd[c] \in Commands /\ todo[c] = cmd[c].targets
  BY DEF Init
<1>4. \A c \in Clients : todo[c] \in Seq(Targets(cmd[c])) /\ todo[c] # << >>
  BY <1>3, CommandsAssumption
<1>5. TypeOK
  BY <1>1, <1>2, <1>4, FaultAssumption DEF Init, TypeOK
<1>6. Revised
  BY <1>1 DEF Revised, NoRev
<1>7. SeenCurrent
  BY DEF Init, SeenCurrent
<1> QED
  BY <1>5, <1>6, <1>7 DEF Inductive

\* A client is through with a document: its list stays one, and it is at the
\* end only when the list is.
LEMMA ThroughType ==
  ASSUME Inductive, NEW c \in Clients, NEW n \in {0, 1},
         pc[c] \in {"read", "write"}, Through(c, n)
  PROVE  /\ pc' \in [Clients -> {"new", "read", "write", "done"}]
         /\ cmd' = cmd /\ failed' \in [Clients -> Nat]
         /\ DOMAIN todo' = Clients
         /\ todo'[c] \in Seq(Targets(cmd[c]))
         /\ pc'[c] # "done" => todo'[c] # << >>
         /\ pc'[c] # "write"
         /\ \A b \in Clients \ {c} : todo'[b] = todo[b] /\ pc'[b] = pc[b]
<1>1. todo[c] \in Seq(Targets(cmd[c])) /\ todo[c] # << >>
  BY DEF Inductive, TypeOK
<1>2. Tail(todo[c]) \in Seq(Targets(cmd[c]))
  BY <1>1, HeadTail
<1> QED
  BY <1>1, <1>2 DEF Inductive, TypeOK, Through

\* What a GET answers has the form of the document, and its revision is
\* the document's if it exists.
LEMMA AnswerType ==
  ASSUME Inductive, NEW d \in Docs
  PROVE  /\ Missing \in Document(d)
         /\ Current(d) \in Document(d)
         /\ Current(d).body = Absent <=> Current(d).rev = NoRev
         /\ Current(d).rev <= docs[d].rev
         /\ Current(d).rev = docs[d].rev /\ docs[d].body # Absent
              => Current(d).body = docs[d].body
<1>1. docs[d] \in Document(d)
  BY DEF Inductive, TypeOK
<1> QED
  BY <1>1 DEF Inductive, Revised, Missing, Current, Document, NoRev

LEMMA GotInductive ==
  ASSUME Inductive, NEW c \in Clients, pc[c] = "read", NEW a, NEW lost \in BOOLEAN,
         a \in {Current(At(c)), Missing}, Got(c, a, lost),
         faults' \in 0 .. MaxFaults
  PROVE  Inductive'
<1>1. todo[c] \in Seq(Targets(cmd[c])) /\ todo[c] # << >>
  BY DEF Inductive, TypeOK
<1>2. At(c) \in Targets(cmd[c]) /\ At(c) \in Docs
  BY <1>1, HeadTail, TargetsAreDocs DEF At
<1>3. /\ a \in Document(At(c))
      /\ a.body = Absent <=> a.rev = NoRev
      /\ a.rev <= docs[At(c)].rev
      /\ a.rev = docs[At(c)].rev /\ docs[At(c)].body # Absent => a.body = docs[At(c)].body
  <2>1. docs[At(c)] \in Document(At(c))
    BY <1>2 DEF Inductive, TypeOK
  <2>2. docs[At(c)].body # Absent => docs[At(c)].rev # NoRev
    BY <1>2 DEF Inductive, Revised
  <2> QED
    BY <1>2, <2>1, <2>2, AnswerType DEF Missing, Document, NoRev
<1>4. /\ docs' = docs /\ cmd' = cmd
      /\ seen' = [seen EXCEPT ![c] = a]
      /\ \A b \in Clients \ {c} : todo'[b] = todo[b] /\ pc'[b] = pc[b]
      /\ pc' \in [Clients -> {"new", "read", "write", "done"}]
      /\ failed' \in [Clients -> Nat]
      /\ DOMAIN todo' = Clients
      /\ todo'[c] \in Seq(Targets(cmd[c]))
      /\ pc'[c] # "done" => todo'[c] # << >>
      /\ pc'[c] = "write" => todo'[c] = todo[c] /\ ~Refuses(cmd[c], a.body)
  <2>1. CASE \E n \in {0, 1} : Through(c, n)
    <3>1. PICK n \in {0, 1} : Through(c, n)
      BY <2>1
    <3>2. docs' = docs /\ seen' = [seen EXCEPT ![c] = a]
      BY DEF Got
    <3> QED
      BY <3>1, <3>2, ThroughType
  <2>2. CASE /\ ~Refuses(cmd[c], a.body)
             /\ pc' = [pc EXCEPT ![c] = "write"]
             /\ UNCHANGED << cmd, todo, failed >>
    BY <1>1, <2>2 DEF Got, Inductive, TypeOK
  <2> QED
    BY <2>1, <2>2 DEF Got
<1>5. TypeOK'
  <2>1. \A b \in Clients : pc'[b] = "write" => seen'[b] \in Document(Head(todo'[b]))
    BY <1>3, <1>4 DEF Inductive, TypeOK, At
  <2>2. \A b \in Clients : todo'[b] \in Seq(Targets(cmd[b])) /\ (pc'[b] # "done" => todo'[b] # << >>)
    BY <1>4 DEF Inductive, TypeOK
  <2> QED
    BY <1>4, <2>1, <2>2 DEF Inductive, TypeOK
<1>6. Revised'
  BY <1>4 DEF Inductive, Revised
<1>7. SeenCurrent'
  <2> SUFFICES ASSUME NEW b \in Clients, pc'[b] = "write"
               PROVE  LET d == Head(todo'[b])
                      IN  /\ ~Refuses(cmd'[b], seen'[b].body)
                          /\ seen'[b].body = Absent <=> seen'[b].rev = NoRev
                          /\ seen'[b].rev <= docs'[d].rev
                          /\ seen'[b].rev = docs'[d].rev /\ docs'[d].body # Absent
                               => seen'[b].body = docs'[d].body
    BY DEF SeenCurrent
  <2>1. CASE b = c
    BY <1>3, <1>4, <2>1 DEF Inductive, TypeOK, At
  <2>2. CASE b # c
    BY <1>4, <2>2 DEF Inductive, TypeOK, SeenCurrent
  <2> QED
    BY <2>1, <2>2
<1> QED
  BY <1>5, <1>6, <1>7 DEF Inductive

\* A write that is accepted was computed from the document as it is.
LEMMA AcceptedIsCurrent ==
  ASSUME Inductive, NEW c \in Clients, pc[c] = "write", Accepts(At(c), seen[c].rev)
  PROVE  /\ At(c) \in Docs /\ At(c) \in Targets(cmd[c])
         /\ seen[c].body = docs[At(c)].body
         /\ ~Refuses(cmd[c], seen[c].body)
         /\ docs[At(c)] \in Document(At(c))
<1>1. todo[c] \in Seq(Targets(cmd[c])) /\ todo[c] # << >>
  BY DEF Inductive, TypeOK
<1>2. At(c) \in Targets(cmd[c]) /\ At(c) \in Docs
  BY <1>1, HeadTail, TargetsAreDocs DEF At
<1>3. docs[At(c)] \in Document(At(c)) /\ seen[c] \in Document(At(c))
  BY <1>2 DEF Inductive, TypeOK, At
<1>4. /\ ~Refuses(cmd[c], seen[c].body)
      /\ seen[c].body = Absent <=> seen[c].rev = NoRev
      /\ seen[c].rev = docs[At(c)].rev /\ docs[At(c)].body # Absent
           => seen[c].body = docs[At(c)].body
  BY DEF Inductive, SeenCurrent, At
<1> QED
  BY <1>2, <1>3, <1>4 DEF Accepts, Current, Missing

LEMMA WriteInductive ==
  ASSUME Inductive, NEW c \in Clients, Write(c)
  PROVE  Inductive'
<1>1. /\ pc[c] = "write" /\ Accepts(At(c), seen[c].rev)
      /\ Stored(At(c), Edited(cmd[c], seen[c].body))
      /\ seen' = seen
      /\ \E n \in {0, 1} : Through(c, n)
      /\ faults' \in 0 .. MaxFaults
  BY FaultAssumption DEF Write, At, Fault, Inductive, TypeOK
<1>2. /\ At(c) \in Docs /\ At(c) \in Targets(cmd[c])
      /\ seen[c].body = docs[At(c)].body
      /\ ~Refuses(cmd[c], seen[c].body)
      /\ docs[At(c)] \in Document(At(c))
  BY <1>1, AcceptedIsCurrent
<1>3. Edited(cmd[c], seen[c].body) \in Body(At(c)) \union {Absent}
  <2>1. cmd[c] \in Commands /\ seen[c].body \in Body(At(c)) \union {Absent}
    BY <1>2 DEF Inductive, TypeOK, Document
  <2> QED
    BY <1>2, <2>1, EditedType
<1>4. PICK n \in {0, 1} : Through(c, n)
  BY <1>1
<1>5. /\ pc' \in [Clients -> {"new", "read", "write", "done"}]
      /\ cmd' = cmd /\ failed' \in [Clients -> Nat]
      /\ DOMAIN todo' = Clients
      /\ todo'[c] \in Seq(Targets(cmd[c]))
      /\ pc'[c] # "done" => todo'[c] # << >>
      /\ pc'[c] # "write"
      /\ \A b \in Clients \ {c} : todo'[b] = todo[b] /\ pc'[b] = pc[b]
  BY <1>1, <1>4, ThroughType
<1>6. /\ DOMAIN docs' = Docs
      /\ docs'[At(c)].rev = docs[At(c)].rev + 1
      /\ docs'[At(c)] \in Document(At(c))
      /\ \A d \in Docs \ {At(c)} : docs'[d] = docs[d]
  BY <1>1, <1>2, <1>3 DEF Stored, Document, Inductive, TypeOK
<1>7. TypeOK'
  <2>1. \A d \in Docs : docs'[d] \in Document(d)
    BY <1>6 DEF Inductive, TypeOK
  <2>2. \A b \in Clients : pc'[b] = "write" => seen'[b] \in Document(Head(todo'[b]))
    BY <1>1, <1>5 DEF Inductive, TypeOK
  <2>3. \A b \in Clients : todo'[b] \in Seq(Targets(cmd[b])) /\ (pc'[b] # "done" => todo'[b] # << >>)
    BY <1>5 DEF Inductive, TypeOK
  <2> QED
    BY <1>1, <1>5, <1>6, <2>1, <2>2, <2>3 DEF Inductive, TypeOK
<1>8. Revised'
  BY <1>2, <1>6 DEF Inductive, Revised, Document, NoRev
<1>9. SeenCurrent'
  <2> SUFFICES ASSUME NEW b \in Clients, pc'[b] = "write"
               PROVE  LET d == Head(todo'[b])
                      IN  /\ ~Refuses(cmd'[b], seen'[b].body)
                          /\ seen'[b].body = Absent <=> seen'[b].rev = NoRev
                          /\ seen'[b].rev <= docs'[d].rev
                          /\ seen'[b].rev = docs'[d].rev /\ docs'[d].body # Absent
                               => seen'[b].body = docs'[d].body
    BY DEF SeenCurrent
  <2>1. b # c /\ pc[b] = "write" /\ todo'[b] = todo[b] /\ seen'[b] = seen[b]
    BY <1>1, <1>5
  <2>2. todo[b] \in Seq(Targets(cmd[b])) /\ todo[b] # << >>
    BY <2>1 DEF Inductive, TypeOK
  <2>3. At(b) \in Docs
    BY <2>2, HeadTail, TargetsAreDocs DEF At
  <2>4. /\ ~Refuses(cmd[b], seen[b].body)
        /\ seen[b].body = Absent <=> seen[b].rev = NoRev
        /\ seen[b].rev <= docs[At(b)].rev
        /\ seen[b].rev = docs[At(b)].rev /\ docs[At(b)].body # Absent
             => seen[b].body = docs[At(b)].body
    BY <2>1 DEF Inductive, SeenCurrent, At
  <2>5. seen[b].rev \in Nat /\ docs[At(b)].rev \in Nat
    BY <2>1, <2>3 DEF Inductive, TypeOK, Document, At
  <2> QED
    BY <1>5, <1>6, <2>1, <2>3, <2>4, <2>5 DEF At
<1> QED
  BY <1>7, <1>8, <1>9 DEF Inductive

\* A client that goes on without touching a document.
LEMMA WriteFailsInductive ==
  ASSUME Inductive, NEW c \in Clients, WriteFails(c)
  PROVE  Inductive'
<1>1. pc[c] = "write" /\ Through(c, 1) /\ docs' = docs /\ seen' = seen
      /\ faults' \in 0 .. MaxFaults
  BY FaultAssumption DEF WriteFails, Fault, Inductive, TypeOK
<1>2. /\ pc' \in [Clients -> {"new", "read", "write", "done"}]
      /\ cmd' = cmd /\ failed' \in [Clients -> Nat]
      /\ DOMAIN todo' = Clients
      /\ todo'[c] \in Seq(Targets(cmd[c]))
      /\ pc'[c] # "done" => todo'[c] # << >>
      /\ pc'[c] # "write"
      /\ \A b \in Clients \ {c} : todo'[b] = todo[b] /\ pc'[b] = pc[b]
  BY <1>1, ThroughType
<1>3. TypeOK'
  BY <1>1, <1>2 DEF Inductive, TypeOK
<1>4. Revised' /\ SeenCurrent'
  BY <1>1, <1>2 DEF Inductive, Revised, SeenCurrent
<1> QED
  BY <1>3, <1>4 DEF Inductive

LEMMA Preserved == Inductive /\ [Next]_vars => Inductive'
<1> SUFFICES ASSUME Inductive, [Next]_vars
             PROVE  Inductive'
  OBVIOUS
<1>1. ASSUME NEW c \in Clients, Start(c)
      PROVE  Inductive'
  BY <1>1 DEF Start, Inductive, TypeOK, Revised, SeenCurrent
<1>2. ASSUME NEW c \in Clients, Read(c)
      PROVE  Inductive'
  <2>1. pc[c] = "read" /\ (UNCHANGED faults \/ Fault)
    BY <1>2, Zenon DEF Read
  <2>4. faults' \in 0 .. MaxFaults
    BY <2>1, FaultAssumption DEF Fault, Inductive, TypeOK
  <2>2. CASE Got(c, Current(At(c)), FALSE)
    BY <2>1, <2>4, <2>2, GotInductive
  <2>3. CASE Got(c, Missing, TRUE)
    BY <2>1, <2>4, <2>3, GotInductive
  <2> QED
    BY <1>2, <2>2, <2>3 DEF Read, At
<1>3. CASE UNCHANGED vars
  BY <1>3 DEF vars, Inductive, TypeOK, Revised, SeenCurrent
<1> QED
  BY <1>1, <1>2, <1>3, WriteInductive, WriteFailsInductive DEF Next

\* The inductive invariant: whatever the interleaving of the processes and
\* the requests that are lost, a client about to write holds the content of
\* the revision it carries.
THEOREM InductiveCorrect == Spec => []Inductive
BY Initially, Preserved, PTL DEF Spec

\* Documents keep the form of their kind.
THEOREM TypeCorrect == Spec => []TypeOK
<1>1. Inductive => TypeOK
  BY DEF Inductive
<1> QED
  BY <1>1, InductiveCorrect, PTL
--------------------------------------------------------------------------------
\* The state of the abstract specification a state stands for.
Stores == [d \in Docs |-> docs[d].body]
Phases == [c \in Clients |-> IF pc[c] \in {"read", "write"} THEN "busy" ELSE pc[c]]

LEMMA InitRefines == Init => Atomic!Init
<1> SUFFICES ASSUME Init
             PROVE  Atomic!Init
  OBVIOUS
<1>1. PICK s \in InitialStores :
        docs = [d \in Docs |-> [rev |-> IF s[d] = Absent THEN NoRev ELSE 1, body |-> s[d]]]
  BY DEF Init
<1>2. Stores = s
  BY <1>1, StoresAssumption DEF Stores
<1> QED
  BY <1>1, <1>2 DEF Init, Atomic!Init, Stores

\* To be through with a document is one advance of the abstract client.
LEMMA ThroughAdvances ==
  ASSUME Inductive, NEW c \in Clients, NEW n,
         pc[c] \in {"read", "write"}, Through(c, n)
  PROVE  Atomic!Advance(c, n)
<1>1. Phases[c] = "busy"
  BY DEF Phases
<1>2. Phases' = [Phases EXCEPT ![c] = IF Tail(todo[c]) = << >> THEN "done" ELSE "busy"]
  BY DEF Phases, Through, Inductive, TypeOK
<1> QED
  BY <1>1, <1>2 DEF Through, Atomic!Advance, Phases

\* The commands of the two specifications are the same.
LEMMA SameCommands ==
  ASSUME NEW k, NEW body
  PROVE  /\ Atomic!Refuses(k, body) <=> Refuses(k, body)
         /\ Atomic!Edited(k, body) = Edited(k, body)
<1>1. /\ Atomic!New(k) = New(k)
      /\ Atomic!Named(body, k.name) = Named(body, k.name)
      /\ Atomic!Several(body, k.name) <=> Several(body, k.name)
  BY DEF New, Atomic!New, Named, Atomic!Named, Several, Atomic!Several
<1>2. Atomic!Refuses(k, body) <=> Refuses(k, body)
  BY <1>1, Zenon DEF Refuses, Atomic!Refuses, CreateRefused, Atomic!CreateRefused,
                     Reads, Atomic!Reads
<1>3. Atomic!OnlyNamespace(k) = OnlyNamespace(k)
  BY <1>1, Zenon DEF OnlyNamespace, Atomic!OnlyNamespace
<1>4. Atomic!Edited(k, body) = Edited(k, body)
  BY <1>1, <1>3, Zenon DEF Edited, Atomic!Edited, Created, Atomic!Created,
     NamespaceDeleted, Atomic!NamespaceDeleted, Blocked, Atomic!Blocked,
     Unblocked, Atomic!Unblocked, LimitsSet, Atomic!LimitsSet
<1> QED
  BY <1>2, <1>4

\* What a step of the read does to the documents: nothing.
LEMMA GotRefines ==
  ASSUME Inductive, NEW c \in Clients, pc[c] = "read", NEW a, NEW lost, Got(c, a, lost)
  PROVE  Atomic!Fail(c) \/ Atomic!Answer(c) \/ UNCHANGED Atomic!vars
<1>1. docs' = docs /\ Stores' = Stores
  BY DEF Got, Stores
<1>2. ASSUME Through(c, 1)
      PROVE  Atomic!Fail(c)
  BY <1>1, <1>2, ThroughAdvances DEF Atomic!Fail, Stores
<1>3. ASSUME Through(c, 0), cmd[c].op \in Reads
      PROVE  Atomic!Answer(c)
  BY <1>1, <1>3, ThroughAdvances DEF Atomic!Answer, Stores, Reads, Atomic!Reads
<1>4. ASSUME pc' = [pc EXCEPT ![c] = "write"], UNCHANGED << cmd, todo, failed >>
      PROVE  UNCHANGED Atomic!vars
  <2>1. Phases' = Phases
    BY <1>4 DEF Phases, Inductive, TypeOK
  <2> QED
    BY <1>1, <1>4, <2>1 DEF Atomic!vars, Stores, Phases
<1> QED
  BY <1>2, <1>3, <1>4 DEF Got

\* An accepted write is the command, applied to the document as it is.
LEMMA WriteRefines ==
  ASSUME Inductive, NEW c \in Clients, Write(c)
  PROVE  Atomic!Commit(c)
<1>1. /\ pc[c] = "write" /\ Accepts(At(c), seen[c].rev)
      /\ Stored(At(c), Edited(cmd[c], seen[c].body))
      /\ \E n \in {0, 1} : Through(c, n)
  BY DEF Write, At
<1>2. /\ At(c) \in Docs
      /\ seen[c].body = Stores[At(c)]
      /\ ~Refuses(cmd[c], Stores[At(c)])
  BY <1>1, AcceptedIsCurrent DEF Stores
<1>3. Stores' = [Stores EXCEPT ![At(c)] = Edited(cmd[c], Stores[At(c)])]
  BY <1>1, <1>2 DEF Stored, Stores, Inductive, TypeOK
<1>4. \E n \in {0, 1} : Atomic!Advance(c, n)
  BY <1>1, ThroughAdvances
<1>5. Phases[c] = "busy"
  BY <1>1 DEF Phases
<1>6. /\ Atomic!Refuses(cmd[c], Stores[At(c)]) <=> Refuses(cmd[c], Stores[At(c)])
      /\ Atomic!Edited(cmd[c], Stores[At(c)]) = Edited(cmd[c], Stores[At(c)])
  BY SameCommands
<1> QED
  BY <1>2, <1>3, <1>4, <1>5, <1>6 DEF Atomic!Commit, Stores, Phases, At

LEMMA StepRefines == Inductive /\ [Next]_vars => [Atomic!Next]_(Atomic!vars)
<1> SUFFICES ASSUME Inductive, [Next]_vars
             PROVE  Atomic!Next \/ UNCHANGED Atomic!vars
  OBVIOUS
<1>1. ASSUME NEW c \in Clients, Start(c)
      PROVE  Atomic!Begin(c)
  <2>1. Phases[c] = "new" /\ Phases' = [Phases EXCEPT ![c] = "busy"]
    BY <1>1 DEF Start, Phases, Inductive, TypeOK
  <2> QED
    BY <1>1, <2>1 DEF Start, Atomic!Begin, Phases
<1>2. ASSUME NEW c \in Clients, Read(c)
      PROVE  Atomic!Fail(c) \/ Atomic!Answer(c) \/ UNCHANGED Atomic!vars
  <2>1. pc[c] = "read"
    BY <1>2, Zenon DEF Read
  <2>2. CASE Got(c, Current(At(c)), FALSE)
    BY <2>1, <2>2, GotRefines
  <2>3. CASE Got(c, Missing, TRUE)
    BY <2>1, <2>3, GotRefines
  <2> QED
    BY <1>2, <2>2, <2>3 DEF Read, At
<1>3. ASSUME NEW c \in Clients, WriteFails(c)
      PROVE  Atomic!Fail(c)
  <2>1. pc[c] = "write" /\ Through(c, 1) /\ docs' = docs
    BY <1>3 DEF WriteFails
  <2>2. Atomic!Advance(c, 1)
    BY <2>1, ThroughAdvances
  <2> QED
    BY <2>1, <2>2 DEF Atomic!Fail
<1>4. CASE UNCHANGED vars
  BY <1>4 DEF vars, Atomic!vars
<1> QED
  BY <1>1, <1>2, <1>3, <1>4, WriteRefines DEF Next, Atomic!Next

\* The programs implement the atomic commands: an update is never lost
\* between the read and the write of another.
THEOREM CommandsAtomic == Spec => AtomicSpec
BY InitRefines, StepRefines, InductiveCorrect, PTL DEF Spec, AtomicSpec, Atomic!Spec
--------------------------------------------------------------------------------
\* Documents change in writes that CouchDB accepts, one document at a time, and
\* become what the command makes of them as they are.
LEMMA ChangedByWrite ==
  ASSUME Inductive, [Next]_vars, NEW d \in Docs, docs'[d] # docs[d]
  PROVE  \E c \in Clients :
           /\ Writes(c) /\ At(c) = d /\ cmd[c] \in Commands /\ d \in Targets(cmd[c])
           /\ docs[d].body \in Body(d) \cup {Absent}
           /\ ~Refuses(cmd[c], docs[d].body)
           /\ docs'[d].body = Edited(cmd[c], docs[d].body)
<1>1. PICK c \in Clients : Write(c)
  BY DEF Next, Start, Read, Got, WriteFails, vars
<1>2. /\ pc[c] = "write" /\ Accepts(At(c), seen[c].rev)
      /\ Stored(At(c), Edited(cmd[c], seen[c].body))
      /\ \E n \in {0, 1} : Through(c, n)
  BY <1>1 DEF Write, At
<1>3. pc'[c] # "write"
  BY <1>2, ThroughType
<1>4. /\ At(c) \in Docs /\ At(c) \in Targets(cmd[c])
      /\ seen[c].body = docs[At(c)].body
      /\ ~Refuses(cmd[c], seen[c].body)
      /\ docs[At(c)] \in Document(At(c))
  BY <1>2, AcceptedIsCurrent
<1>5. /\ docs'[At(c)].body = Edited(cmd[c], docs[At(c)].body)
      /\ \A e \in Docs \ {At(c)} : docs'[e] = docs[e]
  BY <1>2, <1>4 DEF Stored, Inductive, TypeOK
<1>6. Writes(c) /\ At(c) = d
  BY <1>2, <1>3, <1>5 DEF Writes
<1> QED
  BY <1>4, <1>5, <1>6 DEF Inductive, TypeOK, Document

LEMMA LimitKeptByStep ==
  ASSUME Inductive, [Next]_vars, NEW d \in LimitDocs, NEW l \in Limits,
         docs[d].body # Absent, docs[d].body[l] # Unset,
         docs'[d].body = Absent \/ docs'[d].body[l] # docs[d].body[l]
  PROVE  \E c \in Clients :
           /\ Writes(c) /\ Head(todo[c]) = d
           /\ \/ cmd[c].op = "deleteLimits"
              \/ cmd[c].op = "setLimits" /\ cmd[c].given[l] # Unset
<1>1. d \in Docs /\ docs'[d] # docs[d]
  BY ConstantsAssumption
<1>2. PICK c \in Clients :
        /\ Writes(c) /\ At(c) = d /\ cmd[c] \in Commands /\ d \in Targets(cmd[c])
        /\ docs[d].body \in Body(d) \cup {Absent}
        /\ ~Refuses(cmd[c], docs[d].body)
        /\ docs'[d].body = Edited(cmd[c], docs[d].body)
  BY <1>1, ChangedByWrite
<1>3. cmd[c].op \in {"setLimits", "deleteLimits"}
  BY <1>2 DEF Targets, LimitOps, Refuses, Reads
<1>4. CASE cmd[c].op = "setLimits"
  <2>1. docs'[d].body =
          [m \in Limits |-> IF cmd[c].given[m] # Unset THEN cmd[c].given[m]
                            ELSE docs[d].body[m]]
    BY <1>2, <1>4 DEF Edited, LimitsSet
  <2>2. docs'[d].body # Absent
    <3>1. cmd[c].given \in Limited /\ Body(d) = Limited /\ docs[d].body \in Limited
      BY <1>2, <1>4, CommandsAssumption DEF Body
    <3>2. docs'[d].body \in Limited
      BY <2>1, <3>1 DEF Limited
    <3> QED
      BY <1>1, <3>1, <3>2, ConstantsAssumption
  <2> QED
    BY <1>2, <1>4, <2>1, <2>2 DEF At
<1> QED
  BY <1>2, <1>3, <1>4 DEF At

\* An identity of the view.
LEMMA IdentityOf ==
  \A i : i \in Identities <=>
    \E d \in Docs \ LimitDocs :
      /\ docs[d].body # Absent /\ ~docs[d].body.blocked
      /\ \E e \in docs[d].body.namespaces : i = [id |-> d, entry |-> e]
BY DEF Identities

LEMMA IdentityThen ==
  \A i : i \in Identities' <=>
    \E d \in Docs \ LimitDocs :
      /\ docs'[d].body # Absent /\ ~docs'[d].body.blocked
      /\ \E e \in docs'[d].body.namespaces : i = [id |-> d, entry |-> e]
BY DEF Identities

LEMMA KeyGivenByStep ==
  ASSUME Inductive, [Next]_vars, NEW key \in Keys, NEW i \in Whois(key)' \ Whois(key)
  PROVE  \E c \in Clients :
           /\ Writes(c) /\ Head(todo[c]) = i.id
           /\ \/ cmd[c].op \in {"create", "addSubject"} /\ New(cmd[c]) = i.entry
              \/ cmd[c].op = "unblock"
<1>1. i \in Identities' /\ i \notin Identities
  BY DEF Whois
<1>2. PICK d \in Docs \ LimitDocs :
        /\ docs'[d].body # Absent /\ ~docs'[d].body.blocked
        /\ \E e \in docs'[d].body.namespaces : i = [id |-> d, entry |-> e]
  BY <1>1, IdentityThen
<1> DEFINE e == i.entry
<1>2a. e \in docs'[d].body.namespaces /\ i = [id |-> d, entry |-> e]
  BY <1>2
<1>3. docs[d].body = Absent \/ docs[d].body.blocked \/ e \notin docs[d].body.namespaces
  BY <1>1, <1>2, <1>2a, IdentityOf
<1>4. docs'[d] # docs[d]
  BY <1>2, <1>3, <1>2a
<1>5. PICK c \in Clients :
        /\ Writes(c) /\ At(c) = d /\ cmd[c] \in Commands /\ d \in Targets(cmd[c])
        /\ docs[d].body \in Body(d) \cup {Absent}
        /\ ~Refuses(cmd[c], docs[d].body)
        /\ docs'[d].body = Edited(cmd[c], docs[d].body)
  BY <1>4, ChangedByWrite
<1> DEFINE k == cmd[c]
           body == docs[d].body
<1>6. body # Absent => body \in Subject
  BY <1>2, <1>5 DEF Body
<1>7. k.op # "setLimits"
  BY <1>2, <1>5 DEF Targets, LimitOps
<1>8. k.op \in {"create", "addSubject", "deleteNs", "block", "unblock"}
  BY <1>2, <1>5, <1>7 DEF Edited
<1>9. CASE k.op = "addSubject"
  BY <1>2, <1>2a, <1>5, <1>9 DEF Edited, OnlyNamespace, At
<1>10. CASE k.op = "create"
  <2>1. CASE body = Absent
    BY <1>2, <1>2a, <1>5, <1>10, <2>1 DEF Edited, Created, OnlyNamespace, At
  <2>2. CASE body # Absent
    <3>1. ~body.blocked
      BY <1>5, <1>10, <2>2 DEF Refuses, CreateRefused
    <3>2. docs'[d].body.namespaces = (body.namespaces \ Named(body, k.name)) \cup {New(k)}
      BY <1>5, <1>6, <1>10, <2>2 DEF Edited, Created, Subject
    <3> QED
      BY <1>2, <1>2a, <1>3, <1>5, <1>10, <2>2, <3>1, <3>2 DEF At
  <2> QED
    BY <2>1, <2>2
<1>11. CASE k.op \in {"deleteNs", "block"}
  <2>1. body \in Subject
    BY <1>5, <1>6, <1>11 DEF Refuses
  <2>2. docs'[d].body.namespaces \subseteq body.namespaces
        /\ (body.blocked => docs'[d].body.blocked)
    BY <1>5, <1>11, <2>1 DEF Edited, NamespaceDeleted, Blocked, Subject
  <2>3. body # Absent
    BY <1>5, <1>11 DEF Refuses
  <2> QED
    BY <1>2, <1>2a, <1>3, <2>2, <2>3
<1>12. CASE k.op = "unblock"
  BY <1>2, <1>2a, <1>5, <1>12 DEF At
<1> QED
  BY <1>8, <1>9, <1>10, <1>11, <1>12

\* A key is recognised anew only by a command that says so: whoever takes one
\* away is not undone by a command that read the document before.
THEOREM KeysCorrect == Spec => KeysGiven
<1>1. Inductive /\ [Next]_vars =>
        [\A key \in Keys : \A i \in Whois(key)' \ Whois(key) :
           \E c \in Clients :
             /\ Writes(c) /\ Head(todo[c]) = i.id
             /\ \/ cmd[c].op \in {"create", "addSubject"} /\ New(cmd[c]) = i.entry
                \/ cmd[c].op = "unblock"]_vars
  BY KeyGivenByStep
<1> QED
  BY <1>1, InductiveCorrect, PTL DEF Spec, KeysGiven

\* A limit that was set changes only by a command that was given it, or that
\* deletes the document, however many processes set limits at once.
THEOREM LimitsCorrect == Spec => LimitsKept
<1>1. Inductive /\ [Next]_vars =>
        [\A d \in LimitDocs, l \in Limits :
           docs[d].body # Absent /\ docs[d].body[l] # Unset
           /\ (docs'[d].body = Absent \/ docs'[d].body[l] # docs[d].body[l])
             => \E c \in Clients :
                  /\ Writes(c) /\ Head(todo[c]) = d
                  /\ \/ cmd[c].op = "deleteLimits"
                     \/ cmd[c].op = "setLimits" /\ cmd[c].given[l] # Unset]_vars
  BY LimitKeptByStep
<1> QED
  BY <1>1, InductiveCorrect, PTL DEF Spec, LimitsKept
================================================================================
