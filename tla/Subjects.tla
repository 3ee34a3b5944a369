-------------------------------- MODULE Subjects --------------------------------
(***************************************************************************)
(* The programs that administer the database of subjects, each a process   *)
(* of its own: runs of wskadmin (user create, delete, get, block, unblock, *)
(* limits set, get, delete) and the handlers of the operator's users       *)
(* (couchdb_util.update_doc and delete_doc).                               *)
(*                                                                         *)
(* Every one of them reads a document, decides, and writes another over    *)
(* it: two requests, between which the others write too.  CouchDB takes a  *)
(* write only if it carries the revision the document has (none, if there  *)
(* is no document).  Requests and answers are lost: wskutil.request then   *)
(* answers 500, and a document that could not be read is taken for one     *)
(* that is missing.                                                        *)
(***************************************************************************)
EXTENDS SubjectCommands

CONSTANTS
  Clients,       \* the processes
  InitialStores, \* the documents they may find
  MaxFaults      \* bound: requests or answers that are lost

ASSUME StoresAssumption ==
  \A s \in InitialStores :
    s = [d \in Docs |-> s[d]] /\ \A d \in Docs : s[d] \in Body(d) \union {Absent}
ASSUME FaultAssumption  == MaxFaults \in Nat

VARIABLES
  docs,   \* CouchDB: of each id the revision and the document
  pc,     \* of a client: "new", "read", "write" or "done"
  cmd,    \* its command
  todo,   \* the documents it has still to go through
  seen,   \* what its last GET answered
  failed, \* how many failures it has counted
  faults

vars == << docs, pc, cmd, todo, seen, failed, faults >>

\* A document that is read as missing has no _rev.
NoRev   == 0
Missing == [rev |-> NoRev, body |-> Absent]

Init ==
  /\ \E s \in InitialStores :
       docs = [d \in Docs |-> [rev |-> IF s[d] = Absent THEN NoRev ELSE 1, body |-> s[d]]]
  /\ pc     = [c \in Clients |-> "new"]
  /\ cmd   \in [Clients -> Commands]
  /\ todo   = [c \in Clients |-> cmd[c].targets]
  /\ seen   = [c \in Clients |-> Missing]
  /\ failed = [c \in Clients |-> 0]
  /\ faults = 0

Current(d) == IF docs[d].body = Absent THEN Missing ELSE docs[d]

Fault == faults < MaxFaults /\ faults' = faults + 1

\* The arguments are in order: the command starts with its first document.
Start(c) ==
  /\ pc[c] = "new"
  /\ pc' = [pc EXCEPT ![c] = "read"]
  /\ UNCHANGED << docs, cmd, todo, seen, failed, faults >>

\* The client is through with a document, with n failures.
Through(c, n) ==
  /\ todo' = [todo EXCEPT ![c] = Tail(@)]
  /\ pc' = [pc EXCEPT ![c] = IF Tail(todo[c]) = << >> THEN "done" ELSE "read"]
  /\ failed' = [failed EXCEPT ![c] = @ + n]
  /\ UNCHANGED cmd

\* user get: the document, or its one namespace of that name, is not there.
NotFound(k, body) ==
  body = Absent \/ Named(body, k.name) = {} \/ Several(body, k.name)

\* A command that reads: limits get takes a missing document for the defaults.
ReadFails(k, answer, lost) ==
  IF k.op = "getLimits" THEN lost ELSE NotFound(k, answer.body)

\* The GET, and what follows of what it answered.
Got(c, answer, lost) ==
  LET k == cmd[c]
  IN  /\ seen' = [seen EXCEPT ![c] = answer]
      /\ \/ /\ k.op \in Reads
            /\ Through(c, IF ReadFails(k, answer, lost) THEN 1 ELSE 0)
         \/ /\ k.op \notin Reads /\ Refuses(k, answer.body)
            /\ Through(c, 1)
         \/ /\ ~Refuses(k, answer.body)
            /\ pc' = [pc EXCEPT ![c] = "write"]
            /\ UNCHANGED << cmd, todo, failed >>
      /\ UNCHANGED docs

Read(c) ==
  /\ pc[c] = "read"
  /\ \/ Got(c, Current(Head(todo[c])), FALSE) /\ UNCHANGED faults
     \/ Got(c, Missing, TRUE) /\ Fault

\* (Mutation: the last writer wins.)
AcceptsAll(d, rev) == TRUE

\* CouchDB: 409 unless the revision is the one of the document.
Accepts(d, rev) == Current(d).rev = rev

\* A document is written, or deleted, under the next revision: a deletion
\* leaves its revision behind.
Stored(d, body) ==
  docs' = [docs EXCEPT ![d] = [rev |-> docs[d].rev + 1, body |-> body]]

\* The POST, PUT or DELETE is carried out; its answer may be lost.
Write(c) ==
  LET d == Head(todo[c])
  IN  /\ pc[c] = "write"
      /\ Accepts(d, seen[c].rev)
      /\ Stored(d, Edited(cmd[c], seen[c].body))
      /\ \/ Through(c, 0) /\ UNCHANGED faults
         \/ Through(c, 1) /\ Fault
      /\ UNCHANGED seen

\* It is refused, or never arrives.
WriteFails(c) ==
  /\ pc[c] = "write"
  /\ \/ ~Accepts(Head(todo[c]), seen[c].rev) /\ UNCHANGED faults
     \/ Fault
  /\ Through(c, 1)
  /\ UNCHANGED << docs, seen >>

Next == \E c \in Clients : Start(c) \/ Read(c) \/ Write(c) \/ WriteFails(c)

Spec == Init /\ [][Next]_vars
--------------------------------------------------------------------------------
Document(d) == [rev: Nat, body: Body(d) \union {Absent}]

\* Types: documents and what is read of them have the form of their kind, and
\* a client that is to read or to write has a document to do it with.
TypeOK ==
  /\ DOMAIN docs = Docs /\ \A d \in Docs : docs[d] \in Document(d)
  /\ pc \in [Clients -> {"new", "read", "write", "done"}]
  /\ cmd \in [Clients -> Commands]
  /\ failed \in [Clients -> Nat]
  /\ faults \in 0 .. MaxFaults
  /\ DOMAIN todo = Clients /\ DOMAIN seen = Clients
  /\ \A c \in Clients :
       /\ todo[c] \in Seq(Targets(cmd[c]))
       /\ pc[c] # "done" => todo[c] # << >>
       /\ pc[c] = "write" => seen[c] \in Document(Head(todo[c]))

\* A client about to write has been told to by what it read, and what it
\* read is still the document if the revision is: no revision is ever given
\* to two contents, nor one below it to a later content.
SeenCurrent ==
  \A c \in Clients :
    pc[c] = "write" =>
      LET d == Head(todo[c])
      IN  /\ ~Refuses(cmd[c], seen[c].body)
          /\ seen[c].body = Absent <=> seen[c].rev = NoRev
          /\ seen[c].rev <= docs[d].rev
          /\ seen[c].rev = docs[d].rev /\ docs[d].body # Absent
               => seen[c].body = docs[d].body

\* A document that exists has a revision.
Revised == \A d \in Docs : docs[d].body # Absent => docs[d].rev # NoRev

\* The inductive invariant.
Inductive == TypeOK /\ Revised /\ SeenCurrent

\* The view identities (files/auth_design_document...json), by which whois,
\* list and the controller find who may do what: the entries of the subjects
\* that are not blocked.
Identities ==
  UNION { { [id |-> d, entry |-> e] : e \in docs[d].body.namespaces } :
            d \in { s \in Docs \ LimitDocs :
                      docs[s].body # Absent /\ ~docs[s].body.blocked } }

\* whois: the subject and the namespace a key is recognised as.
Whois(key) == { i \in Identities : i.entry.key = key }

\* The client whose request CouchDB carries out in this step, if any.
Writes(c) == pc[c] = "write" /\ docs' # docs /\ pc'[c] # "write"

\* A key is recognised anew only by a command that says so: whoever deletes
\* or blocks a subject, or takes a namespace or a key away, is not undone by
\* a command that had read the document before.
KeysGiven ==
  [][\A key \in Keys : \A i \in Whois(key)' \ Whois(key) :
       \E c \in Clients :
         /\ Writes(c) /\ Head(todo[c]) = i.id
         /\ \/ cmd[c].op \in {"create", "addSubject"} /\ New(cmd[c]) = i.entry
            \/ cmd[c].op = "unblock"]_vars

\* A limit that was set changes only by a command that was given it, or that
\* deletes the document: two that set different limits both have their way.
LimitsKept ==
  [][\A d \in LimitDocs, l \in Limits :
       docs[d].body # Absent /\ docs[d].body[l] # Unset
       /\ (docs'[d].body = Absent \/ docs'[d].body[l] # docs[d].body[l])
         => \E c \in Clients :
              /\ Writes(c) /\ Head(todo[c]) = d
              /\ \/ cmd[c].op = "deleteLimits"
                 \/ cmd[c].op = "setLimits" /\ cmd[c].given[l] # Unset]_vars

\* The processes implement the atomic commands of SubjectStore: revisions
\* make a read, a decision and a write one step.
Atomic == INSTANCE SubjectStore WITH
  store <- [d \in Docs |-> docs[d].body],
  phase <- [c \in Clients |-> IF pc[c] \in {"read", "write"} THEN "busy" ELSE pc[c]]

\* The commands are atomic.
AtomicSpec == Atomic!Spec
================================================================================
