---------------------------- MODULE SubjectCommands ----------------------------
(***************************************************************************)
(* What the commands on the database of subjects do to one document: those *)
(* of wskadmin (tools/cli/wsk/wskadmin.py) and the two of the operator     *)
(* (couchdb.create_ow_user, couchdb.delete_ow_user).  A subject has its    *)
(* namespaces, each with the key (uuid:key) that authorizes it, and may be *)
(* blocked; the limits of a namespace are a document of their own in the   *)
(* same database.                                                          *)
(*                                                                         *)
(* A command is a record: op, the documents it goes through one after the  *)
(* other (targets), and what the operation takes besides: the name and key *)
(* of a namespace, revoke, or the limits that are given.                   *)
(***************************************************************************)
EXTENDS Integers, Sequences

CONSTANTS
  Docs,      \* the ids of documents: of subjects and of limits
  LimitDocs, \* those of limits
  Names,     \* of namespaces
  Keys,      \* uuid:key
  Limits,    \* invocationsPerMinute, ...
  Values,    \* of a limit
  Absent,    \* there is no such document
  Unset,     \* a limit that is not given, or not in the document
  Commands   \* what the clients may be started with

Entry   == [name: Names, key: Keys]
Subject == [blocked: BOOLEAN, namespaces: SUBSET Entry]
Limited == [Limits -> Values \union {Unset}]

\* What the document of an id is.
Body(d) == IF d \in LimitDocs THEN Limited ELSE Subject

Reads     == {"get", "getLimits"}
LimitOps  == {"getLimits", "setLimits", "deleteLimits"}
SubjectOps == {"create", "delete", "deleteNs", "get", "block", "unblock",
               "addSubject", "removeSubject"}

\* The documents a command may be about.
Targets(k) == IF k.op \in LimitOps THEN LimitDocs ELSE Docs \ LimitDocs

ASSUME CommandsAssumption ==
  \A k \in Commands :
    /\ k.op \in LimitOps \union SubjectOps
    /\ k.targets \in Seq(Targets(k)) \ {<< >>}
    /\ k.op \in {"create", "addSubject"} => k.name \in Names /\ k.key \in Keys
    /\ k.op = "setLimits" => k.given \in Limited
ASSUME ConstantsAssumption ==
  /\ LimitDocs \subseteq Docs
  /\ \A d \in Docs : Absent \notin Body(d)

New(k) == [name |-> k.name, key |-> k.key]
Named(body, n) == { e \in body.namespaces : e.name = n }
Several(body, n) == \E e, f \in Named(body, n) : e # f

\* create, of a subject that exists: it is blocked, or has the namespace and
\* its key is not to be revoked, or cannot be told which one to revoke.
CreateRefused(k, body) ==
  \/ body.blocked
  \/ Named(body, k.name) # {} /\ (~k.revoke \/ Several(body, k.name))

\* The command ends, for this document, before it writes: the document is
\* missing, or not as the command needs it.  The reading commands end so in
\* any case; create, the limits and the operator take a missing document for
\* a new one.
Refuses(k, body) ==
  \/ k.op \in Reads
  \/ body = Absent /\ k.op \notin {"create", "setLimits", "addSubject"}
  \/ body # Absent /\ k.op = "create" /\ CreateRefused(k, body)
  \/ body # Absent /\ k.op = "deleteNs" /\ Named(body, k.name) = {}

\* The document of the operator (templates/subject.json), and of create for a
\* subject that is new.
OnlyNamespace(k) == [blocked |-> FALSE, namespaces |-> {New(k)}]

\* create: the namespace is added, or the one of its name gets the new key.
Created(k, body) ==
  IF body = Absent THEN OnlyNamespace(k)
  ELSE [body EXCEPT !.namespaces = (@ \ Named(body, k.name)) \union {New(k)}]

\* delete of one namespace.
NamespaceDeleted(k, body) == [body EXCEPT !.namespaces = @ \ Named(body, k.name)]

Blocked(body)   == [body EXCEPT !.blocked = TRUE]
Unblocked(body) == [body EXCEPT !.blocked = FALSE]

\* (Mutation: the limits of the document are the given ones.)
LimitsReplaced(k, body) == k.given

\* limits set: those given, and of the others what the document has.
LimitsSet(k, body) ==
  [l \in Limits |-> IF k.given[l] # Unset THEN k.given[l]
                    ELSE IF body = Absent THEN Unset ELSE body[l]]

\* What the command writes over the document it read; Absent, for the
\* commands that delete it.
Edited(k, body) ==
  CASE k.op = "create"     -> Created(k, body)
    [] k.op = "addSubject" -> OnlyNamespace(k)
    [] k.op = "deleteNs"   -> NamespaceDeleted(k, body)
    [] k.op = "block"      -> Blocked(body)
    [] k.op = "unblock"    -> Unblocked(body)
    [] k.op = "setLimits"  -> LimitsSet(k, body)
    [] OTHER -> Absent
================================================================================
