------------------------------ MODULE DevelActions ------------------------------
(***************************************************************************)
(* The web actions of the package nuv (src/actions): the commands on the   *)
(* services of a user (devel/minio, psql, redis, ferretdb), the files of   *)
(* his buckets (devel/upload, devel/download) and of his web bucket        *)
(* (content).  Each activation is a process.  But for content it looks up, *)
(* in two requests, the subject whose key the caller gives and the         *)
(* metadata of that user (common/authorize.py), while the operator may be  *)
(* removing both; then it carries the command out and answers.             *)
(*                                                                         *)
(* Objects are shared by the activations.  A request is refused or lost,   *)
(* its answer is lost, or it does what it says.                            *)
(*                                                                         *)
(* A call is a record: action, key (NoKey: the header is missing), body    *)
(* (whether there is one), op (the command, the HTTP method, or for a      *)
(* database what kind of command it is), for minio its places, for the     *)
(* others the path.  A place is << bucket, object name >>, a path or an    *)
(* object name a sequence of tokens: names, pieces of names, and "/".      *)
(***************************************************************************)
EXTENDS Integers, Sequences, FiniteSets

CONSTANTS
  Calls, Requests, \* the activations, and what they may be asked
  Users, Keys, NoKey, NoUser,
  Subjects,        \* [Keys -> Users]: the subjects in CouchDB
  Env,             \* [Users -> SUBSET services]: what the metadata name
  Leaving,         \* the users the operator may remove meanwhile
  Owned,           \* [Users -> SUBSET buckets]: the policy of MinIO
  Places, Stored, Nothing, \* initially Stored[p] is at the place p
  MaxFaults        \* bound: requests or answers that are lost

ASSUME FaultAssumption == MaxFaults \in Nat
ASSUME PlaceAssumption == \A r \in Requests : r.op = "mv" => r.to \in Places

VARIABLES
  subjects, metadata, \* what CouchDB has
  objects,  \* what MinIO has at each place
  pc, login, \* of an activation: where it is, for whom it acts
  req,      \* what it was asked
  todo,     \* names clean has still to remove
  answer,   \* its answer
  faults,
  changes,  \* of an activation: how often a service did what it asked
  silent,   \* whether the answer of a service was lost
  disturbed \* of a move: its origin or destination changed since its copy

shared == << subjects, metadata, objects >>
ghosts == << changes, silent, disturbed >>
vars   == << shared, pc, login, req, todo, answer, faults, ghosts >>

Devel == {"minio", "psql", "redis", "ferretdb"}
Files == {"upload", "download", "content"}

\* process_path_param: every "<bucket>/" is taken out of the path, not only
\* the one it starts with.
ObjectName(path) ==
  LET b == path[1]
      Dropped(i) == \/ path[i] = b /\ i < Len(path) /\ path[i + 1] = "/"
                    \/ path[i] = "/" /\ i > 1 /\ path[i - 1] = b
      kept == { i \in DOMAIN path : ~Dropped(i) }
      nth(k) == CHOOSE i \in kept : Cardinality({ j \in kept : j < i }) = k - 1
  IN  [k \in 1 .. Cardinality(kept) |-> path[nth(k)]]

\* The place a call is about: content puts "-web" after the user's name.
Bucket(r) == IF r.action = "content" THEN << r.path[1], "web" >> ELSE << r.path[1] >>
From(r) == IF r.action \in Files THEN << Bucket(r), ObjectName(r.path) >> ELSE r.from

Init ==
  /\ subjects = Subjects
  /\ metadata = Users
  /\ objects = [p \in Places |-> IF p \in DOMAIN Stored THEN Stored[p] ELSE Nothing]
  /\ pc     = [c \in Calls |-> "new"]
  /\ login  = [c \in Calls |-> NoUser]
  /\ req   \in [Calls -> Requests]
  /\ todo   = [c \in Calls |-> {}]
  /\ answer = [c \in Calls |-> "none"]
  /\ faults = 0
  /\ changes = [c \in Calls |-> 0]
  /\ silent  = [c \in Calls |-> FALSE]
  /\ disturbed = [c \in Calls |-> FALSE]

Fault == faults < MaxFaults /\ faults' = faults + 1

Goes(c, where) == pc' = [pc EXCEPT ![c] = where] /\ UNCHANGED answer
Answers(c, code) ==
  /\ pc' = [pc EXCEPT ![c] = "done"]
  /\ answer' = [answer EXCEPT ![c] = code]

\* An exception: the answer is an error, except that download, before it
\* answers, closes a response it does not have, and raises again.
Raises(c) == Answers(c, IF req[c].action = "download" THEN "raised" ELSE "400")

\* The operator removes a user: first the subject, then the metadata.
Removed(u) ==
  \/ /\ \E k \in DOMAIN subjects : subjects[k] = u
     /\ subjects' = [k \in { j \in DOMAIN subjects : subjects[j] # u } |-> subjects[k]]
     /\ UNCHANGED metadata
  \/ /\ u \in metadata /\ \A k \in DOMAIN subjects : subjects[k] # u
     /\ metadata' = metadata \ {u}
     /\ UNCHANGED subjects

Remove(u) ==
  /\ Removed(u)
  /\ UNCHANGED << objects, pc, login, req, todo, answer, faults, ghosts >>

\* main, before anything is looked up.
Invalid(r) ==
  \/ r.key = NoKey
  \/ r.action \in Devel /\ ~r.body
  \/ r.action \in {"upload", "content"} /\ r.op = "put" /\ ~r.body
  \/ r.action = "content" /\ r.op \notin {"put", "delete"}

Begin(c) ==
  /\ pc[c] = "new"
  /\ \/ Invalid(req[c]) /\ Answers(c, "400") /\ UNCHANGED login
     \/ /\ ~Invalid(req[c]) /\ req[c].action = "content"
        /\ login' = [login EXCEPT ![c] = req[c].path[1]]
        /\ Goes(c, "run")
     \/ /\ ~Invalid(req[c]) /\ req[c].action # "content"
        /\ Goes(c, "subject") /\ UNCHANGED login
  /\ UNCHANGED << shared, req, todo, faults, ghosts >>

\* Authorize.fetch_subject; a query that fails finds nobody.
FetchSubject(c) ==
  /\ pc[c] = "subject"
  /\ \/ /\ req[c].key \in DOMAIN subjects
        /\ login' = [login EXCEPT ![c] = subjects[req[c].key]]
        /\ Goes(c, "user") /\ UNCHANGED faults
     \/ /\ req[c].key \notin DOMAIN subjects
        /\ Raises(c) /\ UNCHANGED << login, faults >>
     \/ Fault /\ Raises(c) /\ UNCHANGED login
  /\ UNCHANGED << shared, req, todo, ghosts >>

\* The service an action needs an environment of.
Service(a) == IF a \in Files THEN "minio" ELSE a

\* Authorize.fetch_user_data, and validate of the command: without its
\* environment upload and download have no client that works.
FetchUser(c) ==
  /\ pc[c] = "user"
  /\ \/ /\ login[c] \in metadata /\ Service(req[c].action) \in Env[login[c]]
        /\ Goes(c, "run") /\ UNCHANGED faults
     \/ /\ login[c] \notin metadata \/ Service(req[c].action) \notin Env[login[c]]
        /\ Raises(c) /\ UNCHANGED faults
     \/ Fault /\ Raises(c)
  /\ UNCHANGED << shared, login, req, todo, ghosts >>
--------------------------------------------------------------------------------
\* A service does what activation c asks; objects become the given ones.
Does(c, new) ==
  /\ objects' = new
  /\ changes' = [changes EXCEPT ![c] = @ + 1]
  /\ disturbed' = [m \in Calls |->
       disturbed[m] \/ /\ m # c /\ pc[m] = "remove"
                       /\ \E p \in {From(req[m]), req[m].to} : new[p] # objects[p]]
  /\ UNCHANGED << subjects, metadata, login, req >>

Untouched(c) == UNCHANGED << shared, login, req, changes, disturbed >>

\* A request to a service: it answers, or refuses, or is lost, or its answer
\* is; the caller takes the last three for a failure.
Asks(c, new, ok, failure) ==
  \/ Does(c, new) /\ ok /\ UNCHANGED << faults, silent >>
  \/ Does(c, new) /\ failure /\ Fault /\ silent' = [silent EXCEPT ![c] = TRUE]
  \/ Untouched(c) /\ failure /\ Fault /\ UNCHANGED silent
Refused(c, failure) == Untouched(c) /\ failure /\ UNCHANGED << faults, silent >>

\* What the policy of MinIO, and the objects there are, let a request do.
Allowed(c, p) == login[c] \in Users /\ p[1] \in Owned[login[c]]
There(p) == p \in Places /\ objects[p] # Nothing
With(p, o) == [objects EXCEPT ![p] = o]

\* (Mutation: the script is committed before its rows are fetched.)
RowsLate(c) ==
  Does(c, objects) /\ Answers(c, "400") /\ UNCHANGED << faults, silent >>

\* psql: a text with the word select is a query; without rows to fetch it
\* raises, and is rolled back.
NoRows(c) == Refused(c, Answers(c, "400"))

\* Op says what the text is: a query that has rows, one that has none, a
\* script, or something Postgres refuses.
Psql(c) ==
  /\ pc[c] = "run" /\ req[c].action = "psql"
  /\ \/ /\ req[c].op \in {"rows", "script"}
        /\ Asks(c, objects, Answers(c, "200"), Answers(c, "400"))
     \/ req[c].op = "norows" /\ NoRows(c)
     \/ req[c].op = "wrong" /\ Refused(c, Answers(c, "400"))
  /\ UNCHANGED todo

\* redis: a result that is not text (a number, nil) has no decode: the
\* command is carried out and the answer is an error.
Redis(c) ==
  /\ pc[c] = "run" /\ req[c].action = "redis"
  /\ \/ /\ req[c].op = "text"
        /\ Asks(c, objects, Answers(c, "200"), Answers(c, "400"))
     \/ /\ req[c].op = "number"
        /\ Asks(c, objects, Answers(c, "400"), Answers(c, "400"))
     \/ req[c].op = "wrong" /\ Refused(c, Answers(c, "400"))
  /\ UNCHANGED todo

FerretDB(c) ==
  /\ pc[c] = "run" /\ req[c].action = "ferretdb"
  /\ \/ /\ req[c].op = "command"
        /\ Asks(c, objects, Answers(c, "200"), Answers(c, "400"))
     \/ req[c].op = "wrong" /\ Refused(c, Answers(c, "400"))
  /\ UNCHANGED todo

\* (Mutation: an upload that is refused is reported as one.)
UploadUnchecked(c, p) ==
  IF Allowed(c, p) THEN Asks(c, With(p, c), Answers(c, "200"), Answers(c, "200"))
  ELSE Refused(c, Answers(c, "200"))

\* upload_file.
Upload(c, p) ==
  IF Allowed(c, p) THEN Asks(c, With(p, c), Answers(c, "200"), Answers(c, "400"))
  ELSE Refused(c, Answers(c, "400"))

\* remove_object, and rm_file: an object that is not there is removed too.
Delete(c, p) ==
  IF Allowed(c, p) THEN Asks(c, With(p, Nothing), Answers(c, "200"), Answers(c, "400"))
  ELSE Refused(c, Answers(c, "400"))

\* upload and content: put, delete; upload answers nothing to other methods.
\* The temporary file of put may fail to be written.
File(c) ==
  /\ pc[c] = "run" /\ req[c].action \in {"upload", "content"}
  /\ \/ /\ req[c].op = "put"
        /\ \/ Upload(c, From(req[c]))
           \/ Untouched(c) /\ Answers(c, "400") /\ Fault /\ UNCHANGED silent
     \/ req[c].op = "delete" /\ Delete(c, From(req[c]))
     \/ req[c].op \notin {"put", "delete"} /\ Refused(c, Answers(c, "null"))
  /\ UNCHANGED todo

\* download: without an object there is no response; one that is not text, or
\* breaks off, is an error like any other.
Download(c) ==
  /\ pc[c] = "run" /\ req[c].action = "download"
  /\ IF Allowed(c, From(req[c])) /\ There(From(req[c]))
     THEN \/ Answers(c, "200") /\ UNCHANGED faults
          \/ Answers(c, "400") /\ Fault
          \/ Raises(c) /\ Fault
     ELSE Raises(c) /\ UNCHANGED faults
  /\ Untouched(c) /\ UNCHANGED << todo, silent >>

\* minio ls, rm and what execute does not know: the default it starts with.
Minio(c) ==
  /\ pc[c] = "run" /\ req[c].action = "minio"
  /\ \/ req[c].op = "ls" /\ (Answers(c, "200") \/ Answers(c, "400"))
        /\ Untouched(c) /\ UNCHANGED << faults, silent >>
     \/ req[c].op = "rm" /\ Delete(c, req[c].from)
     \/ req[c].op \notin {"ls", "rm", "cp", "mv", "clean"} /\ Refused(c, Answers(c, "400"))
  /\ UNCHANGED todo

\* (Mutation: mv goes on to remove its origin whatever became of the copy.)
AfterCopyAlways(c) == Goes(c, "remove")

\* mv_file: only a copy that is confirmed is followed by the removal.
AfterFailedCopy(c) == Answers(c, "400")

\* copy_object: MinIO does not copy an object onto itself.
Copy(c) ==
  LET p == req[c].from
      q == req[c].to
      ok == IF req[c].op = "mv" THEN Goes(c, "remove") ELSE Answers(c, "200")
  IN  /\ pc[c] = "run" /\ req[c].action = "minio" /\ req[c].op \in {"cp", "mv"}
      /\ IF Allowed(c, p) /\ Allowed(c, q) /\ There(p) /\ p # q
         THEN Asks(c, With(q, objects[p]), ok, AfterFailedCopy(c))
         ELSE Refused(c, AfterFailedCopy(c))
      /\ UNCHANGED todo

\* rm_file, at the end of a move: whatever becomes of it, the move is done.
MoveRemoves(c) ==
  /\ pc[c] = "remove"
  /\ Asks(c, With(req[c].from, Nothing), Answers(c, "200"), Answers(c, "200"))
  /\ UNCHANGED todo

\* list_objects of a bucket.
Listed(b) == { p \in Places : p[1] = b /\ There(p) }

\* clean lists what matches (here: everything in the bucket) and, unless it
\* is a dry run, removes one object after the other.
CleanLists(c) ==
  LET b == req[c].from[1]
  IN  /\ pc[c] = "run" /\ req[c].action = "minio" /\ req[c].op = "clean"
      /\ \/ /\ login[c] \in Users /\ b \in Owned[login[c]]
            /\ \/ req[c].dry /\ Answers(c, "200") /\ UNCHANGED todo
               \/ /\ ~req[c].dry /\ todo' = [todo EXCEPT ![c] = Listed(b)]
                  /\ Goes(c, "clean")
            /\ UNCHANGED faults
         \/ /\ login[c] \notin Users \/ b \notin Owned[login[c]]
            /\ Answers(c, "400") /\ UNCHANGED << todo, faults >>
         \/ Fault /\ Answers(c, "400") /\ UNCHANGED todo
      /\ Untouched(c) /\ UNCHANGED silent

CleanRemoves(c) ==
  /\ pc[c] = "clean"
  /\ \/ \E p \in todo[c] :
          /\ Asks(c, With(p, Nothing), Goes(c, "clean"), Goes(c, "clean"))
          /\ todo' = [todo EXCEPT ![c] = @ \ {p}]
     \/ todo[c] = {} /\ Refused(c, Answers(c, "200")) /\ UNCHANGED todo

Runs(c) ==
  \/ Begin(c) \/ FetchSubject(c) \/ FetchUser(c)
  \/ Psql(c) \/ Redis(c) \/ FerretDB(c) \/ File(c) \/ Download(c) \/ Minio(c)
  \/ Copy(c) \/ MoveRemoves(c) \/ CleanLists(c) \/ CleanRemoves(c)

Next == (\E c \in Calls : Runs(c)) \/ (\E u \in Leaving : Remove(u))

Spec == Init /\ [][Next]_vars
--------------------------------------------------------------------------------
Written(r) == \/ r.action \in {"psql", "redis", "ferretdb"}
              \/ r.action \in {"upload", "content"} /\ r.op \in {"put", "delete"}
              \/ r.action = "minio" /\ r.op \in {"rm", "cp", "mv"}

\* Who is told of success has had it: the command was carried out, once (a
\* move: its copy, and its removal at most once).
SuccessTruthful ==
  \A c \in Calls :
    answer[c] = "200" /\ Written(req[c]) =>
      IF req[c].op = "mv" THEN changes[c] \in {1, 2} ELSE changes[c] = 1

\* Who is told of an error, and lost no answer of the service, has changed
\* nothing: he may ask again.  Not so for a command of Redis whose result is
\* not text: it has been carried out, and is told as one that could not be.
ErrorHarmless ==
  \A c \in Calls :
    answer[c] \in {"400", "null", "raised"} /\ ~silent[c] =>
      changes[c] = 0 \/ req[c].op = "number"

Held == { objects[p] : p \in Places } \ {Nothing}

\* A move takes no content out of the buckets, unless another activation
\* changed its origin or its destination between its copy and its removal:
\* then it may (two moves the other way round lose the object).
MoveConserves ==
  [][\A c \in Calls :
       pc[c] = "remove" /\ pc'[c] = "done" /\ ~disturbed[c] => Held' = Held]_vars
--------------------------------------------------------------------------------
\* What the proofs need besides: the form of the variables,
Form ==
  /\ pc \in [Calls -> {"new", "subject", "user", "run", "remove", "clean", "done"}]
  /\ req \in [Calls -> Requests]
  /\ answer \in [Calls -> {"none", "200", "400", "null", "raised"}]
  /\ changes \in [Calls -> Nat]
  /\ silent \in [Calls -> BOOLEAN]
  /\ disturbed \in [Calls -> BOOLEAN]
  /\ objects = [p \in Places |-> objects[p]]

\* what an activation has done when it gets somewhere,
Progress ==
  \A c \in Calls :
    /\ pc[c] # "done" => answer[c] = "none"
    /\ pc[c] \in {"new", "subject", "user", "run"} => changes[c] = 0 /\ ~silent[c]
    /\ pc[c] = "remove" =>
         req[c].action = "minio" /\ req[c].op = "mv" /\ changes[c] = 1
    /\ pc[c] = "clean" => req[c].action = "minio" /\ req[c].op = "clean"

\* and that a move about to remove its origin has a copy of it.
Copied ==
  \A c \in Calls :
    pc[c] = "remove" /\ ~disturbed[c] =>
      /\ req[c].from \in Places /\ req[c].to \in Places /\ req[c].from # req[c].to
      /\ objects[req[c].to] = objects[req[c].from]

Inductive == Form /\ Progress /\ Copied /\ SuccessTruthful /\ ErrorHarmless
================================================================================
