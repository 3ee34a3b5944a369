------------------------------- MODULE Accounts --------------------------------
(***************************************************************************)
(* The accounts of users in the databases: what create_db_user and         *)
(* delete_db_user of postgres_operator, ferretdb and redis do inside the   *)
(* Pods of the databases, one handler per user, in threads that overlap.   *)
(*                                                                         *)
(* Postgres and FerretDB keep their accounts in one Postgres cluster of a  *)
(* primary and replicas.  A script is run in three calls of kubectl (copy, *)
(* chmod, psql) that pass a file of the Pod, /tmp/.pgpass, which all the   *)
(* handlers share; the Pod is the primary for Postgres and the first one   *)
(* listed for FerretDB.  psql -f goes on after a statement that failed and *)
(* ends with 0: the handler looks at whether it printed anything.  Redis   *)
(* keeps its accounts in the memory of one Pod.  A namespace of a user     *)
(* does not end in _ferretdb: the names of the accounts are disjoint.      *)
(***************************************************************************)
EXTENDS Integers, Sequences

CONSTANTS
  Users,     \* namespaces of WhiskUser objects
  Wants,     \* [user -> subset of Service]: what their specs enable
  Pods,      \* Pods Postgres may have
  Listed,    \* [Pods -> Int]: their place in the listing of kubectl
  MaxUsers,    \* bound: objects created, counting those created again
  MaxTroubles  \* bound: failing primaries, restarts of Redis and of the operator,
               \* scripts that are cut off or meet a failing statement

Service == {"mongodb", "redis", "postgres"}
SqlService == {"mongodb", "postgres"}
Account == Users \X SqlService

ASSUME UserAssumption == Wants \in [Users -> SUBSET Service]
ASSUME PodAssumption ==
  /\ Listed \in [Pods -> Int]
  /\ \A ps \in (SUBSET Pods) \ {{}} : \E p \in ps : \A q \in ps : Listed[p] =< Listed[q]
  /\ \A p, q \in Pods : Listed[p] = Listed[q] => p = q
  /\ "none" \notin Pods
ASSUME BoundAssumption == MaxUsers \in Nat /\ MaxTroubles \in Nat

VARIABLES
  live,      \* the Pods of Postgres
  primary,   \* the one with the label replicationRole primary, or "none"
  pgpass,    \* [Pods -> mode of /tmp/.pgpass]: "none", "open" or "closed"
  dbs,       \* databases, by account; replication is immediate
  role,      \* [Account -> password of the role, 0 when there is none]
  redisUp,   \* the Pod of Redis is ready
  acl,       \* [Users -> passwords Redis takes from the user]
  obj,       \* [Users -> "none", "present" or "deleting"]
  pw,        \* [Users -> the password of the spec, new in every creation]
  handled,   \* users whose creation kopf takes for handled
  doc,       \* [Users -> services the stored metadata name]
  h,         \* [Users -> their handler]
  excused,   \* ghost: accounts that were there before their user, or that
             \* met a failing statement or a restart of Redis
  calm,      \* ghost: no two handlers were in one Pod of Postgres at a time
  users, troubles

postgres == << live, primary, pgpass, dbs, role >>
redis == << redisUp, acl >>
object == << obj, pw, handled, doc >>
bounds == << users, troubles >>
vars == << postgres, redis, object, h, excused, calm, bounds >>

Idle == [op |-> "idle", left |-> << >>, at |-> "pick", pod |-> "none", meta |-> {}]

\* The spec, as UserConfig flattens it.
Enabled(u, s) == s \in Wants[u]
Block(u, s) == IF Enabled(u, s) THEN << s >> ELSE << >>

\* The order of whisk_user_create, whisk_user_delete and whisk_user_resume.
Order(u) == Block(u, "mongodb") \o Block(u, "redis") \o Block(u, "postgres")
Blocks(u, op) == IF op = "resume" THEN Block(u, "redis") ELSE Order(u)

Init ==
  /\ live = Pods /\ primary \in live
  /\ pgpass = [p \in Pods |-> "none"] /\ dbs = {} /\ role = [a \in Account |-> 0]
  /\ redisUp = TRUE /\ acl = [u \in Users |-> {}]
  /\ obj = [u \in Users |-> "none"] /\ pw = [u \in Users |-> 0]
  /\ handled = {} /\ doc = [u \in Users |-> {}]
  /\ h = [u \in Users |-> Idle]
  /\ excused = {} /\ calm = TRUE /\ users = 0 /\ troubles = 0

Trouble == troubles < MaxTroubles /\ troubles' = troubles + 1 /\ UNCHANGED users
--------------------------------------------------------------------------------
\* The world around the handlers.
Add(u) ==
  /\ obj[u] = "none" /\ users < MaxUsers
  /\ users' = users + 1 /\ UNCHANGED troubles
  /\ obj' = [obj EXCEPT ![u] = "present"] /\ pw' = [pw EXCEPT ![u] = @ + 1]
  /\ excused' = { a \in excused : a[1] # u }
                  \cup { a \in Account : a[1] = u /\ role[a] # 0 }
  /\ UNCHANGED << postgres, redis, handled, doc, h, calm >>

Discard(u) ==
  /\ obj[u] = "present" /\ obj' = [obj EXCEPT ![u] = "deleting"]
  /\ UNCHANGED << postgres, redis, pw, handled, doc, h, excused, calm, bounds >>

\* The primary fails; Kubegres promotes a replica and adds a new one, or the
\* same Pod comes back when failover is off.  Files of the Pod are gone.
PrimaryFails ==
  /\ primary # "none" /\ Trouble
  /\ live' = live \ {primary} /\ primary' = "none"
  /\ pgpass' = [pgpass EXCEPT ![primary] = "none"]
  /\ UNCHANGED << dbs, role, redis, object, h, excused, calm >>

PrimaryIsBack ==
  /\ primary = "none"
  /\ \E p \in Pods :
        /\ live' = live \cup {p}
        /\ primary' \in IF live = {} THEN {p} ELSE live \cup {p}
  /\ UNCHANGED << pgpass, dbs, role, redis, object, h, excused, calm, bounds >>

RedisFails ==
  /\ redisUp /\ Trouble
  /\ redisUp' = FALSE /\ acl' = [u \in Users |-> {}]
  /\ excused' = excused \cup (Users \X {"redis"})
  /\ UNCHANGED << postgres, object, h, calm >>

RedisIsBack ==
  /\ ~redisUp /\ redisUp' = TRUE
  /\ UNCHANGED << postgres, acl, object, h, excused, calm, bounds >>

\* The operator restarts: its handlers are gone; kopf runs whisk_user_resume
\* for the users whose creation was handled.
Restart ==
  /\ Trouble
  /\ h' = [u \in Users |-> IF obj[u] = "present" /\ u \in handled
                            THEN [Idle EXCEPT !.op = "resume", !.left = Blocks(u, "resume")]
                            ELSE Idle]
  /\ UNCHANGED << postgres, redis, object, excused, calm >>
--------------------------------------------------------------------------------
\* kopf calls the handler the object is due.
Begin(u) ==
  /\ h[u].op = "idle"
  /\ \/ obj[u] = "present" /\ u \notin handled
     \/ obj[u] = "deleting"
  /\ LET op == IF obj[u] = "present" THEN "create" ELSE "delete" IN
     h' = [h EXCEPT ![u] = [Idle EXCEPT !.op = op, !.left = Blocks(u, op)]]
  /\ UNCHANGED << postgres, redis, object, excused, calm, bounds >>

At(u, s, step) == h[u].left # << >> /\ Head(h[u].left) = s /\ h[u].at = step

\* The handler goes to its next service; named when this one is in the metadata.
Done(u, s, named) ==
  h' = [h EXCEPT ![u].left = Tail(@), ![u].at = "pick", ![u].pod = "none",
                 ![u].meta = IF named /\ h[u].op # "delete" THEN @ \cup {s} ELSE @]

\* _add_pdb_user_metadata, _add_mdb_user_metadata, _add_redis_user_metadata.
PostgresNamed(u) == Done(u, "postgres", TRUE)
FerretNamed(u) == Done(u, "mongodb", TRUE)
RedisNamed(u) == Done(u, "redis", TRUE)
Named(u, s) == IF s = "mongodb" THEN FerretNamed(u) ELSE PostgresNamed(u)

\* An exception, which create_db_user and delete_db_user log.
Raises(u, s) == Done(u, s, FALSE)

First == CHOOSE p \in live : \A q \in live : Listed[p] =< Listed[q]
Found(s) == IF s = "postgres" THEN primary ELSE IF live = {} THEN "none" ELSE First

\* get_pod_name_by_selector, get_pod_name.
Pick(u, s) ==
  /\ s \in SqlService /\ At(u, s, "pick") /\ Found(s) # "none"
  /\ h' = [h EXCEPT ![u].at = "copy", ![u].pod = Found(s)]
  /\ UNCHANGED << postgres, redis, object, excused, calm, bounds >>

\* (Mutation: the retries have no deadline.)
RetryForever(u, s) ==
  /\ s \in SqlService /\ At(u, s, "pick") /\ Found(s) = "none"
  /\ UNCHANGED vars

\* nuv_retry: no Pod for two minutes.
GiveUp(u, s) ==
  /\ s \in SqlService /\ At(u, s, "pick") /\ Found(s) = "none"
  /\ Raises(u, s)
  /\ UNCHANGED << postgres, redis, object, excused, calm, bounds >>

\* kubectl cp of the script and of /tmp/.pgpass, readable by all.
Copy(u, s) ==
  /\ At(u, s, "copy") /\ h[u].pod \in live
  /\ h' = [h EXCEPT ![u].at = "chmod"]
  /\ pgpass' = [pgpass EXCEPT ![h[u].pod] = "open"]
  /\ calm' = (calm /\ \A v \in Users \ {u} :
                h[v].at \in {"chmod", "psql"} => h[v].pod # h[u].pod)
  /\ UNCHANGED << live, primary, dbs, role, redis, object, excused, bounds >>

Chmod(u, s) ==
  /\ At(u, s, "chmod") /\ h[u].pod \in live /\ pgpass[h[u].pod] # "none"
  /\ h' = [h EXCEPT ![u].at = "psql"]
  /\ pgpass' = [pgpass EXCEPT ![h[u].pod] = "closed"]
  /\ UNCHANGED << live, primary, dbs, role, redis, object, excused, calm, bounds >>

\* The Pod is gone, its file is, or it is open again and psql ignores it.
Refuses(u) ==
  \/ h[u].pod \notin live
  \/ h[u].at = "chmod" /\ pgpass[h[u].pod] = "none"
  \/ h[u].at = "psql" /\ pgpass[h[u].pod] # "closed"

Refused(u, s) ==
  /\ At(u, s, h[u].at) /\ h[u].at \in {"copy", "chmod", "psql"} /\ Refuses(u)
  /\ Raises(u, s)
  /\ UNCHANGED << postgres, redis, object, excused, calm, bounds >>

\* What the script leaves where it can write: a database or a role that
\* exists is not made again, and the role keeps its password.
Made(u, s) ==
  /\ dbs' = dbs \cup {<< u, s >>}
  /\ role' = [role EXCEPT ![<< u, s >>] = IF @ = 0 THEN pw[u] ELSE @]
Dropped(u, s) ==
  /\ dbs' = dbs \ {<< u, s >>}
  /\ role' = [role EXCEPT ![<< u, s >>] = 0]

\* (Mutation: whatever psql printed, the account is taken for made.)
PsqlTrusted(u, s) ==
  /\ At(u, s, "psql") /\ ~Refuses(u)
  /\ Named(u, s)
  /\ IF h[u].pod # primary THEN UNCHANGED << dbs, role >>
     ELSE IF h[u].op = "delete" THEN Dropped(u, s) ELSE Made(u, s)
  /\ UNCHANGED << live, primary, pgpass, redis, object, excused, calm, bounds >>

\* (Mutation: the role stays when the database is dropped.)
PsqlKeepsRole(u, s) ==
  /\ At(u, s, "psql") /\ ~Refuses(u)
  /\ IF h[u].pod = primary THEN Named(u, s) ELSE Raises(u, s)
  /\ IF h[u].pod # primary THEN UNCHANGED << dbs, role >>
     ELSE IF h[u].op = "delete" THEN dbs' = dbs \ {<< u, s >>} /\ UNCHANGED role
     ELSE Made(u, s)
  /\ UNCHANGED << live, primary, pgpass, redis, object, excused, calm, bounds >>

\* A replica refuses every statement: creating prints nothing then, which is
\* taken for a failure.  On the primary the GRANT is always printed.
Psql(u, s) ==
  /\ At(u, s, "psql") /\ ~Refuses(u)
  /\ IF h[u].pod = primary THEN Named(u, s) ELSE Raises(u, s)
  /\ IF h[u].pod # primary THEN UNCHANGED << dbs, role >>
     ELSE IF h[u].op = "delete" THEN Dropped(u, s) ELSE Made(u, s)
  /\ UNCHANGED << live, primary, pgpass, redis, object, excused, calm, bounds >>

\* The script is cut off, or one of its statements fails: another session uses
\* the database to be dropped, the disk is full.
PsqlFails(u, s) ==
  /\ At(u, s, "psql") /\ ~Refuses(u) /\ h[u].pod = primary /\ Trouble
  /\ Named(u, s) \/ Raises(u, s)
  /\ \/ dbs' = dbs /\ role' = role
     \/ h[u].op # "delete" /\ Made(u, s)
     \/ h[u].op # "delete" /\ dbs' = dbs \cup {<< u, s >>} /\ role' = role
     \/ h[u].op = "delete" /\ Dropped(u, s)
     \/ h[u].op = "delete" /\ dbs' = dbs \ {<< u, s >>} /\ role' = role
  /\ excused' = excused \cup {<< u, s >>}
  /\ UNCHANGED << live, primary, pgpass, redis, object, calm >>
--------------------------------------------------------------------------------
\* ACL SETUSER adds a password to those of the user, DELUSER takes all away.
SetUser(u) == acl' = [acl EXCEPT ![u] = @ \cup {pw[u]}]
DelUser(u) == acl' = [acl EXCEPT ![u] = {}]

\* redis.create_db_user waits for the Pod, delete_db_user does not.
RedisGives(u) ==
  /\ At(u, "redis", "pick") /\ h[u].op # "delete" /\ redisUp
  /\ SetUser(u) /\ RedisNamed(u)
  /\ excused' = excused \ {<< u, "redis" >>}
  /\ UNCHANGED << postgres, redisUp, object, calm, bounds >>

RedisTakes(u) ==
  /\ At(u, "redis", "pick") /\ h[u].op = "delete"
  /\ IF redisUp THEN DelUser(u) ELSE UNCHANGED acl
  /\ Done(u, "redis", FALSE)
  /\ UNCHANGED << postgres, redisUp, object, excused, calm, bounds >>

\* The Pod is lost between the wait and the call.
RedisCutOff(u) ==
  /\ At(u, "redis", "pick") /\ Trouble
  /\ Raises(u, "redis")
  /\ UNCHANGED << postgres, redis, object, excused, calm >>
--------------------------------------------------------------------------------
\* save_user_metadata and delete_user_metadata; kopf takes a handler that
\* returns for handled.
End(u) ==
  /\ h[u].op # "idle" /\ h[u].left = << >>
  /\ h' = [h EXCEPT ![u] = Idle]
  /\ CASE h[u].op = "create" ->
            /\ handled' = handled \cup {u} /\ doc' = [doc EXCEPT ![u] = h[u].meta]
            /\ UNCHANGED obj
       [] h[u].op = "delete" ->
            /\ handled' = handled \ {u} /\ doc' = [doc EXCEPT ![u] = {}]
            /\ obj' = [obj EXCEPT ![u] = "none"]
       [] OTHER -> UNCHANGED << handled, doc, obj >>
  /\ UNCHANGED << postgres, redis, pw, excused, calm, bounds >>

Script(u, s) ==
  \/ Pick(u, s) \/ GiveUp(u, s) \/ Copy(u, s) \/ Chmod(u, s) \/ Refused(u, s)
  \/ Psql(u, s) \/ PsqlFails(u, s)
Handler(u) ==
  \/ Begin(u) \/ End(u)
  \/ \E s \in SqlService : Script(u, s)
  \/ RedisGives(u) \/ RedisTakes(u) \/ RedisCutOff(u)
Around ==
  \/ \E u \in Users : Add(u) \/ Discard(u)
  \/ PrimaryFails \/ PrimaryIsBack \/ RedisFails \/ RedisIsBack \/ Restart
Next == (\E u \in Users : Handler(u)) \/ Around

\* Threads of the operator run, and Kubernetes brings the Pod of Redis back;
\* nothing brings a primary back in time.
Spec == Init /\ [][Next]_vars /\ (\A u \in Users : WF_vars(Handler(u))) /\ WF_vars(RedisIsBack)
--------------------------------------------------------------------------------
HandlerState ==
  [op : {"idle", "create", "delete", "resume"}, left : Seq(Service),
   at : {"pick", "copy", "chmod", "psql"}, pod : Pods \cup {"none"}, meta : SUBSET Service]
TypeOK ==
  /\ live \subseteq Pods /\ primary \in live \cup {"none"}
  /\ pgpass \in [Pods -> {"none", "open", "closed"}]
  /\ dbs \subseteq Account /\ role \in [Account -> 0 .. MaxUsers]
  /\ redisUp \in BOOLEAN /\ acl \in [Users -> SUBSET (0 .. MaxUsers)]
  /\ obj \in [Users -> {"none", "present", "deleting"}]
  /\ pw \in [Users -> 0 .. MaxUsers] /\ handled \subseteq Users
  /\ doc \in [Users -> SUBSET Service]
  /\ h \in [Users -> HandlerState]
  /\ excused \subseteq Users \X Service /\ calm \in BOOLEAN
  /\ users \in 0 .. MaxUsers /\ troubles \in 0 .. MaxTroubles

\* The password of the object opens the account.
Works(u, s) ==
  IF s = "redis" THEN pw[u] \in acl[u]
  ELSE << u, s >> \in dbs /\ role[<< u, s >>] = pw[u]

\* The account opens, or there is a reason why it may not.
Vouched(u, s) == Works(u, s) \/ << u, s >> \in excused

\* The accounts the stored document of a user names exist under the password
\* it gives (postgres_operator.create_db_user looks at what psql printed),
\* whatever Pods fail and handlers overlap; a role that an earlier deletion
\* left keeps its old password.
DocTrue ==
  \A u \in Users : obj[u] = "present" /\ u \in handled =>
    \A s \in doc[u] : Vouched(u, s)

\* Of the metadata under way in a creation, too.
MetaTrue ==
  \A u \in Users : h[u].op = "create" => \A s \in h[u].meta : Vouched(u, s)

\* A role is there under the password of its user's present object: a script
\* that finds a role leaves it alone and succeeds all the same.
RoleCurrent ==
  \A u \in Users, s \in SqlService :
    obj[u] # "none" => role[<< u, s >>] \in {0, pw[u]} \/ << u, s >> \in excused

\* A removal runs for an object that is deleted, nothing for one that is gone.
Turns ==
  \A u \in Users :
    /\ h[u].op = "idle" => h[u].left = << >>
    /\ h[u].op = "delete" => obj[u] = "deleting"
    /\ obj[u] = "none" => h[u].op = "idle" /\ u \notin handled

\* Every object brings one new password.
Counted == \A u \in Users : pw[u] =< users

\* The inductive invariant.
Inductive == TypeOK /\ DocTrue /\ MetaTrue /\ RoleCurrent /\ Turns /\ Counted

\* Nothing failed, restarted or met in a Pod.
Quiet == calm /\ troubles = 0

\* A handled creation gave every account and named it, FerretDB's only when
\* the primary is listed first.
Served(u) == doc[u] = Wants[u] \ (IF First = primary THEN {} ELSE {"mongodb"})

\* No account is left of a user.
Taken(u) ==
  /\ acl[u] = {}
  /\ \A s \in SqlService : << u, s >> \notin dbs /\ role[<< u, s >>] = 0

\* Nothing having failed, a handler gives the service s of u, or takes it away.
Gets(u, s) == Enabled(u, s) /\ (s = "mongodb" => First = primary)
Without(u, s) ==
  IF s = "redis" THEN acl[u] = {} ELSE << u, s >> \notin dbs /\ role[<< u, s >>] = 0
Ahead(u) == { h[u].left[i] : i \in DOMAIN h[u].left }

\* A script is in the Pod it looked for, alone with the file it copied there.
Scripts ==
  /\ live = Pods /\ primary # "none" /\ redisUp
  /\ \A u \in Users : h[u].at # "pick" =>
       /\ h[u].left # << >> /\ Head(h[u].left) \in SqlService
       /\ h[u].pod = Found(Head(h[u].left))
       /\ h[u].at = "chmod" => pgpass[h[u].pod] # "none"
       /\ h[u].at = "psql" => pgpass[h[u].pod] = "closed"
  /\ \A u, v \in Users :
       u # v /\ {h[u].at, h[v].at} \subseteq {"chmod", "psql"} => h[u].pod # h[v].pod

\* A creation has given and named what is behind it, a removal has taken it.
Halfway(u) ==
  /\ h[u].op # "resume" /\ (h[u].op = "create" => u \notin handled)
  /\ Ahead(u) \subseteq Wants[u]
  /\ \A i, j \in DOMAIN h[u].left : h[u].left[i] = h[u].left[j] => i = j
  /\ h[u].op = "create" => h[u].meta = { s \in Service : Gets(u, s) /\ s \notin Ahead(u) }
  /\ \A s \in Service :
       ~Gets(u, s) \/ obj[u] = "none" \/ (h[u].op = "delete" /\ s \notin Ahead(u)) =>
         Without(u, s)
  /\ u \in handled /\ obj[u] # "none" => Served(u)
HalfDone == \A u \in Users : Halfway(u)

Undisturbed == Quiet => Scripts /\ HalfDone

\* Undisturbed, users have the accounts they want, and those who are gone have
\* none: the three services share no name, file or role by which a handler
\* would give or take another's.
GivenAndTaken ==
  Quiet => \A u \in Users :
    /\ u \in handled /\ obj[u] = "present" => Served(u)
    /\ obj[u] = "none" => Taken(u)

\* A handler ends though Pods are lost under it (nuv_retry gives up, exceptions
\* are logged).
HandlersEnd == \A u \in Users : (h[u].op # "idle") ~> (h[u].op = "idle")
================================================================================
