---------------------------- MODULE Accounts_proofs ----------------------------
(***************************************************************************)
(* The accounts a user's stored metadata name open with the password they  *)
(* give, for every number of users, Pods, failures and restarts; and while *)
(* nothing fails, users have all the accounts they want, those gone none.  *)
(***************************************************************************)
EXTENDS Accounts, TLAPS, SequenceTheorems

\* get_pod_name, as modelled, finds one of the Pods there are.
LEMMA FirstLive == ASSUME live \subseteq Pods, live # {} PROVE First \in live
<1>1. \E p \in live : \A q \in live : Listed[p] =< Listed[q]
  BY PodAssumption
<1> QED
  BY <1>1 DEF First

LEMMA BlocksSequence ==
  ASSUME NEW u \in Users, NEW op PROVE Blocks(u, op) \in Seq(Service)
<1>1. \A s \in Service : Block(u, s) \in Seq(Service)
  BY DEF Block
<1>2. {"mongodb", "redis", "postgres"} = Service
  BY DEF Service
<1>3. Order(u) \in Seq(Service)
  BY <1>1, <1>2, ConcatProperties DEF Order
<1> QED
  BY <1>1, <1>2, <1>3 DEF Blocks

\* A handler that begins is of its type.
LEMMA IdleHandler == Idle \in HandlerState
BY DEF Idle, HandlerState

LEMMA BegunHandler ==
  ASSUME NEW u \in Users, NEW op \in {"idle", "create", "delete", "resume"}
  PROVE  [Idle EXCEPT !.op = op, !.left = Blocks(u, op)] \in HandlerState
BY BlocksSequence DEF Idle, HandlerState

\* So is one that goes to its next service: nothing else of it changes.
LEMMA DoneHandler ==
  ASSUME TypeOK, NEW u \in Users, NEW s \in Service, NEW named \in BOOLEAN,
         h[u].left # << >>, Done(u, s, named)
  PROVE  /\ h' \in [Users -> HandlerState]
         /\ \A v \in Users \ {u} : h'[v] = h[v]
         /\ h'[u].op = h[u].op
         /\ h'[u].meta \subseteq IF named THEN h[u].meta \cup {s} ELSE h[u].meta
<1>1. h[u] \in HandlerState
  BY DEF TypeOK
<1>2. Tail(h[u].left) \in Seq(Service)
  BY <1>1, HeadTailProperties DEF HandlerState
<1> QED
  BY <1>1, <1>2 DEF Done, TypeOK, HandlerState

\* A service in the order of a handler is one of the three.
LEMMA AtService ==
  ASSUME TypeOK, NEW u \in Users, NEW s, NEW step, At(u, s, step)
  PROVE  s \in Service /\ h[u].left # << >>
<1>1. h[u].left \in Seq(Service)
  BY DEF TypeOK, HandlerState
<1> QED
  BY <1>1, HeadTailProperties DEF At
--------------------------------------------------------------------------------
LEMMA TroubleCounted ==
  ASSUME TypeOK, Trouble PROVE troubles' \in 0 .. MaxTroubles /\ users' = users
BY BoundAssumption DEF TypeOK, Trouble

LEMMA Initially == Init => Inductive
<1> SUFFICES ASSUME Init PROVE Inductive
  OBVIOUS
<1>1. TypeOK
  BY IdleHandler, BoundAssumption, PodAssumption DEF Init, TypeOK, Account, SqlService, Service
<1>2. Turns /\ Counted /\ DocTrue /\ MetaTrue /\ RoleCurrent
  BY DEF Init, Turns, Counted, DocTrue, MetaTrue, RoleCurrent, Idle
<1> QED
  BY <1>1, <1>2 DEF Inductive

\* A handler that goes to its next service and names it only where the account
\* is vouched for keeps what the metadata and the document say.
LEMMA NamingKeeps ==
  ASSUME Inductive, NEW u \in Users, NEW s \in Service, NEW named \in BOOLEAN,
         h[u].left # << >>, Done(u, s, named), UNCHANGED object,
         \A v \in Users, t \in Service :
           Vouched(v, t) => Vouched(v, t)' \/ (v = u /\ h[u].op = "delete"),
         named /\ h[u].op = "create" => Vouched(u, s)'
  PROVE  DocTrue' /\ MetaTrue' /\ Turns'
<1> USE DEF Inductive
<1>1. /\ \A v \in Users \ {u} : h'[v] = h[v]
      /\ h'[u].op = h[u].op
      /\ h'[u].meta \subseteq IF named THEN h[u].meta \cup {s} ELSE h[u].meta
  BY DoneHandler
<1>2. \A v \in Users : h[v].meta \subseteq Service /\ doc[v] \subseteq Service
  BY DEF TypeOK, HandlerState
<1>3. DocTrue'
  BY <1>2 DEF DocTrue, Turns, object
<1>4. MetaTrue'
  <2> SUFFICES ASSUME NEW v \in Users, h'[v].op = "create", NEW t \in h'[v].meta
               PROVE  Vouched(v, t)'
    BY DEF MetaTrue
  <2>1. CASE v # u
    BY <2>1, <1>1, <1>2 DEF MetaTrue
  <2>2. CASE v = u
    BY <2>2, <1>1, <1>2 DEF MetaTrue
  <2> QED
    BY <2>1, <2>2
<1>5. Turns'
  BY <1>1 DEF Turns, object
<1> QED
  BY <1>3, <1>4, <1>5

\* Handlers that are replaced, none of them creating, disturb nothing else.
LEMMA OthersKeep ==
  ASSUME Inductive, UNCHANGED << dbs, role, acl, object, excused, users >>,
         \A v \in Users : \/ h'[v] = h[v]
                          \/ /\ h'[v].op = h[v].op /\ h'[v].left = h[v].left
                             /\ h'[v].meta = h[v].meta
                          \/ h'[v].op = "resume" /\ obj[v] # "none"
                          \/ h'[v] = Idle
  PROVE  DocTrue' /\ MetaTrue' /\ RoleCurrent' /\ Turns' /\ Counted'
<1> USE DEF Inductive
<1>1. \A v \in Users, t \in Service : Vouched(v, t) => Vouched(v, t)'
  BY DEF Vouched, Works, object
<1>2. \A v \in Users : doc[v] \subseteq Service /\ h[v].meta \subseteq Service
  BY DEF TypeOK, HandlerState
<1>3. DocTrue' /\ MetaTrue'
  BY <1>1, <1>2 DEF DocTrue, MetaTrue, Idle, object
<1>4. RoleCurrent' /\ Counted'
  BY DEF RoleCurrent, Counted, object
<1>5. Turns'
  BY DEF Turns, Idle, object
<1> QED
  BY <1>3, <1>4, <1>5

LEMMA AroundPreserves == Inductive /\ Around => Inductive'
<1> SUFFICES ASSUME Inductive, Around PROVE Inductive'
  OBVIOUS
<1> USE DEF Inductive
<1>1. ASSUME NEW u \in Users, Add(u) PROVE Inductive'
  <2> USE <1>1 DEF Add, postgres, redis
  <2>1. TypeOK'
    <3>1. pw[u] + 1 \in 0 .. MaxUsers /\ users + 1 \in 0 .. MaxUsers
      BY BoundAssumption DEF TypeOK, Counted
    <3>2. \A a \in Account : a \in Users \X Service
      BY DEF Account, SqlService, Service
    <3> QED
      BY <3>1, <3>2 DEF TypeOK
  <2>2. u \notin handled /\ h[u].op = "idle"
    BY DEF Turns
  <2>3. \A v \in Users \ {u}, t \in Service : Vouched(v, t) => Vouched(v, t)'
    BY DEF Vouched, Works, TypeOK
  <2>4. \A v \in Users : doc[v] \subseteq Service /\ h[v].meta \subseteq Service
    BY DEF TypeOK, HandlerState
  <2>5. DocTrue' /\ MetaTrue'
    BY <2>2, <2>3, <2>4 DEF DocTrue, MetaTrue, TypeOK
  <2>6. RoleCurrent'
    <3> SUFFICES ASSUME NEW v \in Users, NEW s \in SqlService, obj'[v] # "none"
                 PROVE  role[<< v, s >>] \in {0, pw'[v]} \/ << v, s >> \in excused'
      BY DEF RoleCurrent
    <3>1. CASE v = u
      BY <3>1 DEF Account
    <3>2. CASE v # u
      BY <3>2 DEF RoleCurrent, TypeOK
    <3> QED
      BY <3>1, <3>2
  <2>7. Turns' /\ Counted'
    BY DEF Turns, Counted, TypeOK
  <2> QED
    BY <2>1, <2>5, <2>6, <2>7
<1>2. ASSUME NEW u \in Users, Discard(u) PROVE Inductive'
  <2> USE <1>2 DEF Discard, postgres, redis, bounds
  <2>1. TypeOK'
    BY DEF TypeOK
  <2>2. \A v \in Users, t \in Service : Vouched(v, t)' = Vouched(v, t)
    BY DEF Vouched, Works
  <2>3. \A v \in Users : doc[v] \subseteq Service /\ h[v].meta \subseteq Service
    BY DEF TypeOK, HandlerState
  <2>4. DocTrue' /\ MetaTrue'
    BY <2>2, <2>3 DEF DocTrue, MetaTrue, TypeOK
  <2>5. RoleCurrent' /\ Turns' /\ Counted'
    BY DEF RoleCurrent, Turns, Counted, TypeOK
  <2> QED
    BY <2>1, <2>4, <2>5
<1>3. CASE PrimaryFails
  <2> USE <1>3 DEF PrimaryFails, Trouble, redis, object
  <2>1. TypeOK'
    BY BoundAssumption, PodAssumption DEF TypeOK
  <2> QED
    BY <2>1, OthersKeep DEF object
<1>4. CASE PrimaryIsBack
  <2> USE <1>4 DEF PrimaryIsBack, redis, object, bounds
  <2>1. TypeOK'
    BY DEF TypeOK
  <2> QED
    BY <2>1, OthersKeep DEF object
<1>5. CASE RedisFails
  <2> USE <1>5 DEF RedisFails, Trouble, postgres, object
  <2>1. TypeOK'
    <3>1. troubles' \in 0 .. MaxTroubles /\ users' = users
      BY TroubleCounted
    <3>2. acl' \in [Users -> SUBSET (0 .. MaxUsers)]
      OBVIOUS
    <3>3. excused' \subseteq Users \X Service
      BY DEF TypeOK, Service
    <3> QED
      BY <3>1, <3>2, <3>3 DEF TypeOK
  <2>2. \A v \in Users, t \in Service : Vouched(v, t) => Vouched(v, t)'
    BY DEF Vouched, Works
  <2>3. \A v \in Users : doc[v] \subseteq Service /\ h[v].meta \subseteq Service
    BY DEF TypeOK, HandlerState
  <2>4. DocTrue' /\ MetaTrue'
    BY <2>2, <2>3 DEF DocTrue, MetaTrue
  <2>5. RoleCurrent' /\ Turns' /\ Counted'
    BY DEF RoleCurrent, Turns, Counted
  <2> QED
    BY <2>1, <2>4, <2>5
<1>6. CASE RedisIsBack
  <2> USE <1>6 DEF RedisIsBack, postgres, object, bounds
  <2>1. TypeOK'
    BY DEF TypeOK
  <2> QED
    BY <2>1, OthersKeep DEF object
<1>7. CASE Restart
  <2> USE <1>7 DEF Restart, postgres, redis, object
  <2>1. TypeOK'
    <3>1. h' \in [Users -> HandlerState]
      BY IdleHandler, BegunHandler
    <3>2. troubles' \in 0 .. MaxTroubles /\ users' = users
      BY TroubleCounted
    <3> QED
      BY <3>1, <3>2 DEF TypeOK
  <2>2. \A v \in Users : \/ h'[v].op = "resume" /\ obj[v] # "none"
                         \/ h'[v] = Idle
    BY DEF Idle
  <2> QED
    BY <2>1, <2>2, TroubleCounted, OthersKeep DEF object
<1> QED
  BY <1>1, <1>2, <1>3, <1>4, <1>5, <1>6, <1>7 DEF Around
--------------------------------------------------------------------------------
LEMMA BeginPreserves == ASSUME Inductive, NEW u \in Users, Begin(u) PROVE Inductive'
<1> USE DEF Inductive
<1> DEFINE op == IF obj[u] = "present" THEN "create" ELSE "delete"
           begun == [Idle EXCEPT !.op = op, !.left = Blocks(u, op)]
<1>1. h' = [h EXCEPT ![u] = begun] /\ obj[u] \in {"present", "deleting"}
      /\ UNCHANGED << postgres, redis, object, excused, calm, bounds >>
  BY DEF Begin
<1>2. begun \in HandlerState /\ begun.op = op /\ begun.meta = {}
  BY BegunHandler DEF Idle
<1>3. TypeOK'
  BY <1>1, <1>2 DEF TypeOK, postgres, redis, object, bounds
<1>4. \A v \in Users \ {u} : h'[v] = h[v]
  BY <1>1
<1>5. h'[u].op = op /\ h'[u].meta = {}
  BY <1>1, <1>2 DEF TypeOK
<1>6. \A v \in Users, t \in Service : Vouched(v, t)' = Vouched(v, t)
  BY <1>1 DEF Vouched, Works, postgres, redis, object
<1>7. \A v \in Users : doc[v] \subseteq Service /\ h[v].meta \subseteq Service
  BY DEF TypeOK, HandlerState
<1>8. DocTrue' /\ MetaTrue'
  BY <1>1, <1>4, <1>5, <1>6, <1>7 DEF DocTrue, MetaTrue, object
<1>9. Turns'
  BY <1>1, <1>4, <1>5 DEF Turns, object
<1>10. RoleCurrent' /\ Counted'
  BY <1>1 DEF RoleCurrent, Counted, postgres, object, bounds
<1> QED
  BY <1>3, <1>8, <1>9, <1>10

\* What a creation returns with is what its metadata say.
LEMMA EndPreserves == ASSUME Inductive, NEW u \in Users, End(u) PROVE Inductive'
<1> USE DEF Inductive
<1>1. h[u].op # "idle" /\ h' = [h EXCEPT ![u] = Idle]
      /\ UNCHANGED << postgres, redis, pw, excused, calm, bounds >>
  BY DEF End
<1>2. h'[u].op = "idle" /\ h'[u].left = << >> /\ \A v \in Users \ {u} : h'[v] = h[v]
  BY <1>1 DEF TypeOK, Idle
<1>3. h' \in [Users -> HandlerState]
  BY <1>1, IdleHandler DEF TypeOK
<1>4. \A v \in Users, t \in Service : Vouched(v, t)' = Vouched(v, t)
  BY <1>1 DEF Vouched, Works, postgres, redis
<1>5. \A v \in Users : doc[v] \subseteq Service /\ h[v].meta \subseteq Service
  BY DEF TypeOK, HandlerState
<1>6. MetaTrue'
  BY <1>2, <1>4, <1>5 DEF MetaTrue
<1>7. Counted'
  BY <1>1 DEF Counted, bounds
<1>8. CASE h[u].op = "create"
  <2>1. handled' = handled \cup {u} /\ doc' = [doc EXCEPT ![u] = h[u].meta] /\ obj' = obj
    BY <1>8 DEF End
  <2>2. TypeOK'
    BY <1>1, <1>3, <1>5, <2>1 DEF TypeOK, postgres, redis, bounds
  <2>3. DocTrue'
    BY <1>4, <1>5, <1>8, <2>1 DEF DocTrue, MetaTrue, TypeOK
  <2>4. RoleCurrent'
    BY <1>1, <2>1 DEF RoleCurrent, postgres
  <2>5. Turns'
    BY <1>2, <1>8, <2>1 DEF Turns
  <2> QED
    BY <1>6, <1>7, <2>2, <2>3, <2>4, <2>5
<1>9. CASE h[u].op = "delete"
  <2>1. handled' = handled \ {u} /\ doc' = [doc EXCEPT ![u] = {}]
        /\ obj' = [obj EXCEPT ![u] = "none"]
    BY <1>9 DEF End
  <2>2. TypeOK'
    BY <1>1, <1>3, <2>1 DEF TypeOK, postgres, redis, bounds
  <2>3. DocTrue'
    BY <1>4, <1>5, <2>1 DEF DocTrue, TypeOK
  <2>4. RoleCurrent'
    BY <1>1, <2>1 DEF RoleCurrent, postgres, TypeOK
  <2>5. Turns'
    BY <1>2, <2>1 DEF Turns, TypeOK
  <2> QED
    BY <1>6, <1>7, <2>2, <2>3, <2>4, <2>5
<1>10. CASE h[u].op \notin {"create", "delete"}
  <2>1. UNCHANGED << handled, doc, obj >>
    BY <1>10 DEF End
  <2>2. TypeOK'
    BY <1>1, <1>3, <2>1 DEF TypeOK, postgres, redis, bounds
  <2>3. DocTrue' /\ RoleCurrent' /\ Turns'
    BY <1>1, <1>2, <1>4, <1>5, <2>1 DEF DocTrue, RoleCurrent, Turns, postgres
  <2> QED
    BY <1>6, <1>7, <2>2, <2>3
<1> QED
  BY <1>8, <1>9, <1>10

\* What psql does on the primary: an account that is made is vouched for, and
\* only a removal makes one less so.
LEMMA MadeVouched ==
  ASSUME Inductive, NEW u \in Users, NEW s \in SqlService, obj[u] # "none",
         Made(u, s), UNCHANGED << obj, pw, acl, excused >>
  PROVE  /\ Vouched(u, s)'
         /\ \A v \in Users, t \in Service : Vouched(v, t) => Vouched(v, t)'
         /\ RoleCurrent'
<1> USE DEF Inductive
<1>1. role \in [Account -> 0 .. MaxUsers] /\ << u, s >> \in Account
  BY DEF TypeOK, Account
<1>2. role'[<< u, s >>] = IF role[<< u, s >>] = 0 THEN pw[u] ELSE role[<< u, s >>]
  BY <1>1 DEF Made
<1>3. \A a \in Account : a # << u, s >> => role'[a] = role[a]
  BY <1>1 DEF Made
<1>4. dbs' = dbs \cup {<< u, s >>}
  BY DEF Made
<1>5. s # "redis" /\ \A t \in Service : t # "redis" => t \in SqlService
  BY DEF SqlService, Service
<1>6. Vouched(u, s)'
  BY <1>2, <1>4, <1>5 DEF Vouched, Works, RoleCurrent
<1>7. ASSUME NEW v \in Users, NEW t \in Service, Vouched(v, t) PROVE Vouched(v, t)'
  <2>1. CASE t = "redis" \/ << v, t >> \in excused
    BY <2>1, <1>7 DEF Vouched, Works
  <2>2. CASE t # "redis" /\ << v, t >> # << u, s >>
    BY <2>2, <1>3, <1>4, <1>5, <1>7 DEF Vouched, Works, Account
  <2>3. CASE << v, t >> = << u, s >>
    BY <2>3, <1>6
  <2> QED
    BY <2>1, <2>2, <2>3
<1>8. RoleCurrent'
  <2> SUFFICES ASSUME NEW v \in Users, NEW t \in SqlService, obj'[v] # "none"
               PROVE  role'[<< v, t >>] \in {0, pw[v]} \/ << v, t >> \in excused
    BY DEF RoleCurrent
  <2>1. CASE << v, t >> = << u, s >>
    BY <2>1, <1>2 DEF RoleCurrent
  <2>2. CASE << v, t >> # << u, s >>
    BY <2>2, <1>3 DEF RoleCurrent, Account
  <2> QED
    BY <2>1, <2>2
<1> QED
  BY <1>6, <1>7, <1>8

LEMMA DroppedKeeps ==
  ASSUME Inductive, NEW u \in Users, NEW s \in SqlService, h[u].op = "delete",
         Dropped(u, s), UNCHANGED << obj, pw, acl, excused >>
  PROVE  /\ \A v \in Users, t \in Service :
              Vouched(v, t) => Vouched(v, t)' \/ (v = u /\ h[u].op = "delete")
         /\ RoleCurrent'
<1> USE DEF Inductive
<1>1. role \in [Account -> 0 .. MaxUsers]
  BY DEF TypeOK
<1>2. \A a \in Account : role'[a] = IF a = << u, s >> THEN 0 ELSE role[a]
  BY <1>1 DEF Dropped
<1>3. dbs' = dbs \ {<< u, s >>}
  BY DEF Dropped
<1>4. \A t \in Service : t # "redis" => t \in SqlService
  BY DEF SqlService, Service
<1>5. ASSUME NEW v \in Users, NEW t \in Service, Vouched(v, t), v # u
      PROVE  Vouched(v, t)'
  BY <1>2, <1>3, <1>4, <1>5 DEF Vouched, Works, Account
<1>6. RoleCurrent'
  BY <1>2 DEF RoleCurrent, Account
<1> QED
  BY <1>5, <1>6

\* What the scripts leave is of its type.
LEMMA AccountsTyped ==
  ASSUME TypeOK, NEW u \in Users, NEW s \in SqlService, Made(u, s) \/ Dropped(u, s)
  PROVE  dbs' \subseteq Account /\ role' \in [Account -> 0 .. MaxUsers]
<1>1. << u, s >> \in Account /\ pw[u] \in 0 .. MaxUsers /\ 0 \in 0 .. MaxUsers
  BY BoundAssumption DEF TypeOK, Account
<1>2. CASE Made(u, s)
  BY <1>1, <1>2 DEF TypeOK, Made
<1>3. CASE Dropped(u, s)
  BY <1>1, <1>3 DEF TypeOK, Dropped
<1> QED
  BY <1>2, <1>3

\* The calls before psql do nothing to accounts.
LEMMA StepsPreserve ==
  ASSUME Inductive, NEW u \in Users, NEW s \in SqlService,
         Pick(u, s) \/ Copy(u, s) \/ Chmod(u, s)
  PROVE  Inductive'
<1> USE DEF Inductive, redis, object, bounds
<1>1. h[u] \in HandlerState
  BY DEF TypeOK
<1>2. CASE Pick(u, s)
  <2>1. Found(s) \in Pods
    <3>1. s = "postgres" => Found(s) \in Pods
      BY <1>2 DEF Pick, Found, TypeOK
    <3>2. s # "postgres" => live # {} /\ Found(s) = First
      BY <1>2 DEF Pick, Found
    <3>3. live # {} => First \in Pods
      BY FirstLive DEF TypeOK
    <3> QED
      BY <3>1, <3>2, <3>3
  <2>2. h' \in [Users -> HandlerState] /\ h'[u].op = h[u].op /\ h'[u].meta = h[u].meta
        /\ h'[u].left = h[u].left /\ \A v \in Users \ {u} : h'[v] = h[v]
    BY <1>1, <1>2, <2>1 DEF Pick, TypeOK, HandlerState
  <2>3. TypeOK'
    BY <1>2, <2>2 DEF Pick, TypeOK, postgres
  <2> QED
    BY <1>2, <2>2, <2>3, OthersKeep DEF Pick, postgres
<1>3. CASE Copy(u, s) \/ Chmod(u, s)
  <2>1. h' \in [Users -> HandlerState] /\ h'[u].op = h[u].op /\ h'[u].meta = h[u].meta
        /\ h'[u].left = h[u].left /\ \A v \in Users \ {u} : h'[v] = h[v]
    <3>1. PICK step \in {"chmod", "psql"} : h' = [h EXCEPT ![u].at = step]
      BY <1>3 DEF Copy, Chmod
    <3> QED
      BY <1>1, <3>1 DEF TypeOK, HandlerState
  <2>2. calm' \in BOOLEAN
    BY <1>3 DEF Copy, Chmod, TypeOK
  <2>3. pgpass' \in [Pods -> {"none", "open", "closed"}]
    BY <1>3 DEF Copy, Chmod, TypeOK
  <2>4. TypeOK'
    BY <1>3, <2>1, <2>2, <2>3 DEF Copy, Chmod, TypeOK
  <2> QED
    BY <1>3, <2>1, <2>4, OthersKeep DEF Copy, Chmod
<1> QED
  BY <1>2, <1>3

\* psql, and what ends a script without it: the handler goes to its next
\* service, and names this one only where the account is vouched for.
LEMMA ScriptEnds ==
  ASSUME Inductive, NEW u \in Users, NEW s \in SqlService,
         GiveUp(u, s) \/ Refused(u, s) \/ Psql(u, s)
  PROVE  Inductive'
<1> USE DEF Inductive
<1>1. s \in Service /\ h[u].left # << >>
  BY AtService DEF GiveUp, Refused, Psql
<1>2. UNCHANGED << live, primary, pgpass, redis, object, excused, calm, bounds >>
  BY DEF GiveUp, Refused, Psql, postgres
<1>3. PICK named \in BOOLEAN :
        /\ Done(u, s, named)
        /\ \/ UNCHANGED << dbs, role >> /\ ~named
           \/ Made(u, s) /\ h[u].op # "delete"
           \/ Dropped(u, s) /\ h[u].op = "delete"
  <2>1. CASE GiveUp(u, s) \/ Refused(u, s)
    BY <2>1 DEF GiveUp, Refused, Raises, postgres
  <2>2. CASE Psql(u, s)
    <3>1. Named(u, s) => Done(u, s, TRUE)
      BY DEF Named, FerretNamed, PostgresNamed, SqlService
    <3>2. Raises(u, s) => Done(u, s, FALSE)
      BY DEF Raises
    <3> QED
      BY <2>2, <3>1, <3>2 DEF Psql
  <2> QED
    BY <2>1, <2>2
<1>4. h' \in [Users -> HandlerState]
  BY <1>1, <1>3, DoneHandler
<1>5. obj[u] # "none"
  BY <1>1 DEF Turns
<1>6. Counted'
  BY <1>2 DEF Counted, object, bounds
<1>7. CASE UNCHANGED << dbs, role >> /\ ~named
  <2>1. \A v \in Users, t \in Service : Vouched(v, t)' = Vouched(v, t)
    BY <1>2, <1>7 DEF Vouched, Works, redis, object
  <2>2. DocTrue' /\ MetaTrue' /\ Turns'
    BY <1>1, <1>2, <1>3, <1>7, <2>1, NamingKeeps
  <2>3. RoleCurrent'
    BY <1>2, <1>7 DEF RoleCurrent, object
  <2>4. TypeOK'
    BY <1>2, <1>4, <1>7 DEF TypeOK, redis, object, bounds
  <2> QED
    BY <1>6, <2>2, <2>3, <2>4
<1>8. CASE Made(u, s) /\ h[u].op # "delete"
  <2>1. dbs' \subseteq Account /\ role' \in [Account -> 0 .. MaxUsers]
    BY <1>8, AccountsTyped
  <2>2. TypeOK'
    BY <1>2, <1>4, <2>1 DEF TypeOK, redis, object, bounds
  <2>3. UNCHANGED << obj, pw, acl, excused >>
    BY <1>2 DEF redis, object
  <2>4. RoleCurrent' /\ DocTrue' /\ MetaTrue' /\ Turns'
    BY <1>1, <1>2, <1>3, <1>5, <1>8, <2>3, MadeVouched, NamingKeeps
  <2> QED
    BY <1>6, <2>2, <2>4
<1>9. CASE Dropped(u, s) /\ h[u].op = "delete"
  <2>1. dbs' \subseteq Account /\ role' \in [Account -> 0 .. MaxUsers]
    BY <1>9, AccountsTyped
  <2>2. TypeOK'
    BY <1>2, <1>4, <2>1 DEF TypeOK, redis, object, bounds
  <2>3. UNCHANGED << obj, pw, acl, excused >>
    BY <1>2 DEF redis, object
  <2>4. RoleCurrent' /\ DocTrue' /\ MetaTrue' /\ Turns'
    BY <1>1, <1>2, <1>3, <1>9, <2>3, DroppedKeeps, NamingKeeps
  <2> QED
    BY <1>6, <2>2, <2>4
<1> QED
  BY <1>3, <1>7, <1>8, <1>9

\* A statement that fails, or a script that is cut off, excuses its account.
LEMMA PsqlFailsPreserves ==
  ASSUME Inductive, NEW u \in Users, NEW s \in SqlService, PsqlFails(u, s)
  PROVE  Inductive'
<1> USE DEF Inductive
<1> DEFINE a == << u, s >>
<1>1. s \in Service /\ h[u].left # << >>
  BY AtService DEF PsqlFails
<1>2. UNCHANGED << live, primary, pgpass, redis, object, calm >>
      /\ excused' = excused \cup {a}
  BY DEF PsqlFails
<1>3. PICK named \in BOOLEAN : Done(u, s, named)
  <2>1. Named(u, s) => Done(u, s, TRUE)
    BY DEF Named, FerretNamed, PostgresNamed, SqlService
  <2>2. Raises(u, s) => Done(u, s, FALSE)
    BY DEF Raises
  <2> QED
    BY <2>1, <2>2 DEF PsqlFails
<1>4. h' \in [Users -> HandlerState]
  BY <1>1, <1>3, DoneHandler
<1>5. role \in [Account -> 0 .. MaxUsers] /\ a \in Account
  BY DEF TypeOK, Account
<1>6. dbs' \subseteq Account /\ role' \in [Account -> 0 .. MaxUsers]
  <2>1. \/ dbs' = dbs /\ role' = role
        \/ dbs' = dbs \cup {a} /\ role' = role
        \/ dbs' = dbs \ {a} /\ role' = role
        \/ Made(u, s)
        \/ Dropped(u, s)
    BY DEF PsqlFails
  <2>2. dbs \subseteq Account
    BY DEF TypeOK
  <2> QED
    BY <2>1, <2>2, <1>5, AccountsTyped
<1>7. \A b \in Account : b # a => (b \in dbs' <=> b \in dbs) /\ role'[b] = role[b]
  BY <1>5 DEF PsqlFails, Made, Dropped
<1>8. \A v \in Users, t \in Service : Vouched(v, t) => Vouched(v, t)'
  <2>1. \A t \in Service : t # "redis" => t \in SqlService
    BY DEF SqlService, Service
  <2> QED
    BY <1>2, <1>7, <2>1 DEF Vouched, Works, redis, object, Account
<1>9. Vouched(u, s)'
  BY <1>2 DEF Vouched
<1>10. DocTrue' /\ MetaTrue' /\ Turns'
  BY <1>1, <1>2, <1>3, <1>8, <1>9, NamingKeeps
<1>11. RoleCurrent'
  BY <1>2, <1>7 DEF RoleCurrent, object, Account
<1>12. troubles' \in 0 .. MaxTroubles /\ users' = users
  BY TroubleCounted DEF PsqlFails
<1>13. TypeOK'
  BY <1>1, <1>2, <1>4, <1>6, <1>12 DEF TypeOK, redis, object
<1>14. Counted'
  BY <1>2, <1>12 DEF Counted, object
<1> QED
  BY <1>10, <1>11, <1>13, <1>14

\* Redis takes a new password of the user, or all of them away.
LEMMA RedisPreserves ==
  ASSUME Inductive, NEW u \in Users, RedisGives(u) \/ RedisTakes(u) \/ RedisCutOff(u)
  PROVE  Inductive'
<1> USE DEF Inductive
<1> DEFINE s == "redis"
<1>1. s \in Service /\ h[u].left # << >>
  BY AtService DEF RedisGives, RedisTakes, RedisCutOff
<1>2. UNCHANGED << postgres, redisUp, object, calm >>
  BY DEF RedisGives, RedisTakes, RedisCutOff, redis
<1>3. acl \in [Users -> SUBSET (0 .. MaxUsers)] /\ pw[u] \in 0 .. MaxUsers
  BY DEF TypeOK
<1>4. CASE RedisGives(u)
  <2>1. Done(u, s, TRUE) /\ excused' = excused \ {<< u, s >>} /\ UNCHANGED bounds
    BY <1>4 DEF RedisGives, RedisNamed
  <2>2. acl' = [acl EXCEPT ![u] = @ \cup {pw[u]}]
    BY <1>4 DEF RedisGives, SetUser
  <2>3. Vouched(u, s)'
    BY <1>2, <1>3, <2>2 DEF Vouched, Works, object
  <2>4. \A v \in Users, t \in Service : Vouched(v, t) => Vouched(v, t)'
    BY <1>2, <1>3, <2>1, <2>2, <2>3 DEF Vouched, Works, object, postgres
  <2>5. DocTrue' /\ MetaTrue' /\ Turns'
    BY <1>1, <1>2, <2>1, <2>3, <2>4, NamingKeeps
  <2>6. RoleCurrent' /\ Counted'
    BY <1>2, <2>1 DEF RoleCurrent, Counted, object, postgres, bounds, SqlService
  <2>7. h' \in [Users -> HandlerState]
    BY <1>1, <2>1, DoneHandler
  <2>8. TypeOK'
    BY <1>2, <1>3, <2>1, <2>2, <2>7 DEF TypeOK, object, postgres, bounds
  <2> QED
    BY <2>5, <2>6, <2>8
<1>5. CASE RedisTakes(u)
  <2>1. Done(u, s, FALSE) /\ h[u].op = "delete" /\ UNCHANGED << excused, bounds >>
    BY <1>5 DEF RedisTakes
  <2>2. acl' = [acl EXCEPT ![u] = {}] \/ acl' = acl
    BY <1>5 DEF RedisTakes, DelUser
  <2>3. \A v \in Users, t \in Service :
          Vouched(v, t) => Vouched(v, t)' \/ (v = u /\ h[u].op = "delete")
    BY <1>2, <1>3, <2>1, <2>2 DEF Vouched, Works, object, postgres
  <2>5. DocTrue' /\ MetaTrue' /\ Turns'
    BY <1>1, <1>2, <2>1, <2>3, NamingKeeps
  <2>6. RoleCurrent' /\ Counted'
    BY <1>2, <2>1 DEF RoleCurrent, Counted, object, postgres, bounds
  <2>7. h' \in [Users -> HandlerState]
    BY <1>1, <2>1, DoneHandler
  <2>8. TypeOK'
    BY <1>2, <1>3, <2>1, <2>2, <2>7 DEF TypeOK, object, postgres, bounds
  <2> QED
    BY <2>5, <2>6, <2>8
<1>6. CASE RedisCutOff(u)
  <2>1. Done(u, s, FALSE) /\ UNCHANGED << redis, excused >> /\ Trouble
    BY <1>6 DEF RedisCutOff, Raises
  <2>2. troubles' \in 0 .. MaxTroubles /\ users' = users
    BY <2>1, TroubleCounted
  <2>3. \A v \in Users, t \in Service : Vouched(v, t) => Vouched(v, t)'
    BY <1>2, <2>1 DEF Vouched, Works, object, postgres, redis
  <2>5. DocTrue' /\ MetaTrue' /\ Turns'
    BY <1>1, <1>2, <2>1, <2>3, NamingKeeps
  <2>6. RoleCurrent' /\ Counted'
    BY <1>2, <2>1, <2>2 DEF RoleCurrent, Counted, object, postgres
  <2>7. h' \in [Users -> HandlerState]
    BY <1>1, <2>1, DoneHandler
  <2>8. TypeOK'
    BY <1>2, <2>1, <2>2, <2>7 DEF TypeOK, object, postgres, redis
  <2> QED
    BY <2>5, <2>6, <2>8
<1> QED
  BY <1>4, <1>5, <1>6
--------------------------------------------------------------------------------
LEMMA NextPreserves == Inductive /\ [Next]_vars => Inductive'
<1> SUFFICES ASSUME Inductive, [Next]_vars PROVE Inductive'
  OBVIOUS
<1>1. CASE Around
  BY <1>1, AroundPreserves
<1>2. ASSUME NEW u \in Users, Handler(u) PROVE Inductive'
  <2>1. ASSUME NEW s \in SqlService, Script(u, s) PROVE Inductive'
    BY <2>1, StepsPreserve, ScriptEnds, PsqlFailsPreserves DEF Script
  <2> QED
    BY <1>2, <2>1, BeginPreserves, EndPreserves, RedisPreserves DEF Handler
<1>3. CASE UNCHANGED vars
  BY <1>3 DEF vars, postgres, redis, object, bounds, Inductive, TypeOK, DocTrue, MetaTrue,
              RoleCurrent, Turns, Counted, Vouched, Works
<1> QED
  BY <1>1, <1>2, <1>3 DEF Next

\* The invariant that ties handlers, roles, documents and objects together
\* holds in every behaviour.
THEOREM InductiveCorrect == Spec => []Inductive
BY Initially, NextPreserves, PTL DEF Spec

\* Handlers, Pods, accounts and documents keep to their types.
THEOREM TypeCorrect == Spec => []TypeOK
BY InductiveCorrect, PTL DEF Inductive

\* The accounts that the document whisk_user_create stored for a user names
\* open under the password it gives, but for those that met a failing
\* statement or were there before: whatever Pods are lost, whichever Pod a
\* script runs in, and however the handlers of other users interleave.
THEOREM DocCorrect == Spec => []DocTrue
BY InductiveCorrect, PTL DEF Inductive
--------------------------------------------------------------------------------
\* The services ahead of a handler.
Members(L) == { L[i] : i \in DOMAIN L }
Distinct(L) == \A i, j \in DOMAIN L : L[i] = L[j] => i = j

LEMMA TailMembers ==
  ASSUME NEW L \in Seq(Service), L # << >>, Distinct(L)
  PROVE  /\ Members(Tail(L)) = Members(L) \ {Head(L)} /\ Distinct(Tail(L))
         /\ Head(L) \in Members(L)
<1> DEFINE M == Tail(L)
<1>1. /\ M \in Seq(Service) /\ Len(L) \in Nat /\ Len(L) > 0 /\ Len(M) = Len(L) - 1
      /\ \A i \in 1 .. Len(M) : M[i] = L[i + 1]
      /\ Head(L) = L[1] /\ DOMAIN L = 1 .. Len(L) /\ DOMAIN M = 1 .. Len(M)
  BY HeadTailProperties
<1> HIDE DEF M
<1>2. ASSUME NEW i \in DOMAIN M
      PROVE  i + 1 \in DOMAIN L /\ i + 1 # 1 /\ M[i] = L[i + 1] /\ i \in Int
  BY <1>1
<1>3. ASSUME NEW j \in DOMAIN L, j # 1
      PROVE  j - 1 \in DOMAIN M /\ M[j - 1] = L[j]
  <2>1. j - 1 \in DOMAIN M /\ (j - 1) + 1 = j
    BY <1>1, <1>3
  <2> QED BY <1>1, <2>1
<1>4. 1 \in DOMAIN L
  BY <1>1
<1>5. Members(M) \subseteq Members(L) \ {Head(L)}
  BY <1>1, <1>2, <1>4 DEF Members, Distinct
<1>6. Members(L) \ {Head(L)} \subseteq Members(M)
  BY <1>1, <1>3 DEF Members
<1>7. Distinct(M)
  <2> SUFFICES ASSUME NEW i \in DOMAIN M, NEW j \in DOMAIN M, M[i] = M[j]
               PROVE  i = j
    BY DEF Distinct
  <2>1. i + 1 = j + 1
    BY <1>2 DEF Distinct
  <2> QED BY <1>2, <2>1
<1> QED
  BY <1>1, <1>4, <1>5, <1>6, <1>7 DEF Members, M

LEMMA CatMembers ==
  ASSUME NEW s \in Seq(Service), NEW t \in Seq(Service), Distinct(s), Distinct(t),
         Members(s) \cap Members(t) = {}
  PROVE  /\ s \o t \in Seq(Service) /\ Members(s \o t) = Members(s) \cup Members(t)
         /\ Distinct(s \o t)
<1> DEFINE c == s \o t
<1>1. /\ c \in Seq(Service) /\ Len(c) = Len(s) + Len(t) /\ Len(s) \in Nat /\ Len(t) \in Nat
      /\ \A i \in 1 .. Len(c) : c[i] = IF i =< Len(s) THEN s[i] ELSE t[i - Len(s)]
      /\ DOMAIN s = 1 .. Len(s) /\ DOMAIN t = 1 .. Len(t) /\ DOMAIN c = 1 .. Len(c)
  BY ConcatProperties
<1> HIDE DEF c
<1>2. ASSUME NEW i \in DOMAIN c
      PROVE  \/ i \in DOMAIN s /\ c[i] = s[i]
             \/ i - Len(s) \in DOMAIN t /\ c[i] = t[i - Len(s)] /\ i > Len(s)
  <2>1. CASE i =< Len(s)
    <3>1. i \in DOMAIN s
      BY <1>1, <2>1
    <3> QED BY <1>1, <2>1, <3>1
  <2>2. CASE ~(i =< Len(s))
    <3>1. i - Len(s) \in DOMAIN t /\ i > Len(s)
      BY <1>1, <2>2
    <3> QED BY <1>1, <2>2, <3>1
  <2> QED BY <2>1, <2>2
<1>3. ASSUME NEW i \in DOMAIN s
      PROVE  i \in DOMAIN c /\ c[i] = s[i]
  <2>1. i \in DOMAIN c /\ i =< Len(s)
    BY <1>1
  <2> QED BY <1>1, <2>1
<1>4. ASSUME NEW i \in DOMAIN t
      PROVE  i + Len(s) \in DOMAIN c /\ c[i + Len(s)] = t[i]
  <2>1. i + Len(s) \in DOMAIN c /\ ~(i + Len(s) =< Len(s)) /\ (i + Len(s)) - Len(s) = i
    BY <1>1
  <2> QED BY <1>1, <2>1
<1>5. Members(c) = Members(s) \cup Members(t)
  BY <1>2, <1>3, <1>4 DEF Members
<1>6. Distinct(c)
  <2> SUFFICES ASSUME NEW i \in DOMAIN c, NEW j \in DOMAIN c, c[i] = c[j]
               PROVE  i = j
    BY DEF Distinct
  <2>1. i \in Int /\ j \in Int
    BY <1>1
  <2>2. i \in DOMAIN s /\ j \in DOMAIN s /\ c[i] = s[i] /\ c[j] = s[j] => i = j
    BY DEF Distinct
  <2>3. ASSUME i - Len(s) \in DOMAIN t, c[i] = t[i - Len(s)],
               j - Len(s) \in DOMAIN t, c[j] = t[j - Len(s)]
        PROVE  i - Len(s) = j - Len(s)
    BY <2>3 DEF Distinct
  <2>4. \A x, y : x \in DOMAIN s /\ y \in DOMAIN t => s[x] # t[y]
    BY DEF Members
  <2>5. i - Len(s) = j - Len(s) => i = j
    BY <1>1, <2>1
  <2> QED BY <1>2, <2>2, <2>3, <2>4, <2>5
<1> QED
  BY <1>1, <1>5, <1>6 DEF c

\* A handler begins with every service its user wants, once.
LEMMA OrderMembers ==
  ASSUME NEW u \in Users
  PROVE  Order(u) \in Seq(Service) /\ Members(Order(u)) = Wants[u] /\ Distinct(Order(u))
<1>1. ASSUME NEW s \in Service
      PROVE  /\ Block(u, s) \in Seq(Service) /\ Distinct(Block(u, s))
             /\ Members(Block(u, s)) = IF Enabled(u, s) THEN {s} ELSE {}
  <2>1. << s >> \in Seq(Service) /\ DOMAIN << s >> = {1} /\ << s >>[1] = s
    OBVIOUS
  <2>2. << >> \in Seq(Service) /\ DOMAIN << >> = {}
    OBVIOUS
  <2> QED BY <2>1, <2>2 DEF Block, Members, Distinct
<1>2. "mongodb" \in Service /\ "redis" \in Service /\ "postgres" \in Service
  BY DEF Service
<1> DEFINE a == Block(u, "mongodb")
           b == Block(u, "redis")
           c == Block(u, "postgres")
           d == a \o b
<1>3. /\ a \in Seq(Service) /\ b \in Seq(Service) /\ c \in Seq(Service)
      /\ Distinct(a) /\ Distinct(b) /\ Distinct(c)
      /\ Members(a) \subseteq {"mongodb"} /\ Members(b) \subseteq {"redis"}
      /\ Members(c) \subseteq {"postgres"}
  BY <1>1, <1>2
<1>4. Members(a) \cup Members(b) \cup Members(c) = Wants[u]
  BY <1>1, <1>2, UserAssumption DEF Enabled, Service
<1> HIDE DEF a, b, c, d
<1>5. d \in Seq(Service) /\ Distinct(d) /\ Members(d) = Members(a) \cup Members(b)
  <2>1. Members(a) \cap Members(b) = {}
    BY <1>3
  <2> QED BY <1>3, <2>1, CatMembers DEF d
<1>6. /\ d \o c \in Seq(Service) /\ Distinct(d \o c)
      /\ Members(d \o c) = Members(a) \cup Members(b) \cup Members(c)
  <2>1. Members(d) \cap Members(c) = {}
    BY <1>3, <1>5
  <2> QED BY <1>3, <1>5, <2>1, CatMembers
<1> QED
  BY <1>4, <1>6 DEF Order, a, b, c, d
--------------------------------------------------------------------------------
\* Nothing having failed, users are given what they want and nothing is left.

LEMMA QuietBefore ==
  ASSUME TypeOK, Next, Quiet'
  PROVE  Quiet /\ ~Trouble
<1> DEFINE Calm == UNCHANGED calm \/ (calm' => calm)
<1>1. Calm /\ (Trouble \/ UNCHANGED troubles)
  <2>1. ASSUME NEW u \in Users, Add(u) \/ Discard(u)
        PROVE  Calm /\ (Trouble \/ UNCHANGED troubles)
    BY <2>1 DEF Add, Discard, bounds
  <2>2. PrimaryFails \/ RedisFails \/ Restart => UNCHANGED calm /\ Trouble
    BY Zenon DEF PrimaryFails, RedisFails, Restart
  <2>3. PrimaryIsBack \/ RedisIsBack => UNCHANGED calm /\ UNCHANGED troubles
    BY Zenon DEF PrimaryIsBack, RedisIsBack, bounds
  <2>4. ASSUME NEW u \in Users PROVE Begin(u) \/ End(u) => UNCHANGED calm /\ UNCHANGED troubles
    BY Zenon DEF Begin, End, bounds
  <2>5. ASSUME NEW u \in Users, NEW s \in SqlService, Script(u, s)
        PROVE  Calm /\ (Trouble \/ UNCHANGED troubles)
    <3>1. Pick(u, s) \/ GiveUp(u, s) \/ Chmod(u, s) \/ Refused(u, s) \/ Psql(u, s) =>
            UNCHANGED calm /\ UNCHANGED troubles
      BY Zenon DEF Pick, GiveUp, Chmod, Refused, Psql, bounds
    <3>2. Copy(u, s) => (calm' => calm) /\ UNCHANGED troubles
      BY Zenon DEF Copy, bounds
    <3>3. PsqlFails(u, s) => UNCHANGED calm /\ Trouble
      BY Zenon DEF PsqlFails
    <3> QED BY <2>5, <3>1, <3>2, <3>3, Zenon DEF Script
  <2>6. ASSUME NEW u \in Users
        PROVE  RedisGives(u) \/ RedisTakes(u) => UNCHANGED calm /\ UNCHANGED troubles
    BY Zenon DEF RedisGives, RedisTakes, bounds
  <2>7. ASSUME NEW u \in Users PROVE RedisCutOff(u) => UNCHANGED calm /\ Trouble
    BY Zenon DEF RedisCutOff
  <2>8. ASSUME NEW u \in Users, Handler(u)
        PROVE  Calm /\ (Trouble \/ UNCHANGED troubles)
    BY <2>4, <2>5, <2>6, <2>7, <2>8, Zenon DEF Handler
  <2>9. CASE Around
    BY <2>1, <2>2, <2>3, <2>9, Zenon DEF Around
  <2> QED BY <2>8, <2>9, Zenon DEF Next
<1>2. troubles \in Nat /\ troubles' = 0
  BY BoundAssumption DEF TypeOK, Quiet
<1>4. ~Trouble
  BY <1>2 DEF Trouble
<1>5. calm' => calm
  <2>1. CASE UNCHANGED calm
    BY <2>1, Zenon
  <2> QED BY <1>1, <2>1
<1> QED
  BY <1>1, <1>2, <1>4, <1>5 DEF Quiet

\* While no Pod goes, the same ones are found.
LEMMA SameFound ==
  ASSUME UNCHANGED << live, primary >>
  PROVE  First' = First /\ \A s : Found(s)' = Found(s) /\ \A u : Gets(u, s)' = Gets(u, s)
<1>1. First' = First
  BY DEF First
<1> QED
  BY <1>1 DEF Found, Gets

\* A handler that is between scripts, or looks for a Pod.
LEMMA ScriptsKept ==
  ASSUME Scripts, NEW u \in Users, UNCHANGED << live, primary, redisUp, pgpass >>,
         \A v \in Users \ {u} : h'[v] = h[v],
         \/ h'[u].at = "pick"
         \/ /\ h'[u].at = "copy" /\ h'[u].left # << >> /\ Head(h'[u].left) \in SqlService
            /\ h'[u].pod = Found(Head(h'[u].left))
  PROVE  Scripts'
<1>1. First' = First
  BY SameFound
<1>2. ASSUME NEW v \in Users, h'[v].at # "pick"
      PROVE  /\ h'[v].left # << >> /\ Head(h'[v].left) \in SqlService
             /\ h'[v].pod = Found(Head(h'[v].left))
             /\ h'[v].at = "chmod" => pgpass'[h'[v].pod] # "none"
             /\ h'[v].at = "psql" => pgpass'[h'[v].pod] = "closed"
  <2>1. CASE v = u
    BY <1>2, <2>1
  <2>2. CASE v # u
    <3>1. h'[v] = h[v]
      BY <2>2
    <3> QED BY <1>2, <3>1 DEF Scripts
  <2> QED BY <2>1, <2>2
<1>3. ASSUME NEW v \in Users, NEW w \in Users, v # w,
             {h'[v].at, h'[w].at} \subseteq {"chmod", "psql"}
      PROVE  h'[v].pod # h'[w].pod
  <2>1. v # u /\ w # u
    BY <1>3
  <2> QED BY <1>3, <2>1 DEF Scripts
<1>4. live' = Pods /\ primary' # "none" /\ redisUp'
  BY DEF Scripts
<1> QED
  BY <1>1, <1>2, <1>3, <1>4 DEF Scripts, Found

\* A handler that has the service s behind it, given or taken.
LEMMA Behind ==
  ASSUME Inductive, HalfDone, NEW u \in Users, NEW s \in Service, NEW named \in BOOLEAN,
         h[u].left # << >>, s = Head(h[u].left), Done(u, s, named),
         UNCHANGED << live, primary, object >>,
         h[u].op # "delete" => (named <=> Gets(u, s)),
         \A v \in Users, t \in Service : << v, t >> # << u, s >> /\ Without(v, t) => Without(v, t)',
         h[u].op = "delete" \/ ~Gets(u, s) => Without(u, s)'
  PROVE  HalfDone'
<1>1. TypeOK /\ Turns /\ h[u] \in HandlerState /\ h[u].left \in Seq(Service)
  BY DEF Inductive, TypeOK, HandlerState
<1>2. /\ \A v \in Users \ {u} : h'[v] = h[v]
      /\ h'[u].op = h[u].op /\ h'[u].left = Tail(h[u].left)
      /\ h'[u].meta = IF named /\ h[u].op # "delete" THEN h[u].meta \cup {s} ELSE h[u].meta
  BY <1>1 DEF Done, TypeOK, HandlerState
<1>3. \A v, t : Gets(v, t)' = Gets(v, t)
  BY SameFound
<1>4. h[u].op \in {"create", "delete"} /\ obj[u] # "none" /\ Distinct(h[u].left)
  BY <1>1 DEF HalfDone, Halfway, Turns, HandlerState, Distinct
<1>5. /\ Ahead(u) = Members(h[u].left) /\ Ahead(u)' = Members(h'[u].left)
      /\ \A v \in Users \ {u} : Ahead(v)' = Ahead(v)
  BY <1>2 DEF Ahead, Members
<1>6. Ahead(u)' = Ahead(u) \ {s} /\ s \in Ahead(u) /\ Distinct(h'[u].left)
  BY <1>1, <1>2, <1>4, <1>5, TailMembers
<1>7. ASSUME NEW v \in Users, v # u
      PROVE  Halfway(v)'
  <2>1. Served(v)' = Served(v)
    BY SameFound DEF Served, object
  <2>2. \A t \in Service : Without(v, t) => Without(v, t)'
    BY <1>7
  <2>3. h'[v] = h[v]
    BY <1>2, <1>7
  <2> QED BY <1>3, <1>5, <1>7, <2>1, <2>2, <2>3 DEF HalfDone, Halfway, object
<1>8. /\ h'[u].op # "resume" /\ (h'[u].op = "create" => u \notin handled')
      /\ Ahead(u)' \subseteq Wants[u]
  BY <1>2, <1>6 DEF HalfDone, Halfway, object
<1>9. h'[u].op = "create" => h'[u].meta = { t \in Service : Gets(u, t)' /\ t \notin Ahead(u)' }
  <2>1. h[u].op = "create" => h[u].meta = { t \in Service : Gets(u, t) /\ t \notin Ahead(u) }
    BY DEF HalfDone, Halfway
  <2> QED BY <1>2, <1>3, <1>6, <2>1
<1>10. ASSUME NEW t \in Service,
              ~Gets(u, t)' \/ obj'[u] = "none" \/ (h'[u].op = "delete" /\ t \notin Ahead(u)')
       PROVE  Without(u, t)'
  <2>1. CASE t = s
    BY <1>2, <1>3, <1>4, <1>10, <2>1 DEF object
  <2>2. CASE t # s
    <3>1. Without(u, t)
      BY <1>2, <1>3, <1>4, <1>6, <1>10, <2>2 DEF HalfDone, Halfway, object
    <3> QED BY <2>2, <3>1
  <2> QED BY <2>1, <2>2
<1>11. u \in handled' /\ obj'[u] # "none" => Served(u)'
  BY SameFound DEF HalfDone, Halfway, Served, object
<1>12. \A i, j \in DOMAIN h'[u].left : h'[u].left[i] = h'[u].left[j] => i = j
  BY <1>6 DEF Distinct
<1> QED
  BY <1>7, <1>8, <1>9, <1>10, <1>11, <1>12 DEF HalfDone, Halfway

\* Nothing of the handlers and the accounts changes, no object goes.
LEMMA WorldKeeps ==
  ASSUME Scripts, HalfDone, UNCHANGED << postgres, redis, h, handled, doc >>,
         \A v \in Users : /\ obj'[v] = "none" => obj[v] = "none"
                          /\ v \in handled /\ obj'[v] # "none" => obj[v] # "none"
  PROVE  Scripts' /\ HalfDone'
<1>1. /\ UNCHANGED << live, primary, pgpass, redisUp, dbs, role, acl, h, handled, doc >>
      /\ First' = First
  BY SameFound DEF postgres, redis
<1>2. Scripts'
  BY <1>1 DEF Scripts, Found
<1>3. ASSUME NEW v \in Users PROVE Halfway(v)'
  <2>1. Halfway(v) /\ Ahead(v)' = Ahead(v)
    BY <1>1 DEF HalfDone, Ahead
  <2>2. Served(v)' = Served(v) /\ \A t : Gets(v, t)' = Gets(v, t) /\ Without(v, t)' = Without(v, t)
    BY <1>1 DEF Served, Gets, Without
  <2> QED BY <1>1, <2>1, <2>2 DEF Halfway
<1> QED
  BY <1>2, <1>3 DEF HalfDone

\* Handlers are inside their scripts: nothing is given or taken yet.
LEMMA InsideKeeps ==
  ASSUME HalfDone, UNCHANGED << live, primary, dbs, role, acl, object >>,
         \A v \in Users : h'[v].op = h[v].op /\ h'[v].left = h[v].left /\ h'[v].meta = h[v].meta
  PROVE  HalfDone'
<1>1. First' = First
  BY SameFound
<1>3. ASSUME NEW v \in Users PROVE Halfway(v)'
  <2>1. Halfway(v) /\ Ahead(v)' = Ahead(v)
    BY DEF HalfDone, Ahead
  <2>2. Served(v)' = Served(v) /\ \A t : Gets(v, t)' = Gets(v, t) /\ Without(v, t)' = Without(v, t)
    BY <1>1 DEF Served, Gets, Without, object
  <2> QED BY <2>1, <2>2 DEF Halfway, object
<1> QED
  BY <1>3 DEF HalfDone

LEMMA AroundKeeps ==
  ASSUME Inductive, Scripts, HalfDone, Around, ~Trouble
  PROVE  Scripts' /\ HalfDone'
<1>1. CASE \E u \in Users : Add(u)
  <2>1. PICK u \in Users : Add(u)
    BY <1>1
  <2>2. u \notin handled
    BY <2>1 DEF Add, Inductive, Turns
  <2> QED BY <2>1, <2>2, WorldKeeps DEF Add, Inductive, TypeOK
<1>2. CASE \E u \in Users : Discard(u)
  BY <1>2, WorldKeeps DEF Discard, Inductive, TypeOK
<1>3. ~PrimaryFails /\ ~RedisFails /\ ~Restart
  BY Zenon DEF PrimaryFails, RedisFails, Restart
<1>4. ~PrimaryIsBack /\ ~RedisIsBack
  BY Zenon DEF PrimaryIsBack, RedisIsBack, Scripts
<1> QED
  BY <1>1, <1>2, <1>3, <1>4, Zenon DEF Around

\* Another's handler begins or ends: nothing of v changes.
LEMMA OthersHalfway ==
  ASSUME HalfDone, NEW v \in Users,
         UNCHANGED << live, primary, dbs, role, acl, h[v], obj[v], doc[v] >>,
         v \in handled' <=> v \in handled
  PROVE  Halfway(v)'
<1>1. First' = First /\ Halfway(v) /\ Ahead(v)' = Ahead(v)
  BY SameFound DEF HalfDone, Ahead
<1>2. Served(v)' = Served(v) /\ \A t : Gets(v, t)' = Gets(v, t) /\ Without(v, t)' = Without(v, t)
  BY <1>1 DEF Served, Gets, Without
<1> QED BY <1>1, <1>2 DEF Halfway

LEMMA BeginKeeps ==
  ASSUME Inductive, Scripts, HalfDone, NEW u \in Users, Begin(u)
  PROVE  Scripts' /\ HalfDone'
<1> DEFINE op == IF obj[u] = "present" THEN "create" ELSE "delete"
           begun == [Idle EXCEPT !.op = op, !.left = Blocks(u, op)]
<1>1. /\ h' = [h EXCEPT ![u] = begun] /\ obj[u] \in {"present", "deleting"}
      /\ obj[u] = "present" => u \notin handled
      /\ UNCHANGED << live, primary, pgpass, redisUp, dbs, role, acl, object >>
  BY DEF Begin, postgres, redis
<1>2. begun.op = op /\ begun.left = Order(u) /\ begun.meta = {} /\ begun.at = "pick"
  BY DEF Idle, Blocks
<1> HIDE DEF begun
<1>3. h'[u] = begun /\ \A v \in Users \ {u} : h'[v] = h[v]
  BY <1>1 DEF Inductive, TypeOK
<1>4. Scripts'
  BY <1>1, <1>2, <1>3, ScriptsKept
<1>5. ASSUME NEW v \in Users \ {u} PROVE Halfway(v)'
  BY <1>1, <1>3, OthersHalfway DEF object
<1>6. Ahead(u)' = Wants[u] /\ Distinct(h'[u].left)
  BY <1>2, <1>3, OrderMembers DEF Ahead, Members
<1>7. First' = First /\ Halfway(u)
  BY <1>1, SameFound DEF HalfDone
<1>8. Served(u)' = Served(u) /\ \A t : Gets(u, t)' = Gets(u, t) /\ Without(u, t)' = Without(u, t)
  BY <1>1, <1>7 DEF Served, Gets, Without, object
<1>9. \A s \in Service : Gets(u, s) => s \in Wants[u]
  BY DEF Gets, Enabled
<1>10. Halfway(u)'
  <2>1. h'[u].op = op /\ h'[u].op # "resume" /\ (h'[u].op = "create" => u \notin handled')
    BY <1>1, <1>2, <1>3 DEF object
  <2>2. h'[u].meta = { s \in Service : Gets(u, s)' /\ s \notin Ahead(u)' }
    BY <1>2, <1>3, <1>6, <1>8, <1>9
  <2>3. ASSUME NEW s \in Service,
               ~Gets(u, s)' \/ obj'[u] = "none" \/ (h'[u].op = "delete" /\ s \notin Ahead(u)')
        PROVE  Without(u, s)'
    BY <1>1, <1>6, <1>7, <1>8, <1>9, <2>3 DEF Halfway, object
  <2>4. u \in handled' /\ obj'[u] # "none" => Served(u)'
    BY <1>1, <1>7, <1>8 DEF Halfway, object
  <2> QED BY <1>6, <2>1, <2>2, <2>3, <2>4 DEF Halfway, Distinct
<1> QED
  BY <1>4, <1>5, <1>10 DEF HalfDone

LEMMA EndKeeps ==
  ASSUME Inductive, Scripts, HalfDone, NEW u \in Users, End(u)
  PROVE  Scripts' /\ HalfDone'
<1>1. /\ h[u].op # "idle" /\ h[u].left = << >> /\ h' = [h EXCEPT ![u] = Idle]
      /\ UNCHANGED << live, primary, pgpass, redisUp, dbs, role, acl >>
  BY DEF End, postgres, redis
<1>2. /\ h'[u] = Idle /\ \A v \in Users \ {u} : h'[v] = h[v]
      /\ Idle.op = "idle" /\ Idle.left = << >> /\ Idle.at = "pick"
  BY <1>1 DEF Inductive, TypeOK, Idle
<1>3. Scripts'
  BY <1>1, <1>2, ScriptsKept
<1>4. h[u].op \in {"create", "delete"} /\ Ahead(u) = {} /\ Ahead(u)' = {} /\ Halfway(u)
  <2>1. h[u].op \in {"idle", "create", "delete", "resume"}
    BY DEF Inductive, TypeOK, HandlerState
  <2>2. DOMAIN << >> = {}
    OBVIOUS
  <2> QED BY <1>1, <1>2, <2>1, <2>2 DEF HalfDone, Halfway, Ahead
<1>5. /\ \A v \in Users \ {u} : /\ obj'[v] = obj[v] /\ doc'[v] = doc[v]
                                /\ v \in handled' <=> v \in handled
      /\ h[u].op = "create" => obj'[u] = obj[u] /\ doc'[u] = h[u].meta /\ u \in handled'
      /\ h[u].op = "delete" => obj'[u] = "none" /\ u \notin handled'
  <2>1. CASE h[u].op = "create"
    BY <2>1 DEF End, Inductive, TypeOK
  <2>2. CASE h[u].op = "delete"
    BY <2>2 DEF End, Inductive, TypeOK
  <2> QED BY <1>4, <2>1, <2>2
<1>6. ASSUME NEW v \in Users \ {u} PROVE Halfway(v)'
  BY <1>1, <1>2, <1>5, OthersHalfway
<1>7. First' = First
  BY <1>1, SameFound
<1>8. \A t : Gets(u, t)' = Gets(u, t) /\ Without(u, t)' = Without(u, t)
  BY <1>1, <1>7 DEF Gets, Without
<1>9. u \in handled' /\ obj'[u] # "none" => Served(u)'
  <2>1. SUFFICES ASSUME u \in handled', obj'[u] # "none" PROVE Served(u)'
    OBVIOUS
  <2>2. doc'[u] = { s \in Service : Gets(u, s) }
    BY <1>4, <1>5, <2>1 DEF Halfway
  <2>3. Wants[u] \subseteq Service
    BY UserAssumption
  <2>4. doc'[u] = Wants[u] \ (IF First = primary THEN {} ELSE {"mongodb"})
    BY <2>2, <2>3 DEF Gets, Enabled
  <2> QED BY <1>1, <1>7, <2>4 DEF Served
<1>10. ASSUME NEW s \in Service,
              ~Gets(u, s)' \/ obj'[u] = "none" \/ (h'[u].op = "delete" /\ s \notin Ahead(u)')
       PROVE  Without(u, s)'
  BY <1>2, <1>4, <1>5, <1>8, <1>10 DEF Halfway
<1>11. Halfway(u)'
  <2>1. DOMAIN << >> = {}
    OBVIOUS
  <2> QED BY <1>2, <1>4, <1>9, <1>10, <2>1 DEF Halfway
<1> QED
  BY <1>3, <1>6, <1>11 DEF HalfDone
--------------------------------------------------------------------------------
\* With every Pod there, each script finds one, and Postgres's is the primary.
LEMMA AllFound ==
  ASSUME Inductive, Scripts, NEW s \in SqlService
  PROVE  /\ Found(s) \in Pods /\ Found(s) # "none" /\ live = Pods
         /\ Found("postgres") = primary /\ Found("mongodb") = First
<1>1. live = Pods /\ primary \in Pods /\ live # {}
  BY DEF Scripts, Inductive, TypeOK
<1>2. First \in Pods
  BY <1>1, FirstLive
<1>3. Found("postgres") = primary /\ Found("mongodb") = First
  BY <1>1 DEF Found
<1>4. s = "postgres" \/ s = "mongodb"
  BY DEF SqlService
<1> QED
  BY <1>1, <1>2, <1>3, <1>4, PodAssumption

\* What a script is about to do, or does.
LEMMA InScript ==
  ASSUME Inductive, Scripts, NEW u \in Users, NEW s, NEW step, At(u, s, step), step # "pick"
  PROVE  /\ h[u].left # << >> /\ s = Head(h[u].left) /\ h[u].at = step
         /\ s \in SqlService /\ h[u].pod = Found(s) /\ h[u].pod \in Pods /\ ~Refuses(u)
<1>1. /\ h[u].left # << >> /\ s = Head(h[u].left) /\ h[u].at = step
      /\ s \in SqlService /\ h[u].pod = Found(s)
      /\ h[u].at = "chmod" => pgpass[h[u].pod] # "none"
      /\ h[u].at = "psql" => pgpass[h[u].pod] = "closed"
  BY DEF At, Scripts
<1>2. h[u].pod \in Pods /\ live = Pods
  BY <1>1, AllFound
<1> QED
  BY <1>1, <1>2 DEF Refuses

LEMMA NothingFails ==
  ASSUME Inductive, Scripts, ~Trouble, NEW u \in Users, NEW s \in SqlService
  PROVE  ~GiveUp(u, s) /\ ~Refused(u, s) /\ ~PsqlFails(u, s)
<1>1. ~GiveUp(u, s)
  BY AllFound DEF GiveUp
<1>2. ~Refused(u, s)
  <2>1. ASSUME At(u, s, h[u].at), h[u].at \in {"copy", "chmod", "psql"} PROVE ~Refuses(u)
    BY <2>1, InScript
  <2> QED BY <2>1, Zenon DEF Refused
<1>3. ~PsqlFails(u, s)
  BY Zenon DEF PsqlFails
<1> QED BY <1>1, <1>2, <1>3

LEMMA PickKeeps ==
  ASSUME Inductive, Scripts, HalfDone, NEW u \in Users, NEW s \in SqlService, Pick(u, s)
  PROVE  Scripts' /\ HalfDone'
<1>1. /\ h' = [h EXCEPT ![u].at = "copy", ![u].pod = Found(s)]
      /\ h[u].left # << >> /\ s = Head(h[u].left)
      /\ UNCHANGED << live, primary, pgpass, redisUp, dbs, role, acl, object >>
  BY DEF Pick, At, postgres, redis
<1>2. /\ \A v \in Users \ {u} : h'[v] = h[v]
      /\ h'[u].op = h[u].op /\ h'[u].left = h[u].left /\ h'[u].meta = h[u].meta
      /\ h'[u].at = "copy" /\ h'[u].pod = Found(s)
  BY <1>1 DEF Inductive, TypeOK, HandlerState
<1>3. HalfDone'
  BY <1>1, <1>2, InsideKeeps
<1>4. Head(h'[u].left) = s
  BY <1>1, <1>2
<1> QED
  BY <1>1, <1>2, <1>3, <1>4, ScriptsKept

\* The file is the script's own: no two are in one Pod.
LEMMA FileKeeps ==
  ASSUME Inductive, Scripts, HalfDone, NEW u \in Users, NEW s \in SqlService,
         Copy(u, s) \/ Chmod(u, s), Quiet'
  PROVE  Scripts' /\ HalfDone'
<1> DEFINE pod == h[u].pod
           step == IF h[u].at = "copy" THEN "chmod" ELSE "psql"
           mode == IF h[u].at = "copy" THEN "open" ELSE "closed"
<1>1. /\ h[u].at \in {"copy", "chmod"} /\ At(u, s, h[u].at)
      /\ h' = [h EXCEPT ![u].at = step] /\ pgpass' = [pgpass EXCEPT ![pod] = mode]
      /\ UNCHANGED << live, primary, redisUp, dbs, role, acl, object >>
  BY DEF Copy, Chmod, At, redis
<1>2. h[u].left # << >> /\ Head(h[u].left) = s /\ pod = Found(s) /\ pod \in Pods
  BY <1>1, InScript
<1>3. ASSUME NEW v \in Users \ {u}, h[v].at \in {"chmod", "psql"}
      PROVE  h[v].pod # pod
  <2>1. CASE Copy(u, s)
    BY <1>3, <2>1 DEF Copy, Quiet
  <2>2. CASE Chmod(u, s)
    BY <1>3, <2>2 DEF Chmod, At, Scripts
  <2> QED BY <2>1, <2>2
<1>4. /\ \A v \in Users \ {u} : h'[v] = h[v]
      /\ h'[u].op = h[u].op /\ h'[u].left = h[u].left /\ h'[u].meta = h[u].meta
      /\ h'[u].at = step /\ h'[u].pod = pod
  BY <1>1 DEF Inductive, TypeOK, HandlerState
<1>5. pgpass'[pod] = mode /\ \A p \in Pods \ {pod} : pgpass'[p] = pgpass[p]
  BY <1>1, <1>2 DEF Inductive, TypeOK
<1>6. HalfDone'
  BY <1>1, <1>4, InsideKeeps
<1>7. First' = First
  BY <1>1, SameFound
<1>8. ASSUME NEW v \in Users, h'[v].at # "pick"
      PROVE  /\ h'[v].left # << >> /\ Head(h'[v].left) \in SqlService
             /\ h'[v].pod = Found(Head(h'[v].left))
             /\ h'[v].at = "chmod" => pgpass'[h'[v].pod] # "none"
             /\ h'[v].at = "psql" => pgpass'[h'[v].pod] = "closed"
  <2>1. CASE v = u
    BY <1>1, <1>2, <1>4, <1>5, <2>1
  <2>2. CASE v # u
    <3>1. h'[v] = h[v]
      BY <1>4, <2>2
    <3>2. /\ h[v].left # << >> /\ Head(h[v].left) \in SqlService
          /\ h[v].pod = Found(Head(h[v].left))
          /\ h[v].at = "chmod" => pgpass[h[v].pod] # "none"
          /\ h[v].at = "psql" => pgpass[h[v].pod] = "closed"
      BY <1>8, <3>1 DEF Scripts
    <3>3. h[v].pod \in Pods
      BY <3>2, AllFound
    <3>4. h[v].at \in {"chmod", "psql"} => pgpass'[h[v].pod] = pgpass[h[v].pod]
      BY <1>3, <1>5, <2>2, <3>3
    <3> QED BY <3>1, <3>2, <3>4
  <2> QED BY <2>1, <2>2
<1>9. ASSUME NEW v \in Users, NEW w \in Users, v # w,
             {h'[v].at, h'[w].at} \subseteq {"chmod", "psql"}
      PROVE  h'[v].pod # h'[w].pod
  <2>1. CASE v # u /\ w # u
    BY <1>4, <1>9, <2>1 DEF Scripts
  <2>2. CASE v = u
    BY <1>3, <1>4, <1>9, <2>2
  <2>3. CASE w = u
    BY <1>3, <1>4, <1>9, <2>3
  <2> QED BY <2>1, <2>2, <2>3
<1>10. live' = Pods /\ primary' # "none" /\ redisUp'
  BY <1>1 DEF Scripts
<1>11. Scripts'
  BY <1>1, <1>7, <1>8, <1>9, <1>10 DEF Scripts, Found
<1> QED
  BY <1>6, <1>11

\* The script gives the account, takes it, or stops at a replica where FerretDB
\* gives none.
LEMMA PsqlKeeps ==
  ASSUME Inductive, Scripts, HalfDone, NEW u \in Users, NEW s \in SqlService, Psql(u, s)
  PROVE  Scripts' /\ HalfDone'
<1> DEFINE named == h[u].pod = primary
<1>1. /\ At(u, s, "psql") /\ Done(u, s, named)
      /\ UNCHANGED << live, primary, pgpass, redisUp, acl, object >>
      /\ IF ~named THEN UNCHANGED << dbs, role >>
         ELSE IF h[u].op = "delete" THEN Dropped(u, s) ELSE Made(u, s)
  BY DEF Psql, Named, Raises, FerretNamed, PostgresNamed, SqlService, redis
<1>2. /\ h[u].left # << >> /\ s = Head(h[u].left) /\ h[u].pod = Found(s)
      /\ s \in Service /\ named \in BOOLEAN
  BY <1>1, InScript DEF SqlService, Service
<1>3. /\ h[u] \in HandlerState /\ h[u].left \in Seq(Service) /\ Halfway(u)
      /\ role \in [Account -> 0 .. MaxUsers] /\ << u, s >> \in Account
  BY DEF Inductive, TypeOK, HandlerState, HalfDone, Account
<1>4. s \in Wants[u]
  <2>1. s \in Ahead(u)
    BY <1>2, <1>3, HeadTailProperties DEF Ahead
  <2> QED BY <1>3, <2>1 DEF Halfway
<1>5. named <=> Gets(u, s)
  <2>1. CASE s = "postgres"
    BY <1>2, <1>4, <2>1, AllFound DEF Gets, Enabled
  <2>2. CASE s = "mongodb"
    BY <1>2, <1>4, <2>2, AllFound DEF Gets, Enabled
  <2> QED BY <2>1, <2>2 DEF SqlService
<1>6. ASSUME NEW v \in Users, NEW t \in Service, << v, t >> # << u, s >>, Without(v, t)
      PROVE  Without(v, t)'
  <2>1. CASE t = "redis"
    BY <1>1, <1>6, <2>1 DEF Without
  <2>2. CASE t # "redis"
    <3>1. << v, t >> \in Account
      BY <2>2 DEF Account, SqlService, Service
    <3>2. << v, t >> \notin dbs /\ role[<< v, t >>] = 0
      BY <1>6, <2>2 DEF Without
    <3>3. << v, t >> \notin dbs' /\ role'[<< v, t >>] = 0
      BY <1>1, <1>3, <1>6, <3>1, <3>2 DEF Made, Dropped
    <3> QED BY <2>2, <3>3 DEF Without
  <2> QED BY <2>1, <2>2
<1>7. ASSUME h[u].op = "delete" \/ ~Gets(u, s) PROVE Without(u, s)'
  <2>1. s # "redis"
    BY DEF SqlService
  <2>2. CASE named
    <3>1. Dropped(u, s)
      BY <1>1, <1>5, <1>7, <2>2
    <3> QED BY <1>3, <2>1, <3>1 DEF Dropped, Without
  <2>3. CASE ~named
    <3>1. Without(u, s)
      BY <1>2, <1>3, <1>5, <2>3 DEF Halfway
    <3> QED BY <1>1, <2>1, <2>3, <3>1 DEF Without
  <2> QED BY <2>2, <2>3
<1> HIDE DEF named
<1>8. HalfDone'
  BY <1>1, <1>2, <1>5, <1>6, <1>7, Behind
<1>9. h'[u].at = "pick" /\ \A v \in Users \ {u} : h'[v] = h[v]
  BY <1>1, <1>3 DEF Done, Inductive, TypeOK, HandlerState
<1> QED
  BY <1>1, <1>8, <1>9, ScriptsKept

LEMMA RedisKeeps ==
  ASSUME Inductive, Scripts, HalfDone, NEW u \in Users, RedisGives(u) \/ RedisTakes(u)
  PROVE  Scripts' /\ HalfDone'
<1> DEFINE named == h[u].op # "delete"
           s == "redis"
<1>1. /\ At(u, s, "pick") /\ Done(u, s, named)
      /\ UNCHANGED << live, primary, pgpass, redisUp, dbs, role, object >>
      /\ IF named THEN SetUser(u) ELSE DelUser(u)
  BY DEF RedisGives, RedisTakes, RedisNamed, Scripts, postgres
<1>2. h[u].left # << >> /\ s = Head(h[u].left) /\ s \in Service /\ named \in BOOLEAN
  BY <1>1 DEF At, Service
<1>3. /\ h[u] \in HandlerState /\ h[u].left \in Seq(Service) /\ Halfway(u)
      /\ acl \in [Users -> SUBSET (0 .. MaxUsers)]
  BY DEF Inductive, TypeOK, HandlerState, HalfDone
<1>4. s \in Wants[u]
  <2>1. s \in Ahead(u)
    BY <1>2, <1>3, HeadTailProperties DEF Ahead
  <2> QED BY <1>3, <2>1 DEF Halfway
<1>5. Gets(u, s)
  BY <1>4 DEF Gets, Enabled
<1>6. ASSUME NEW v \in Users, NEW t \in Service, << v, t >> # << u, s >>, Without(v, t)
      PROVE  Without(v, t)'
  BY <1>1, <1>3, <1>6 DEF Without, SetUser, DelUser
<1>7. h[u].op = "delete" => Without(u, s)'
  BY <1>1, <1>3 DEF Without, DelUser
<1> HIDE DEF named, s
<1>8. HalfDone'
  BY <1>1, <1>2, <1>5, <1>6, <1>7, Behind DEF named
<1>9. h'[u].at = "pick" /\ \A v \in Users \ {u} : h'[v] = h[v]
  BY <1>1, <1>3 DEF Done, Inductive, TypeOK, HandlerState
<1> QED
  BY <1>1, <1>8, <1>9, ScriptsKept
--------------------------------------------------------------------------------
LEMMA UndisturbedAtFirst == Init => Undisturbed
<1> SUFFICES ASSUME Init PROVE Scripts /\ HalfDone
  BY DEF Undisturbed
<1>1. Scripts
  BY PodAssumption DEF Init, Scripts, Idle
<1>2. ASSUME NEW u \in Users PROVE Halfway(u)
  <2>1. h[u] = Idle /\ Idle.op = "idle" /\ Idle.left = << >>
    BY DEF Init, Idle
  <2>2. DOMAIN << >> = {}
    OBVIOUS
  <2>3. \A s \in Service : Without(u, s)
    BY DEF Init, Without, Account, SqlService, Service
  <2> QED BY <2>1, <2>2, <2>3 DEF Halfway, Ahead, Init
<1> QED
  BY <1>1, <1>2 DEF HalfDone

LEMMA UndisturbedKept == Inductive /\ Undisturbed /\ [Next]_vars => Undisturbed'
<1> SUFFICES ASSUME Inductive, Undisturbed, [Next]_vars, Quiet' PROVE Scripts' /\ HalfDone'
  BY DEF Undisturbed
<1>1. CASE Next
  <2>1. Scripts /\ HalfDone /\ ~Trouble
    BY <1>1, QuietBefore DEF Inductive, Undisturbed
  <2>2. CASE Around
    BY <2>1, <2>2, AroundKeeps
  <2>3. ASSUME NEW u \in Users, Handler(u) PROVE Scripts' /\ HalfDone'
    <3>1. CASE Begin(u)
      BY <2>1, <3>1, BeginKeeps
    <3>2. CASE End(u)
      BY <2>1, <3>2, EndKeeps
    <3>3. ASSUME NEW s \in SqlService, Script(u, s) PROVE Scripts' /\ HalfDone'
      BY <2>1, <3>3, NothingFails, PickKeeps, FileKeeps, PsqlKeeps DEF Script
    <3>4. CASE RedisGives(u) \/ RedisTakes(u)
      BY <2>1, <3>4, RedisKeeps
    <3>5. ~RedisCutOff(u)
      BY <2>1, Zenon DEF RedisCutOff
    <3> QED BY <2>3, <3>1, <3>2, <3>3, <3>4, <3>5 DEF Handler
  <2> QED BY <1>1, <2>2, <2>3 DEF Next
<1>2. CASE UNCHANGED vars
  <2>1. Quiet /\ Scripts /\ HalfDone
    BY <1>2 DEF Undisturbed, Quiet, vars, bounds
  <2> QED BY <1>2, <2>1, WorldKeeps DEF vars, object
<1> QED
  BY <1>1, <1>2

\* While nothing failed, restarted or met in a Pod, a handled user has every
\* account its spec enables under its document, and one that is gone has none
\* left: for every number of users whose handlers overlap.
THEOREM GivenCorrect == Spec => []GivenAndTaken
<1>1. Spec => []Inductive
  BY InductiveCorrect
<1>2. Spec => []Undisturbed
  BY <1>1, UndisturbedAtFirst, UndisturbedKept, PTL DEF Spec
<1>3. Inductive /\ Undisturbed => GivenAndTaken
  <2> SUFFICES ASSUME Undisturbed, Quiet, NEW u \in Users
               PROVE  /\ u \in handled /\ obj[u] = "present" => Served(u)
                      /\ obj[u] = "none" => Taken(u)
    BY DEF GivenAndTaken
  <2>1. Halfway(u)
    BY DEF Undisturbed, HalfDone
  <2>2. u \in handled /\ obj[u] = "present" => Served(u)
    BY <2>1 DEF Halfway
  <2>3. obj[u] = "none" => Taken(u)
    BY <2>1 DEF Halfway, Without, Taken, Service, SqlService
  <2> QED BY <2>2, <2>3
<1> QED
  BY <1>1, <1>2, <1>3, PTL
================================================================================
