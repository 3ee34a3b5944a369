----------------------------- MODULE Rollout_proofs -----------------------------
(***************************************************************************)
(* Proofs about Rollout.                                                   *)
(*                                                                         *)
(* What a thread has yet to do is a sequence of steps.  It begins as the   *)
(* program of a handler, a concatenation of blocks, and a step only ever   *)
(* drops steps at its front.  The invariants are stated for every step of  *)
(* such a sequence in terms of those before it, so that they hold of a     *)
(* concatenation when they hold of its parts, and are kept when the front  *)
(* is dropped.                                                             *)
(*                                                                         *)
(* Of the first steps, those of the configuration and of the preloader,    *)
(* more is needed: where in them each thread is (Place), and what the      *)
(* shared files, the Job and the memory of the process are then            *)
(* (Preloading).                                                           *)
(*                                                                         *)
(* Of a creation in which no call fails more is known: that each of its    *)
(* steps finds what those before it made (Ready), so that what is wanted   *)
(* is given already or by a step that is left (Promised).                  *)
(***************************************************************************)
EXTENDS Rollout, TLAPS, WellFoundedInduction

Groups ==
  {"config", "preloader", "couchdb", "redis", "redis user", "minio", "minio user",
   "data bucket", "web bucket", "policy", "kubegres", "postgres", "postgres keys",
   "mongodb", "mongodb keys", "openwhisk", "metadata", "system", "result", "removal",
   "restart"}
Dos ==
  {"clean", "configure", "owner", "apihost", "read", "patch", "open", "close", "build",
   "create", "remove", "forget", "apply", "pick", "wait", "account", "note", "user",
   "bucket", "grant", "service", "endpoint", "save", "deploy", "created", "failed",
   "delete", "rollout"}
Step == [c : Groups, w : Workloads \cup {"none"}, do : Dos]
--------------------------------------------------------------------------------
\* Dropping the front of a sequence of steps.

\* M is L without its first d steps.
Drop(L, M, d) ==
  /\ M \in Seq(Step) /\ d \in 0 .. Len(L) /\ Len(M) = Len(L) - d
  /\ \A i \in 1 .. Len(M) : M[i] = L[i + d]

\* The relation < on the natural numbers, as the set of its pairs.
LEMMA Less == OpToRel(<, Nat) = {p \in Nat \X Nat : p[1] < p[2]}
  BY SMT DEF OpToRel

\* A set of natural numbers that is not empty has a least member.
LEMMA LeastIndex ==
  ASSUME NEW T \in SUBSET Nat, T # {}
  PROVE  \E x \in T : \A y \in T : x =< y
<1> DEFINE R == {p \in Nat \X Nat : p[1] < p[2]}
<1>1. IsWellFoundedOn(R, Nat)
  BY NatLessThanWellFounded, Less
<1>2. \A x, y \in Nat : y < x => << y, x >> \in R
  OBVIOUS
<1>3. \E x \in T : \A y \in T : ~(<< y, x >> \in R)
  <2> HIDE DEF R
  <2> QED BY <1>1, WFMin
<1> HIDE DEF R
<1>4. PICK x \in T : \A y \in T : ~(<< y, x >> \in R)
  BY <1>3
<1>5. \A y \in T : ~(y < x)
  BY <1>2, <1>4
<1> QED
  BY <1>4, <1>5

\* Tail drops one step.
LEMMA TailDrops ==
  ASSUME NEW L \in Seq(Step), L # << >>
  PROVE  Drop(L, Tail(L), 1) /\ Head(L) = L[1] /\ Len(L) > 0
BY DEF Drop

LEMMA TwoDropped ==
  ASSUME NEW L \in Seq(Step), 1 < Len(L)
  PROVE  Drop(L, Tail(Tail(L)), 2)
<1>1. Tail(L) \in Seq(Step) /\ Len(Tail(L)) = Len(L) - 1 /\ Tail(L) # << >>
      /\ \A i \in 1 .. Len(L) - 1 : Tail(L)[i] = L[i + 1]
  <2>1. L # << >>
    OBVIOUS
  <2>2. Tail(L) \in Seq(Step) /\ Len(Tail(L)) = Len(L) - 1
    BY <2>1
  <2>3. \A i \in 1 .. Len(L) - 1 : Tail(L)[i] = L[i + 1]
    BY <2>1
  <2>4. Tail(L) # << >>
    <3>1. Len(L) \in Nat /\ Len(Tail(L)) # 0
      BY <2>2
    <3>2. Len(<< >>) = 0
      OBVIOUS
    <3> QED BY <3>1, <3>2
  <2> QED BY <2>2, <2>3, <2>4
<1> DEFINE K == Tail(L)
<1> HIDE DEF K
<1>2. K \in Seq(Step) /\ Len(K) = Len(L) - 1 /\ K # << >>
      /\ \A i \in 1 .. Len(L) - 1 : K[i] = L[i + 1]
  BY <1>1 DEF K
<1>3. Tail(K) \in Seq(Step) /\ Len(Tail(K)) = Len(L) - 2
      /\ \A i \in 1 .. Len(L) - 2 : Tail(K)[i] = K[i + 1]
  BY <1>2
<1>4. \A i \in 1 .. Len(L) - 2 : Tail(K)[i] = L[i + 2]
  BY <1>2, <1>3
<1>5. Drop(L, Tail(K), 2)
  BY <1>3, <1>4 DEF Drop
<1> QED
  BY <1>5 DEF K

\* After drops the steps of the components cs, up to the first of another.
LEMMA AfterDrops ==
  ASSUME NEW L \in Seq(Step), NEW cs
  PROVE  \E d \in 0 .. Len(L) :
           /\ Drop(L, After(L, cs), d) /\ \A j \in 1 .. d : L[j].c \in cs
           /\ d < Len(L) => L[d + 1].c \notin cs
<1> DEFINE I == {i \in 1 .. Len(L) : L[i].c \notin cs}
<1>1. CASE I = {}
  <2>1. After(L, cs) = << >>
    BY <1>1 DEF After
  <2>2. Drop(L, << >>, Len(L)) /\ \A j \in 1 .. Len(L) : L[j].c \in cs
    BY <1>1 DEF Drop
  <2> QED
    BY <2>1, <2>2
<1>2. CASE I # {}
  <2>1. I \in SUBSET Nat
    OBVIOUS
  <2>2. \E k \in I : \A y \in I : k =< y
    <3> HIDE DEF I
    <3> QED BY <1>2, <2>1, LeastIndex
  <2> DEFINE k == Min(I)
  <2>3. k \in I /\ \A y \in I : k =< y
    <3> HIDE DEF I
    <3> QED BY <2>2 DEF Min
  <2>4. After(L, cs) = SubSeq(L, k, Len(L))
    BY <1>2 DEF After
  <2> HIDE DEF k
  <2>5. k \in 1 .. Len(L) /\ L[k].c \notin cs
    BY <2>3
  <2>6. \A j \in 1 .. k - 1 : L[j].c \in cs
    <3>1. ASSUME NEW j \in 1 .. k - 1, L[j].c \notin cs
          PROVE  FALSE
      <4>1. j \in I
        BY <2>5, <3>1
      <4> HIDE DEF I
      <4> QED
        BY <2>3, <2>5, <3>1, <4>1
    <3> QED
      BY <3>1
  <2> HIDE DEF I
  <2>7. Drop(L, SubSeq(L, k, Len(L)), k - 1)
    BY <2>5 DEF Drop
  <2>8. (k - 1) + 1 = k /\ k - 1 \in 0 .. Len(L)
    BY <2>5
  <2> QED
    BY <2>4, <2>5, <2>6, <2>7, <2>8
<1> QED
  BY <1>1, <1>2
--------------------------------------------------------------------------------
\* The form of what is left: which steps there are, and which follow which.

\* The component and the workload a step may have.
Suits(c, w, do) ==
  /\ do = "note" => c \in DOMAIN Keys
  /\ do = "account" => c = "redis user"
  /\ do = "user" => c = "minio user"
  /\ do = "bucket" => c \in {"data bucket", "web bucket"}
  /\ do = "service" => c = "postgres"
  /\ do \in {"apply", "pick", "wait"} => w \in Workloads
  /\ do \in {"created", "failed"} <=> c = "result"
  /\ do = "rollout" <=> c = "restart"
  /\ do \in {"read", "patch", "open", "close", "build", "create", "remove"} => c = "preloader"
Fits(x) == Suits(x.c, x.w, x.do)

\* The steps of the preloader, in order; the watcher removes the Job first.
Follow(do) ==
  CASE do = "read" -> {"patch"} [] do = "patch" -> {"open"} [] do = "open" -> {"close"}
    [] do = "close" -> {"build"} [] do = "build" -> {"create", "remove"}
    [] do \in {"remove", "forget"} -> {"read"} [] OTHER -> {}

\* What holds of the step i of L.
Linked(L, i) ==
  /\ Fits(L[i])
  /\ L[i].do = "pick" => i < Len(L) /\ L[i + 1].do = "wait"
  /\ L[i].c = "preloader" /\ L[i].do # "create" =>
       i < Len(L) /\ L[i + 1].c = "preloader" /\ L[i + 1].do \in Follow(L[i].do)
  /\ L[i].do = "create" => i = Len(L) \/ L[i + 1].c # "preloader"
  /\ L[i].c = "preloader" /\ i > 1 /\ L[i - 1].c # "preloader" => L[i].do = "read"
Chain(L) == \A i \in 1 .. Len(L) : Linked(L, i)

\* A key is given for what is there, for what the step before makes, or, those
\* of Postgres and of FerretDB, after the service of Postgres.
PgKeys == {"postgres keys", "mongodb keys"}
Gainers == {"account", "user", "bucket"}
Backed(L, there) ==
  \A i \in 1 .. Len(L) : L[i].do = "note" =>
    IF L[i].c \in PgKeys
    THEN "postgres" \in there \/ \E j \in 1 .. i - 1 : L[j].do = "service"
    ELSE L[i].c \in there \/ (i > 1 /\ L[i - 1].c = L[i].c /\ L[i - 1].do \in Gainers)

\* A step is linked in one sequence when it is in another, with neighbours alike.
LEMMA LinkedAlike ==
  ASSUME NEW L, NEW M, NEW i \in 1 .. Len(M), NEW k \in 1 .. Len(L), Len(L) \in Nat, Len(M) \in Nat,
         Linked(L, k), M[i] = L[k],
         k < Len(L) => i < Len(M) /\ M[i + 1] = L[k + 1],
         k = Len(L) /\ i < Len(M) => L[k].do # "create" \/ M[i + 1].c # "preloader",
         i > 1 => IF k > 1 THEN M[i - 1] = L[k - 1]
                  ELSE L[k].c = "preloader" /\ M[i - 1].c # "preloader" => L[k].do = "read"
  PROVE  Linked(M, i)
<1>1. Fits(M[i]) /\ (M[i].do = "pick" => i < Len(M) /\ M[i + 1].do = "wait")
  BY DEF Linked
<1>2. M[i].c = "preloader" /\ M[i].do # "create" =>
       i < Len(M) /\ M[i + 1].c = "preloader" /\ M[i + 1].do \in Follow(M[i].do)
  BY DEF Linked
<1>3. M[i].do = "create" => i = Len(M) \/ M[i + 1].c # "preloader"
  BY DEF Linked
<1>4. M[i].c = "preloader" /\ i > 1 /\ M[i - 1].c # "preloader" => M[i].do = "read"
  BY DEF Linked
<1> QED
  BY <1>1, <1>2, <1>3, <1>4 DEF Linked

\* Dropping the front of what is left keeps its form.
LEMMA ChainDrop ==
  ASSUME NEW L \in Seq(Step), Chain(L), NEW M, NEW d, Drop(L, M, d)
  PROVE  Chain(M)
<1> SUFFICES ASSUME NEW i \in 1 .. Len(M)
             PROVE  Linked(M, i)
  BY DEF Chain
<1> DEFINE k == i + d
<1>1. /\ k \in 1 .. Len(L) /\ M[i] = L[k] /\ Len(M) \in Nat /\ Len(L) \in Nat
      /\ (k < Len(L) => i < Len(M)) /\ (k = Len(L) => i = Len(M)) /\ (i > 1 => k > 1)
  BY DEF Drop
<1>2. k < Len(L) => M[i + 1] = L[k + 1]
  <2>1. k < Len(L) => i + 1 \in 1 .. Len(M) /\ (i + 1) + d = k + 1
    BY DEF Drop
  <2> QED BY <2>1 DEF Drop
<1>3. i > 1 => M[i - 1] = L[k - 1]
  <2>1. i > 1 => i - 1 \in 1 .. Len(M) /\ (i - 1) + d = k - 1
    BY DEF Drop
  <2> QED BY <2>1 DEF Drop
<1>4. Linked(L, k)
  BY <1>1 DEF Chain
<1> HIDE DEF k
<1> QED
  BY <1>1, <1>2, <1>3, <1>4, LinkedAlike

\* Two parts give a whole of this form, when the second does not begin in the
\* middle of the preloader.
LEMMA ChainCat ==
  ASSUME NEW s \in Seq(Step), NEW u \in Seq(Step), Chain(s), Chain(u),
         Len(s) > 0 /\ Len(u) > 0 /\ u[1].c = "preloader" =>
           u[1].do = "read" /\ s[Len(s)].do # "create"
  PROVE  s \o u \in Seq(Step) /\ Chain(s \o u)
<1> DEFINE L == s \o u
<1>1. /\ L \in Seq(Step) /\ Len(L) = Len(s) + Len(u)
      /\ Len(s) \in Nat /\ Len(u) \in Nat /\ Len(L) \in Nat
  OBVIOUS
<1>e. /\ \A i \in 1 .. Len(s) : L[i] = s[i]
      /\ \A i \in 1 .. Len(u) : L[Len(s) + i] = u[i]
  OBVIOUS
<1> HIDE DEF L
<1>2. ASSUME NEW i \in 1 .. Len(s)
      PROVE  Linked(L, i)
  <2>1. i \in 1 .. Len(L) /\ L[i] = s[i] /\ Linked(s, i)
    BY <1>1, <1>e DEF Chain
  <2>2. i < Len(s) => i < Len(L) /\ L[i + 1] = s[i + 1]
    <3>1. i < Len(s) => i < Len(L) /\ i + 1 \in 1 .. Len(s)
      BY <1>1
    <3> QED BY <1>e, <3>1
  <2>3. i > 1 => L[i - 1] = s[i - 1]
    <3>1. i > 1 => i - 1 \in 1 .. Len(s)
      BY <1>1
    <3> QED BY <1>e, <3>1
  <2>4. i = Len(s) /\ i < Len(L) => s[i].do # "create" \/ L[i + 1].c # "preloader"
    <3>1. i = Len(s) /\ i < Len(L) =>
            Len(s) > 0 /\ Len(u) > 0 /\ 1 \in 1 .. Len(u) /\ i + 1 = Len(s) + 1
      BY <1>1
    <3>2. i = Len(s) /\ i < Len(L) => L[i + 1] = u[1]
      BY <1>e, <3>1
    <3> QED BY <3>1, <3>2
  <2> QED
    BY <1>1, <2>1, <2>2, <2>3, <2>4, LinkedAlike
<1>3. ASSUME NEW k \in 1 .. Len(u)
      PROVE  Linked(L, Len(s) + k)
  <2> DEFINE i == Len(s) + k
  <2>1. i \in 1 .. Len(L) /\ L[i] = u[k] /\ Linked(u, k)
    BY <1>1, <1>e DEF Chain
  <2>2. /\ k < Len(u) => i < Len(L)
        /\ k = Len(u) => i = Len(L)
        /\ i > 1 /\ k = 1 => Len(s) > 0
    BY <1>1
  <2>3. k < Len(u) => L[i + 1] = u[k + 1]
    <3>1. k < Len(u) => k + 1 \in 1 .. Len(u) /\ i + 1 = Len(s) + (k + 1)
      BY <1>1
    <3> QED BY <1>e, <3>1
  <2>4. k > 1 => L[i - 1] = u[k - 1]
    <3>1. k > 1 => k - 1 \in 1 .. Len(u) /\ i - 1 = Len(s) + (k - 1)
      BY <1>1
    <3> QED BY <1>e, <3>1
  <2>5. i > 1 /\ k = 1 /\ u[k].c = "preloader" => u[k].do = "read"
    BY <1>1, <2>2
  <2>6. ~(k < Len(u) /\ k = Len(u)) /\ (k = Len(u) => ~(i < Len(L)))
    BY <1>1, <2>2
  <2>7. i > 1 => IF k > 1 THEN L[i - 1] = u[k - 1]
                 ELSE u[k].c = "preloader" /\ L[i - 1].c # "preloader" => u[k].do = "read"
    <3>1. k > 1 \/ k = 1
      OBVIOUS
    <3> QED BY <2>4, <2>5, <3>1
  <2>8. Linked(L, i)
    <3> HIDE DEF i
    <3> QED BY <1>1, <2>1, <2>2, <2>3, <2>6, <2>7, LinkedAlike
  <2> QED
    BY <2>8
<1>4. \A i \in 1 .. Len(L) : i \in 1 .. Len(s) \/ (i - Len(s) \in 1 .. Len(u) /\ i = Len(s) + (i - Len(s)))
  BY <1>1
<1>5. Chain(L)
  BY <1>2, <1>3, <1>4 DEF Chain
<1> QED
  BY <1>1, <1>5 DEF L

\* The steps of a concatenation are those of its parts.
LEMMA CatIs ==
  ASSUME NEW s \in Seq(Step), NEW u \in Seq(Step)
  PROVE  /\ s \o u \in Seq(Step) /\ Len(s \o u) = Len(s) + Len(u)
         /\ Len(s) \in Nat /\ Len(u) \in Nat
         /\ \A i \in 1 .. Len(s) : i \in 1 .. Len(s \o u) /\ (s \o u)[i] = s[i]
         /\ \A i \in 1 .. Len(u) :
              Len(s) + i \in 1 .. Len(s \o u) /\ (s \o u)[Len(s) + i] = u[i]
         /\ \A i \in 1 .. Len(s \o u) :
              i \in 1 .. Len(s) \/ \E j \in 1 .. Len(u) : i = Len(s) + j
<1>1. /\ s \o u \in Seq(Step) /\ Len(s \o u) = Len(s) + Len(u)
      /\ Len(s) \in Nat /\ Len(u) \in Nat
  OBVIOUS
<1>2. /\ \A i \in 1 .. Len(s) : i \in 1 .. Len(s \o u) /\ (s \o u)[i] = s[i]
      /\ \A i \in 1 .. Len(u) :
           Len(s) + i \in 1 .. Len(s \o u) /\ (s \o u)[Len(s) + i] = u[i]
  OBVIOUS
<1>3. ASSUME NEW i \in 1 .. Len(s) + Len(u), i \notin 1 .. Len(s)
      PROVE  \E j \in 1 .. Len(u) : i = Len(s) + j
  <2>1. i - Len(s) \in 1 .. Len(u) /\ i = Len(s) + (i - Len(s))
    BY <1>1, <1>3
  <2> QED
    BY <2>1
<1> QED
  BY <1>1, <1>2, <1>3

\* The components that give keys.
LEMMA KeysOf ==
  /\ DOMAIN Keys = {"redis user", "minio user", "data bucket", "web bucket", "postgres keys",
                    "mongodb keys"}
  /\ \A L \in Seq(Step) : Chain(L) =>
       \A i \in 1 .. Len(L) : L[i].do = "note" => L[i].c \in DOMAIN Keys
BY DEF Keys, Chain, Linked, Fits, Suits

\* A concatenation is backed when its parts are; a service in the first is one
\* for the second.
LEMMA BackedCat ==
  ASSUME NEW s \in Seq(Step), NEW u \in Seq(Step), NEW T, NEW U,
         Backed(s, T), Backed(u, U), Chain(u),
         \A x \in U : x \in T \/ (x = "postgres" /\ \E j \in 1 .. Len(s) : s[j].do = "service")
  PROVE  Backed(s \o u, T)
<1> DEFINE L == s \o u
<1>l. Len(s) \in Nat /\ Len(u) \in Nat
  BY CatIs
<1>1. /\ \A i \in 1 .. Len(s) : i \in 1 .. Len(L) /\ L[i] = s[i]
      /\ \A i \in 1 .. Len(u) : Len(s) + i \in 1 .. Len(L) /\ L[Len(s) + i] = u[i]
      /\ \A i \in 1 .. Len(L) : i \in 1 .. Len(s) \/ \E j \in 1 .. Len(u) : i = Len(s) + j
  BY CatIs
<1> HIDE DEF L
<1>2. ASSUME NEW i \in 1 .. Len(s), L[i].do = "note"
      PROVE  IF L[i].c \in PgKeys
             THEN "postgres" \in T \/ \E j \in 1 .. i - 1 : L[j].do = "service"
             ELSE L[i].c \in T \/ (i > 1 /\ L[i - 1].c = L[i].c /\ L[i - 1].do \in Gainers)
  <2>1. /\ L[i] = s[i]
        /\ \A j \in 1 .. i - 1 : L[j] = s[j]
        /\ i > 1 => L[i - 1] = s[i - 1]
    <3>1. (\A j \in 1 .. i - 1 : j \in 1 .. Len(s)) /\ (i > 1 => i - 1 \in 1 .. Len(s))
      BY <1>l
    <3> QED BY <1>1, <3>1
  <2>2. IF s[i].c \in PgKeys
        THEN "postgres" \in T \/ \E j \in 1 .. i - 1 : s[j].do = "service"
        ELSE s[i].c \in T \/ (i > 1 /\ s[i - 1].c = s[i].c /\ s[i - 1].do \in Gainers)
    BY <1>2, <2>1 DEF Backed
  <2> QED
    BY <2>1, <2>2
<1>3. ASSUME NEW k \in 1 .. Len(u), NEW i \in Nat, i = Len(s) + k, L[i].do = "note"
      PROVE  IF L[i].c \in PgKeys
             THEN "postgres" \in T \/ \E j \in 1 .. i - 1 : L[j].do = "service"
             ELSE L[i].c \in T \/ (i > 1 /\ L[i - 1].c = L[i].c /\ L[i - 1].do \in Gainers)
  <2>1. L[i] = u[k]
    BY <1>1, <1>3
  <2>2. \A j \in 1 .. k - 1 : Len(s) + j \in 1 .. i - 1 /\ L[Len(s) + j] = u[j]
    BY <1>1, <1>l, <1>3
  <2>3. k > 1 => i > 1 /\ L[i - 1] = u[k - 1]
    <3>1. k > 1 => k - 1 \in 1 .. Len(u) /\ i - 1 = Len(s) + (k - 1) /\ i > 1
      BY <1>l, <1>3
    <3> QED BY <1>1, <3>1
  <2>4. \A j \in 1 .. Len(s) : j \in 1 .. i - 1 /\ L[j] = s[j]
    BY <1>1, <1>l, <1>3
  <2>5. IF u[k].c \in PgKeys
        THEN "postgres" \in U \/ \E j \in 1 .. k - 1 : u[j].do = "service"
        ELSE u[k].c \in U \/ (k > 1 /\ u[k - 1].c = u[k].c /\ u[k - 1].do \in Gainers)
    BY <1>3, <2>1 DEF Backed
  <2>6. CASE u[k].c \in PgKeys
    <3>1. CASE "postgres" \in U
      BY <2>1, <2>4, <2>6, <3>1
    <3>2. CASE \E j \in 1 .. k - 1 : u[j].do = "service"
      BY <2>1, <2>2, <2>6, <3>2
    <3> QED BY <2>5, <2>6, <3>1, <3>2
  <2>7. CASE u[k].c \notin PgKeys
    <3>1. CASE u[k].c \in U
      <4>1. u[k].c # "postgres"
        BY <1>3, <2>1, KeysOf
      <4> QED BY <2>1, <2>7, <3>1, <4>1
    <3>2. CASE k > 1 /\ u[k - 1].c = u[k].c /\ u[k - 1].do \in Gainers
      BY <2>1, <2>3, <2>7, <3>2
    <3> QED BY <2>5, <2>7, <3>1, <3>2
  <2> QED
    BY <2>6, <2>7
<1>4. \A i \in 1 .. Len(L) : i \in Nat
  BY DEF L
<1>5. Backed(L, T)
  BY <1>1, <1>2, <1>3, <1>4 DEF Backed
<1> QED
  BY <1>5 DEF L
--------------------------------------------------------------------------------
\* The programs of the handlers, block by block.

\* A sequence of steps of a handler of the Whisk object; T is there before it.
Whole(s, T) ==
  /\ s \in Seq(Step) /\ Chain(s) /\ Backed(s, T)
  /\ \A i \in 1 .. Len(s) : s[i].do \notin {"created", "failed", "rollout", "remove"}
\* The same without a step of the preloader.
Block(s, T) == Whole(s, T) /\ \A i \in 1 .. Len(s) : s[i].c # "preloader"

\* The steps of Of.
LEMMA OfIs ==
  ASSUME NEW c \in Groups, NEW w \in Workloads \cup {"none"}, NEW dos \in Seq(Dos)
  PROVE  /\ Of(c, w, dos) \in Seq(Step) /\ Len(Of(c, w, dos)) = Len(dos)
         /\ \A i \in 1 .. Len(dos) : Of(c, w, dos)[i] = [c |-> c, w |-> w, do |-> dos[i]]
<1>1. Of(c, w, dos) = [i \in 1 .. Len(dos) |-> [c |-> c, w |-> w, do |-> dos[i]]]
  BY DEF Of
<1>2. \A i \in 1 .. Len(dos) : [c |-> c, w |-> w, do |-> dos[i]] \in Step
  BY DEF Step
<1> QED
  BY <1>1, <1>2

\* What it takes for the steps of one component to be a block.
LEMMA OfBlock ==
  ASSUME NEW c \in Groups \ {"preloader"}, NEW w \in Workloads \cup {"none"},
         NEW dos \in Seq(Dos), NEW T,
         \A i \in 1 .. Len(dos) :
           /\ Suits(c, w, dos[i])
           /\ dos[i] = "pick" => i < Len(dos) /\ dos[i + 1] = "wait"
           /\ dos[i] \notin {"created", "failed", "rollout", "create"}
           /\ dos[i] = "note" =>
                IF c \in PgKeys THEN "postgres" \in T
                ELSE i > 1 /\ dos[i - 1] \in Gainers
  PROVE  Block(Of(c, w, dos), T)
<1> DEFINE s == Of(c, w, dos)
<1>1. /\ s \in Seq(Step) /\ Len(s) = Len(dos)
      /\ \A i \in 1 .. Len(dos) : s[i] = [c |-> c, w |-> w, do |-> dos[i]]
  BY OfIs
<1>2. Len(dos) \in Nat
  OBVIOUS
<1>e. ASSUME NEW i \in 1 .. Len(dos)
      PROVE  s[i].c = c /\ s[i].do = dos[i] /\ Fits(s[i])
  <2> DEFINE x == [c |-> c, w |-> w, do |-> dos[i]]
  <2>1. s[i] = x
    BY <1>1
  <2>2. x.c = c /\ x.do = dos[i] /\ Fits(x)
    BY DEF Fits
  <2> HIDE DEF s, x
  <2> QED BY <2>1, <2>2
<1>l. s \in Seq(Step) /\ Len(s) = Len(dos)
  BY <1>1
<1> HIDE DEF s
<1>3. ASSUME NEW i \in 1 .. Len(s)
      PROVE  Linked(s, i)
  <2>1. s[i].c = c /\ s[i].do = dos[i] /\ Fits(s[i])
    BY <1>l, <1>e
  <2>2. i < Len(s) => s[i + 1].c = c /\ s[i + 1].do = dos[i + 1]
    <3>1. i < Len(s) => i + 1 \in 1 .. Len(dos)
      BY <1>l, <1>2
    <3> QED BY <1>e, <3>1
  <2> QED
    BY <1>l, <1>2, <2>1, <2>2 DEF Linked
<1>4. ASSUME NEW i \in 1 .. Len(s), s[i].do = "note"
      PROVE  IF s[i].c \in PgKeys
             THEN "postgres" \in T \/ \E j \in 1 .. i - 1 : s[j].do = "service"
             ELSE s[i].c \in T \/ (i > 1 /\ s[i - 1].c = s[i].c /\ s[i - 1].do \in Gainers)
  <2>1. s[i].c = c /\ dos[i] = "note"
    BY <1>l, <1>e, <1>4
  <2>2. i > 1 => s[i - 1].c = c /\ s[i - 1].do = dos[i - 1]
    <3>1. i > 1 => i - 1 \in 1 .. Len(dos)
      BY <1>l, <1>2
    <3> QED BY <1>e, <3>1
  <2> QED
    BY <1>l, <2>1, <2>2
<1>5. \A i \in 1 .. Len(s) :
        /\ s[i].c # "preloader"
        /\ s[i].do \notin {"created", "failed", "rollout", "remove"}
  <2>1. \A i \in 1 .. Len(s) : s[i].c = c /\ s[i].do = dos[i] /\ Fits(s[i])
    BY <1>l, <1>e
  <2> QED
    BY <1>l, <2>1 DEF Fits, Suits
<1>6. Block(s, T)
  BY <1>l, <1>3, <1>4, <1>5 DEF Block, Whole, Chain, Backed
<1> QED
  BY <1>6 DEF s

\* A part with a block after it.
LEMMA WholeCat ==
  ASSUME NEW s, NEW u, NEW T, NEW U, Whole(s, T), Block(u, U),
         \A x \in U : x \in T \/ (x = "postgres" /\ \E j \in 1 .. Len(s) : s[j].do = "service")
  PROVE  Whole(s \o u, T) /\ (Block(s, T) => Block(s \o u, T))
<1>1. s \in Seq(Step) /\ u \in Seq(Step)
  BY DEF Whole, Block
<1>2. Len(u) > 0 => u[1].c # "preloader"
  BY <1>1 DEF Block
<1>3. s \o u \in Seq(Step) /\ Chain(s \o u)
  BY <1>1, <1>2, ChainCat DEF Whole, Block
<1>4. Backed(s \o u, T)
  BY <1>1, BackedCat DEF Whole, Block
<1>5. ASSUME NEW i \in 1 .. Len(s \o u)
      PROVE  /\ (s \o u)[i].do \notin {"created", "failed", "rollout", "remove"}
             /\ Block(s, T) => (s \o u)[i].c # "preloader"
  <2>1. i \in 1 .. Len(s) \/ \E j \in 1 .. Len(u) : i = Len(s) + j
    BY <1>1, CatIs
  <2>2. CASE i \in 1 .. Len(s)
    BY <1>1, <2>2, CatIs DEF Whole, Block
  <2>3. CASE \E j \in 1 .. Len(u) : i = Len(s) + j
    BY <1>1, <2>3, CatIs DEF Whole, Block
  <2> QED
    BY <2>1, <2>2, <2>3
<1> QED
  BY <1>3, <1>4, <1>5 DEF Whole, Block

LEMMA BlockCat ==
  ASSUME NEW s, NEW u, NEW T, Block(s, T), Block(u, {}) \/ Block(u, T)
  PROVE  Block(s \o u, T)
<1>1. Whole(s, T)
  BY DEF Block
<1>2. Block(u, {}) => Block(u, T)
  BY DEF Block, Whole, Backed
<1> QED
  BY <1>1, <1>2, WholeCat

\* Nothing is a block, and so is a block that is there on a condition.
LEMMA IfBlock ==
  ASSUME NEW s, NEW T, NEW cond, Block(s, T)
  PROVE  Block(If(cond, s), T)
<1>1. Block(<< >>, T)
  BY DEF Block, Whole, Chain, Backed
<1> QED
  BY <1>1 DEF If

\* One, two and three or four steps of a component.
LEMMA OneStep ==
  ASSUME NEW c \in Groups \ {"preloader"}, NEW w \in Workloads \cup {"none"},
         NEW x \in {"owner", "apihost", "grant", "save", "deploy", "note"},
         NEW T, Suits(c, w, x), x = "note" => c \in PgKeys /\ "postgres" \in T
  PROVE  Block(Of(c, w, << x >>), T)
<1> DEFINE dos == << x >>
<1>1. dos \in Seq(Dos) /\ Len(dos) = 1 /\ dos[1] = x
  BY DEF Dos
<1> HIDE DEF dos
<1>2. ASSUME NEW i \in 1 .. Len(dos)
      PROVE  /\ Suits(c, w, dos[i])
             /\ dos[i] = "pick" => i < Len(dos) /\ dos[i + 1] = "wait"
             /\ dos[i] \notin {"created", "failed", "rollout", "create"}
             /\ dos[i] = "note" =>
                  IF c \in PgKeys THEN "postgres" \in T ELSE i > 1 /\ dos[i - 1] \in Gainers
  <2>1. i = 1
    BY <1>1
  <2> QED
    BY <1>1, <2>1
<1>3. Block(Of(c, w, dos), T)
  BY <1>1, <1>2, OfBlock
<1> QED
  BY <1>3 DEF dos

LEMMA TwoSteps ==
  ASSUME NEW c \in Groups \ {"preloader"}, NEW w \in Workloads \cup {"none"},
         NEW x \in {"clean", "forget", "account", "user", "bucket", "pick"},
         NEW y \in {"configure", "delete", "note", "wait"},
         Suits(c, w, x), Suits(c, w, y), x = "pick" => y = "wait",
         y = "note" => c \notin PgKeys /\ x \in Gainers
  PROVE  Block(Of(c, w, << x, y >>), {})
<1> DEFINE dos == << x, y >>
<1>1. dos \in Seq(Dos) /\ Len(dos) = 2 /\ dos[1] = x /\ dos[2] = y
  BY DEF Dos
<1> HIDE DEF dos
<1>2. ASSUME NEW i \in 1 .. Len(dos)
      PROVE  /\ Suits(c, w, dos[i])
             /\ dos[i] = "pick" => i < Len(dos) /\ dos[i + 1] = "wait"
             /\ dos[i] \notin {"created", "failed", "rollout", "create"}
             /\ dos[i] = "note" =>
                  IF c \in PgKeys THEN "postgres" \in {} ELSE i > 1 /\ dos[i - 1] \in Gainers
  <2>1. i = 1 \/ i = 2
    BY <1>1
  <2>2. CASE i = 1
    BY <1>1, <2>2
  <2>3. CASE i = 2
    BY <1>1, <2>3
  <2> QED
    BY <2>1, <2>2, <2>3
<1>3. Block(Of(c, w, dos), {})
  BY Zenon, <1>1, <1>2, OfBlock
<1> QED
  BY <1>3 DEF dos

LEMMA ThreeSteps ==
  ASSUME NEW c \in Groups \ {"preloader", "result", "restart"}, NEW w \in Workloads
  PROVE  Block(Of(c, w, Deployed), {})
<1> DEFINE dos == Deployed
<1>1. /\ dos \in Seq(Dos) /\ Len(dos) = 3
      /\ dos[1] = "apply" /\ dos[2] = "pick" /\ dos[3] = "wait"
  BY DEF Dos, Deployed
<1> HIDE DEF dos
<1>2. \A y \in {"apply", "pick", "wait"} : Suits(c, w, y)
  BY DEF Suits
<1>3. ASSUME NEW i \in 1 .. Len(dos)
      PROVE  /\ Suits(c, w, dos[i])
             /\ dos[i] = "pick" => i < Len(dos) /\ dos[i + 1] = "wait"
             /\ dos[i] \notin {"created", "failed", "rollout", "create"}
             /\ dos[i] # "note"
  <2>1. i = 1 \/ i = 2 \/ i = 3
    BY <1>1
  <2> QED
    BY <1>1, <1>2, <2>1
<1>4. Block(Of(c, w, dos), {})
  BY <1>1, <1>3, OfBlock
<1> QED
  BY <1>4 DEF dos

LEMMA FourSteps ==
  ASSUME NEW c \in Groups \ {"preloader", "result", "restart"}, NEW w \in Workloads,
         NEW x \in {"service", "endpoint"}, Suits(c, w, x)
  PROVE  /\ Block(Of(c, w, Deployed \o << x >>), {})
         /\ Len(Of(c, w, Deployed \o << x >>)) = 4
         /\ Of(c, w, Deployed \o << x >>)[4].do = x
<1> DEFINE dos == Deployed \o << x >>
<1>1. /\ dos \in Seq(Dos) /\ Len(dos) = 4
      /\ dos[1] = "apply" /\ dos[2] = "pick" /\ dos[3] = "wait" /\ dos[4] = x
  BY DEF Dos, Deployed
<1> HIDE DEF dos
<1>2. \A y \in {"apply", "pick", "wait"} : Suits(c, w, y)
  BY DEF Suits
<1>3. ASSUME NEW i \in 1 .. Len(dos)
      PROVE  /\ Suits(c, w, dos[i])
             /\ dos[i] = "pick" => i < Len(dos) /\ dos[i + 1] = "wait"
             /\ dos[i] \notin {"created", "failed", "rollout", "create"}
             /\ dos[i] # "note"
  <2>1. i = 1 \/ i = 2 \/ i = 3 \/ i = 4
    BY <1>1
  <2> QED
    BY <1>1, <1>2, <2>1
<1>4. Block(Of(c, w, dos), {})
  BY <1>1, <1>3, OfBlock
<1>5. Len(Of(c, w, dos)) = 4 /\ Of(c, w, dos)[4] = [c |-> c, w |-> w, do |-> dos[4]]
  BY <1>1, OfIs
<1>6. Of(c, w, dos)[4].do = x
  BY <1>1, <1>5
<1> QED
  BY <1>4, <1>5, <1>6 DEF dos

\* The blocks the handlers are made of.
LEMMA Blocks ==
  /\ Block(Begun, {}) /\ Block(Of("config", "none", << "owner" >>), {})
  /\ Block(Of("config", "none", << "apihost" >>), {}) /\ Block(CouchDB, {})
  /\ Block(RedisUser, {}) /\ Block(Redis, {}) /\ Block(Minio, {}) /\ Block(Postgres, {})
  /\ Block(Ferret, {"postgres"}) /\ Block(Openwhisk, {}) /\ Block(PostCreate, {})
  /\ Block(Of("system", "controller", << "deploy" >>), {}) /\ Block(WhiskDelete, {})
  /\ \E j \in 1 .. Len(Postgres) : Postgres[j].do = "service"
<1> USE DEF Groups, Workloads
<1>1. \A c \in Groups \ {"result", "restart"} :
        \A x \in {"owner", "apihost", "grant", "save", "deploy", "clean", "configure",
                  "forget", "delete", "endpoint"} :
          \A w \in Workloads \cup {"none"} : Suits(c, w, x)
  <2>1. ASSUME NEW c \in Groups \ {"result", "restart"}, NEW w,
               NEW x \in {"owner", "apihost", "grant", "save", "deploy", "clean", "configure",
                         "forget", "delete", "endpoint"}
        PROVE  Suits(c, w, x)
    <3>1. c # "result" /\ c # "restart"
      OBVIOUS
    <3> QED
      BY <3>1 DEF Suits
  <2> QED
    BY <2>1
<1>2. Block(Begun, {})
  BY <1>1, TwoSteps DEF Begun
<1>3. Block(Of("config", "none", << "owner" >>), {}) /\ Block(Of("config", "none", << "apihost" >>), {})
  BY <1>1, OneStep
<1>4. Block(CouchDB, {})
  BY ThreeSteps DEF CouchDB
<1>5. Block(RedisUser, {})
  <2>1. /\ Suits("redis user", "redis", "account") /\ Suits("redis user", "redis", "note")
        /\ "redis user" \notin PgKeys /\ "account" \in Gainers
    BY KeysOf DEF Suits, PgKeys, Gainers
  <2> QED
    BY <2>1, TwoSteps DEF RedisUser
<1>6. Block(Redis, {})
  <2>1. Block(Of("redis", "redis", Deployed), {})
    BY ThreeSteps
  <2> QED
    BY <1>5, <2>1, BlockCat DEF Redis
<1>7. Block(Storage, {})
  <2>1. /\ Suits("minio user", "minio", "user") /\ Suits("minio user", "minio", "note")
        /\ \A c \in {"data bucket", "web bucket"} :
             Suits(c, "minio", "bucket") /\ Suits(c, "minio", "note") /\ c \notin PgKeys
        /\ "minio user" \notin PgKeys /\ "user" \in Gainers /\ "bucket" \in Gainers
    BY KeysOf DEF Suits, PgKeys, Gainers
  <2>2. Block(Of("minio user", "minio", << "user", "note" >>), {})
    BY <2>1, TwoSteps
  <2>3. Block(Of("data bucket", "minio", << "bucket", "note" >>), {})
    BY <2>1, TwoSteps
  <2>4. Block(Of("web bucket", "minio", << "bucket", "note" >>), {})
    BY <2>1, TwoSteps
  <2>5. Block(Of("policy", "minio", << "grant" >>), {})
    BY <1>1, OneStep
  <2>6. Block(Of("minio user", "minio", << "user", "note" >>)
                \o Of("data bucket", "minio", << "bucket", "note" >>), {})
    BY <2>2, <2>3, BlockCat
  <2>7. Block(Of("minio user", "minio", << "user", "note" >>)
                \o Of("data bucket", "minio", << "bucket", "note" >>)
                \o Of("web bucket", "minio", << "bucket", "note" >>), {})
    BY <2>4, <2>6, BlockCat
  <2> QED
    BY <2>5, <2>7, BlockCat DEF Storage
<1>8. Block(Minio, {})
  <2>1. Block(Of("minio", "minio", Deployed), {})
    BY ThreeSteps
  <2> QED
    BY <1>7, <2>1, BlockCat DEF Minio
<1>9. Block(Postgres, {}) /\ \E j \in 1 .. Len(Postgres) : Postgres[j].do = "service"
  <2> DEFINE a == Of("kubegres", "kubegres", Deployed)
             b == Of("postgres", "postgres", Deployed \o << "service" >>)
             e == Of("postgres keys", "postgres", << "note" >>)
  <2>1. Block(a, {})
    BY ThreeSteps
  <2>2. Block(b, {}) /\ Len(b) = 4 /\ b[4].do = "service"
    <3>1. Suits("postgres", "postgres", "service")
      BY DEF Suits
    <3> QED BY <3>1, FourSteps
  <2>3. Block(e, {"postgres"})
    <3>1. Suits("postgres keys", "postgres", "note") /\ "postgres keys" \in PgKeys
      BY KeysOf DEF Suits, PgKeys
    <3> QED BY <3>1, OneStep
  <2>4. Postgres = (a \o b) \o e
    BY DEF Postgres
  <2> HIDE DEF a, b, e
  <2>5. a \in Seq(Step) /\ b \in Seq(Step) /\ e \in Seq(Step) /\ a \o b \in Seq(Step)
    BY <2>1, <2>2, <2>3 DEF Block, Whole
  <2>6. Block(a \o b, {})
    BY <2>1, <2>2, BlockCat
  <2>7. Len(a) + 4 \in 1 .. Len(a \o b) /\ (a \o b)[Len(a) + 4].do = "service"
    <3>1. 4 \in 1 .. Len(b)
      BY <2>2
    <3> QED BY Zenon, <2>2, <2>5, <3>1, CatIs
  <2>8. Len(a) + 4 \in 1 .. Len(Postgres) /\ Postgres[Len(a) + 4].do = "service"
    BY <2>4, <2>5, <2>7, CatIs
  <2>9. Block(Postgres, {})
    BY <2>3, <2>4, <2>6, <2>7, WholeCat DEF Block
  <2> QED
    BY <2>8, <2>9
<1>10. Block(Ferret, {"postgres"})
  <2>1. Block(Of("mongodb", "mongodb", Deployed), {})
    BY ThreeSteps
  <2>2. Block(Of("mongodb", "mongodb", Deployed), {"postgres"})
    BY <2>1 DEF Block, Whole, Backed
  <2>3. Block(Of("mongodb keys", "mongodb", << "note" >>), {"postgres"})
    <3>1. Suits("mongodb keys", "mongodb", "note") /\ "mongodb keys" \in PgKeys
      BY KeysOf DEF Suits, PgKeys
    <3> QED BY <3>1, OneStep
  <2> QED
    BY <2>2, <2>3, BlockCat DEF Ferret
<1>11. Block(Openwhisk, {})
  <2>1. Block(Of("openwhisk", "couchdb", << "pick", "wait" >>), {})
    <3>1. Suits("openwhisk", "couchdb", "pick") /\ Suits("openwhisk", "couchdb", "wait")
      BY DEF Suits
    <3> QED BY <3>1, TwoSteps
  <2>2. Block(Controller, {})
    BY <1>1, FourSteps DEF Controller
  <2> QED
    BY <2>1, <2>2, BlockCat DEF Openwhisk
<1>12. Block(Of("system", "controller", << "deploy" >>), {}) /\ Block(PostCreate, {})
  <2>1. Block(Of("system", "controller", << "deploy" >>), {})
    BY <1>1, OneStep
  <2>2. Block(Of("metadata", "none", << "save" >>), {})
    BY <1>1, OneStep
  <2> QED
    BY <2>1, <2>2, BlockCat DEF PostCreate
<1>13. Block(WhiskDelete, {})
  BY <1>1, TwoSteps DEF WhiskDelete
<1> QED
  BY <1>2, <1>3, <1>4, <1>5, <1>6, <1>8, <1>9, <1>10, <1>11, <1>12, <1>13

\* The steps of the preloader.
LEMMA PreloaderIs ==
  /\ Preloader \in Seq(Step) /\ Len(Preloader) = 6
  /\ \A i \in 1 .. 6 : Preloader[i].c = "preloader" /\ Preloader[i].w = "none"
  /\ Preloader[1].do = "read" /\ Preloader[2].do = "patch" /\ Preloader[3].do = "open"
  /\ Preloader[4].do = "close" /\ Preloader[5].do = "build" /\ Preloader[6].do = "create"
<1> DEFINE dos == << "read", "patch", "open", "close", "build", "create" >>
<1>1. /\ dos \in Seq(Dos) /\ Len(dos) = 6 /\ dos[1] = "read" /\ dos[2] = "patch"
      /\ dos[3] = "open" /\ dos[4] = "close" /\ dos[5] = "build" /\ dos[6] = "create"
  BY DEF Dos
<1>2. Preloader = Of("preloader", "none", dos)
  BY DEF Preloader
<1> HIDE DEF dos
<1>3. "preloader" \in Groups /\ "none" \in Workloads \cup {"none"}
  BY DEF Groups
<1>4. /\ Preloader \in Seq(Step) /\ Len(Preloader) = Len(dos)
      /\ \A i \in 1 .. Len(dos) :
           Preloader[i] = [c |-> "preloader", w |-> "none", do |-> dos[i]]
  BY <1>1, <1>2, <1>3, OfIs
<1>5. \A i \in 1 .. 6 :
        Preloader[i].c = "preloader" /\ Preloader[i].w = "none" /\ Preloader[i].do = dos[i]
  BY <1>1, <1>4
<1> QED
  BY <1>1, <1>4, <1>5

LEMMA PreloaderWhole == Whole(Preloader, {})
<1>1. ASSUME NEW i \in 1 .. Len(Preloader)
      PROVE  Linked(Preloader, i) /\ Preloader[i].do \notin {"note", "created", "failed", "rollout", "remove"}
  <2>1. i = 1 \/ i = 2 \/ i = 3 \/ i = 4 \/ i = 5 \/ i = 6
    BY PreloaderIs
  <2>2. Fits(Preloader[i])
    BY <2>1, PreloaderIs DEF Fits, Suits
  <2>3. i < 6 => Preloader[i + 1].do \in Follow(Preloader[i].do) /\ Preloader[i + 1].c = "preloader"
    BY <2>1, PreloaderIs DEF Follow
  <2>4. i > 1 => Preloader[i - 1].c = "preloader"
    BY <2>1, PreloaderIs
  <2>5. /\ Preloader[i].do \notin {"note", "created", "failed", "rollout", "remove", "pick"}
        /\ (i = 1 => Preloader[i].do = "read") /\ (i < 6 => Preloader[i].do # "create")
        /\ (i = 6 => Preloader[i].do = "create")
    BY <2>1, PreloaderIs
  <2> QED
    BY <2>1, <2>2, <2>3, <2>4, <2>5, PreloaderIs DEF Linked
<1> QED
  BY <1>1, PreloaderIs DEF Whole, Chain, Backed

\* A long part and a block.
LEMMA LongCat ==
  ASSUME NEW s, NEW u, Whole(s, {}), Len(s) > 8, Block(u, {})
  PROVE  Whole(s \o u, {}) /\ Len(s \o u) > 8 /\ (Len(u) > 0 => Len(s \o u) > 9)
<1>1. Whole(s \o u, {})
  BY WholeCat
<1>2. s \in Seq(Step) /\ u \in Seq(Step)
  BY DEF Whole, Block
<1>3. Len(s \o u) = Len(s) + Len(u) /\ Len(s) \in Nat /\ Len(u) \in Nat
  BY <1>2, CatIs
<1> QED
  BY <1>1, <1>3

\* The handlers of the Whisk object.
LEMMA WhiskPrograms ==
  /\ Whole(WhiskCreate, {}) /\ Block(WhiskResume, {}) /\ Block(WhiskDelete, {})
  /\ Len(WhiskCreate) > 9 /\ Len(WhiskResume) < 10 /\ Len(WhiskDelete) < 10
<1> DEFINE a == Begun \o Of("config", "none", << "owner" >>)
           b == a \o Preloader
<1>1. Block(a, {})
  BY Blocks, BlockCat
<1>2. Len(a) = 3 /\ a[3].do = "owner"
  <2>1. Begun \in Seq(Step) /\ Of("config", "none", << "owner" >>) \in Seq(Step)
    BY Blocks DEF Block, Whole
  <2>2. Len(Begun) = 2 /\ Len(Of("config", "none", << "owner" >>)) = 1
        /\ Of("config", "none", << "owner" >>)[1].do = "owner"
    BY DEF Begun, Of
  <2> DEFINE v == Of("config", "none", << "owner" >>)
  <2>3. Len(a) = Len(Begun) + Len(v) /\ \A i \in 1 .. Len(v) : a[Len(Begun) + i] = v[i]
    <3> HIDE DEF v
    <3> QED BY <2>1, CatIs DEF v
  <2> HIDE DEF a, v
  <2>4. Len(v) = 1 /\ v[1].do = "owner"
    BY <2>2 DEF v
  <2>5. Len(a) = 3 /\ 1 \in 1 .. Len(v) /\ Len(Begun) + 1 = 3
    BY <2>2, <2>3, <2>4
  <2>6. a[Len(Begun) + 1] = v[1]
    BY <2>3, <2>5
  <2> QED BY <2>4, <2>5, <2>6
<1> HIDE DEF a
<1>a. a \in Seq(Step) /\ Chain(a) /\ Backed(a, {})
  BY <1>1 DEF Block, Whole
<1>p. Preloader \in Seq(Step) /\ Chain(Preloader) /\ Backed(Preloader, {}) /\ Len(Preloader) = 6
      /\ Preloader[1].do = "read"
  BY PreloaderWhole, PreloaderIs DEF Whole
<1>3. Whole(b, {}) /\ Len(b) > 8
  <2>3. b \in Seq(Step) /\ Chain(b)
    BY <1>2, <1>a, <1>p, ChainCat
  <2>4. Backed(b, {})
    BY <1>a, <1>p, BackedCat
  <2>5. ASSUME NEW i \in 1 .. Len(b)
        PROVE  b[i].do \notin {"created", "failed", "rollout", "remove"}
    <3>1. i \in 1 .. Len(a) \/ \E j \in 1 .. Len(Preloader) : i = Len(a) + j
      BY <1>a, <1>p, CatIs
    <3>2. CASE i \in 1 .. Len(a)
      <4>1. b[i] = a[i]
        BY <1>a, <1>p, <3>2, CatIs
      <4> HIDE DEF b
      <4> QED BY <1>1, <3>2, <4>1 DEF Block, Whole
    <3>3. CASE \E j \in 1 .. Len(Preloader) : i = Len(a) + j
      <4>1. PICK j \in 1 .. Len(Preloader) : i = Len(a) + j
        BY <3>3
      <4>2. b[i] = Preloader[j]
        BY <1>a, <1>p, <4>1, CatIs
      <4> HIDE DEF b
      <4> QED BY <4>2, PreloaderWhole DEF Whole
    <3> QED BY <3>1, <3>2, <3>3
  <2>6. Len(b) = Len(a) + Len(Preloader)
    BY <1>a, <1>p, CatIs
  <2> HIDE DEF b
  <2>7. Len(b) > 8
    BY <1>2, <1>p, <2>6
  <2> QED
    BY <2>3, <2>4, <2>5, <2>7 DEF Whole
<1> HIDE DEF b
<1> DEFINE c == b \o CouchDB
           e == c \o If("redis" \in Comps, Redis)
           f == e \o If("minio" \in Comps, Minio)
           g == f \o If(Comps \cap {"postgres", "mongodb"} # {}, Postgres)
           h == g \o If("mongodb" \in Comps, Ferret)
           k == h \o Openwhisk
<1>4. Whole(c, {}) /\ Len(c) > 8
  BY <1>3, Blocks, LongCat
<1> HIDE DEF c
<1>5. Whole(e, {}) /\ Len(e) > 8
  <2>1. Block(If("redis" \in Comps, Redis), {})
    BY Blocks, IfBlock
  <2> QED
    BY <1>4, <2>1, LongCat
<1> HIDE DEF e
<1>6. Whole(f, {}) /\ Len(f) > 8
  <2>1. Block(If("minio" \in Comps, Minio), {})
    BY Blocks, IfBlock
  <2> QED
    BY <1>5, <2>1, LongCat
<1> HIDE DEF f
<1>7. /\ Whole(g, {}) /\ Len(g) > 8
      /\ "mongodb" \in Comps => \E j \in 1 .. Len(g) : g[j].do = "service"
  <2>1. Block(If(Comps \cap {"postgres", "mongodb"} # {}, Postgres), {})
    BY Blocks, IfBlock
  <2>2. Whole(g, {}) /\ Len(g) > 8
    BY <1>6, <2>1, LongCat
  <2>3. ASSUME "mongodb" \in Comps
        PROVE  \E j \in 1 .. Len(g) : g[j].do = "service"
    <3>1. g = f \o Postgres
      BY <2>3 DEF If
    <3>2. f \in Seq(Step) /\ Postgres \in Seq(Step)
      BY <1>6, Blocks DEF Whole, Block
    <3>3. PICK j \in 1 .. Len(Postgres) : Postgres[j].do = "service"
      BY Blocks
    <3>4. Len(f) + j \in 1 .. Len(f \o Postgres) /\ (f \o Postgres)[Len(f) + j] = Postgres[j]
      BY <3>2, CatIs
    <3> HIDE DEF g
    <3> QED
      BY <3>1, <3>3, <3>4
  <2> QED
    BY <2>2, <2>3
<1> HIDE DEF g
<1>8. Whole(h, {}) /\ Len(h) > 8
  <2>1. CASE "mongodb" \in Comps
    <3>1. h = g \o Ferret
      BY <2>1 DEF If
    <3>2. \A x \in {"postgres"} : x \in {} \/ (x = "postgres" /\ \E j \in 1 .. Len(g) : g[j].do = "service")
      BY <1>7, <2>1
    <3>3. Block(Ferret, {"postgres"})
      BY Blocks
    <3>4. Whole(g \o Ferret, {})
      BY ONLY <1>7, <3>2, <3>3, WholeCat
    <3>5. g \in Seq(Step) /\ Ferret \in Seq(Step)
      BY <1>7, Blocks DEF Whole, Block
    <3>6. Len(g \o Ferret) = Len(g) + Len(Ferret) /\ Len(g) \in Nat /\ Len(Ferret) \in Nat
      BY <3>5, CatIs
    <3>7. Len(g \o Ferret) > 8
      BY <1>7, <3>6
    <3> QED BY <3>1, <3>4, <3>7
  <2>2. CASE "mongodb" \notin Comps
    <3>1. Block(If("mongodb" \in Comps, Ferret), {})
      BY <2>2 DEF If, Block, Whole, Chain, Backed
    <3> QED BY <1>7, <3>1, LongCat
  <2> QED BY <2>1, <2>2
<1> HIDE DEF h
<1>9. Whole(k, {}) /\ Len(k) > 8
  BY <1>8, Blocks, LongCat
<1> HIDE DEF k
<1>10. Whole(k \o PostCreate, {}) /\ Len(k \o PostCreate) > 9
  <2>1. Len(PostCreate) > 0
    BY DEF PostCreate, Of
  <2> QED BY <1>9, <2>1, Blocks, LongCat
<1>11. WhiskCreate = k \o PostCreate
  BY DEF WhiskCreate, a, b, c, e, f, g, h, k
<1>12. Block(WhiskResume, {}) /\ Len(WhiskResume) < 10
  <2> DEFINE m == Begun \o Of("config", "none", << "apihost" >>)
             n == If("redis" \in Comps, RedisUser)
             o == Of("system", "controller", << "deploy" >>)
  <2>1. Block(m, {})
    BY Blocks, BlockCat
  <2>2. Block(n, {}) /\ Block(o, {})
    BY Blocks, IfBlock
  <2>3. Len(m) = 3 /\ Len(n) < 3 /\ Len(o) = 1
    <3>1. Len(m) = 3
      BY DEF Begun, Of
    <3>2. Len(n) < 3
      BY DEF If, RedisUser, Of
    <3>3. Len(o) = 1
      BY DEF Of
    <3> QED BY <3>1, <3>2, <3>3
  <2>4. WhiskResume = (m \o n) \o o
    BY DEF WhiskResume
  <2> HIDE DEF m, n, o
  <2>5. m \in Seq(Step) /\ n \in Seq(Step) /\ o \in Seq(Step)
    BY <2>1, <2>2 DEF Block, Whole
  <2>6. Block(m \o n, {})
    BY <2>1, <2>2, BlockCat
  <2>7. Block((m \o n) \o o, {})
    BY <2>2, <2>6, BlockCat
  <2>8. Len((m \o n) \o o) < 10
    <3>1. Len(m) \in Nat /\ Len(n) \in Nat /\ Len(o) \in Nat
      BY <2>5
    <3>2. m \o n \in Seq(Step) /\ Len(m \o n) = Len(m) + Len(n)
      BY <2>5, CatIs
    <3>3. Len((m \o n) \o o) = Len(m \o n) + Len(o)
      BY <2>5, <3>2, CatIs
    <3> QED BY <2>3, <3>1, <3>2, <3>3
  <2> QED
    BY <2>4, <2>7, <2>8
<1>13. Len(WhiskDelete) < 10
  BY DEF WhiskDelete, Of
<1> QED
  BY <1>10, <1>11, <1>12, <1>13, Blocks

\* What the watcher has to do: build and remove the Job of the object, or forget
\* the one it remembers, then the preloader, then the controller.
Ahead(owner) == IF owner THEN 2 ELSE 1

LEMMA WatcherIs ==
  ASSUME NEW o \in BOOLEAN
  PROVE  /\ Watcher(o) \in Seq(Step) /\ Len(Watcher(o)) = Ahead(o) + 7
         /\ Watcher(o)[1].c = "preloader" /\ Watcher(o)[2].c = "preloader"
         /\ Watcher(o)[1].do = IF o THEN "build" ELSE "forget"
         /\ o => Watcher(o)[2].do = "remove"
         /\ \A i \in 1 .. 6 : Watcher(o)[Ahead(o) + i] = Preloader[i]
         /\ Watcher(o)[Ahead(o) + 7].c = "restart" /\ Watcher(o)[Ahead(o) + 7].do = "rollout"
<1> DEFINE dos == IF o THEN << "build", "remove" >> ELSE << "forget" >>
           a == Of("preloader", "none", dos)
           r == Of("restart", "controller", << "rollout" >>)
           m == a \o Preloader
<1>g. /\ "preloader" \in Groups /\ "restart" \in Groups
      /\ "none" \in Workloads \cup {"none"} /\ "controller" \in Workloads \cup {"none"}
  BY DEF Groups, Workloads
<1>1. /\ dos \in Seq(Dos) /\ Len(dos) = Ahead(o) /\ dos[1] = (IF o THEN "build" ELSE "forget")
      /\ (o => dos[2] = "remove")
  <2>1. CASE o
    BY <2>1 DEF Dos, Ahead
  <2>2. CASE ~o
    BY <2>2 DEF Dos, Ahead
  <2> QED BY <2>1, <2>2
<1>2. /\ a \in Seq(Step) /\ Len(a) = Len(dos)
      /\ \A i \in 1 .. Len(dos) : a[i] = [c |-> "preloader", w |-> "none", do |-> dos[i]]
  <2> HIDE DEF dos
  <2> QED BY <1>1, <1>g, OfIs
<1>3. r \in Seq(Step) /\ Len(r) = 1 /\ r[1].c = "restart" /\ r[1].do = "rollout"
  <2>1. Len(r) = 1 /\ r[1].c = "restart" /\ r[1].do = "rollout"
    BY DEF Of
  <2>2. << "rollout" >> \in Seq(Dos)
    BY DEF Dos
  <2>3. r \in Seq(Step)
    BY <1>g, <2>2, OfIs
  <2> QED BY <2>1, <2>3
<1>4. Watcher(o) = m \o r
  BY DEF Watcher
<1> HIDE DEF dos
<1>5. /\ Len(a) = Ahead(o) /\ Ahead(o) \in {1, 2} /\ (o => Ahead(o) = 2)
      /\ a[1].c = "preloader" /\ (o => a[2].c = "preloader" /\ a[2].do = "remove")
      /\ a[1].do = (IF o THEN "build" ELSE "forget")
  <2>1. Ahead(o) \in {1, 2} /\ (o => Ahead(o) = 2)
    BY DEF Ahead
  <2>2. 1 \in 1 .. Len(dos) /\ (o => 2 \in 1 .. Len(dos))
    BY <1>1, <2>1
  <2>3. a[1] = [c |-> "preloader", w |-> "none", do |-> dos[1]]
    BY <1>2, <2>2
  <2>4. o => a[2] = [c |-> "preloader", w |-> "none", do |-> dos[2]]
    BY <1>2, <2>2
  <2> HIDE DEF a
  <2> QED BY <1>1, <1>2, <2>1, <2>3, <2>4
<1> HIDE DEF a, r
<1>6. /\ m \in Seq(Step) /\ Len(m) = Len(a) + Len(Preloader)
      /\ \A i \in 1 .. Len(a) : m[i] = a[i]
      /\ \A i \in 1 .. Len(Preloader) : m[Len(a) + i] = Preloader[i]
  BY <1>2, PreloaderIs, CatIs
<1> HIDE DEF m
<1> DEFINE W == m \o r
<1>7. /\ W \in Seq(Step) /\ Len(W) = Len(m) + Len(r)
      /\ \A i \in 1 .. Len(m) : W[i] = m[i]
      /\ \A i \in 1 .. Len(r) : W[Len(m) + i] = r[i]
  BY <1>3, <1>6, CatIs
<1> HIDE DEF W
<1>8. Len(m) = Ahead(o) + 6 /\ Len(W) = Ahead(o) + 7
  BY <1>3, <1>5, <1>6, <1>7, PreloaderIs
<1>9. \A i \in 1 .. 6 : W[Ahead(o) + i] = Preloader[i]
  <2> SUFFICES ASSUME NEW i \in 1 .. 6 PROVE W[Ahead(o) + i] = Preloader[i]
    OBVIOUS
  <2>a. Ahead(o) \in {1, 2} /\ Len(m) = Ahead(o) + 6
    BY <1>5, <1>8
  <2>b. Len(Preloader) = 6
    BY PreloaderIs
  <2>1. Ahead(o) + i \in 1 .. Len(m) /\ i \in 1 .. Len(Preloader)
    BY <2>a, <2>b
  <2>2. m[Len(a) + i] = Preloader[i]
    BY <1>6, <2>1
  <2>3. W[Ahead(o) + i] = m[Ahead(o) + i]
    BY <1>7, <2>1
  <2> QED BY <1>5, <2>2, <2>3
<1>10. W[Ahead(o) + 7] = r[1]
  <2>1. 1 \in 1 .. Len(r) /\ Len(m) + 1 = Ahead(o) + 7
    BY <1>3, <1>5, <1>8
  <2> QED BY <1>7, <2>1
<1>11. W[1] = a[1] /\ (o => W[2] = a[2])
  <2>1. 1 \in 1 .. Len(a) /\ 1 \in 1 .. Len(m) /\ (o => 2 \in 1 .. Len(a) /\ 2 \in 1 .. Len(m))
    BY <1>5, <1>8
  <2> QED BY <1>6, <1>7, <2>1
<1>12. ~o => W[2] = Preloader[1]
  <2>1. ~o => Ahead(o) + 1 = 2
    BY DEF Ahead
  <2>2. W[Ahead(o) + 1] = Preloader[1]
    BY <1>9
  <2> QED BY <2>1, <2>2
<1>13. W[1].c = "preloader" /\ W[2].c = "preloader"
  <2>1. Preloader[1].c = "preloader"
    BY PreloaderIs
  <2> QED BY <1>5, <1>11, <1>12, <2>1
<1>14. W[1].do = (IF o THEN "build" ELSE "forget") /\ (o => W[2].do = "remove")
  BY <1>5, <1>11
<1>15. Watcher(o) = W
  BY <1>4 DEF W
<1> QED
  BY <1>3, <1>7, <1>8, <1>9, <1>10, <1>13, <1>14, <1>15

LEMMA WatcherChain ==
  ASSUME NEW o \in BOOLEAN
  PROVE  /\ Chain(Watcher(o))
         /\ \A i \in 1 .. Len(Watcher(o)) :
              /\ Watcher(o)[i].c \in {"preloader", "restart"}
              /\ Watcher(o)[i].do \notin {"note", "created", "failed"}
<1> DEFINE W == Watcher(o)
           a == Ahead(o)
<1>a. a \in {1, 2} /\ (o <=> a = 2)
  BY DEF Ahead
<1>1. /\ Len(W) = a + 7
      /\ a = 2 => /\ W[1].c = "preloader" /\ W[1].do = "build"
                  /\ W[2].c = "preloader" /\ W[2].do = "remove"
      /\ a = 1 => W[1].c = "preloader" /\ W[1].do = "forget"
  BY <1>a, WatcherIs
<1>2. /\ \A i \in 1 .. 6 : W[a + i] = Preloader[i]
      /\ W[a + 7].c = "restart" /\ W[a + 7].do = "rollout"
  BY WatcherIs
<1> HIDE DEF W, a
<1>3. /\ W[a + 1].do = "read" /\ W[a + 2].do = "patch" /\ W[a + 3].do = "open"
      /\ W[a + 4].do = "close" /\ W[a + 5].do = "build" /\ W[a + 6].do = "create"
      /\ \A i \in 1 .. 6 : W[a + i].c = "preloader"
  BY <1>2, PreloaderIs
<1>4. ASSUME NEW i \in 1 .. Len(W)
      PROVE  /\ Linked(W, i) /\ W[i].c \in {"preloader", "restart"}
             /\ W[i].do \notin {"note", "created", "failed"}
  <2>1. \/ a = 2 /\ i = 1
        \/ i = a
        \/ i = a + 1 \/ i = a + 2 \/ i = a + 3 \/ i = a + 4 \/ i = a + 5 \/ i = a + 6
        \/ i = a + 7
    BY <1>a, <1>1
  <2>2. CASE a = 2 /\ i = 1
    <3>1. i + 1 = 2 /\ i < Len(W)
      BY <1>1, <2>2
    <3>2. /\ W[i].c = "preloader" /\ W[i].do = "build"
          /\ W[i + 1].c = "preloader" /\ W[i + 1].do = "remove"
      BY <1>1, <2>2, <3>1
    <3>3. W[i + 1].do \in Follow(W[i].do)
      BY <3>2 DEF Follow
    <3>4. ~(i > 1)
      BY <2>2
    <3> QED BY <3>1, <3>2, <3>3, <3>4 DEF Linked, Fits, Suits
  <2>3. CASE i = a
    <3>1. /\ i < Len(W) /\ W[i].c = "preloader" /\ W[i].do \in {"remove", "forget"}
          /\ i > 1 => W[i - 1].c = "preloader"
      BY <1>a, <1>1, <2>3
    <3> QED BY <1>3, <2>3, <3>1 DEF Linked, Fits, Suits, Follow
  <2>4. CASE i = a + 7
    <3>1. W[i].c = "restart" /\ W[i].do = "rollout"
      BY <1>2, <2>4
    <3> QED BY <3>1 DEF Linked, Fits, Suits
  <2>5. ASSUME NEW j \in 1 .. 6, i = a + j
        PROVE  /\ Linked(W, i) /\ W[i].c \in {"preloader", "restart"}
               /\ W[i].do \notin {"note", "created", "failed"}
    <3>1. /\ i < Len(W) /\ i + 1 = a + (j + 1) /\ (j < 6 => j + 1 \in 1 .. 6)
          /\ (j > 1 => j - 1 \in 1 .. 6 /\ i - 1 = a + (j - 1)) /\ (j = 6 => i + 1 = a + 7)
      BY <1>a, <1>1, <2>5
    <3>2. W[i].c = "preloader" /\ (j < 6 => W[i + 1].c = "preloader")
          /\ (j > 1 => W[i - 1].c = "preloader") /\ (j = 6 => W[i + 1].c = "restart")
      BY <1>2, <1>3, <2>5, <3>1
    <3>3. /\ W[i].do \in {"read", "patch", "open", "close", "build", "create"}
          /\ j = 1 => W[i].do = "read"
          /\ j = 6 <=> W[i].do = "create"
          /\ j < 6 => W[i + 1].do \in Follow(W[i].do)
      <4>1. j = 1 \/ j = 2 \/ j = 3 \/ j = 4 \/ j = 5 \/ j = 6
        OBVIOUS
      <4>2. CASE j = 1
        BY <1>a, <1>3, <2>5, <4>2 DEF Follow
      <4>3. CASE j = 2
        BY <1>a, <1>3, <2>5, <4>3 DEF Follow
      <4>4. CASE j = 3
        BY <1>a, <1>3, <2>5, <4>4 DEF Follow
      <4>5. CASE j = 4
        BY <1>a, <1>3, <2>5, <4>5 DEF Follow
      <4>6. CASE j = 5
        BY <1>a, <1>3, <2>5, <4>6 DEF Follow
      <4>7. CASE j = 6
        BY <1>a, <1>3, <2>5, <4>7 DEF Follow
      <4> QED BY <4>1, <4>2, <4>3, <4>4, <4>5, <4>6, <4>7
    <3>4. i > 1 /\ W[i - 1].c # "preloader" => W[i].do = "read"
      BY <3>2, <3>3
    <3>5. j = 6 \/ j < 6
      OBVIOUS
    <3> QED
      BY <3>1, <3>2, <3>3, <3>4, <3>5 DEF Linked, Fits, Suits
  <2> QED
    BY <2>1, <2>2, <2>3, <2>4, <2>5
<1> QED
  BY <1>4 DEF Chain, W
--------------------------------------------------------------------------------
\* Types.

Record ==
  [op : {"idle", "create", "resume", "delete", "watch"}, left : Seq(Step), owner : BOOLEAN,
   pod : Nat, seen : Nat, spec : Nat]

\* What holds of the record x of the thread t: p, V and N bound the names of
\* Pods, the versions of the map and the steps there are.
Worker(t, x, p, V, N) ==
  /\ x \in Record
  /\ x.op \in (IF t = "watcher" THEN {"idle", "watch"} ELSE {"idle", "create", "resume", "delete"})
  /\ x.op = "idle" => x.left = << >>
  /\ x.pod =< p /\ x.seen =< V /\ x.spec =< V
  /\ Chain(x.left) /\ Len(x.left) =< N
  /\ \A i \in 1 .. Len(x.left) :
       IF t = "watcher" THEN x.left[i].c \in {"preloader", "restart"}
       ELSE x.left[i].c # "restart" /\ x.left[i].do # "remove"
Workers ==
  /\ th \in [Threads -> Record]
  /\ \A t \in Threads : Worker(t, th[t], troubles + 1, bound.versions, Len(WhiskCreate))

AllKeys == UNION { ToSet(Keys[c]) : c \in DOMAIN Keys }
TheObject ==
  /\ bound \in Instances
  /\ obj \in {"absent", "present", "deleting", "gone"}
  /\ due \in {"none", "create", "delete", "resume"}
TheRuntimes ==
  /\ cfgd \in BOOLEAN /\ memory \in NoSpec .. bound.versions
  /\ version \in 1 .. bound.versions /\ pending \in BOOLEAN
  /\ tpl \in 0 .. bound.versions /\ kust \in {"none", "torn", "full"}
  /\ job \in [v : 0 .. bound.versions, owned : BOOLEAN]
ThePods ==
  /\ pods \in [Workloads -> [n : Nat, up : BOOLEAN, v : 0 .. bound.versions]]
  /\ \A w \in Workloads : pods[w].n =< troubles + 1
  /\ troubles \in 0 .. bound.troubles
TheRecords ==
  /\ made \subseteq {"redis user", "minio user", "data bucket", "web bucket", "policy",
                     "postgres"}
  /\ doc \subseteq Document(AllKeys) /\ notes \subseteq AllKeys \cup {"APIHOST"}
  /\ sys \in {"none", "part", "all"} /\ sysnote \in {"none", "created", "failed"}
  /\ dbReady \in BOOLEAN
TheGhosts == crossed \in BOOLEAN /\ dropped \in BOOLEAN /\ missed \in BOOLEAN
Values == TheObject /\ TheRuntimes /\ ThePods /\ TheRecords /\ TheGhosts
TypeInv == Values /\ Workers

\* What the assumption says of the instance a behaviour is one of.
LEMMA BoundIs ==
  ASSUME bound \in Instances
  PROVE  bound.versions \in Nat \ {0} /\ bound.troubles \in Nat
BY BoundAssumption

LEMMA Sizes ==
  ASSUME Values
  PROVE  /\ bound.versions \in Nat \ {0} /\ bound.troubles \in Nat /\ troubles \in Nat
         /\ troubles =< bound.troubles /\ troubles + 1 =< bound.troubles + 1
<1>1. bound.versions \in Nat \ {0} /\ bound.troubles \in Nat
  BY BoundIs DEF Values, TheObject
<1>2. troubles \in 0 .. bound.troubles
  BY DEF Values, ThePods
<1> QED
  BY <1>1, <1>2

LEMMA TypeInvTypeOK == TypeInv => TypeOK
<1> SUFFICES ASSUME TypeInv
             PROVE  TypeOK
  OBVIOUS
<1> USE DEF TypeInv
<1>1. \A t \in Threads : Len(th[t].left) =< Len(WhiskCreate) /\ th[t].pod \in 0 .. bound.troubles + 1
  <2> TAKE t \in Threads
  <2>1. Worker(t, th[t], troubles + 1, bound.versions, Len(WhiskCreate)) /\ th[t] \in Record
    BY DEF Workers
  <2>2. Len(th[t].left) =< Len(WhiskCreate) /\ th[t].pod \in Nat /\ th[t].pod =< troubles + 1
    BY <2>1 DEF Worker, Record
  <2> QED BY <2>2, Sizes
<1>2. pods \in [Workloads -> [n : 0 .. bound.troubles + 1, up : BOOLEAN, v : 0 .. bound.versions]]
  <2>1. \A w \in Workloads :
          pods[w] \in [n : 0 .. bound.troubles + 1, up : BOOLEAN, v : 0 .. bound.versions]
    <3> TAKE w \in Workloads
    <3>1. pods[w] \in [n : Nat, up : BOOLEAN, v : 0 .. bound.versions] /\ pods[w].n =< troubles + 1
      BY DEF Values, ThePods
    <3>2. pods[w].n \in 0 .. bound.troubles + 1
      <4>1. pods[w].n \in Nat
        BY <3>1
      <4> QED BY <3>1, <4>1, Sizes
    <3> QED BY <3>1, <3>2
  <2> QED BY <2>1 DEF Values, ThePods
<1>3. notes \subseteq doc \cup AllKeys \cup {"APIHOST"}
  BY DEF Values, TheRecords
<1>4. doc \subseteq Document(AllKeys)
  BY DEF Values, TheRecords
<1> QED
  BY <1>1, <1>2, <1>3, <1>4
  DEF Values, TheObject, TheRuntimes, ThePods, TheRecords, TheGhosts, TypeOK, AllKeys

\* The program of a handler is one a thread may begin.
LEMMA ProgramWorker ==
  ASSUME NEW d \in {"create", "resume", "delete"}, NEW p \in Nat, NEW V \in Nat
  PROVE  Worker("whisk", [Idle EXCEPT !.op = d, !.left = Program[d]], p, V, Len(WhiskCreate))
<1> DEFINE L == Program[d]
<1>1. Whole(L, {}) /\ Len(L) =< Len(WhiskCreate)
  <2>1. Whole(WhiskCreate, {}) /\ Whole(WhiskResume, {}) /\ Whole(WhiskDelete, {})
    BY WhiskPrograms DEF Block
  <2>2. Len(WhiskCreate) \in Nat /\ Len(WhiskResume) \in Nat /\ Len(WhiskDelete) \in Nat
    BY <2>1 DEF Whole
  <2> QED BY <2>1, <2>2, WhiskPrograms DEF Program
<1> HIDE DEF L
<1>2. L \in Seq(Step) /\ Chain(L) /\ \A i \in 1 .. Len(L) : L[i].do \notin {"rollout", "remove"}
  BY <1>1 DEF Whole
<1>3. \A i \in 1 .. Len(L) : L[i].c # "restart"
  BY <1>2 DEF Chain, Linked, Fits, Suits
<1> DEFINE y == [Idle EXCEPT !.op = d, !.left = L]
<1>4. y.op = d /\ y.left = L /\ y.pod = 0 /\ y.seen = 0 /\ y.spec = 0 /\ y \in Record
  BY <1>2 DEF Idle, Record
<1> HIDE DEF y
<1>5. Worker("whisk", y, p, V, Len(WhiskCreate))
  BY <1>1, <1>2, <1>3, <1>4 DEF Worker
<1> QED
  BY <1>5 DEF L, y

LEMMA WatcherWorker ==
  ASSUME NEW o \in BOOLEAN, NEW p \in Nat, NEW V \in Nat
  PROVE  Worker("watcher", [Idle EXCEPT !.op = "watch", !.owner = o, !.left = Watcher(o)],
                p, V, Len(WhiskCreate))
<1>1. /\ Watcher(o) \in Seq(Step) /\ Chain(Watcher(o)) /\ Len(Watcher(o)) =< Len(WhiskCreate)
      /\ \A i \in 1 .. Len(Watcher(o)) : Watcher(o)[i].c \in {"preloader", "restart"}
  <2>1. Len(Watcher(o)) =< 9
    <3>1. Len(Watcher(o)) = Ahead(o) + 7
      BY WatcherIs
    <3>2. Ahead(o) \in {1, 2}
      BY DEF Ahead
    <3> QED BY <3>1, <3>2
  <2>2. Len(WhiskCreate) \in Nat
    BY WhiskPrograms DEF Whole
  <2> QED BY <2>1, <2>2, WatcherIs, WatcherChain, WhiskPrograms
<1> DEFINE L == Watcher(o)
           y == [Idle EXCEPT !.op = "watch", !.owner = o, !.left = L]
<1> HIDE DEF L
<1>2. y.op = "watch" /\ y.left = L /\ y.pod = 0 /\ y.seen = 0 /\ y.spec = 0 /\ y \in Record
  BY <1>1 DEF Idle, Record, L
<1> HIDE DEF y
<1>3. Worker("watcher", y, p, V, Len(WhiskCreate))
  BY <1>1, <1>2 DEF Worker, L
<1> QED
  BY <1>3 DEF L, y

LEMMA IdleWorker ==
  ASSUME NEW t, NEW p \in Nat, NEW V \in Nat
  PROVE  Worker(t, Idle, p, V, Len(WhiskCreate))
<1>1. Chain(<< >>) /\ << >> \in Seq(Step) /\ Len(<< >>) =< Len(WhiskCreate)
  BY WhiskPrograms DEF Chain, Whole
<1> QED
  BY <1>1 DEF Worker, Record, Idle

\* A thread that drops steps at the front.
LEMMA OnwardWorker ==
  ASSUME NEW t \in Threads, NEW x, NEW p \in Nat, NEW q \in Nat, p =< q, NEW V \in Nat, NEW N \in Nat,
         Worker(t, x, p, V, N), NEW y \in Record, NEW d, Drop(x.left, y.left, d), y.op = x.op,
         y.pod =< q, y.seen =< V, y.spec =< V
  PROVE  Worker(t, y, q, V, N)
<1>1. x.left \in Seq(Step) /\ Chain(x.left) /\ Len(x.left) =< N
  BY DEF Worker, Record
<1>2. Chain(y.left)
  BY <1>1, ChainDrop
<1>3. /\ y.left \in Seq(Step) /\ Len(y.left) =< Len(x.left) /\ Len(x.left) \in Nat /\ Len(y.left) \in Nat
      /\ \A i \in 1 .. Len(y.left) : i + d \in 1 .. Len(x.left) /\ y.left[i] = x.left[i + d]
  BY <1>1 DEF Drop
<1>4. y.op = "idle" => y.left = << >>
  BY <1>3 DEF Worker
<1>5. \A i \in 1 .. Len(y.left) :
        IF t = "watcher" THEN y.left[i].c \in {"preloader", "restart"}
        ELSE y.left[i].c # "restart" /\ y.left[i].do # "remove"
  BY <1>3 DEF Worker
<1>6. Len(y.left) =< N
  BY <1>1, <1>3
<1> QED
  BY <1>2, <1>4, <1>5, <1>6 DEF Worker

\* The instance and its programs stay.
LEMMA SameProgram ==
  ASSUME bound' = bound
  PROVE  WhiskCreate' = WhiskCreate
BY DEF WhiskCreate, Comps, If

\* One thread has its record replaced.
LEMMA Replaced ==
  ASSUME TypeInv, NEW t \in Threads, NEW y, th' = [th EXCEPT ![t] = y], bound' = bound,
         troubles' \in {troubles, troubles + 1},
         Worker(t, y, troubles' + 1, bound.versions, Len(WhiskCreate))
  PROVE  Workers'
<1>1. troubles \in Nat /\ bound.versions \in Nat /\ troubles' \in Nat /\ troubles =< troubles'
  BY Sizes DEF TypeInv
<1>2. y \in Record /\ th \in [Threads -> Record]
  BY DEF Worker, TypeInv, Workers
<1>3. th' \in [Threads -> Record] /\ th'[t] = y /\ \A s \in Threads \ {t} : th'[s] = th[s]
  BY <1>2
<1>4. ASSUME NEW s \in Threads
      PROVE  Worker(s, th'[s], troubles' + 1, bound.versions, Len(WhiskCreate))
  <2>1. CASE s = t
    BY <1>3, <2>1
  <2>2. CASE s # t
    <3>1. Worker(s, th[s], troubles + 1, bound.versions, Len(WhiskCreate)) /\ th[s] \in Record
      BY <1>2 DEF TypeInv, Workers
    <3>2. th[s].pod =< troubles' + 1
      BY <1>1, <3>1 DEF Worker, Record
    <3>3. th'[s] = th[s]
      BY <1>3, <2>2
    <3> QED BY <3>1, <3>2, <3>3 DEF Worker
  <2> QED BY <2>1, <2>2
<1> QED
  BY <1>3, <1>4, SameProgram DEF Workers

LEMMA GoesIdle ==
  ASSUME TypeInv, NEW t \in Threads, th' = [th EXCEPT ![t] = Idle], bound' = bound,
         troubles' \in {troubles, troubles + 1}
  PROVE  Workers'
<1>1. troubles' + 1 \in Nat /\ bound.versions \in Nat
  BY Sizes DEF TypeInv
<1> QED
  BY <1>1, IdleWorker, Replaced

\* What TypeInv says of one thread.
LEMMA ThreadIs ==
  ASSUME TypeInv, NEW t \in Threads
  PROVE  /\ th[t] \in Record /\ th[t].left \in Seq(Step) /\ Chain(th[t].left) /\ t \in DOMAIN th
         /\ Worker(t, th[t], troubles + 1, bound.versions, Len(WhiskCreate))
         /\ th[t].pod \in Nat /\ th[t].pod =< troubles + 1
         /\ th[t].seen \in Nat /\ th[t].seen =< bound.versions
         /\ th[t].spec \in Nat /\ th[t].spec =< bound.versions
         /\ troubles \in Nat /\ bound.versions \in Nat
BY Sizes DEF TypeInv, Workers, Worker, Record

LEMMA OneMore ==
  \A a, b \in Nat : a =< b => a + 1 \in Nat /\ b + 1 \in Nat /\ a + 1 =< b + 1
OBVIOUS

LEMMA Onwards ==
  ASSUME TypeInv, NEW t \in Threads, NEW y \in Record, th' = [th EXCEPT ![t] = y], bound' = bound,
         troubles' \in {troubles, troubles + 1}, NEW d, Drop(th[t].left, y.left, d),
         y.op = th[t].op, y.pod =< troubles' + 1, y.seen =< bound.versions, y.spec =< bound.versions
  PROVE  Workers'
<1>1. troubles \in Nat /\ bound.versions \in Nat /\ troubles' \in Nat /\ troubles =< troubles'
  BY Sizes DEF TypeInv
<1>2. Worker(t, th[t], troubles + 1, bound.versions, Len(WhiskCreate))
  BY ThreadIs
<1>3. Len(WhiskCreate) \in Nat
  BY WhiskPrograms DEF Whole
<1>4. Worker(t, y, troubles' + 1, bound.versions, Len(WhiskCreate))
  <2>1. troubles + 1 \in Nat /\ troubles' + 1 \in Nat /\ troubles + 1 =< troubles' + 1
    BY <1>1, OneMore
  <2> QED BY <1>1, <1>2, <1>3, <2>1, OnwardWorker
<1> QED
  BY <1>4, Replaced

\* The ways a thread goes on.
LEMMA GoesOn ==
  ASSUME TypeInv, NEW t \in Threads, th[t].left # << >>, Goes(t), bound' = bound,
         troubles' \in {troubles, troubles + 1}
  PROVE  Workers'
<1> DEFINE y == [th[t] EXCEPT !.left = Tail(@)]
<1>1. th' = [th EXCEPT ![t] = y]
  BY DEF Goes
<1>0. Tail(th[t].left) \in Seq(Step)
  BY ThreadIs
<1>2. y \in Record /\ y.left = Tail(th[t].left) /\ y.op = th[t].op /\ y.pod = th[t].pod
      /\ y.seen = th[t].seen /\ y.spec = th[t].spec
  BY <1>0, ThreadIs DEF Record
<1>3. Drop(th[t].left, Tail(th[t].left), 1)
  BY ThreadIs, TailDrops
<1>4. th[t].pod =< troubles' + 1
  BY ThreadIs
<1> HIDE DEF y
<1> QED
  BY <1>1, <1>2, <1>3, <1>4, ThreadIs, Onwards

LEMMA SkipsOn ==
  ASSUME TypeInv, NEW t \in Threads, NEW cs, Skips(t, cs), bound' = bound,
         troubles' \in {troubles, troubles + 1}
  PROVE  Workers'
<1> DEFINE y == [th[t] EXCEPT !.left = After(@, cs)]
<1>1. th' = [th EXCEPT ![t] = y]
  BY DEF Skips
<1>2. \E d \in 0 .. Len(th[t].left) : Drop(th[t].left, After(th[t].left, cs), d)
  BY ThreadIs, AfterDrops
<1>3. After(th[t].left, cs) \in Seq(Step)
  BY <1>2 DEF Drop
<1>4. y \in Record /\ y.left = After(th[t].left, cs) /\ y.op = th[t].op /\ y.pod = th[t].pod
      /\ y.seen = th[t].seen /\ y.spec = th[t].spec
  BY <1>3, ThreadIs DEF Record
<1>5. th[t].pod =< troubles' + 1
  BY ThreadIs
<1> HIDE DEF y
<1> QED
  BY <1>1, <1>2, <1>4, <1>5, ThreadIs, Onwards

LEMMA RaiseOn ==
  ASSUME TypeInv, NEW t \in Threads, Raise(t), bound' = bound,
         troubles' \in {troubles, troubles + 1}
  PROVE  Workers'
<1>1. CASE Now(t).c \in Caught
  BY <1>1, SkipsOn DEF Raise
<1>2. CASE Now(t).c \notin Caught
  BY <1>2, GoesIdle DEF Raise
<1> QED
  BY <1>1, <1>2

\* Going on with a field of the record written.
LEMMA GoesWith ==
  ASSUME TypeInv, NEW t \in Threads, th[t].left # << >>, bound' = bound,
         troubles' \in {troubles, troubles + 1},
         NEW o \in BOOLEAN, NEW p \in Nat, p =< troubles' + 1,
         NEW v \in Nat, v =< bound.versions, NEW s \in Nat, s =< bound.versions,
         th' = [th EXCEPT ![t] = [th[t] EXCEPT !.left = Tail(@), !.owner = o, !.pod = p,
                                               !.seen = v, !.spec = s]]
  PROVE  Workers'
<1> DEFINE y == [th[t] EXCEPT !.left = Tail(@), !.owner = o, !.pod = p, !.seen = v, !.spec = s]
<1>0. Tail(th[t].left) \in Seq(Step) /\ th[t] \in Record
  BY ThreadIs
<1>1. y \in Record /\ y.left = Tail(th[t].left) /\ y.op = th[t].op /\ y.pod = p
      /\ y.seen = v /\ y.spec = s
  BY <1>0 DEF Record
<1>2. Drop(th[t].left, Tail(th[t].left), 1)
  BY ThreadIs, TailDrops
<1>3. th' = [th EXCEPT ![t] = y]
  OBVIOUS
<1> HIDE DEF y
<1> QED
  BY Zenon, <1>1, <1>2, <1>3, Onwards

LEMMA ThreadsStay ==
  ASSUME TypeInv, UNCHANGED th, bound' = bound, troubles' \in {troubles, troubles + 1}
  PROVE  Workers'
<1>1. troubles \in Nat /\ troubles' \in Nat /\ troubles =< troubles'
  BY Sizes DEF TypeInv
<1>2. ASSUME NEW t \in Threads
      PROVE  Worker(t, th[t], troubles' + 1, bound.versions, Len(WhiskCreate))
  <2>1. troubles + 1 =< troubles' + 1 /\ troubles + 1 \in Nat /\ troubles' + 1 \in Nat
    BY <1>1, OneMore
  <2>2. th[t].pod =< troubles' + 1
    BY <2>1, ThreadIs
  <2> QED BY <2>2, ThreadIs DEF Worker
<1>3. th \in [Threads -> Record]
  BY DEF TypeInv, Workers
<1> QED
  BY <1>2, <1>3, SameProgram DEF Workers

\* The steps of a thread, and all others.
Working(t) ==
  \/ End(t) \/ CallFails(t) \/ Preloads(t)
  \/ t = "whisk" /\ (Configures(t) \/ Creates(t) \/ Finishes(t))
LEMMA NextIs ==
  Next <=> \/ Begin \/ (\E found \in BOOLEAN : Watch(found)) \/ Rollout \/ Around
           \/ \E t \in Threads : Working(t)
BY DEF Next, Whisk, WatcherStep, Working, Threads

\* The bounds a step of a thread keeps.
LEMMA StepBounds ==
  ASSUME Next
  PROVE  bound' = bound /\ troubles' \in {troubles, troubles + 1}
<1>1. CASE Begin
  BY <1>1 DEF Begin, object
<1>2. CASE \E found \in BOOLEAN : Watch(found)
  BY <1>2 DEF Watch, object, Trouble
<1>3. CASE Rollout
  BY <1>3 DEF Rollout, object
<1>4. CASE Around
  <2>1. ASSUME NEW w \in Workloads, PodReady(w) \/ PodLost(w)
        PROVE  bound' = bound /\ troubles' \in {troubles, troubles + 1}
    BY <2>1 DEF PodReady, PodLost, object, Trouble
  <2>2. CASE AddWhisk \/ DiscardWhisk \/ EditRuntimes \/ DatabasesMade \/ Collect \/ Restart
    BY <2>2 DEF AddWhisk, DiscardWhisk, EditRuntimes, DatabasesMade, Collect, Restart, object, Trouble
  <2> QED BY <1>4, <2>1, <2>2 DEF Around
<1>5. ASSUME NEW t \in Threads, Working(t)
      PROVE  bound' = bound /\ troubles' \in {troubles, troubles + 1}
  <2>1. CASE End(t) \/ CallFails(t)
    BY <2>1 DEF End, CallFails, object, Trouble
  <2>2. CASE Preloads(t)
    BY <2>2 DEF Preloads, ReadRuntimes, Patch, OpenKustomization, CloseKustomization, Build,
      CreateJob, RemoveByOwner, RemoveBySpec, object, Trouble
  <2>3. CASE Configures(t)
    BY <2>3 DEF Configures, Clean, Configure, Apihost, GetOwner, object, Trouble
  <2>4. CASE Creates(t)
    <3>1. CASE Apply(t) \/ PickPod(t) \/ NoPod(t) \/ WaitForPod(t)
      BY <3>1 DEF Apply, PickPod, NoPod, WaitForPod, object, Trouble
    <3>2. CASE Annotate(t) \/ AnnotateFails(t) \/ Account(t) \/ AddUser(t)
      BY <3>2 DEF Annotate, AnnotateFails, Account, AddUser, object, Trouble
    <3>3. CASE MakeBucket(t)
      BY <3>3 DEF MakeBucket, Gain, object, Trouble
    <3>4. CASE Grant(t) \/ WaitForService(t) \/ Endpoint(t)
      BY <3>4 DEF Grant, WaitForService, Endpoint, object, Trouble
    <3> QED BY <2>4, <3>1, <3>2, <3>3, <3>4 DEF Creates
  <2>5. CASE Finishes(t)
    BY <2>5 DEF Finishes, Save, Deploy, DeployFails, DeployGivesUp, Report, Delete, object, Trouble
  <2> QED BY <1>5, <2>1, <2>2, <2>3, <2>4, <2>5 DEF Working
<1> QED
  BY <1>1, <1>2, <1>3, <1>4, <1>5, NextIs

\* The versions and the first step.
LEMMA Versions ==
  ASSUME TypeInv
  PROVE  /\ version \in Nat /\ version > 0 /\ version =< bound.versions
         /\ tpl \in Nat /\ tpl =< bound.versions
         /\ bound.versions \in Nat
<1>1. bound.versions \in Nat
  BY Sizes DEF TypeInv
<1>2. version \in 1 .. bound.versions /\ tpl \in 0 .. bound.versions
  BY DEF TypeInv, Values, TheRuntimes
<1> QED
  BY <1>1, <1>2

LEMMA FirstStep ==
  ASSUME TypeInv, NEW t \in Threads, th[t].left # << >>
  PROVE  /\ Now(t) = th[t].left[1] /\ 1 \in 1 .. Len(th[t].left) /\ Len(th[t].left) \in Nat
         /\ Now(t) \in Step /\ Linked(th[t].left, 1) /\ Fits(Now(t))
         /\ Drop(th[t].left, Tail(th[t].left), 1)
<1>1. th[t].left \in Seq(Step) /\ Chain(th[t].left)
  BY ThreadIs
<1> DEFINE L == th[t].left
<1>2. Now(t) = Head(L)
  BY DEF Now
<1> HIDE DEF L
<1>3. L \in Seq(Step) /\ Chain(L) /\ L # << >>
  BY <1>1 DEF L
<1>4. /\ Head(L) = L[1] /\ 1 \in 1 .. Len(L) /\ Len(L) \in Nat /\ L[1] \in Step
      /\ Drop(L, Tail(L), 1)
  BY <1>3, TailDrops
<1>5. Linked(L, 1)
  BY <1>3, <1>4 DEF Chain
<1>6. Fits(L[1])
  BY <1>5 DEF Linked
<1> QED
  BY <1>2, <1>4, <1>5, <1>6 DEF L

\* The steps of a handler keep the form of what the threads have yet to do.
LEMMA WorkingKeeps ==
  ASSUME TypeInv, NEW t \in Threads, Working(t), bound' = bound,
         troubles' \in {troubles, troubles + 1}
  PROVE  Workers'
<1> USE ThreadIs
<1>1. CASE End(t)
  BY <1>1, GoesIdle DEF End
<1>2. CASE CallFails(t)
  BY <1>2, RaiseOn DEF CallFails
<1>3. CASE Preloads(t)
  <2>1. CASE ReadRuntimes(t)
    <3>1. th[t].left # << >> /\ version \in Nat /\ version =< bound.versions
      BY <2>1, Versions DEF ReadRuntimes, At
    <3>2. th' = [th EXCEPT ![t] = [th[t] EXCEPT !.left = Tail(@), !.owner = th[t].owner,
                             !.pod = th[t].pod, !.seen = version, !.spec = th[t].spec]]
      <4>1. [th[t] EXCEPT !.left = Tail(@), !.seen = version] =
            [th[t] EXCEPT !.left = Tail(@), !.owner = th[t].owner, !.pod = th[t].pod,
                          !.seen = version, !.spec = th[t].spec]
        BY DEF Record
      <4>2. th' = [th EXCEPT ![t] = [th[t] EXCEPT !.left = Tail(@), !.seen = version]]
        BY <2>1 DEF ReadRuntimes
      <4> QED BY <4>1, <4>2
    <3>3. th[t].owner \in BOOLEAN /\ th[t].pod =< troubles' + 1
      BY DEF Record
    <3> QED BY <3>1, <3>2, <3>3, GoesWith
  <2>2. CASE Build(t)
    <3> DEFINE s == IF kust = "full" THEN tpl ELSE 0
    <3>1. th[t].left # << >> /\ s \in Nat /\ s =< bound.versions
      <4>1. 0 \in Nat /\ 0 =< bound.versions /\ tpl \in Nat /\ tpl =< bound.versions
        BY Versions
      <4> QED BY <2>2, <4>1 DEF Build, At
    <3> HIDE DEF s
    <3>2. th' = [th EXCEPT ![t] = [th[t] EXCEPT !.left = Tail(@), !.owner = th[t].owner,
                             !.pod = th[t].pod, !.seen = th[t].seen, !.spec = s]]
      <4>1. [th[t] EXCEPT !.left = Tail(@), !.spec = s] =
            [th[t] EXCEPT !.left = Tail(@), !.owner = th[t].owner, !.pod = th[t].pod,
                          !.seen = th[t].seen, !.spec = s]
        BY DEF Record
      <4>2. th' = [th EXCEPT ![t] = [th[t] EXCEPT !.left = Tail(@), !.spec = s]]
        BY <2>2 DEF Build, s
      <4> QED BY <4>1, <4>2
    <3>3. th[t].owner \in BOOLEAN /\ th[t].pod =< troubles' + 1
      BY DEF Record
    <3> QED BY <3>1, <3>2, <3>3, GoesWith
  <2>3. CASE Patch(t) \/ OpenKustomization(t) \/ CloseKustomization(t)
    BY <2>3, GoesOn DEF Patch, OpenKustomization, CloseKustomization, At
  <2>4. CASE CreateJob(t)
    BY <2>4, GoesOn, RaiseOn DEF CreateJob, Applied, At
  <2>5. CASE RemoveByOwner(t) \/ RemoveBySpec(t)
    BY <2>5, GoesOn, RaiseOn DEF RemoveByOwner, RemoveBySpec, Removed, At
  <2> QED BY <1>3, <2>1, <2>2, <2>3, <2>4, <2>5 DEF Preloads
<1>4. CASE Configures(t)
  <2>1. CASE Clean(t) \/ Configure(t)
    BY <2>1, GoesOn DEF Clean, Configure, At
  <2>2. CASE Apihost(t)
    BY <2>2, GoesOn, RaiseOn DEF Apihost, At
  <2>3. CASE GetOwner(t)
    <3>1. CASE Goes(t)
      BY <2>3, <3>1, GoesOn DEF GetOwner, At
    <3>2. CASE th' = [th EXCEPT ![t].left = Tail(@), ![t].owner = TRUE]
      <4>1. th' = [th EXCEPT ![t] = [th[t] EXCEPT !.left = Tail(@), !.owner = TRUE,
                             !.pod = th[t].pod, !.seen = th[t].seen, !.spec = th[t].spec]]
        <5>1. [th[t] EXCEPT !.left = Tail(@), !.owner = TRUE] =
              [th[t] EXCEPT !.left = Tail(@), !.owner = TRUE, !.pod = th[t].pod,
                            !.seen = th[t].seen, !.spec = th[t].spec]
          BY DEF Record
        <5>2. th' = [th EXCEPT ![t] = [th[t] EXCEPT !.left = Tail(@), !.owner = TRUE]]
          BY <3>2
        <5> QED BY <5>1, <5>2
      <4>2. th[t].left # << >> /\ th[t].pod =< troubles' + 1
        BY <2>3 DEF GetOwner, At
      <4> QED BY <4>1, <4>2, GoesWith
    <3> QED BY <2>3, <3>1, <3>2 DEF GetOwner
  <2> QED BY <1>4, <2>1, <2>2, <2>3 DEF Configures
<1>5. CASE Creates(t)
  <2>1. CASE Apply(t) \/ WaitForPod(t) \/ Annotate(t) \/ Grant(t) \/ Endpoint(t)
    BY <2>1, GoesOn DEF Apply, WaitForPod, Annotate, Grant, Endpoint, At
  <2>2. CASE PickPod(t)
    <3> DEFINE p == pods[Now(t).w].n
    <3>1. th[t].left # << >> /\ p \in Nat /\ p =< troubles + 1
      <4>1. th[t].left # << >> /\ Now(t).do = "pick" /\ Fits(Now(t))
        BY <2>2, FirstStep DEF PickPod, At
      <4>2. Now(t).w \in Workloads
        BY <4>1 DEF Fits, Suits
      <4>3. pods[Now(t).w] \in [n : Nat, up : BOOLEAN, v : 0 .. bound.versions]
            /\ pods[Now(t).w].n =< troubles + 1
        BY <4>2 DEF TypeInv, Values, ThePods
      <4> QED BY <4>1, <4>3
    <3>2. th' = [th EXCEPT ![t] = [th[t] EXCEPT !.left = Tail(@), !.pod = p]]
      BY <2>2 DEF PickPod
    <3> HIDE DEF p
    <3>3. th' = [th EXCEPT ![t] = [th[t] EXCEPT !.left = Tail(@), !.owner = th[t].owner,
                             !.pod = p, !.seen = th[t].seen, !.spec = th[t].spec]]
      <4>1. [th[t] EXCEPT !.left = Tail(@), !.pod = p] =
            [th[t] EXCEPT !.left = Tail(@), !.owner = th[t].owner, !.pod = p,
                          !.seen = th[t].seen, !.spec = th[t].spec]
        BY DEF Record
      <4> QED BY <3>2, <4>1
    <3>4. th[t].owner \in BOOLEAN /\ p =< troubles' + 1
      BY <3>1 DEF Record
    <3> QED BY <3>1, <3>3, <3>4, GoesWith
  <2>3. CASE NoPod(t)
    <3> DEFINE L == th[t].left
               y == [th[t] EXCEPT !.left = Tail(Tail(@))]
    <3>1. L \in Seq(Step) /\ 1 < Len(L)
      <4>1. L # << >> /\ Now(t).do = "pick"
        BY <2>3 DEF NoPod, At
      <4>2. L[1].do = "pick" /\ Linked(L, 1)
        BY <4>1, FirstStep
      <4> QED BY <4>2 DEF Linked
    <3>3. Drop(L, Tail(Tail(L)), 2) /\ Tail(Tail(L)) \in Seq(Step)
      BY <3>1, TwoDropped DEF Drop
    <3>4. th' = [th EXCEPT ![t] = y]
      BY <2>3 DEF NoPod
    <3>5. y \in Record /\ y.left = Tail(Tail(L)) /\ y.op = th[t].op /\ y.pod = th[t].pod
          /\ y.seen = th[t].seen /\ y.spec = th[t].spec
      BY <3>3 DEF Record
    <3>6. th[t].pod =< troubles' + 1
      OBVIOUS
    <3> HIDE DEF y
    <3> QED BY <3>3, <3>4, <3>5, <3>6, Onwards
  <2>4. CASE AnnotateFails(t)
    BY <2>4, RaiseOn DEF AnnotateFails
  <2>5. CASE Account(t) \/ WaitForService(t)
    BY <2>5, GoesOn, RaiseOn DEF Account, WaitForService, At
  <2>6. CASE AddUser(t)
    BY <2>6, GoesOn, SkipsOn DEF AddUser, At
  <2>7. CASE MakeBucket(t)
    BY <2>7, GoesOn, SkipsOn DEF MakeBucket, Gain, At
  <2> QED BY <1>5, <2>1, <2>2, <2>3, <2>4, <2>5, <2>6, <2>7 DEF Creates
<1>6. CASE Finishes(t)
  <2>1. CASE Save(t) \/ Delete(t)
    BY <2>1, GoesOn DEF Save, Delete, At
  <2>2. ASSUME NEW done \in BOOLEAN, Result(t, done), At(t, "deploy")
        PROVE  Workers'
    <3>1. CASE th[t].op # "create"
      BY <2>2, <3>1, GoesOn DEF Result, At
    <3>2. CASE th[t].op = "create"
      <4> DEFINE do == IF done THEN "created" ELSE "failed"
                 M == Of("result", "none", << do >>)
                 y == [th[t] EXCEPT !.left = M]
      <4>1. M \in Seq(Step) /\ Len(M) = 1 /\ M[1].c = "result" /\ M[1].do = do
        <5>1. << do >> \in Seq(Dos) /\ "result" \in Groups
          BY DEF Dos, Groups
        <5>2. M \in Seq(Step)
          <6> HIDE DEF do
          <6> QED BY <5>1, OfIs
        <5>3. Len(M) = 1 /\ M[1].c = "result" /\ M[1].do = do
          BY DEF Of
        <5> QED BY <5>2, <5>3
      <4>2. th' = [th EXCEPT ![t] = y]
        BY <2>2, <3>2 DEF Result
      <4> HIDE DEF M
      <4>3. y \in Record /\ y.left = M /\ y.op = th[t].op /\ y.pod = th[t].pod
            /\ y.seen = th[t].seen /\ y.spec = th[t].spec
        BY <4>1 DEF Record
      <4>4. Chain(M) /\ \A i \in 1 .. Len(M) : i = 1
        <5>1. \A i \in 1 .. Len(M) : i = 1
          BY <4>1
        <5>2. Linked(M, 1)
          BY <4>1 DEF Linked, Fits, Suits
        <5> QED BY <5>1, <5>2 DEF Chain
      <4>5. t # "watcher" /\ y.op \in {"idle", "create", "resume", "delete"} /\ y.op # "idle"
        BY <3>2, <4>3 DEF Worker
      <4>6. th[t].pod =< troubles' + 1 /\ Len(M) =< Len(WhiskCreate)
        BY <4>1, WhiskPrograms DEF Whole
      <4> HIDE DEF y
      <4>7. Worker(t, y, troubles' + 1, bound.versions, Len(WhiskCreate))
        BY <4>1, <4>3, <4>4, <4>5, <4>6 DEF Worker
      <4> QED BY <4>2, <4>7, Replaced
    <3> QED BY <3>1, <3>2
  <2>3. CASE Deploy(t) \/ DeployGivesUp(t)
    BY <2>2, <2>3 DEF Deploy, DeployGivesUp
  <2>4. CASE DeployFails(t)
    BY <2>4, ThreadsStay DEF DeployFails
  <2>5. CASE Report(t)
    BY <2>5, GoesOn, GoesIdle DEF Report, At
  <2> QED BY <1>6, <2>1, <2>3, <2>4, <2>5 DEF Finishes
<1> QED
  BY <1>1, <1>2, <1>3, <1>4, <1>5, <1>6 DEF Working

LEMMA WorkersKept ==
  ASSUME TypeInv, Next
  PROVE  Workers'
<1>b. bound' = bound /\ troubles' \in {troubles, troubles + 1}
  BY StepBounds
<1>n. troubles' + 1 \in Nat /\ bound.versions \in Nat
  BY <1>b, Sizes DEF TypeInv
<1>t. "whisk" \in Threads /\ "watcher" \in Threads
  BY DEF Threads
<1>1. CASE Begin
  <2>1. due \in {"create", "resume", "delete"}
    BY <1>1 DEF Begin, TypeInv, Values, TheObject
  <2>2. Worker("whisk", [Idle EXCEPT !.op = due, !.left = Program[due]], troubles' + 1,
               bound.versions, Len(WhiskCreate))
    BY <1>n, <2>1, ProgramWorker
  <2> QED BY <1>1, <1>b, <1>t, <2>2, Replaced DEF Begin
<1>2. ASSUME NEW found \in BOOLEAN, Watch(found)
      PROVE  Workers'
  <2>1. Worker("watcher", [Idle EXCEPT !.op = "watch", !.owner = found, !.left = Watcher(found)],
               troubles' + 1, bound.versions, Len(WhiskCreate))
    BY <1>n, WatcherWorker
  <2> QED BY <1>2, <1>b, <1>t, <2>1, Replaced DEF Watch
<1>3. CASE Rollout
  BY <1>3, <1>b, <1>t, GoesOn DEF Rollout, At
<1>4. CASE Around
  <2>1. CASE AddWhisk \/ DiscardWhisk \/ EditRuntimes \/ DatabasesMade \/ Collect
    BY <2>1, <1>b, ThreadsStay DEF AddWhisk, DiscardWhisk, EditRuntimes, DatabasesMade, Collect
  <2>2. ASSUME NEW w \in Workloads, PodReady(w) \/ PodLost(w)
        PROVE  Workers'
    BY <2>2, <1>b, ThreadsStay DEF PodReady, PodLost
  <2>3. CASE Restart
    <3>1. th' = [t \in Threads |-> Idle]
      BY <2>3 DEF Restart
    <3>2. \A t : Worker(t, Idle, troubles' + 1, bound.versions, Len(WhiskCreate))
      BY <1>n, IdleWorker
    <3>3. Idle \in Record
      BY <3>2 DEF Worker
    <3> QED BY <1>b, <3>1, <3>2, <3>3, SameProgram DEF Workers
  <2> QED BY <1>4, <2>1, <2>2, <2>3 DEF Around
<1>5. ASSUME NEW t \in Threads, Working(t)
      PROVE  Workers'
  BY <1>5, <1>b, WorkingKeeps
<1> QED
  BY <1>1, <1>2, <1>3, <1>4, <1>5, NextIs

\* The keys there are.
Words ==
  {"REDIS_URL", "REDIS_PREFIX", "MINIO_HOST", "MINIO_ACCESS_KEY", "MINIO_SECRET_KEY", "S3_HOST",
   "S3_ACCESS_KEY", "S3_SECRET_KEY", "S3_PROVIDER", "MINIO_PORT", "S3_PORT",
   "MINIO_BUCKET_DATA", "S3_BUCKET_DATA", "MINIO_BUCKET_STATIC", "S3_BUCKET_STATIC",
   "POSTGRES_HOST", "POSTGRES_PORT", "POSTGRES_DATABASE", "POSTGRES_USERNAME",
   "POSTGRES_PASSWORD", "POSTGRES_URL", "MONGODB_URL"}
LEMMA KeysAre ==
  ASSUME NEW c \in DOMAIN Keys
  PROVE  Keys[c] \in Seq(Words) /\ Len(Keys[c]) > 0
<1>1. c \in {"redis user", "minio user", "data bucket", "web bucket", "postgres keys", "mongodb keys"}
  BY DEF Keys
<1>2. CASE c = "redis user"
  <2> DEFINE s == << "REDIS_URL", "REDIS_PREFIX" >>
  <2>1. Keys[c] = s
    BY <1>2 DEF Keys
  <2>2. s \in Seq(Words) /\ Len(s) > 0
    BY DEF Words
  <2> QED BY <2>1, <2>2
<1>3. CASE c = "minio user"
  <2> DEFINE s == << "MINIO_HOST", "MINIO_ACCESS_KEY", "MINIO_SECRET_KEY", "S3_HOST",
                       "S3_ACCESS_KEY", "S3_SECRET_KEY", "S3_PROVIDER", "MINIO_PORT", "S3_PORT" >>
  <2>1. Keys[c] = s
    BY <1>3 DEF Keys
  <2>2. s \in Seq(Words) /\ Len(s) > 0
    BY DEF Words
  <2> QED BY <2>1, <2>2
<1>4. CASE c = "data bucket"
  <2> DEFINE s == << "MINIO_BUCKET_DATA", "S3_BUCKET_DATA" >>
  <2>1. Keys[c] = s
    BY <1>4 DEF Keys
  <2>2. s \in Seq(Words) /\ Len(s) > 0
    BY DEF Words
  <2> QED BY <2>1, <2>2
<1>5. CASE c = "web bucket"
  <2> DEFINE s == << "MINIO_BUCKET_STATIC", "S3_BUCKET_STATIC" >>
  <2>1. Keys[c] = s
    BY <1>5 DEF Keys
  <2>2. s \in Seq(Words) /\ Len(s) > 0
    BY DEF Words
  <2> QED BY <2>1, <2>2
<1>6. CASE c = "postgres keys"
  <2> DEFINE s == << "POSTGRES_HOST", "POSTGRES_PORT", "POSTGRES_DATABASE", "POSTGRES_USERNAME",
                       "POSTGRES_PASSWORD", "POSTGRES_URL" >>
  <2>1. Keys[c] = s
    BY <1>6 DEF Keys
  <2>2. s \in Seq(Words) /\ Len(s) > 0
    BY DEF Words
  <2> QED BY <2>1, <2>2
<1>7. CASE c = "mongodb keys"
  <2> DEFINE s == << "MONGODB_URL" >>
  <2>1. Keys[c] = s
    BY <1>7 DEF Keys
  <2>2. s \in Seq(Words) /\ Len(s) > 0
    BY DEF Words
  <2> QED BY <2>1, <2>2
<1> QED
  BY <1>1, <1>2, <1>3, <1>4, <1>5, <1>6, <1>7

\* What an annotation that fails gives is of the keys of its component.
LEMMA SomeKeys ==
  ASSUME NEW c \in DOMAIN Keys, NEW k \in Cuts
  PROVE  ToSet(SubSeq(Keys[c], 1, Min({k, Len(Keys[c]) - 1}))) \subseteq ToSet(Keys[c])
<1> DEFINE s == Keys[c]
           T == {k, Len(s) - 1}
           m == Min(T)
<1>1. s \in Seq(Words) /\ Len(s) > 0 /\ k \in Nat
  BY KeysAre, BoundAssumption
<1> HIDE DEF s
<1>2. m \in Int /\ m =< Len(s)
  <2>1. Len(s) \in Nat
    BY <1>1
  <2>2. (\E x \in T : \A y \in T : x =< y) /\ Len(s) - 1 \in T /\ T \subseteq Int
    BY <1>1, <2>1
  <2>3. m \in Int /\ m =< Len(s) - 1
    <3> HIDE DEF T
    <3> QED BY <2>2 DEF Min
  <2> QED BY <1>1, <2>1, <2>3
<1> HIDE DEF m, T
<1>3. ToSet(SubSeq(s, 1, m)) \subseteq ToSet(s)
  <2>1. \A i \in DOMAIN SubSeq(s, 1, m) : i \in DOMAIN s /\ SubSeq(s, 1, m)[i] = s[i]
    BY <1>1, <1>2
  <2> QED BY <2>1 DEF ToSet
<1> QED
  BY <1>3 DEF s, T, m


\* What the steps of a thread leave as it was, and which do not.
Frame(t) ==
  /\ UNCHANGED << obj, due >> \/ End(t)
  /\ UNCHANGED << cfgd, memory >> \/ CallFails(t) \/ Clean(t) \/ Configure(t) \/ CreateJob(t)
  /\ UNCHANGED << bound, version, pending, dbReady >>
  /\ UNCHANGED << tpl, kust >> \/ Patch(t) \/ OpenKustomization(t) \/ CloseKustomization(t)
  /\ UNCHANGED job \/ CreateJob(t) \/ RemoveByOwner(t) \/ RemoveBySpec(t)
  /\ UNCHANGED pods \/ Apply(t)
  /\ UNCHANGED made \/ Account(t) \/ AddUser(t) \/ MakeBucket(t) \/ Grant(t) \/ WaitForService(t)
  /\ UNCHANGED notes \/ Annotate(t) \/ AnnotateFails(t) \/ Endpoint(t)
  /\ UNCHANGED doc \/ Save(t)
  /\ UNCHANGED sys \/ Deploy(t) \/ DeployFails(t)
  /\ UNCHANGED sysnote \/ Report(t)
  /\ UNCHANGED crossed \/ Preloads(t) \/ Clean(t)
  /\ UNCHANGED dropped \/ Clean(t)
  /\ UNCHANGED missed \/ CallFails(t)

LEMMA Frames ==
  ASSUME NEW t \in Threads, Working(t)
  PROVE  Frame(t)
<1> USE DEF object, config, runtimes, files, cluster, stored, ghosts
<1>1. CASE End(t)
  BY <1>1 DEF End, Frame
<1>2. CASE CallFails(t)
  BY <1>2 DEF CallFails, Frame
<1>3. CASE Preloads(t)
  <2>1. dropped' = dropped /\ missed' = missed
    BY <1>3 DEF Preloads
  <2>2. CASE ReadRuntimes(t)
    BY <1>3, <2>1, <2>2 DEF ReadRuntimes, Frame
  <2>3. CASE Patch(t)
    BY <1>3, <2>1, <2>3 DEF Patch, Frame
  <2>4. CASE OpenKustomization(t)
    BY <1>3, <2>1, <2>4 DEF OpenKustomization, Frame
  <2>5. CASE CloseKustomization(t)
    BY <1>3, <2>1, <2>5 DEF CloseKustomization, Frame
  <2>6. CASE Build(t)
    BY <1>3, <2>1, <2>6 DEF Build, Frame
  <2>7. CASE CreateJob(t)
    BY <1>3, <2>1, <2>7 DEF CreateJob, Frame
  <2>8. CASE RemoveByOwner(t)
    BY <1>3, <2>1, <2>8 DEF RemoveByOwner, Frame
  <2>9. CASE RemoveBySpec(t)
    BY <1>3, <2>1, <2>9 DEF RemoveBySpec, Frame
  <2> QED BY <1>3, <2>2, <2>3, <2>4, <2>5, <2>6, <2>7, <2>8, <2>9 DEF Preloads
<1>4. CASE Configures(t)
  <2>1. CASE Clean(t)
    BY <2>1 DEF Clean, Frame
  <2>2. CASE Configure(t)
    BY <2>2 DEF Configure, Frame
  <2>3. CASE Apihost(t)
    BY <2>3 DEF Apihost, Frame
  <2>4. CASE GetOwner(t)
    BY <2>4 DEF GetOwner, Frame
  <2> QED BY <1>4, <2>1, <2>2, <2>3, <2>4 DEF Configures
<1>5. CASE Creates(t)
  <2>1. CASE Apply(t)
    BY <2>1 DEF Apply, Frame
  <2>2. CASE PickPod(t)
    BY <2>2 DEF PickPod, Frame
  <2>3. CASE NoPod(t)
    BY <2>3 DEF NoPod, Frame
  <2>4. CASE WaitForPod(t)
    BY <2>4 DEF WaitForPod, Frame
  <2>5. CASE Annotate(t)
    BY <2>5 DEF Annotate, Frame
  <2>6. CASE AnnotateFails(t)
    BY <2>6 DEF AnnotateFails, Frame
  <2>7. CASE Account(t)
    BY <2>7 DEF Account, Frame
  <2>8. CASE AddUser(t)
    BY <2>8 DEF AddUser, Frame
  <2>9. CASE MakeBucket(t)
    BY <2>9 DEF MakeBucket, Frame
  <2>10. CASE Grant(t)
    BY <2>10 DEF Grant, Frame
  <2>11. CASE WaitForService(t)
    BY <2>11 DEF WaitForService, Frame
  <2>12. CASE Endpoint(t)
    BY <2>12 DEF Endpoint, Frame
  <2> QED
    BY <1>5, <2>1, <2>2, <2>3, <2>4, <2>5, <2>6, <2>7, <2>8, <2>9, <2>10, <2>11, <2>12 DEF Creates
<1>6. CASE Finishes(t)
  <2>1. CASE Save(t)
    BY <2>1 DEF Save, Frame
  <2>2. CASE Deploy(t)
    BY <2>2 DEF Deploy, Frame
  <2>3. CASE DeployFails(t)
    BY <2>3 DEF DeployFails, Frame
  <2>4. CASE DeployGivesUp(t)
    BY <2>4 DEF DeployGivesUp, Frame
  <2>5. CASE Report(t)
    BY <2>5 DEF Report, Frame
  <2>6. CASE Delete(t)
    BY <2>6 DEF Delete, Frame
  <2> QED BY <1>6, <2>1, <2>2, <2>3, <2>4, <2>5, <2>6 DEF Finishes
<1> QED
  BY <1>1, <1>2, <1>3, <1>4, <1>5, <1>6 DEF Working

\* What the steps outside the handlers leave as it was.
LEMMA Outside ==
  ASSUME Next
  PROVE  \/ Begin /\ UNCHANGED << object, config, runtimes, files, job, cluster, stored, ghosts, troubles >>
         \/ (\E found \in BOOLEAN : Watch(found))
              /\ UNCHANGED << object, config, version, files, job, cluster, stored, ghosts >>
         \/ Rollout /\ UNCHANGED << object, config, runtimes, files, job, made, dbReady, stored,
                                    crossed, dropped, troubles >>
         \/ (AddWhisk \/ DiscardWhisk)
              /\ UNCHANGED << bound, config, runtimes, files, job, cluster, stored, ghosts, troubles >>
         \/ EditRuntimes /\ UNCHANGED << object, config, files, job, cluster, stored, ghosts, troubles >>
         \/ DatabasesMade
              /\ UNCHANGED << object, config, runtimes, files, job, pods, made, stored, ghosts, troubles >>
         \/ Collect
              /\ UNCHANGED << object, config, runtimes, files, made, dbReady, stored, ghosts, troubles >>
         \/ Restart /\ UNCHANGED << bound, obj, version, job, cluster, stored, crossed, dropped >>
         \/ \E w \in Workloads :
              \/ PodReady(w) /\ UNCHANGED << object, config, runtimes, files, job, made, dbReady, stored,
                                             ghosts, troubles >>
              \/ PodLost(w) /\ UNCHANGED << object, config, runtimes, files, job, dbReady, stored, ghosts >>
         \/ \E t \in Threads : Working(t) /\ Frame(t)
<1>1. CASE Begin
  BY <1>1 DEF Begin
<1>2. CASE \E found \in BOOLEAN : Watch(found)
  BY <1>2 DEF Watch
<1>3. CASE Rollout
  BY <1>3 DEF Rollout
<1>4. CASE Around
  <2>1. CASE AddWhisk \/ DiscardWhisk
    BY <2>1 DEF AddWhisk, DiscardWhisk
  <2>2. CASE EditRuntimes
    BY <2>2 DEF EditRuntimes
  <2>3. CASE DatabasesMade
    BY <2>3 DEF DatabasesMade
  <2>4. CASE Collect
    BY <2>4 DEF Collect
  <2>5. CASE Restart
    BY <2>5 DEF Restart
  <2>6. ASSUME NEW w \in Workloads, PodReady(w)
        PROVE  UNCHANGED << object, config, runtimes, files, job, made, dbReady, stored, ghosts, troubles >>
    BY <2>6 DEF PodReady
  <2>7. ASSUME NEW w \in Workloads, PodLost(w)
        PROVE  UNCHANGED << object, config, runtimes, files, job, dbReady, stored, ghosts >>
    BY <2>7 DEF PodLost
  <2> QED BY <1>4, <2>1, <2>2, <2>3, <2>4, <2>5, <2>6, <2>7 DEF Around
<1>5. CASE \E t \in Threads : Working(t)
  BY <1>5, Frames
<1> QED
  BY <1>1, <1>2, <1>3, <1>4, <1>5, NextIs

\* The values the actions write are of their types.
LEMMA ObjectKept ==
  ASSUME TypeInv, Next
  PROVE  TheObject' /\ TheGhosts'
<1>1. TheObject /\ TheGhosts /\ bound' = bound
  BY StepBounds DEF TypeInv, Values
<1>2. /\ obj' \in {"absent", "present", "deleting", "gone"}
      /\ due' \in {"none", "create", "delete", "resume"}
  <2>1. UNCHANGED << obj, due >> \/ AddWhisk \/ DiscardWhisk \/ Restart \/ \E t \in Threads : End(t)
    BY Outside DEF object, Frame
  <2>2. CASE AddWhisk \/ DiscardWhisk
    BY <1>1, <2>2 DEF AddWhisk, DiscardWhisk
  <2>3. CASE Restart
    BY <1>1, <2>3 DEF Restart, TheObject
  <2>4. CASE \E t \in Threads : End(t)
    BY <1>1, <2>4 DEF End, TheObject
  <2> QED BY <1>1, <2>1, <2>2, <2>3, <2>4 DEF TheObject
<1>3. crossed' \in BOOLEAN /\ dropped' \in BOOLEAN /\ missed' \in BOOLEAN
  <2>1. \/ UNCHANGED ghosts \/ Rollout \/ Restart
        \/ \E t \in Threads : Preloads(t) \/ Clean(t) \/ CallFails(t)
    BY Outside DEF ghosts, Frame
  <2>2. CASE Rollout
    BY <1>1, <2>2 DEF Rollout, TheGhosts
  <2>3. CASE Restart
    BY <1>1, <2>3 DEF Restart, TheGhosts
  <2>4. ASSUME NEW t \in Threads, Preloads(t)
        PROVE  crossed' \in BOOLEAN /\ dropped' \in BOOLEAN /\ missed' \in BOOLEAN
    BY <1>1, <2>4 DEF Preloads, TheGhosts
  <2>5. ASSUME NEW t \in Threads, Clean(t)
        PROVE  crossed' \in BOOLEAN /\ dropped' \in BOOLEAN /\ missed' \in BOOLEAN
    BY <1>1, <2>5 DEF Clean, TheGhosts
  <2>6. ASSUME NEW t \in Threads, CallFails(t)
        PROVE  crossed' \in BOOLEAN /\ dropped' \in BOOLEAN /\ missed' \in BOOLEAN
    BY <1>1, <2>6 DEF CallFails, TheGhosts, ghosts
  <2> QED BY <1>1, <2>1, <2>2, <2>3, <2>4, <2>5, <2>6 DEF TheGhosts, ghosts
<1> QED
  BY <1>1, <1>2, <1>3 DEF TheObject, TheGhosts

LEMMA RuntimesKept ==
  ASSUME TypeInv, Next
  PROVE  TheRuntimes'
<1> DEFINE V == bound.versions
<1>1. TheRuntimes /\ bound' = bound
  BY StepBounds DEF TypeInv, Values
<1>2. V \in Nat \ {0} /\ version \in Nat /\ version > 0 /\ version =< V /\ tpl \in Nat /\ tpl =< V
  BY Versions, Sizes DEF TypeInv
<1>t. \A t \in Threads : /\ th[t].seen \in 0 .. V /\ th[t].spec \in 0 .. V /\ th[t].owner \in BOOLEAN
  BY ThreadIs DEF Record
<1>0. NoSpec \in NoSpec .. V /\ [v |-> 0, owned |-> FALSE] \in [v : 0 .. V, owned : BOOLEAN]
  BY <1>2 DEF NoSpec
<1>3. cfgd' \in BOOLEAN /\ memory' \in NoSpec .. V
  <2>1. \/ UNCHANGED << cfgd, memory >> \/ Restart
        \/ \E t \in Threads : CallFails(t) \/ Clean(t) \/ Configure(t) \/ CreateJob(t)
    BY Outside DEF config, Frame
  <2>2. CASE Restart
    BY <1>0, <2>2 DEF Restart
  <2>3. ASSUME NEW t \in Threads, CallFails(t)
        PROVE  cfgd' \in BOOLEAN /\ memory' \in NoSpec .. V
    BY <1>1, <1>2, <1>t, <2>3 DEF CallFails, NoSpec, TheRuntimes
  <2>4. ASSUME NEW t \in Threads, Clean(t) \/ Configure(t)
        PROVE  cfgd' \in BOOLEAN /\ memory' \in NoSpec .. V
    BY <1>0, <1>1, <2>4 DEF Clean, Configure, TheRuntimes
  <2>5. ASSUME NEW t \in Threads, CreateJob(t)
        PROVE  cfgd' \in BOOLEAN /\ memory' \in NoSpec .. V
    BY <1>1, <1>2, <1>t, <2>5 DEF CreateJob, NoSpec, TheRuntimes
  <2> QED BY <1>1, <2>1, <2>2, <2>3, <2>4, <2>5 DEF TheRuntimes
<1>4. version' \in 1 .. V /\ pending' \in BOOLEAN
  <2>1. UNCHANGED << version, pending >> \/ EditRuntimes \/ Restart \/ \E found \in BOOLEAN : Watch(found)
    BY Outside DEF runtimes, Frame
  <2>2. CASE EditRuntimes
    BY <1>1, <1>2, <2>2 DEF EditRuntimes
  <2>3. CASE Restart \/ \E found \in BOOLEAN : Watch(found)
    BY <1>1, <2>3 DEF Restart, Watch, TheRuntimes
  <2> QED BY <1>1, <2>1, <2>2, <2>3 DEF TheRuntimes
<1>5. tpl' \in 0 .. V /\ kust' \in {"none", "torn", "full"}
  <2>1. \/ UNCHANGED << tpl, kust >> \/ Restart
        \/ \E t \in Threads : Patch(t) \/ OpenKustomization(t) \/ CloseKustomization(t)
    BY Outside DEF files, Frame
  <2>2. CASE Restart
    BY <1>2, <2>2 DEF Restart
  <2>3. ASSUME NEW t \in Threads, Patch(t) \/ OpenKustomization(t) \/ CloseKustomization(t)
        PROVE  tpl' \in 0 .. V /\ kust' \in {"none", "torn", "full"}
    BY <1>1, <1>t, <2>3 DEF Patch, OpenKustomization, CloseKustomization, TheRuntimes
  <2> QED BY <1>1, <2>1, <2>2, <2>3 DEF TheRuntimes
<1>6. job' \in [v : 0 .. V, owned : BOOLEAN]
  <2>1. \/ UNCHANGED job \/ Collect
        \/ \E t \in Threads : CreateJob(t) \/ RemoveByOwner(t) \/ RemoveBySpec(t)
    BY Outside DEF Frame
  <2>2. CASE Collect
    BY <1>1, <1>2, <2>2 DEF Collect, TheRuntimes
  <2>3. ASSUME NEW t \in Threads, CreateJob(t)
        PROVE  job' \in [v : 0 .. V, owned : BOOLEAN]
    BY <1>1, <1>t, <2>3 DEF CreateJob, Applied, TheRuntimes
  <2>4. ASSUME NEW t \in Threads, RemoveByOwner(t) \/ RemoveBySpec(t)
        PROVE  job' \in [v : 0 .. V, owned : BOOLEAN]
    <3>1. job' = job \/ job' = [v |-> 0, owned |-> FALSE]
      BY <2>4 DEF RemoveByOwner, RemoveBySpec, Removed
    <3> QED BY <1>0, <1>1, <3>1 DEF TheRuntimes
  <2> QED BY <1>1, <2>1, <2>2, <2>3, <2>4 DEF TheRuntimes
<1> QED
  BY <1>1, <1>3, <1>4, <1>5, <1>6 DEF TheRuntimes

\* A step that counts a trouble is one the bound lets happen.
LEMMA TroubleIs ==
  ASSUME Next
  PROVE  troubles' = troubles \/ Trouble
<1>1. CASE Begin
  BY <1>1 DEF Begin
<1>2. CASE \E found \in BOOLEAN : Watch(found)
  BY <1>2 DEF Watch
<1>3. CASE Rollout
  BY <1>3 DEF Rollout
<1>4. CASE Around
  <2>1. ASSUME NEW w \in Workloads, PodReady(w) \/ PodLost(w)
        PROVE  troubles' = troubles \/ Trouble
    BY <2>1 DEF PodReady, PodLost
  <2>2. CASE AddWhisk \/ DiscardWhisk \/ EditRuntimes \/ DatabasesMade \/ Collect \/ Restart
    BY <2>2 DEF AddWhisk, DiscardWhisk, EditRuntimes, DatabasesMade, Collect, Restart
  <2> QED BY <1>4, <2>1, <2>2 DEF Around
<1>5. ASSUME NEW t \in Threads, Working(t)
      PROVE  troubles' = troubles \/ Trouble
  <2>1. CASE End(t) \/ CallFails(t)
    BY <2>1 DEF End, CallFails
  <2>2. CASE Preloads(t)
    BY <2>2 DEF Preloads, ReadRuntimes, Patch, OpenKustomization, CloseKustomization, Build,
      CreateJob, RemoveByOwner, RemoveBySpec
  <2>3. CASE Configures(t)
    BY <2>3 DEF Configures, Clean, Configure, Apihost, GetOwner
  <2>4. CASE Creates(t)
    <3>1. CASE Apply(t) \/ PickPod(t) \/ NoPod(t) \/ WaitForPod(t)
      BY <3>1 DEF Apply, PickPod, NoPod, WaitForPod
    <3>2. CASE Annotate(t) \/ AnnotateFails(t) \/ Account(t) \/ AddUser(t)
      BY <3>2 DEF Annotate, AnnotateFails, Account, AddUser
    <3>3. CASE MakeBucket(t)
      BY <3>3 DEF MakeBucket, Gain
    <3>4. CASE Grant(t) \/ WaitForService(t) \/ Endpoint(t)
      BY <3>4 DEF Grant, WaitForService, Endpoint
    <3> QED BY <2>4, <3>1, <3>2, <3>3, <3>4 DEF Creates
  <2>5. CASE Finishes(t)
    BY <2>5 DEF Finishes, Save, Deploy, DeployFails, DeployGivesUp, Report, Delete
  <2> QED BY <1>5, <2>1, <2>2, <2>3, <2>4, <2>5 DEF Working
<1> QED
  BY <1>1, <1>2, <1>3, <1>4, <1>5, NextIs

LEMMA PodsKept ==
  ASSUME TypeInv, Next
  PROVE  ThePods'
<1> DEFINE Pod == [n : Nat, up : BOOLEAN, v : 0 .. bound.versions]
<1>1. ThePods /\ bound' = bound /\ troubles' \in {troubles, troubles + 1}
  BY StepBounds DEF TypeInv, Values
<1>2. /\ bound.versions \in Nat \ {0} /\ bound.troubles \in Nat /\ troubles \in Nat
      /\ version \in 0 .. bound.versions /\ 0 \in 0 .. bound.versions
      /\ troubles \in 0 .. bound.troubles /\ troubles =< troubles'
  BY <1>1, Versions, Sizes DEF TypeInv
<1>3. troubles' \in 0 .. bound.troubles
  <2>1. troubles' = troubles \/ Trouble
    BY TroubleIs
  <2> QED BY <1>2, <2>1 DEF Trouble
<1>5. pods' \in [Workloads -> Pod] /\ \A w \in Workloads : pods'[w].n =< troubles' + 1
  <2>1. \/ UNCHANGED pods \/ Collect \/ Rollout \/ \E t \in Threads : Working(t) /\ Apply(t)
        \/ \E w \in Workloads : PodReady(w) \/ PodLost(w)
    BY Outside DEF cluster, Frame
  <2>2. CASE UNCHANGED pods
    BY <1>1, <1>2, <2>2 DEF ThePods
  <2>3. CASE Collect
    BY <1>2, <2>3 DEF Collect
  <2>4. CASE Rollout
    BY <1>1, <1>2, <2>4 DEF Rollout, ThePods
  <2>5. ASSUME NEW t \in Threads, Apply(t)
        PROVE  pods' \in [Workloads -> Pod] /\ \A w \in Workloads : pods'[w].n =< troubles' + 1
    <3>1. Now(t).w \in Workloads
      BY <2>5, FirstStep DEF Apply, At, Fits, Suits
    <3> QED BY <1>1, <1>2, <2>5, <3>1 DEF Apply, ThePods
  <2>6. ASSUME NEW w \in Workloads, PodReady(w)
        PROVE  pods' \in [Workloads -> Pod] /\ \A x \in Workloads : pods'[x].n =< troubles' + 1
    BY <1>1, <1>2, <2>6 DEF PodReady, ThePods
  <2>7. ASSUME NEW w \in Workloads, PodLost(w)
        PROVE  pods' \in [Workloads -> Pod] /\ \A x \in Workloads : pods'[x].n =< troubles' + 1
    <3> DEFINE n == IF w \in Renamed THEN pods[w].n + 1 ELSE pods[w].n
               y == [n |-> n, up |-> FALSE, v |-> version]
    <3>1. pods' = [pods EXCEPT ![w] = y] /\ troubles' = troubles + 1
      BY <2>7 DEF PodLost, Trouble
    <3>2. pods \in [Workloads -> Pod] /\ \A x \in Workloads : pods[x].n \in Nat /\ pods[x].n =< troubles + 1
      BY <1>1 DEF ThePods
    <3>3. n \in Nat /\ n =< troubles + 2
      BY <1>2, <3>2
    <3> HIDE DEF n
    <3>4. y \in Pod /\ y.n = n
      BY <1>2, <3>3
    <3> HIDE DEF y
    <3>5. pods' \in [Workloads -> Pod] /\ \A x \in Workloads : pods'[x] = IF x = w THEN y ELSE pods[x]
      BY <3>1, <3>2, <3>4
    <3>6. \A x \in Workloads : pods'[x].n =< troubles + 2
      BY <1>2, <3>2, <3>3, <3>4, <3>5
    <3> QED BY <1>2, <3>1, <3>5, <3>6
  <2> QED BY <2>1, <2>2, <2>3, <2>4, <2>5, <2>6, <2>7
<1> QED
  BY <1>1, <1>3, <1>5 DEF ThePods

LEMMA RecordsKept ==
  ASSUME TypeInv, Next
  PROVE  TheRecords'
<1> DEFINE There == {"redis user", "minio user", "data bucket", "web bucket", "policy", "postgres"}
<1>1. TheRecords
  BY DEF TypeInv, Values
<1>2. \A t \in Threads : th[t].left # << >> => Fits(Now(t))
  BY FirstStep
<1>3. made' \subseteq There
  <2>1. \/ UNCHANGED made \/ \E w \in Workloads : PodLost(w)
        \/ \E t \in Threads : \/ Account(t) \/ AddUser(t) \/ MakeBucket(t) \/ Grant(t) \/ WaitForService(t)
    BY Outside DEF cluster, Frame
  <2>2. ASSUME NEW w \in Workloads, PodLost(w)
        PROVE  made' \subseteq There
    BY <1>1, <2>2 DEF PodLost, TheRecords
  <2>3. ASSUME NEW t \in Threads, Account(t) \/ AddUser(t) \/ Grant(t) \/ WaitForService(t)
        PROVE  made' \subseteq There
    BY <1>1, <2>3 DEF Account, AddUser, Grant, WaitForService, TheRecords
  <2>4. ASSUME NEW t \in Threads, MakeBucket(t)
        PROVE  made' \subseteq There
    <3>1. Now(t).c \in {"data bucket", "web bucket"}
      BY <1>2, <2>4 DEF MakeBucket, At, Fits, Suits
    <3>2. made' \subseteq made \cup {Now(t).c}
      BY <2>4 DEF MakeBucket, Gain
    <3> QED BY <1>1, <3>1, <3>2 DEF TheRecords
  <2> QED BY <1>1, <2>1, <2>2, <2>3, <2>4 DEF TheRecords
<1>4. notes' \subseteq AllKeys \cup {"APIHOST"}
  <2>1. UNCHANGED notes \/ \E t \in Threads : Annotate(t) \/ AnnotateFails(t) \/ Endpoint(t)
    BY Outside DEF stored, Frame
  <2>2. ASSUME NEW t \in Threads, Annotate(t) \/ AnnotateFails(t)
        PROVE  notes' \subseteq AllKeys \cup {"APIHOST"}
    <3>1. Now(t).c \in DOMAIN Keys
      BY <1>2, <2>2 DEF Annotate, AnnotateFails, At, Fits, Suits
    <3>2. ToSet(Keys[Now(t).c]) \subseteq AllKeys
      BY <3>1 DEF AllKeys
    <3>3. notes' \subseteq notes \cup ToSet(Keys[Now(t).c])
      <4>1. CASE Annotate(t)
        BY <4>1 DEF Annotate
      <4>2. CASE AnnotateFails(t)
        <5>1. PICK k \in Cuts :
                notes' = notes \cup ToSet(SubSeq(Keys[Now(t).c], 1, Min({k, Len(Keys[Now(t).c]) - 1})))
          BY <4>2 DEF AnnotateFails
        <5>2. ToSet(SubSeq(Keys[Now(t).c], 1, Min({k, Len(Keys[Now(t).c]) - 1}))) \subseteq
                ToSet(Keys[Now(t).c])
          BY <3>1, SomeKeys
        <5> QED BY <5>1, <5>2
      <4> QED BY <2>2, <4>1, <4>2
    <3> QED BY <1>1, <3>2, <3>3 DEF TheRecords
  <2>3. ASSUME NEW t \in Threads, Endpoint(t)
        PROVE  notes' \subseteq AllKeys \cup {"APIHOST"}
    BY <1>1, <2>3 DEF Endpoint, TheRecords
  <2> QED BY <1>1, <2>1, <2>2, <2>3 DEF TheRecords
<1>5. doc' \subseteq Document(AllKeys)
  <2>1. UNCHANGED doc \/ \E t \in Threads : Save(t)
    BY Outside DEF stored, Frame
  <2>2. ASSUME NEW t \in Threads, Save(t)
        PROVE  doc' \subseteq Document(AllKeys)
    <3>1. Document(notes) \subseteq Document(AllKeys)
          /\ \A k : Document(notes \ {k}) \subseteq Document(AllKeys)
      BY <1>1 DEF TheRecords, Document
    <3>2. doc' = doc \/ doc' = Document(notes) \/ \E k : doc' = Document(notes \ {k})
      BY <2>2 DEF Save
    <3> QED BY <1>1, <3>1, <3>2 DEF TheRecords
  <2> QED BY <1>1, <2>1, <2>2 DEF TheRecords
<1>6. sys' \in {"none", "part", "all"} /\ sysnote' \in {"none", "created", "failed"}
  <2>1. /\ UNCHANGED sys \/ \E t \in Threads : Deploy(t) \/ DeployFails(t)
        /\ UNCHANGED sysnote \/ \E t \in Threads : Report(t)
    BY Outside DEF stored, Frame
  <2>2. ASSUME NEW t \in Threads, Deploy(t) \/ DeployFails(t)
        PROVE  sys' \in {"none", "part", "all"}
    BY <1>1, <2>2 DEF Deploy, DeployFails, TheRecords
  <2>3. ASSUME NEW t \in Threads, Report(t)
        PROVE  sysnote' \in {"none", "created", "failed"}
    BY <1>1, <2>3 DEF Report, At, TheRecords
  <2> QED BY <1>1, <2>1, <2>2, <2>3 DEF TheRecords
<1>7. dbReady' \in BOOLEAN
  <2>1. UNCHANGED dbReady \/ DatabasesMade
    BY Outside DEF cluster, Frame
  <2> QED BY <1>1, <2>1 DEF DatabasesMade, TheRecords
<1> QED
  BY <1>3, <1>4, <1>5, <1>6, <1>7 DEF TheRecords

LEMMA InitTypes == Init => TypeInv
<1> SUFFICES ASSUME Init
             PROVE  TypeInv
  OBVIOUS
<1>1. bound \in Instances /\ bound.versions \in Nat \ {0} /\ bound.troubles \in Nat
  BY BoundIs DEF Init
<1>2. TheObject /\ TheGhosts /\ TheRuntimes /\ ThePods /\ TheRecords
  <2>1. TheObject /\ TheGhosts
    BY <1>1 DEF Init, TheObject, TheGhosts
  <2>2. TheRuntimes
    <3>1. NoSpec \in NoSpec .. bound.versions /\ 1 \in 1 .. bound.versions
          /\ 0 \in 0 .. bound.versions
      BY <1>1 DEF NoSpec
    <3> QED BY <3>1 DEF Init, TheRuntimes
  <2>3. ThePods
    BY <1>1 DEF Init, ThePods
  <2>4. TheRecords
    BY DEF Init, TheRecords
  <2> QED BY <2>1, <2>2, <2>3, <2>4
<1>3. Workers
  <2>1. th = [t \in Threads |-> Idle] /\ troubles + 1 \in Nat
    BY DEF Init
  <2>2. \A t : Worker(t, Idle, troubles + 1, bound.versions, Len(WhiskCreate))
    BY <1>1, <2>1, IdleWorker
  <2>3. Idle \in Record
    BY <2>2 DEF Worker
  <2> QED BY <2>1, <2>2, <2>3 DEF Workers
<1> QED
  BY <1>2, <1>3 DEF TypeInv, Values

LEMMA TypeInvKept == TypeInv /\ [Next]_vars => TypeInv'
<1>1. CASE Next
  BY <1>1, ObjectKept, RuntimesKept, PodsKept, RecordsKept, WorkersKept DEF TypeInv, Values
<1>2. ASSUME TypeInv, UNCHANGED vars
      PROVE  TypeInv'
  <2> USE DEF vars, object, config, runtimes, files, cluster, stored, ghosts
  <2>1. Values'
    <3>1. TheObject' /\ TheGhosts'
      BY <1>2 DEF TypeInv, Values, TheObject, TheGhosts
    <3>2. TheRuntimes'
      BY <1>2 DEF TypeInv, Values, TheRuntimes
    <3>3. ThePods'
      BY <1>2 DEF TypeInv, Values, ThePods
    <3>4. TheRecords'
      BY <1>2 DEF TypeInv, Values, TheRecords
    <3> QED BY <3>1, <3>2, <3>3, <3>4 DEF Values
  <2>2. Workers'
    BY <1>2, ThreadsStay
  <2> QED BY <2>1, <2>2 DEF TypeInv
<1> QED
  BY <1>1, <1>2

\* Every value is of its type in every state: the steps a thread has left are
\* a part of its handler's program, and the versions, the names of Pods and the
\* keys on record stay within what edits, lost Pods and annotations can make
\* (whisk_create, runtimes_cm_event_watcher, openwhisk.annotate).
THEOREM TypeCorrect == Spec => []TypeOK
<1>1. Spec => []TypeInv
  BY InitTypes, TypeInvKept, PTL DEF Spec
<1> QED
  BY <1>1, TypeInvTypeOK, PTL
--------------------------------------------------------------------------------
\* How a step of a thread changes what the thread has left.

\* What the step x has done when the thread goes on to the next.
Did(x) ==
  /\ x.do = "service" => "postgres" \in made'
  /\ x.do \in {"account", "user", "bucket"} => x.c \in made'
Motion(t) ==
  LET L == th[t].left
      M == th'[t].left
  IN /\ \A s \in Threads \ {t} : th'[s] = th[s]
     /\ \/ M = L \/ M = << >>
        \/ L # << >> /\ M = Tail(L) /\ Did(Now(t))
        \/ At(t, "pick") /\ M = Tail(Tail(L))
        \/ \E cs : "postgres" \notin cs /\ M = After(L, cs)
        \/ \E done \in BOOLEAN :
             /\ M = Of("result", "none", << IF done THEN "created" ELSE "failed" >>)
             /\ done => sys' = "all"

LEMMA Replacing ==
  ASSUME TypeInv, NEW t \in Threads, NEW y, th' = [th EXCEPT ![t] = y]
  PROVE  th'[t] = y /\ \A s \in Threads \ {t} : th'[s] = th[s]
BY DEF TypeInv, Workers

LEMMA GoesMotion ==
  ASSUME TypeInv, NEW t \in Threads, Goes(t), th[t].left # << >>, Did(Now(t))
  PROVE  Motion(t)
<1> DEFINE y == [th[t] EXCEPT !.left = Tail(@)]
<1>1. y.left = Tail(th[t].left)
  BY ThreadIs DEF Record
<1>2. th' = [th EXCEPT ![t] = y]
  BY DEF Goes
<1> HIDE DEF y
<1> QED
  BY <1>1, <1>2, Replacing DEF Motion

LEMMA SkipsMotion ==
  ASSUME TypeInv, NEW t \in Threads, NEW cs, Skips(t, cs), "postgres" \notin cs
  PROVE  Motion(t)
<1> DEFINE y == [th[t] EXCEPT !.left = After(@, cs)]
<1>1. y.left = After(th[t].left, cs)
  BY ThreadIs DEF Record
<1>2. th' = [th EXCEPT ![t] = y]
  BY DEF Skips
<1> HIDE DEF y
<1> QED
  BY <1>1, <1>2, Replacing DEF Motion

LEMMA IdleMotion ==
  ASSUME TypeInv, NEW t \in Threads, th' = [th EXCEPT ![t] = Idle]
  PROVE  Motion(t)
<1>1. Idle.left = << >>
  BY DEF Idle
<1> QED
  BY <1>1, Replacing DEF Motion

LEMMA RaiseMotion ==
  ASSUME TypeInv, NEW t \in Threads, Raise(t)
  PROVE  Motion(t)
<1>1. CASE Now(t).c \in Caught
  <2>1. "postgres" \notin Inside(Now(t).c)
    BY <1>1 DEF Caught, Inside
  <2> QED BY <1>1, <2>1, SkipsMotion DEF Raise
<1>2. CASE Now(t).c \notin Caught
  BY <1>2, IdleMotion DEF Raise
<1> QED
  BY <1>1, <1>2

LEMMA ResultMotion ==
  ASSUME TypeInv, NEW t \in Threads, NEW done \in BOOLEAN, Result(t, done), At(t, "deploy"),
         done => sys' = "all"
  PROVE  Motion(t)
<1>1. CASE th[t].op # "create"
  BY <1>1, GoesMotion DEF Result, At, Did
<1>2. CASE th[t].op = "create"
  <2> DEFINE M == Of("result", "none", << IF done THEN "created" ELSE "failed" >>)
             y == [th[t] EXCEPT !.left = M]
  <2>1. y.left = M
    BY ThreadIs DEF Record
  <2>2. th' = [th EXCEPT ![t] = y]
    BY <1>2 DEF Result
  <2> HIDE DEF y
  <2> QED BY <2>1, <2>2, Replacing DEF Motion
<1> QED
  BY <1>1, <1>2

LEMMA Motions ==
  ASSUME TypeInv, NEW t \in Threads, Working(t)
  PROVE  Motion(t)
<1>f. th[t].left # << >> => Fits(Now(t))
  BY FirstStep
<1>r. th[t] \in Record
  BY ThreadIs
<1>1. CASE End(t)
  BY <1>1, IdleMotion DEF End
<1>2. CASE CallFails(t)
  BY <1>2, RaiseMotion DEF CallFails
<1>3. CASE Preloads(t)
  <2>1. CASE ReadRuntimes(t)
    <3> DEFINE y == [th[t] EXCEPT !.left = Tail(@), !.seen = version]
    <3>1. th' = [th EXCEPT ![t] = y]
      BY <2>1 DEF ReadRuntimes
    <3>2. y.left = Tail(th[t].left) /\ th[t].left # << >> /\ Did(Now(t))
      BY <1>r, <2>1 DEF ReadRuntimes, At, Did, Record
    <3> HIDE DEF y
    <3> QED BY <3>1, <3>2, Replacing DEF Motion
  <2>2. CASE Build(t)
    <3> DEFINE s == IF kust = "full" THEN tpl ELSE 0
               y == [th[t] EXCEPT !.left = Tail(@), !.spec = s]
    <3>1. th' = [th EXCEPT ![t] = y]
      BY <2>2 DEF Build
    <3>2. y.left = Tail(th[t].left) /\ th[t].left # << >> /\ Did(Now(t))
      BY <1>r, <2>2 DEF Build, At, Did, Record
    <3> HIDE DEF y
    <3> QED BY <3>1, <3>2, Replacing DEF Motion
  <2>3. CASE Patch(t) \/ OpenKustomization(t) \/ CloseKustomization(t)
    BY <2>3, GoesMotion DEF Patch, OpenKustomization, CloseKustomization, At, Did
  <2>4. CASE CreateJob(t)
    BY <2>4, GoesMotion, RaiseMotion DEF CreateJob, Applied, At, Did
  <2>5. CASE RemoveByOwner(t) \/ RemoveBySpec(t)
    BY <2>5, GoesMotion, RaiseMotion DEF RemoveByOwner, RemoveBySpec, Removed, At, Did
  <2> QED BY <1>3, <2>1, <2>2, <2>3, <2>4, <2>5 DEF Preloads
<1>4. CASE Configures(t)
  <2>1. CASE Clean(t) \/ Configure(t)
    BY <2>1, GoesMotion DEF Clean, Configure, At, Did
  <2>2. CASE Apihost(t)
    BY <2>2, GoesMotion, RaiseMotion DEF Apihost, At, Did
  <2>3. CASE GetOwner(t)
    <3>1. th[t].left # << >> /\ Did(Now(t))
      BY <2>3 DEF GetOwner, At, Did
    <3>2. CASE Goes(t)
      BY <3>1, <3>2, GoesMotion
    <3>3. CASE th' = [th EXCEPT ![t].left = Tail(@), ![t].owner = TRUE]
      <4> DEFINE y == [th[t] EXCEPT !.left = Tail(@), !.owner = TRUE]
      <4>1. th' = [th EXCEPT ![t] = y]
        BY <3>3
      <4>2. y.left = Tail(th[t].left)
        BY <1>r DEF Record
      <4> HIDE DEF y
      <4> QED BY <3>1, <4>1, <4>2, Replacing DEF Motion
    <3> QED BY <2>3, <3>2, <3>3 DEF GetOwner
  <2> QED BY <1>4, <2>1, <2>2, <2>3 DEF Configures
<1>5. CASE Creates(t)
  <2>1. CASE Apply(t) \/ WaitForPod(t) \/ Annotate(t) \/ Grant(t) \/ Endpoint(t)
    BY <2>1, GoesMotion DEF Apply, WaitForPod, Annotate, Grant, Endpoint, At, Did
  <2>2. CASE PickPod(t)
    <3> DEFINE p == pods[Now(t).w].n
               y == [th[t] EXCEPT !.left = Tail(@), !.pod = p]
    <3>1. th' = [th EXCEPT ![t] = y]
      BY <2>2 DEF PickPod
    <3>2. y.left = Tail(th[t].left) /\ th[t].left # << >> /\ Did(Now(t))
      BY <1>r, <2>2 DEF PickPod, At, Did, Record
    <3> HIDE DEF y
    <3> QED BY <3>1, <3>2, Replacing DEF Motion
  <2>3. CASE NoPod(t)
    <3> DEFINE y == [th[t] EXCEPT !.left = Tail(Tail(@))]
    <3>1. th' = [th EXCEPT ![t] = y] /\ At(t, "pick")
      BY <2>3 DEF NoPod
    <3>2. y.left = Tail(Tail(th[t].left))
      BY <1>r DEF Record
    <3> HIDE DEF y
    <3> QED BY <3>1, <3>2, Replacing DEF Motion
  <2>4. CASE AnnotateFails(t)
    BY <2>4, RaiseMotion DEF AnnotateFails
  <2>5. CASE Account(t)
    <3>1. Now(t).do = "account" /\ Now(t).c = "redis user" /\ th[t].left # << >>
      BY <1>f, <2>5 DEF Account, At, Fits, Suits
    <3> QED BY <2>5, <3>1, GoesMotion, RaiseMotion DEF Account, Did
  <2>6. CASE WaitForService(t)
    BY <2>6, GoesMotion, RaiseMotion DEF WaitForService, At, Did
  <2>7. CASE AddUser(t)
    <3>1. Now(t).do = "user" /\ Now(t).c = "minio user" /\ th[t].left # << >>
      BY <1>f, <2>7 DEF AddUser, At, Fits, Suits
    <3> QED BY <2>7, <3>1, GoesMotion, SkipsMotion DEF AddUser, Did
  <2>8. CASE MakeBucket(t)
    <3>1. /\ Now(t).do = "bucket" /\ Now(t).c \in {"data bucket", "web bucket"} /\ th[t].left # << >>
          /\ "postgres" \notin {Now(t).c}
      BY <1>f, <2>8 DEF MakeBucket, At, Fits, Suits
    <3> QED BY <2>8, <3>1, GoesMotion, SkipsMotion DEF MakeBucket, Gain, Did
  <2> QED BY <1>5, <2>1, <2>2, <2>3, <2>4, <2>5, <2>6, <2>7, <2>8 DEF Creates
<1>6. CASE Finishes(t)
  <2>1. CASE Save(t) \/ Delete(t)
    BY <2>1, GoesMotion DEF Save, Delete, At, Did
  <2>2. CASE Deploy(t)
    BY <2>2, ResultMotion DEF Deploy
  <2>3. CASE DeployGivesUp(t)
    BY <2>3, ResultMotion DEF DeployGivesUp
  <2>4. CASE DeployFails(t)
    BY <2>4 DEF DeployFails, Motion
  <2>5. CASE Report(t)
    BY <2>5, GoesMotion, IdleMotion DEF Report, At, Did
  <2> QED BY <1>6, <2>1, <2>2, <2>3, <2>4, <2>5 DEF Finishes
<1> QED
  BY <1>1, <1>2, <1>3, <1>4, <1>5, <1>6 DEF Working
--------------------------------------------------------------------------------
\* What is on record of an installation.

\* What there is, or what Redis has forgotten since.
There == made \cup (IF troubles > 0 THEN {"redis user"} ELSE {})

\* Every key the steps L are yet to give will be one of what there is, and they
\* say created only when all is.
Truthful(L, there, all) ==
  Backed(L, there) /\ \A i \in 1 .. Len(L) : L[i].do = "created" => all
RecordsInv ==
  /\ KeysTrue /\ SystemTrue
  /\ \A t \in Threads : Truthful(th[t].left, There, sys = "all")

\* What there is stays, but for what Redis forgets.
LEMMA ThereStays ==
  ASSUME TypeInv, Next
  PROVE  There \subseteq There' /\ (sys = "all" => sys' = "all")
<1>1. troubles \in Nat /\ troubles' \in Nat /\ troubles =< troubles'
  BY StepBounds, Sizes DEF TypeInv
<1>2. \/ made \subseteq made' \/ (made \ {"redis user"} \subseteq made' /\ troubles' > 0)
  <2>1. \/ UNCHANGED made \/ \E w \in Workloads : PodLost(w)
        \/ \E t \in Threads : \/ Account(t) \/ AddUser(t) \/ MakeBucket(t) \/ Grant(t) \/ WaitForService(t)
    BY Outside DEF cluster, Frame
  <2>2. ASSUME NEW w \in Workloads, PodLost(w)
        PROVE  made \ {"redis user"} \subseteq made' /\ troubles' > 0
    <3>1. made \ {"redis user"} \subseteq made'
      BY <2>2 DEF PodLost
    <3>2. troubles' = troubles + 1
      BY <2>2 DEF PodLost, Trouble
    <3>3. troubles' > 0
      BY <1>1, <3>2
    <3> QED BY <3>1, <3>3
  <2>3. ASSUME NEW t \in Threads, Account(t) \/ AddUser(t) \/ MakeBucket(t) \/ Grant(t) \/ WaitForService(t)
        PROVE  made \subseteq made'
    BY <2>3 DEF Account, AddUser, MakeBucket, Gain, Grant, WaitForService
  <2> QED BY <2>1, <2>2, <2>3
<1>3. There \subseteq There'
  <2>1. troubles > 0 => troubles' > 0
    BY <1>1
  <2>2. There' = made' \cup (IF troubles' > 0 THEN {"redis user"} ELSE {})
    BY DEF There
  <2> QED BY <1>2, <2>1, <2>2 DEF There
<1>4. sys = "all" => sys' = "all"
  <2>1. UNCHANGED sys \/ \E t \in Threads : Deploy(t) \/ DeployFails(t)
    BY Outside DEF stored, Frame
  <2> QED BY <2>1 DEF Deploy, DeployFails
<1> QED
  BY <1>3, <1>4

\* A sequence stays backed when steps at its front are dropped that have done
\* what those behind them rely on.
LEMMA BackedDrop ==
  ASSUME NEW L \in Seq(Step), NEW M, NEW d, Drop(L, M, d), NEW T, NEW U, T \subseteq U, Backed(L, T),
         \A j \in 1 .. d : L[j].do = "service" => "postgres" \in U,
         0 < d /\ d < Len(L) /\ L[d].do \in Gainers /\ L[d + 1].c = L[d].c => L[d].c \in U
  PROVE  Backed(M, U)
<1> SUFFICES ASSUME NEW i \in 1 .. Len(M), M[i].do = "note"
             PROVE  IF M[i].c \in PgKeys
                    THEN "postgres" \in U \/ \E j \in 1 .. i - 1 : M[j].do = "service"
                    ELSE M[i].c \in U \/ (i > 1 /\ M[i - 1].c = M[i].c /\ M[i - 1].do \in Gainers)
  BY DEF Backed
<1> DEFINE k == i + d
<1>1. /\ Len(M) \in Nat /\ Len(L) \in Nat /\ d \in Nat /\ d =< Len(L) /\ i \in Nat /\ i > 0
      /\ k \in 1 .. Len(L) /\ M[i] = L[k]
      /\ \A j \in 1 .. Len(M) : M[j] = L[j + d]
  BY DEF Drop
<1>2. IF L[k].c \in PgKeys
      THEN "postgres" \in T \/ \E j \in 1 .. k - 1 : L[j].do = "service"
      ELSE L[k].c \in T \/ (k > 1 /\ L[k - 1].c = L[k].c /\ L[k - 1].do \in Gainers)
  BY <1>1 DEF Backed
<1>3. CASE M[i].c \in PgKeys
  <2>1. CASE "postgres" \in T
    BY <1>3, <2>1
  <2>2. ASSUME NEW j \in 1 .. k - 1, L[j].do = "service"
        PROVE  "postgres" \in U \/ \E m \in 1 .. i - 1 : M[m].do = "service"
    <3>1. CASE j =< d
      <4>1. j \in 1 .. d
        BY <1>1, <3>1
      <4> QED BY <2>2, <4>1
    <3>2. CASE ~(j =< d)
      <4>1. j - d \in 1 .. i - 1 /\ j - d \in 1 .. Len(M) /\ (j - d) + d = j
        BY <1>1, <3>2
      <4>2. M[j - d] = L[j]
        BY <1>1, <4>1
      <4> QED BY <2>2, <4>1, <4>2
    <3> QED BY <3>1, <3>2
  <2> QED BY <1>1, <1>2, <1>3, <2>1, <2>2
<1>4. CASE M[i].c \notin PgKeys
  <2>1. CASE L[k].c \in T
    BY <1>1, <1>4, <2>1
  <2>2. CASE k > 1 /\ L[k - 1].c = L[k].c /\ L[k - 1].do \in Gainers
    <3>1. CASE i > 1
      <4>1. i - 1 \in 1 .. Len(M) /\ (i - 1) + d = k - 1
        BY <1>1, <3>1
      <4>2. M[i - 1] = L[k - 1]
        BY <1>1, <4>1
      <4> QED BY <1>1, <1>4, <2>2, <3>1, <4>2
    <3>2. CASE i = 1
      <4>1. 0 < d /\ d < Len(L) /\ d + 1 = k /\ k - 1 = d
        BY <1>1, <2>2, <3>2
      <4>2. L[d].c \in U
        BY <2>2, <4>1
      <4> QED BY <1>1, <1>4, <2>2, <4>1, <4>2
    <3> QED BY <1>1, <3>1, <3>2
  <2> QED BY <1>1, <1>2, <1>4, <2>1, <2>2
<1> QED
  BY <1>3, <1>4

\* The steps a thread goes on with are still backed.
LEMMA BackedOn ==
  ASSUME TypeInv, NEW t \in Threads, Working(t), Backed(th[t].left, There), There \subseteq There'
  PROVE  Backed(th'[t].left, There')
<1> DEFINE L == th[t].left
           M == th'[t].left
           U == There'
           T == There
<1>1. L \in Seq(Step) /\ Chain(L) /\ Backed(L, T) /\ T \subseteq U /\ made' \subseteq U
  BY ThreadIs DEF There
<1>2. \/ M = L \/ M = << >>
      \/ L # << >> /\ M = Tail(L) /\ Did(Now(t))
      \/ L # << >> /\ Now(t).do = "pick" /\ M = Tail(Tail(L))
      \/ \E cs : "postgres" \notin cs /\ M = After(L, cs)
      \/ \E done \in BOOLEAN : M = Of("result", "none", << IF done THEN "created" ELSE "failed" >>)
  BY Motions DEF Motion, At
<1>3. L # << >> => /\ Now(t) = L[1] /\ Linked(L, 1) /\ Drop(L, Tail(L), 1) /\ 1 \in 1 .. Len(L)
                   /\ Fits(L[1])
  BY FirstStep
<1> HIDE DEF T, U, L, M
<1>4. CASE M = L
  <2>1. Drop(L, L, 0)
    BY <1>1 DEF Drop
  <2>2. \A j \in 1 .. 0 : L[j].do = "service" => "postgres" \in U
    OBVIOUS
  <2>3. Backed(L, U)
    BY <1>1, <2>1, <2>2, BackedDrop
  <2> QED BY <1>4, <2>3 DEF M, U
<1>5. CASE M = << >>
  <2>1. Backed(<< >>, U)
    BY DEF Backed
  <2> QED BY <1>5, <2>1 DEF M, U
<1>6. CASE L # << >> /\ M = Tail(L) /\ Did(Now(t))
  <2>1. /\ L[1].do = "service" => "postgres" \in U
        /\ L[1].do \in Gainers => L[1].c \in U
    BY <1>1, <1>3, <1>6 DEF Did, Gainers
  <2>2. \A j \in 1 .. 1 : L[j].do = "service" => "postgres" \in U
    BY <2>1
  <2>3. Backed(Tail(L), U)
    BY <1>1, <1>3, <1>6, <2>1, <2>2, BackedDrop
  <2> QED BY <1>6, <2>3 DEF M, U
<1>7. CASE L # << >> /\ Now(t).do = "pick" /\ M = Tail(Tail(L))
  <2>1. 1 < Len(L) /\ L[1].do = "pick" /\ L[2].do = "wait"
    BY <1>3, <1>7 DEF Linked
  <2>2. Drop(L, Tail(Tail(L)), 2)
    BY <1>1, <2>1, TwoDropped
  <2>3. \A j \in 1 .. 2 : L[j].do # "service"
    BY <2>1
  <2>4. L[2].do \notin Gainers
    BY <2>1 DEF Gainers
  <2>5. Backed(Tail(Tail(L)), U)
    BY <1>1, <2>2, <2>3, <2>4, BackedDrop
  <2> QED BY <1>7, <2>5 DEF M, U
<1>8. CASE \E cs : "postgres" \notin cs /\ M = After(L, cs)
  <2>1. PICK cs : "postgres" \notin cs /\ M = After(L, cs)
    BY <1>8
  <2>2. PICK d \in 0 .. Len(L) :
          /\ Drop(L, M, d) /\ \A j \in 1 .. d : L[j].c \in cs
          /\ d < Len(L) => L[d + 1].c \notin cs
    BY <1>1, <2>1, AfterDrops
  <2>3. \A j \in 1 .. d : L[j].do = "service" => "postgres" \in U
    <3>1. ASSUME NEW j \in 1 .. d, L[j].do = "service"
          PROVE  FALSE
      <4>1. j \in 1 .. Len(L)
        BY <1>1
      <4>2. L[j].c = "postgres"
        BY <1>1, <3>1, <4>1 DEF Chain, Linked, Fits, Suits
      <4> QED BY <2>1, <2>2, <4>2
    <3> QED BY <3>1
  <2>4. 0 < d /\ d < Len(L) => L[d + 1].c # L[d].c
    <3>1. 0 < d => d \in 1 .. d
      OBVIOUS
    <3> QED BY <2>2, <3>1
  <2>5. Backed(M, U)
    BY <1>1, <2>2, <2>3, <2>4, BackedDrop
  <2> QED BY <2>5 DEF M, U
<1>9. CASE \E done \in BOOLEAN : M = Of("result", "none", << IF done THEN "created" ELSE "failed" >>)
  <2>1. \A i \in 1 .. Len(M) : M[i].do # "note"
    BY <1>9 DEF Of
  <2>2. Backed(M, U)
    BY <2>1 DEF Backed
  <2> QED BY <2>2 DEF M, U
<1> QED
  BY <1>2, <1>4, <1>5, <1>6, <1>7, <1>8, <1>9
--------------------------------------------------------------------------------
\* What a key is about.

Components == {"redis user", "minio user", "data bucket", "web bucket", "postgres keys", "mongodb keys"}
WordsOf(c) ==
  CASE c = "redis user" -> {"REDIS_URL", "REDIS_PREFIX"}
    [] c = "minio user" ->
         {"MINIO_HOST", "MINIO_ACCESS_KEY", "MINIO_SECRET_KEY", "S3_HOST", "S3_ACCESS_KEY",
          "S3_SECRET_KEY", "S3_PROVIDER", "MINIO_PORT", "S3_PORT"}
    [] c = "data bucket" -> {"MINIO_BUCKET_DATA", "S3_BUCKET_DATA"}
    [] c = "web bucket" -> {"MINIO_BUCKET_STATIC", "S3_BUCKET_STATIC"}
    [] c = "postgres keys" ->
         {"POSTGRES_HOST", "POSTGRES_PORT", "POSTGRES_DATABASE", "POSTGRES_USERNAME",
          "POSTGRES_PASSWORD", "POSTGRES_URL"}
    [] OTHER -> {"MONGODB_URL"}

LEMMA SetOfSeq ==
  ASSUME NEW W, NEW s \in Seq(W)
  PROVE  ToSet(s) \subseteq W
BY DEF ToSet

\* The keys of a component are among its words.
LEMMA OwnWords ==
  ASSUME NEW c \in DOMAIN Keys
  PROVE  c \in Components /\ ToSet(Keys[c]) \subseteq WordsOf(c)
<1>1. c \in Components
  BY DEF Keys, Components
<1>2. CASE c = "redis user"
  <2> DEFINE s == << "REDIS_URL", "REDIS_PREFIX" >>
             W == {"REDIS_URL", "REDIS_PREFIX"}
  <2>1. Keys[c] = s /\ WordsOf(c) = W
    BY <1>2 DEF Keys, WordsOf
  <2>2. s \in Seq(W)
    OBVIOUS
  <2> HIDE DEF s, W
  <2> QED BY <1>1, <2>1, <2>2, SetOfSeq
<1>3. CASE c = "minio user"
  <2> DEFINE s == << "MINIO_HOST", "MINIO_ACCESS_KEY", "MINIO_SECRET_KEY", "S3_HOST",
                     "S3_ACCESS_KEY", "S3_SECRET_KEY", "S3_PROVIDER", "MINIO_PORT", "S3_PORT" >>
             W == {"MINIO_HOST", "MINIO_ACCESS_KEY", "MINIO_SECRET_KEY", "S3_HOST",
                   "S3_ACCESS_KEY", "S3_SECRET_KEY", "S3_PROVIDER", "MINIO_PORT", "S3_PORT"}
  <2>1. Keys[c] = s /\ WordsOf(c) = W
    BY <1>3 DEF Keys, WordsOf
  <2>2. s \in Seq(W)
    OBVIOUS
  <2> HIDE DEF s, W
  <2> QED BY <1>1, <2>1, <2>2, SetOfSeq
<1>4. CASE c = "data bucket"
  <2> DEFINE s == << "MINIO_BUCKET_DATA", "S3_BUCKET_DATA" >>
             W == {"MINIO_BUCKET_DATA", "S3_BUCKET_DATA"}
  <2>1. Keys[c] = s /\ WordsOf(c) = W
    BY <1>4 DEF Keys, WordsOf
  <2>2. s \in Seq(W)
    OBVIOUS
  <2> HIDE DEF s, W
  <2> QED BY <1>1, <2>1, <2>2, SetOfSeq
<1>5. CASE c = "web bucket"
  <2> DEFINE s == << "MINIO_BUCKET_STATIC", "S3_BUCKET_STATIC" >>
             W == {"MINIO_BUCKET_STATIC", "S3_BUCKET_STATIC"}
  <2>1. Keys[c] = s /\ WordsOf(c) = W
    BY <1>5 DEF Keys, WordsOf
  <2>2. s \in Seq(W)
    OBVIOUS
  <2> HIDE DEF s, W
  <2> QED BY <1>1, <2>1, <2>2, SetOfSeq
<1>6. CASE c = "postgres keys"
  <2> DEFINE s == << "POSTGRES_HOST", "POSTGRES_PORT", "POSTGRES_DATABASE",
                     "POSTGRES_USERNAME", "POSTGRES_PASSWORD", "POSTGRES_URL" >>
             W == {"POSTGRES_HOST", "POSTGRES_PORT", "POSTGRES_DATABASE",
                   "POSTGRES_USERNAME", "POSTGRES_PASSWORD", "POSTGRES_URL"}
  <2>1. Keys[c] = s /\ WordsOf(c) = W
    BY <1>6 DEF Keys, WordsOf
  <2>2. s \in Seq(W)
    OBVIOUS
  <2> HIDE DEF s, W
  <2> QED BY <1>1, <2>1, <2>2, SetOfSeq
<1>7. CASE c = "mongodb keys"
  <2> DEFINE s == << "MONGODB_URL" >>
             W == {"MONGODB_URL"}
  <2>1. Keys[c] = s /\ WordsOf(c) = W
    BY <1>7 DEF Keys, WordsOf
  <2>2. s \in Seq(W)
    OBVIOUS
  <2> HIDE DEF s, W
  <2> QED BY <1>1, <2>1, <2>2, SetOfSeq
<1> QED
  BY <1>1, <1>2, <1>3, <1>4, <1>5, <1>6, <1>7 DEF Components

\* No word is of two components.
LEMMA WordsApart ==
  ASSUME NEW c \in Components, NEW d \in Components, NEW k \in WordsOf(c), k \in WordsOf(d)
  PROVE  c = d
BY DEF WordsOf, Components

\* What a key is about is what its component relies on.
LEMMA AboutIs ==
  ASSUME NEW c \in DOMAIN Keys, NEW k \in ToSet(Keys[c])
  PROVE  About(k) = IF c \in PgKeys THEN "postgres" ELSE c
<1> DEFINE D == DOMAIN Keys \cup {"postgres"}
           pg == k = "MONGODB_URL" \/ k \in ToSet(Keys["postgres keys"])
           P(d) == IF pg THEN d = "postgres" ELSE d \in DOMAIN Keys /\ k \in ToSet(Keys[d])
           r == IF c \in PgKeys THEN "postgres" ELSE c
<1>1. DOMAIN Keys = Components
  BY DEF Keys, Components
<1>2. c \in Components /\ k \in WordsOf(c) /\ \A d \in DOMAIN Keys : k \in ToSet(Keys[d]) => d = c
  BY OwnWords, WordsApart
<1>3. (\E i \in DOMAIN Keys["redis user"] : k = Keys["redis user"][i]) <=> c = "redis user"
  <2>1. (\E i \in DOMAIN Keys["redis user"] : k = Keys["redis user"][i])
          <=> k \in ToSet(Keys["redis user"])
    BY DEF ToSet
  <2>2. "redis user" \in DOMAIN Keys
    BY <1>1 DEF Components
  <2> QED BY <1>2, <2>1, <2>2
<1>4. pg <=> c \in PgKeys
  <2>1. "postgres keys" \in DOMAIN Keys /\ "mongodb keys" \in Components
    BY <1>1 DEF Components
  <2>2. WordsOf("mongodb keys") = {"MONGODB_URL"}
    BY DEF WordsOf
  <2>3. k = "MONGODB_URL" <=> c = "mongodb keys"
    BY <1>2, <2>1, <2>2, WordsApart
  <2>4. k \in ToSet(Keys["postgres keys"]) <=> c = "postgres keys"
    BY <1>2, <2>1
  <2> QED BY <2>3, <2>4 DEF PgKeys
<1>5. c # "redis user" => (CHOOSE d \in D : P(d)) = r
  <2>1. r \in D /\ P(r) /\ \A d \in D : P(d) => d = r
    BY <1>1, <1>2, <1>4
  <2> HIDE DEF P, D, r
  <2> QED BY <2>1
<1>6. c = "redis user" => r = c
  BY DEF PgKeys
<1> QED
  BY <1>3, <1>5, <1>6 DEF About
--------------------------------------------------------------------------------
\* The records stay true.

LEMMA TruthfulDrop ==
  ASSUME NEW L \in Seq(Step), NEW M, NEW d, Drop(L, M, d), NEW all, NEW all2, all => all2,
         \A i \in 1 .. Len(L) : L[i].do = "created" => all
  PROVE  \A i \in 1 .. Len(M) : M[i].do = "created" => all2
<1> SUFFICES ASSUME NEW i \in 1 .. Len(M), M[i].do = "created"
             PROVE  all2
  OBVIOUS
<1>1. i + d \in 1 .. Len(L) /\ M[i] = L[i + d]
  BY DEF Drop
<1> QED
  BY <1>1

LEMMA TruthfulStays ==
  ASSUME NEW L \in Seq(Step), NEW T, NEW U, T \subseteq U, NEW all, NEW all2, all => all2,
         Truthful(L, T, all)
  PROVE  Truthful(L, U, all2)
<1>1. Drop(L, L, 0)
  BY DEF Drop
<1>2. \A j \in 1 .. 0 : L[j].do = "service" => "postgres" \in U
  OBVIOUS
<1>3. Backed(L, U)
  BY <1>1, <1>2, BackedDrop DEF Truthful
<1> QED
  BY <1>3 DEF Truthful

\* A thread drops steps at the front, or begins to report.
LEMMA Drops ==
  ASSUME TypeInv, NEW t \in Threads, Working(t)
  PROVE  \/ \E d : Drop(th[t].left, th'[t].left, d)
         \/ \E done \in BOOLEAN :
              /\ th'[t].left = Of("result", "none", << IF done THEN "created" ELSE "failed" >>)
              /\ done => sys' = "all"
<1> DEFINE L == th[t].left
           M == th'[t].left
<1>1. L \in Seq(Step)
  BY ThreadIs
<1>2. \/ M = L \/ M = << >>
      \/ L # << >> /\ M = Tail(L)
      \/ L # << >> /\ Now(t).do = "pick" /\ M = Tail(Tail(L))
      \/ \E cs : M = After(L, cs)
      \/ \E done \in BOOLEAN :
           /\ M = Of("result", "none", << IF done THEN "created" ELSE "failed" >>)
           /\ done => sys' = "all"
  BY Motions DEF Motion, At
<1>3. L # << >> => Now(t) = L[1] /\ Linked(L, 1) /\ Drop(L, Tail(L), 1)
  BY FirstStep
<1> HIDE DEF L, M
<1>4. M = L => Drop(L, M, 0)
  BY <1>1 DEF Drop
<1>5. M = << >> => Drop(L, M, Len(L))
  <2>1. << >> \in Seq(Step) /\ Len(<< >>) = 0 /\ Len(L) \in 0 .. Len(L) /\ Len(L) - Len(L) = 0
    BY <1>1
  <2> QED BY <2>1 DEF Drop
<1>6. L # << >> /\ Now(t).do = "pick" /\ M = Tail(Tail(L)) => Drop(L, M, 2)
  <2> SUFFICES ASSUME L # << >>, Now(t).do = "pick", M = Tail(Tail(L))
               PROVE  Drop(L, M, 2)
    OBVIOUS
  <2>1. 1 < Len(L)
    BY <1>3 DEF Linked
  <2> QED BY <1>1, <2>1, TwoDropped
<1>7. \A cs : M = After(L, cs) => \E d : Drop(L, M, d)
  BY <1>1, AfterDrops
<1>8. \/ \E d : Drop(L, M, d)
      \/ \E done \in BOOLEAN :
           /\ M = Of("result", "none", << IF done THEN "created" ELSE "failed" >>)
           /\ done => sys' = "all"
  BY <1>2, <1>3, <1>4, <1>5, <1>6, <1>7
<1> QED
  BY <1>8 DEF L, M

\* What a thread has left after any step.
LEMMA Moves ==
  ASSUME TypeInv, Next, NEW t \in Threads
  PROVE  \/ th'[t].left = th[t].left
         \/ t = "whisk" /\ Begin /\ due \in {"create", "resume", "delete"} /\ th'[t].left = Program[due]
         \/ t = "watcher" /\ \E found \in BOOLEAN : Watch(found) /\ th'[t].left = Watcher(found)
         \/ t = "watcher" /\ Rollout /\ th[t].left # << >> /\ th'[t].left = Tail(th[t].left)
         \/ Restart /\ th'[t].left = << >>
         \/ Working(t)
<1>t. "whisk" \in Threads /\ "watcher" \in Threads /\ Threads = {"whisk", "watcher"}
  BY DEF Threads
<1>1. CASE Begin
  <2> DEFINE y == [Idle EXCEPT !.op = due, !.left = Program[due]]
  <2>1. th' = [th EXCEPT !["whisk"] = y] /\ due \in {"create", "resume", "delete"}
    BY <1>1 DEF Begin, TypeInv, Values, TheObject
  <2>2. y.left = Program[due]
    BY DEF Idle
  <2> HIDE DEF y
  <2> QED BY <1>1, <1>t, <2>1, <2>2, Replacing
<1>2. ASSUME NEW found \in BOOLEAN, Watch(found)
      PROVE  \/ th'[t].left = th[t].left
             \/ t = "watcher" /\ Watch(found) /\ th'[t].left = Watcher(found)
  <2> DEFINE y == [Idle EXCEPT !.op = "watch", !.owner = found, !.left = Watcher(found)]
  <2>1. th' = [th EXCEPT !["watcher"] = y]
    BY <1>2 DEF Watch
  <2>2. y.left = Watcher(found)
    BY DEF Idle
  <2> HIDE DEF y
  <2> QED BY <1>2, <1>t, <2>1, <2>2, Replacing
<1>3. CASE Rollout
  <2> DEFINE y == [th["watcher"] EXCEPT !.left = Tail(@)]
  <2>1. th' = [th EXCEPT !["watcher"] = y] /\ th["watcher"].left # << >>
    BY <1>3 DEF Rollout, At, Goes
  <2>2. y.left = Tail(th["watcher"].left)
    BY <1>t, ThreadIs DEF Record
  <2> HIDE DEF y
  <2> QED BY <1>3, <1>t, <2>1, <2>2, Replacing
<1>4. CASE Around
  <2>1. UNCHANGED th \/ Restart
    BY <1>4 DEF Around, AddWhisk, DiscardWhisk, EditRuntimes, DatabasesMade, Collect, PodReady, PodLost
  <2>2. Restart => th'[t].left = << >>
    BY DEF Restart, Idle
  <2> QED BY <2>1, <2>2
<1>5. ASSUME NEW s \in Threads, Working(s)
      PROVE  th'[t].left = th[t].left \/ Working(t)
  <2>1. s # t => th'[t] = th[t]
    BY <1>5, Motions DEF Motion
  <2> QED BY <1>5, <2>1
<1> QED
  BY <1>1, <1>2, <1>3, <1>4, <1>5, NextIs

\* The steps a thread has left stay as the records need them.
LEMMA TruthfulKept ==
  ASSUME TypeInv, Next, NEW t \in Threads, Truthful(th[t].left, There, sys = "all")
  PROVE  Truthful(th'[t].left, There', sys' = "all")
<1> DEFINE L == th[t].left
           M == th'[t].left
           U == There'
           T == There
           all == sys = "all"
           all2 == sys' = "all"
<1>1. T \subseteq U /\ (all => all2) /\ L \in Seq(Step) /\ {} \subseteq U /\ (FALSE => all2)
  BY ThereStays, ThreadIs
<1>2. CASE M = L
  <2> HIDE DEF L, M, U, T, all, all2
  <2>1. Truthful(L, T, all)
    BY DEF L, T, all
  <2>2. Truthful(L, U, all2)
    BY <1>1, <2>1, TruthfulStays
  <2> QED BY <1>2, <2>2 DEF M, U, all2
<1>3. CASE Begin /\ due \in {"create", "resume", "delete"} /\ M = Program[due]
  <2>1. Whole(M, {})
    BY <1>3, WhiskPrograms DEF Program, Block
  <2> HIDE DEF M, U, all2
  <2>2. M \in Seq(Step) /\ Truthful(M, {}, FALSE)
    BY <2>1 DEF Whole, Truthful
  <2>3. Truthful(M, U, all2)
    BY <1>1, <2>2, TruthfulStays
  <2> QED BY <2>3 DEF M, U, all2
<1>4. CASE \E found \in BOOLEAN : M = Watcher(found)
  <2>1. \A i \in 1 .. Len(M) : M[i].do \notin {"note", "created"}
    BY <1>4, WatcherChain
  <2> HIDE DEF M, U, all2
  <2>2. Truthful(M, U, all2)
    BY <2>1 DEF Truthful, Backed
  <2> QED BY <2>2 DEF M, U, all2
<1>5. CASE t = "watcher" /\ Rollout /\ L # << >> /\ M = Tail(L)
  <2>1. Now(t) = L[1] /\ Drop(L, Tail(L), 1) /\ Now(t).do = "rollout"
    BY <1>5, FirstStep DEF Rollout, At
  <2>2. Truthful(L, T, all)
    OBVIOUS
  <2> HIDE DEF L, M, U, T, all, all2
  <2>3. /\ \A j \in 1 .. 1 : L[j].do = "service" => "postgres" \in U
        /\ L[1].do \notin Gainers
    BY <2>1 DEF Gainers
  <2>4. Backed(M, U)
    BY <1>1, <1>5, <2>1, <2>2, <2>3, BackedDrop DEF Truthful
  <2>5. \A i \in 1 .. Len(M) : M[i].do = "created" => all2
    BY <1>1, <1>5, <2>1, <2>2, TruthfulDrop DEF Truthful
  <2> QED BY <2>4, <2>5 DEF Truthful, M, U, all2
<1>6. CASE M = << >>
  <2> HIDE DEF U, all2
  <2>1. Truthful(<< >>, U, all2)
    BY DEF Truthful, Backed
  <2> QED BY <1>6, <2>1 DEF M, U, all2
<1>7. CASE Working(t)
  <2>1. Backed(M, U)
    BY <1>1, <1>7, BackedOn DEF Truthful
  <2>2. \A i \in 1 .. Len(L) : L[i].do = "created" => all
    BY DEF Truthful
  <2>3. \/ \E d : Drop(L, M, d)
        \/ \E done \in BOOLEAN :
             /\ M = Of("result", "none", << IF done THEN "created" ELSE "failed" >>)
             /\ done => all2
    BY <1>7, Drops
  <2> HIDE DEF L, M, U, T, all, all2
  <2>4. ASSUME NEW d, Drop(L, M, d)
        PROVE  \A i \in 1 .. Len(M) : M[i].do = "created" => all2
    BY <1>1, <2>2, <2>4, TruthfulDrop
  <2>5. ASSUME NEW done \in BOOLEAN, done => all2,
               M = Of("result", "none", << IF done THEN "created" ELSE "failed" >>)
        PROVE  \A i \in 1 .. Len(M) : M[i].do = "created" => all2
    BY <2>5 DEF Of
  <2>6. \A i \in 1 .. Len(M) : M[i].do = "created" => all2
    BY <2>3, <2>4, <2>5
  <2> QED BY <2>1, <2>6 DEF Truthful, M, U, all2
<1> QED
  BY <1>2, <1>3, <1>4, <1>5, <1>6, <1>7, Moves

\* The keys annotated name what there is.
LEMMA NotesKept ==
  ASSUME TypeInv, Next, RecordsInv
  PROVE  \A k \in notes' \ {"APIHOST", "AUTH"} : About(k) \in There'
<1>1. There \subseteq There'
  BY ThereStays
<1>2. \A k \in notes \ {"APIHOST", "AUTH"} : About(k) \in There
  BY DEF RecordsInv, KeysTrue, There
<1>3. UNCHANGED notes \/ \E t \in Threads : Annotate(t) \/ AnnotateFails(t) \/ Endpoint(t)
  BY Outside DEF stored, Frame
<1>4. ASSUME NEW t \in Threads, Annotate(t) \/ AnnotateFails(t)
      PROVE  \A k \in notes' \ {"APIHOST", "AUTH"} : About(k) \in There'
  <2> DEFINE c == Now(t).c
             L == th[t].left
  <2>1. L # << >> /\ Now(t).do = "note" /\ Now(t) = L[1] /\ 1 \in 1 .. Len(L) /\ Fits(Now(t))
    BY <1>4, FirstStep DEF Annotate, AnnotateFails, At
  <2>2. c \in DOMAIN Keys
    BY <2>1 DEF Fits, Suits
  <2>3. (IF c \in PgKeys THEN "postgres" ELSE c) \in There
    <3>1. Backed(L, There)
      BY DEF RecordsInv, Truthful
    <3>2. IF L[1].c \in PgKeys
          THEN "postgres" \in There \/ \E j \in 1 .. 1 - 1 : L[j].do = "service"
          ELSE L[1].c \in There \/ (1 > 1 /\ L[1 - 1].c = L[1].c /\ L[1 - 1].do \in Gainers)
      <4> HIDE DEF L
      <4> QED BY <2>1, <3>1 DEF Backed
    <3>3. ~(\E j \in 1 .. 1 - 1 : L[j].do = "service") /\ ~(1 > 1)
      OBVIOUS
    <3> QED BY <2>1, <3>2, <3>3
  <2>4. \A k \in ToSet(Keys[c]) : About(k) \in There
    BY <2>2, <2>3, AboutIs
  <2>5. notes' \subseteq notes \cup ToSet(Keys[c])
    <3>1. CASE Annotate(t)
      BY <3>1 DEF Annotate
    <3>2. CASE AnnotateFails(t)
      <4>1. PICK k \in Cuts :
              notes' = notes \cup ToSet(SubSeq(Keys[Now(t).c], 1, Min({k, Len(Keys[Now(t).c]) - 1})))
        BY <3>2 DEF AnnotateFails
      <4>2. ToSet(SubSeq(Keys[Now(t).c], 1, Min({k, Len(Keys[Now(t).c]) - 1}))) \subseteq
              ToSet(Keys[Now(t).c])
        BY <2>2, SomeKeys
      <4> QED BY <4>1, <4>2
    <3> QED BY <1>4, <3>1, <3>2
  <2> QED BY <1>1, <1>2, <2>4, <2>5
<1>5. ASSUME NEW t \in Threads, Endpoint(t)
      PROVE  \A k \in notes' \ {"APIHOST", "AUTH"} : About(k) \in There'
  BY <1>1, <1>2, <1>5 DEF Endpoint
<1> QED
  BY <1>1, <1>2, <1>3, <1>4, <1>5

LEMMA RecordsInvKept ==
  ASSUME TypeInv, Next, RecordsInv
  PROVE  RecordsInv'
<1>1. \A t \in Threads : Truthful(th'[t].left, There', sys' = "all")
  BY TruthfulKept DEF RecordsInv
<1>2. There \subseteq There' /\ (sys = "all" => sys' = "all")
  BY ThereStays
<1>3. \A k \in (notes' \cup doc') \ {"APIHOST", "AUTH"} : About(k) \in There'
  <2>1. \A k \in (notes \cup doc) \ {"APIHOST", "AUTH"} : About(k) \in There
    BY DEF RecordsInv, KeysTrue, There
  <2>2. UNCHANGED doc \/ \E t \in Threads : Save(t)
    BY Outside DEF stored, Frame
  <2>3. doc' \subseteq doc \cup notes \cup {"AUTH"}
    BY <2>2 DEF Save, Document
  <2> QED BY <1>2, <2>1, <2>3, NotesKept
<1>4. KeysTrue'
  BY <1>3 DEF KeysTrue, There
<1>5. SystemTrue'
  <2>1. UNCHANGED sysnote \/ \E t \in Threads : Report(t)
    BY Outside DEF stored, Frame
  <2>2. ASSUME NEW t \in Threads, Report(t), sysnote' = "created"
        PROVE  sysnote = "created" \/ sys = "all"
    <3>1. th[t].left # << >> /\ Now(t) = th[t].left[1] /\ 1 \in 1 .. Len(th[t].left)
      BY <2>2, FirstStep DEF Report, At
    <3>2. sysnote' = sysnote \/ Now(t).do = "created"
      BY <2>2 DEF Report
    <3>3. \A i \in 1 .. Len(th[t].left) : th[t].left[i].do = "created" => sys = "all"
      BY DEF RecordsInv, Truthful
    <3> QED BY <2>2, <3>1, <3>2, <3>3
  <2> QED BY <1>2, <2>1, <2>2 DEF RecordsInv, SystemTrue
<1> QED
  BY <1>1, <1>4, <1>5 DEF RecordsInv

LEMMA RecordsInit == Init => RecordsInv
<1> SUFFICES ASSUME Init
             PROVE  RecordsInv
  OBVIOUS
<1>1. KeysTrue /\ SystemTrue
  BY DEF Init, KeysTrue, SystemTrue
<1>2. ASSUME NEW t \in Threads
      PROVE  Truthful(th[t].left, There, sys = "all")
  <2>1. th[t].left = << >>
    BY DEF Init, Idle
  <2>2. Truthful(<< >>, There, sys = "all")
    BY DEF Truthful, Backed
  <2> QED BY <2>1, <2>2
<1> QED
  BY <1>1, <1>2 DEF RecordsInv

\* What is on record of an installation is so: the keys the annotations and the
\* stored metadata give name accounts, buckets and services there are, whatever
\* fails and is begun again, unless Redis lost its Pod or a call failed; and the
\* system actions are said to be created only where all are deployed
\* (minio.create_nuv_storage, redis.create_nuvolaris_db_user,
\* postgres.create, whisk_actions_deployer.process_wsk_result).
THEOREM RecordsCorrect == Spec => []RecordsTrue
<1>1. TypeInv /\ RecordsInv /\ [Next]_vars => RecordsInv'
  <2>1. CASE Next
    BY <2>1, RecordsInvKept
  <2>2. ASSUME UNCHANGED vars, RecordsInv
        PROVE  RecordsInv'
    <3> USE <2>2 DEF vars, stored, cluster
    <3>1. KeysTrue' /\ SystemTrue'
      BY DEF RecordsInv, KeysTrue, SystemTrue
    <3>2. \A t \in Threads : Truthful(th[t].left, There, sys = "all")
      BY DEF RecordsInv
    <3>3. There' = There /\ sys' = sys /\ th' = th
      BY DEF There
    <3> QED BY <3>1, <3>2, <3>3 DEF RecordsInv
  <2> QED BY <2>1, <2>2
<1>2. Spec => []TypeInv
  BY InitTypes, TypeInvKept, PTL DEF Spec
<1>3. Spec => []RecordsInv
  BY <1>1, <1>2, RecordsInit, PTL DEF Spec
<1>4. RecordsInv => RecordsTrue
  BY DEF RecordsInv, RecordsTrue
<1> QED
  BY <1>3, <1>4, PTL
--------------------------------------------------------------------------------
\* The controller and the map of runtimes.

\* The rollout of the watcher is still to come.
Rolls(L) == \E i \in 1 .. Len(L) : L[i].do = "rollout"

\* A controller that does not have the map's last version will be restarted.
ControllerInv ==
  ~missed /\ pods["controller"].n > 0 =>
    pods["controller"].v = version \/ pending \/ Rolls(th["watcher"].left)

LEMMA RollsTail ==
  ASSUME NEW L \in Seq(Step), L # << >>, L[1].do # "rollout", Rolls(L)
  PROVE  Rolls(Tail(L))
<1>1. PICK i \in 1 .. Len(L) : L[i].do = "rollout"
  BY DEF Rolls
<1>2. Drop(L, Tail(L), 1) /\ Len(L) \in Nat
  BY TailDrops
<1>3. i # 1 /\ i - 1 \in 1 .. Len(Tail(L)) /\ (i - 1) + 1 = i
  BY <1>1, <1>2 DEF Drop
<1>4. Tail(L)[i - 1] = L[i]
  BY <1>2, <1>3 DEF Drop
<1> QED
  BY <1>1, <1>3, <1>4 DEF Rolls

LEMMA RollsAfter ==
  ASSUME NEW L \in Seq(Step), Rolls(L), Chain(L)
  PROVE  Rolls(After(L, {"preloader"}))
<1>1. PICK i \in 1 .. Len(L) : L[i].do = "rollout"
  BY DEF Rolls
<1>2. PICK d \in 0 .. Len(L) : Drop(L, After(L, {"preloader"}), d) /\ \A j \in 1 .. d : L[j].c \in {"preloader"}
  BY AfterDrops
<1> DEFINE M == After(L, {"preloader"})
<1> HIDE DEF M
<1>3. L[i].c = "restart"
  BY <1>1 DEF Chain, Linked, Fits, Suits
<1>4. ~(i =< d)
  <2>1. i =< d => i \in 1 .. d
    BY <1>1
  <2> QED BY <1>2, <1>3, <2>1
<1>5. Drop(L, M, d) /\ Len(L) \in Nat
  BY <1>2 DEF M
<1>6. i - d \in 1 .. Len(M) /\ (i - d) + d = i
  BY <1>1, <1>2, <1>4, <1>5 DEF Drop
<1>7. M[i - d] = L[i]
  BY <1>5, <1>6 DEF Drop
<1> QED
  BY <1>1, <1>6, <1>7 DEF Rolls, M

LEMMA WatcherRolls ==
  ASSUME NEW o \in BOOLEAN
  PROVE  Rolls(Watcher(o))
<1>1. Ahead(o) + 7 \in 1 .. Len(Watcher(o)) /\ Watcher(o)[Ahead(o) + 7].do = "rollout"
  <2>1. Ahead(o) \in {1, 2} /\ Len(Watcher(o)) = Ahead(o) + 7 /\ Watcher(o)[Ahead(o) + 7].do = "rollout"
    BY WatcherIs DEF Ahead
  <2> QED BY <2>1
<1> QED
  BY <1>1 DEF Rolls

\* The watcher keeps its rollout, unless it fails.
LEMMA RolloutKept ==
  ASSUME TypeInv, Working("watcher"), Rolls(th["watcher"].left)
  PROVE  Rolls(th'["watcher"].left) \/ missed'
<1> DEFINE t == "watcher"
           L == th[t].left
<1>t. t \in Threads
  BY DEF Threads
<1>1. L \in Seq(Step) /\ Chain(L) /\ L # << >>
  BY <1>t, ThreadIs DEF Rolls
<1>2. Now(t) = L[1] /\ Fits(L[1]) /\ L[1].c \in {"preloader", "restart"}
  <2>1. Now(t) = L[1] /\ Fits(L[1]) /\ 1 \in 1 .. Len(L)
    BY <1>t, <1>1, FirstStep
  <2>2. Worker(t, th[t], troubles + 1, bound.versions, Len(WhiskCreate))
    BY <1>t, ThreadIs
  <2> QED BY <2>1, <2>2 DEF Worker
<1>3. Goes(t) /\ Now(t).do # "rollout" => Rolls(th'[t].left)
  <2> SUFFICES ASSUME Goes(t), Now(t).do # "rollout"
               PROVE  Rolls(th'[t].left)
    OBVIOUS
  <2> DEFINE y == [th[t] EXCEPT !.left = Tail(@)]
  <2>1. y.left = Tail(L)
    BY <1>t, ThreadIs DEF Record
  <2>2. th' = [th EXCEPT ![t] = y]
    BY DEF Goes
  <2>3. Rolls(Tail(L))
    BY <1>1, <1>2, RollsTail
  <2> HIDE DEF y
  <2>4. th'[t] = y
    BY <1>t, <2>2, Replacing
  <2> QED BY <2>1, <2>3, <2>4
<1>4. Raise(t) /\ Now(t).do # "rollout" => Rolls(th'[t].left)
  <2> DEFINE y == [th[t] EXCEPT !.left = After(@, {"preloader"})]
  <2>1. y.left = After(L, {"preloader"})
    BY <1>t, ThreadIs DEF Record
  <2>2. Now(t).do # "rollout" => Now(t).c = "preloader"
    BY <1>2 DEF Fits, Suits
  <2>3. Raise(t) /\ Now(t).do # "rollout" => th' = [th EXCEPT ![t] = y]
    BY <2>2 DEF Raise, Skips, Inside, Caught
  <2> HIDE DEF y
  <2> QED BY <1>t, <1>1, <2>1, <2>3, RollsAfter, Replacing
<1>5. CASE End(t)
  BY <1>1, <1>5 DEF End
<1>6. CASE CallFails(t)
  BY <1>4, <1>6 DEF CallFails
<1>7. CASE Preloads(t)
  <2>1. CASE ReadRuntimes(t)
    <3> DEFINE V == version
               y == [th[t] EXCEPT !.left = Tail(@), !.seen = V]
    <3>1. th' = [th EXCEPT ![t] = y] /\ Now(t).do # "rollout"
      BY <2>1 DEF ReadRuntimes, At
    <3>2. y.left = Tail(L)
      BY <1>t, ThreadIs DEF Record
    <3> HIDE DEF y
    <3> QED BY <1>t, <1>1, <1>2, <3>1, <3>2, RollsTail, Replacing
  <2>2. CASE Build(t)
    <3> DEFINE S == IF kust = "full" THEN tpl ELSE 0
               y == [th[t] EXCEPT !.left = Tail(@), !.spec = S]
    <3>1. th' = [th EXCEPT ![t] = y] /\ Now(t).do # "rollout"
      BY <2>2 DEF Build, At
    <3>2. y.left = Tail(L)
      BY <1>t, ThreadIs DEF Record
    <3> HIDE DEF y
    <3> QED BY <1>t, <1>1, <1>2, <3>1, <3>2, RollsTail, Replacing
  <2>3. CASE Patch(t) \/ OpenKustomization(t) \/ CloseKustomization(t)
    BY <1>3, <2>3 DEF Patch, OpenKustomization, CloseKustomization, At
  <2>4. CASE CreateJob(t)
    BY <1>3, <1>4, <2>4 DEF CreateJob, Applied, At
  <2>5. CASE RemoveByOwner(t) \/ RemoveBySpec(t)
    BY <1>3, <1>4, <2>5 DEF RemoveByOwner, RemoveBySpec, Removed, At
  <2> QED BY <1>7, <2>1, <2>2, <2>3, <2>4, <2>5 DEF Preloads
<1> QED
  BY <1>5, <1>6, <1>7 DEF Working

LEMMA ControllerInvKept ==
  ASSUME TypeInv, Next, ControllerInv
  PROVE  ControllerInv'
<1> DEFINE c == pods["controller"]
<1>c. "controller" \in Workloads /\ c.n \in Nat
  BY DEF Workloads, TypeInv, Values, ThePods
<1>w. "watcher" \in Threads /\ "whisk" \in Threads /\ "watcher" # "whisk"
  BY DEF Threads
<1>p. pods \in [Workloads -> [n : Nat, up : BOOLEAN, v : 0 .. bound.versions]]
  BY DEF TypeInv, Values, ThePods
<1>1. CASE Begin
  <2>1. UNCHANGED << pods, version, pending, missed >>
    BY <1>1 DEF Begin, cluster, runtimes, ghosts
  <2>2. th'["watcher"] = th["watcher"]
    BY <1>1, <1>w, Replacing DEF Begin
  <2> QED BY <2>1, <2>2 DEF ControllerInv
<1>2. ASSUME NEW found \in BOOLEAN, Watch(found)
      PROVE  ControllerInv'
  <2> DEFINE y == [Idle EXCEPT !.op = "watch", !.owner = found, !.left = Watcher(found)]
  <2>1. th' = [th EXCEPT !["watcher"] = y]
    BY <1>2 DEF Watch
  <2>2. y.left = Watcher(found)
    BY DEF Idle
  <2> HIDE DEF y
  <2>3. th'["watcher"].left = Watcher(found)
    BY <1>w, <2>1, <2>2, Replacing
  <2> QED BY <2>3, WatcherRolls DEF ControllerInv
<1>3. CASE Rollout
  <2>1. UNCHANGED version
    BY <1>3 DEF Rollout, runtimes
  <2>2. CASE c.n > 0 /\ cfgd
    <3>1. pods' = [pods EXCEPT !["controller"].up = FALSE, !["controller"].v = version]
      BY <1>3, <2>2 DEF Rollout
    <3>2. pods'["controller"].v = version
      BY <1>c, <1>p, <3>1
    <3> QED BY <2>1, <3>2 DEF ControllerInv
  <2>3. CASE c.n > 0 /\ ~cfgd
    BY <1>3, <2>3 DEF Rollout, ControllerInv
  <2>4. CASE ~(c.n > 0)
    BY <1>3, <2>4 DEF Rollout, ControllerInv
  <2> QED BY <2>2, <2>3, <2>4
<1>4. CASE Around
  <2>1. CASE AddWhisk \/ DiscardWhisk \/ DatabasesMade
    BY <2>1 DEF AddWhisk, DiscardWhisk, DatabasesMade, ControllerInv, cluster, runtimes, ghosts
  <2>2. CASE EditRuntimes
    BY <2>2 DEF EditRuntimes, ControllerInv
  <2>3. CASE Collect
    <3>1. pods'["controller"].n = 0
      BY <1>c, <2>3 DEF Collect
    <3> QED BY <3>1 DEF ControllerInv
  <2>4. CASE Restart
    <3>1. ~missed' => ~missed /\ ~pending /\ th["watcher"].op = "idle"
      BY <2>4 DEF Restart
    <3>2. th["watcher"].op = "idle" => ~Rolls(th["watcher"].left)
      BY <1>w, ThreadIs DEF Worker, Rolls
    <3>3. UNCHANGED << pods, version >>
      BY <2>4 DEF Restart, cluster
    <3> QED BY <3>1, <3>2, <3>3 DEF ControllerInv
  <2>5. ASSUME NEW w \in Workloads, PodReady(w)
        PROVE  ControllerInv'
    <3>1. pods'["controller"].n = c.n /\ pods'["controller"].v = c.v
      BY <1>c, <1>p, <2>5 DEF PodReady
    <3>2. UNCHANGED << version, pending, missed, th >>
      BY <2>5 DEF PodReady, runtimes, ghosts
    <3> QED BY <3>1, <3>2 DEF ControllerInv
  <2>6. ASSUME NEW w \in Workloads, PodLost(w)
        PROVE  ControllerInv'
    <3>1. UNCHANGED << version, pending, missed, th >>
      BY <2>6 DEF PodLost, runtimes, ghosts
    <3>2. CASE w = "controller"
      <4>1. pods'["controller"].v = version
        BY <1>c, <1>p, <2>6, <3>2 DEF PodLost
      <4> QED BY <3>1, <4>1 DEF ControllerInv
    <3>3. CASE w # "controller"
      <4>1. pods'["controller"] = c
        BY <1>c, <1>p, <2>6, <3>3 DEF PodLost
      <4> QED BY <3>1, <4>1 DEF ControllerInv
    <3> QED BY <3>2, <3>3
  <2> QED BY <1>4, <2>1, <2>2, <2>3, <2>4, <2>5, <2>6 DEF Around
<1>5. ASSUME NEW t \in Threads, Working(t)
      PROVE  ControllerInv'
  <2>1. UNCHANGED << version, pending >> /\ (UNCHANGED missed \/ CallFails(t))
        /\ (UNCHANGED pods \/ Apply(t))
    BY <1>5, Frames DEF Frame
  <2>2. ~missed' => ~missed
    BY <2>1 DEF CallFails
  <2>3. Rolls(th["watcher"].left) => Rolls(th'["watcher"].left) \/ missed'
    <3>1. CASE t = "watcher"
      BY <1>5, <3>1, RolloutKept
    <3>2. CASE t # "watcher"
      <4>1. th'["watcher"] = th["watcher"]
        BY <1>5, <1>w, <3>2, Motions DEF Motion
      <4> QED BY <4>1
    <3> QED BY <3>1, <3>2
  <2>4. CASE UNCHANGED pods
    BY <2>1, <2>2, <2>3, <2>4 DEF ControllerInv
  <2>5. CASE Apply(t)
    <3>1. pods'["controller"] = c \/ pods'["controller"].v = version
      BY <1>c, <1>p, <2>5 DEF Apply
    <3> QED BY <2>1, <2>2, <2>3, <3>1 DEF ControllerInv
  <2> QED BY <2>1, <2>4, <2>5
<1> QED
  BY <1>1, <1>2, <1>3, <1>4, <1>5, NextIs

\* An edit of the map of runtimes reaches the controller, though calls fail, the
\* preloader does and handlers are begun again, unless the rollout itself was
\* missed (patcher.patch_preloader, patcher.restart_whisk).
THEOREM ControllerCorrect == Spec => []ControllerCurrent
<1>1. Init => ControllerInv
  BY DEF Init, ControllerInv, Workloads
<1>2. TypeInv /\ ControllerInv /\ [Next]_vars => ControllerInv'
  <2>1. UNCHANGED vars /\ ControllerInv => ControllerInv'
    BY DEF vars, cluster, runtimes, ghosts, ControllerInv
  <2> QED BY <2>1, ControllerInvKept
<1>3. Spec => [](TypeInv /\ ControllerInv)
  BY <1>1, <1>2, InitTypes, TypeInvKept, PTL DEF Spec
<1>4. TypeInv /\ ControllerInv => ControllerCurrent
  <2> SUFFICES ASSUME TypeInv, ControllerInv
               PROVE  ControllerCurrent
    OBVIOUS
  <2>1. "watcher" \in Threads
    BY DEF Threads
  <2>2. th["watcher"].op = "idle" => ~Rolls(th["watcher"].left)
    BY <2>1, ThreadIs DEF Worker, Rolls
  <2> QED BY <2>1, <2>2 DEF ControllerInv, ControllerCurrent, Resting
<1> QED
  BY <1>3, <1>4, PTL
--------------------------------------------------------------------------------
\* The answer of the login.

\* A name is answered when the key it is taken from is there.
LEMMA Answered ==
  ASSUME NEW keys, NEW i \in 1 .. 8, Aliases[i][2] \in keys
  PROVE  Aliases[i][1] \in Login(keys)
<1>1. DOMAIN Aliases = 1 .. 8
  BY DEF Aliases
<1>2. i \in {j \in DOMAIN Aliases : Aliases[j][2] \in keys}
  BY <1>1
<1> QED
  BY <1>2 DEF Login

\* The names S3_X that are taken from MINIO_X.
LEMMA Taken ==
  /\ Aliases[3] = << "S3_HOST", "MINIO_HOST" >> /\ Aliases[4] = << "S3_PORT", "MINIO_PORT" >>
  /\ Aliases[5] = << "S3_ACCESS_KEY", "MINIO_ACCESS_KEY" >>
  /\ Aliases[6] = << "S3_SECRET_KEY", "MINIO_SECRET_KEY" >>
  /\ Aliases[7] = << "S3_BUCKET_DATA", "MINIO_BUCKET_DATA" >>
  /\ Aliases[8] = << "S3_BUCKET_STATIC", "MINIO_BUCKET_STATIC" >>
BY DEF Aliases

LEMMA BothSpellings ==
  ASSUME NEW keys, NEW a, NEW b, keys \cap ToSet(<< a, b >>) # {},
         \E i \in 1 .. 8 : Aliases[i] = << b, a >>
  PROVE  b \in Login(keys)
<1>1. a \in keys \/ b \in keys
  <2>1. << a, b >> \in Seq({a, b})
    OBVIOUS
  <2>2. ToSet(<< a, b >>) \subseteq {a, b}
    BY <2>1, SetOfSeq
  <2> QED BY <2>2
<1>2. PICK i \in 1 .. 8 : Aliases[i] = << b, a >>
  OBVIOUS
<1>3. Aliases[i][1] = b /\ Aliases[i][2] = a
  BY <1>2
<1>4. a \in keys => b \in Login(keys)
  BY <1>3, Answered
<1>5. b \in keys => b \in Login(keys)
  BY DEF Login
<1> QED
  BY <1>1, <1>4, <1>5

\* A tool that asks for S3_X at login gets it whenever the stored metadata have
\* it under either spelling, whatever was annotated of the two
\* (login.build_response).
THEOREM LoginCorrect == Spec => []LoginComplete
<1>1. LoginComplete
  <2> SUFFICES
        ASSUME NEW x \in {<< "MINIO_HOST", "S3_HOST" >>, << "MINIO_PORT", "S3_PORT" >>,
                          << "MINIO_ACCESS_KEY", "S3_ACCESS_KEY" >>,
                          << "MINIO_SECRET_KEY", "S3_SECRET_KEY" >>,
                          << "MINIO_BUCKET_DATA", "S3_BUCKET_DATA" >>,
                          << "MINIO_BUCKET_STATIC", "S3_BUCKET_STATIC" >>},
               doc \cap ToSet(x) # {}
        PROVE  x[2] \in Login(doc)
    BY DEF LoginComplete
  <2>1. x = << x[1], x[2] >>
    OBVIOUS
  <2>2. \E i \in 1 .. 8 : Aliases[i] = << x[2], x[1] >>
    <3>1. x[1] = "MINIO_HOST" /\ x[2] = "S3_HOST" => Aliases[3] = << x[2], x[1] >>
      BY Taken
    <3>2. x[1] = "MINIO_PORT" /\ x[2] = "S3_PORT" => Aliases[4] = << x[2], x[1] >>
      BY Taken
    <3>3. x[1] = "MINIO_ACCESS_KEY" /\ x[2] = "S3_ACCESS_KEY" => Aliases[5] = << x[2], x[1] >>
      BY Taken
    <3>4. x[1] = "MINIO_SECRET_KEY" /\ x[2] = "S3_SECRET_KEY" => Aliases[6] = << x[2], x[1] >>
      BY Taken
    <3>5. x[1] = "MINIO_BUCKET_DATA" /\ x[2] = "S3_BUCKET_DATA" => Aliases[7] = << x[2], x[1] >>
      BY Taken
    <3>6. x[1] = "MINIO_BUCKET_STATIC" /\ x[2] = "S3_BUCKET_STATIC" => Aliases[8] = << x[2], x[1] >>
      BY Taken
    <3> QED BY <3>1, <3>2, <3>3, <3>4, <3>5, <3>6
  <2>3. doc \cap ToSet(<< x[1], x[2] >>) # {}
    BY <2>1
  <2> QED BY <2>2, <2>3, BothSpellings
<1> QED
  BY <1>1, PTL

--------------------------------------------------------------------------------
\* Where a thread is in the configuration and the preloader, which come first.

Early == {"config", "preloader"}
Place(L) ==
  IF L = << >> \/ L[1].c \notin Early THEN "out"
  ELSE IF L[1].do = "build" /\ L[2].do = "remove" THEN "first" ELSE L[1].do
Within == {"patch", "open", "close", "build", "create"}

\* The steps of the configuration, in order.
Then(do) ==
  CASE do = "clean" -> {"configure"} [] do = "configure" -> {"owner", "apihost"}
    [] OTHER -> {"read"}
Sorted(L, i) ==
  /\ L[i].c = "config" <=> L[i].do \in {"clean", "configure", "owner", "apihost"}
  /\ L[i].do \in {"clean", "configure", "owner"} =>
       i < Len(L) /\ L[i + 1].c \in Early /\ L[i + 1].do \in Then(L[i].do)
  /\ L[i].do = "remove" => i =< 2

\* What is behind the configuration and the preloader does not lead back.
Ordered(L) ==
  /\ \A i \in 1 .. Len(L) : Sorted(L, i)
  /\ \A i, j \in 1 .. Len(L) : i < j =>
       /\ L[i].c \notin Early \/ L[i].do \in {"create", "apihost"} => L[j].c \notin Early
       /\ L[i].c = "preloader" => L[j].c # "config"

LEMMA OrderedDrop ==
  ASSUME NEW L \in Seq(Step), Ordered(L), NEW M, NEW d, Drop(L, M, d)
  PROVE  Ordered(M)
<1>0. d \in Nat /\ Len(L) \in Nat /\ Len(M) \in Nat
  BY DEF Drop
<1>k. ASSUME NEW i \in 1 .. Len(M)
      PROVE  i + d \in 1 .. Len(L) /\ M[i] = L[i + d] /\ i =< i + d
  BY <1>0 DEF Drop
<1>1. ASSUME NEW i \in 1 .. Len(M)
      PROVE  Sorted(M, i)
  <2>1. Sorted(L, i + d) /\ M[i] = L[i + d]
    BY <1>k DEF Ordered
  <2>2. i + d < Len(L) => i < Len(M) /\ M[i + 1] = L[(i + d) + 1]
    <3>1. i + d < Len(L) => i + 1 \in 1 .. Len(M) /\ (i + 1) + d = (i + d) + 1
      BY <1>0, <1>k DEF Drop
    <3> QED BY <3>1 DEF Drop
  <2>3. i + d =< 2 => i =< 2
    BY <1>0
  <2> QED BY <2>1, <2>2, <2>3 DEF Sorted
<1>2. ASSUME NEW i \in 1 .. Len(M), NEW j \in 1 .. Len(M), i < j
      PROVE  /\ M[i].c \notin Early \/ M[i].do \in {"create", "apihost"} => M[j].c \notin Early
             /\ M[i].c = "preloader" => M[j].c # "config"
  <2>1. i + d < j + d /\ i + d \in 1 .. Len(L) /\ j + d \in 1 .. Len(L)
    BY <1>0, <1>k, <1>2
  <2> QED BY <1>k, <2>1 DEF Ordered
<1> QED
  BY <1>1, <1>2 DEF Ordered

\* Steps that are of neither.
Plain(s) ==
  s \in Seq(Step) /\ \A i \in 1 .. Len(s) :
    s[i].c \notin Early /\ s[i].do \notin {"clean", "configure", "owner", "apihost", "remove", "forget"}

LEMMA PlainOf ==
  ASSUME NEW c \in Groups \ Early, NEW w \in Workloads \cup {"none"}, NEW dos \in Seq(Dos),
         \A i \in 1 .. Len(dos) : dos[i] \notin {"clean", "configure", "owner", "apihost", "remove", "forget"}
  PROVE  Plain(Of(c, w, dos))
<1> DEFINE s == Of(c, w, dos)
<1>1. /\ s \in Seq(Step) /\ Len(s) = Len(dos)
      /\ \A i \in 1 .. Len(dos) : s[i] = [c |-> c, w |-> w, do |-> dos[i]]
  BY OfIs
<1>2. ASSUME NEW i \in 1 .. Len(dos)
      PROVE  s[i].c = c /\ s[i].do = dos[i]
  <2> DEFINE x == [c |-> c, w |-> w, do |-> dos[i]]
  <2>1. s[i] = x
    BY <1>1
  <2>2. x.c = c /\ x.do = dos[i]
    OBVIOUS
  <2> HIDE DEF s, x
  <2> QED BY <2>1, <2>2
<1> HIDE DEF s
<1>3. \A i \in 1 .. Len(s) :
        s[i].c \notin Early /\ s[i].do \notin {"clean", "configure", "owner", "apihost", "remove", "forget"}
  BY <1>1, <1>2
<1>4. Plain(s)
  BY <1>1, <1>3 DEF Plain
<1> QED
  BY <1>4 DEF s

LEMMA PlainCat ==
  ASSUME NEW s, NEW u, Plain(s), Plain(u)
  PROVE  Plain(s \o u)
<1>1. s \in Seq(Step) /\ u \in Seq(Step) /\ Len(s) \in Nat /\ Len(u) \in Nat
  BY DEF Plain
<1> DEFINE v == s \o u
<1>2. /\ v \in Seq(Step) /\ Len(v) = Len(s) + Len(u)
      /\ \A i \in 1 .. Len(s) : v[i] = s[i]
      /\ \A i \in 1 .. Len(u) : v[Len(s) + i] = u[i]
  BY <1>1, CatIs
<1> HIDE DEF v
<1>3. ASSUME NEW i \in 1 .. Len(v)
      PROVE  (\E k \in 1 .. Len(s) : v[i] = s[k]) \/ (\E k \in 1 .. Len(u) : v[i] = u[k])
  <2>1. CASE i =< Len(s)
    BY <1>1, <1>2, <2>1
  <2>2. CASE ~(i =< Len(s))
    <3>1. i - Len(s) \in 1 .. Len(u) /\ Len(s) + (i - Len(s)) = i
      BY <1>1, <1>2, <2>2
    <3> QED BY <1>2, <3>1
  <2> QED BY <2>1, <2>2
<1> QED
  BY <1>2, <1>3 DEF Plain, v

LEMMA PlainIf ==
  ASSUME NEW cond, NEW s, Plain(s)
  PROVE  Plain(If(cond, s))
BY DEF If, Plain

\* Steps in order, and then steps of neither.
LEMMA OrderedCat ==
  ASSUME NEW s \in Seq(Step), Ordered(s), NEW u, Plain(u)
  PROVE  /\ Ordered(s \o u)
         /\ \A D \in SUBSET {"apihost", "forget"} :
              (\A i \in 1 .. Len(s) : s[i].do \notin D) =>
                \A i \in 1 .. Len(s \o u) : (s \o u)[i].do \notin D
<1>1. u \in Seq(Step) /\ Len(s) \in Nat /\ Len(u) \in Nat
  BY DEF Plain
<1> DEFINE v == s \o u
<1>2. /\ v \in Seq(Step) /\ Len(v) = Len(s) + Len(u)
      /\ \A i \in 1 .. Len(s) : v[i] = s[i]
      /\ \A i \in 1 .. Len(u) : v[Len(s) + i] = u[i]
  BY <1>1, CatIs
<1> HIDE DEF v
<1>3. ASSUME NEW i \in 1 .. Len(v), ~(i =< Len(s))
      PROVE  v[i].c \notin Early /\ v[i].do \notin {"clean", "configure", "owner", "apihost", "remove", "forget"}
  <2>1. i - Len(s) \in 1 .. Len(u) /\ Len(s) + (i - Len(s)) = i
    BY <1>1, <1>2, <1>3
  <2> QED BY <1>2, <2>1 DEF Plain
<1>4. ASSUME NEW i \in 1 .. Len(v)
      PROVE  Sorted(v, i)
  <2>1. CASE i =< Len(s)
    <3>1. i \in 1 .. Len(s) /\ v[i] = s[i] /\ Sorted(s, i)
      BY <1>1, <1>2, <2>1 DEF Ordered
    <3>2. i < Len(s) => i < Len(v) /\ v[i + 1] = s[i + 1]
      <4>1. i < Len(s) => i + 1 \in 1 .. Len(s) /\ i < Len(v)
        BY <1>1, <1>2
      <4> QED BY <1>2, <4>1
    <3> QED BY <3>1, <3>2 DEF Sorted
  <2>2. CASE ~(i =< Len(s))
    BY <1>3, <2>2 DEF Sorted, Early
  <2> QED BY <2>1, <2>2
<1>5. ASSUME NEW i \in 1 .. Len(v), NEW j \in 1 .. Len(v), i < j
      PROVE  /\ v[i].c \notin Early \/ v[i].do \in {"create", "apihost"} => v[j].c \notin Early
             /\ v[i].c = "preloader" => v[j].c # "config"
  <2>1. CASE j =< Len(s)
    <3>1. i \in 1 .. Len(s) /\ j \in 1 .. Len(s) /\ v[i] = s[i] /\ v[j] = s[j]
      BY <1>1, <1>2, <1>5, <2>1
    <3> QED BY <1>5, <3>1 DEF Ordered
  <2>2. CASE ~(j =< Len(s))
    BY <1>3, <2>2 DEF Early
  <2> QED BY <2>1, <2>2
<1>6. ASSUME NEW D \in SUBSET {"apihost", "forget"}, \A i \in 1 .. Len(s) : s[i].do \notin D,
             NEW i \in 1 .. Len(v)
      PROVE  v[i].do \notin D
  <2>1. CASE i =< Len(s)
    <3>1. i \in 1 .. Len(s) /\ v[i] = s[i]
      BY <1>1, <1>2, <2>1
    <3> QED BY <1>6, <3>1
  <2>2. CASE ~(i =< Len(s))
    BY <1>3, <1>6, <2>2
  <2> QED BY <2>1, <2>2
<1>7. Ordered(v)
  BY <1>4, <1>5 DEF Ordered
<1> QED
  BY <1>6, <1>7 DEF v

\* The parts of the handlers behind the preloader.
LEMMA PlainParts ==
  /\ Plain(CouchDB) /\ Plain(RedisUser) /\ Plain(Redis) /\ Plain(Minio) /\ Plain(Postgres)
  /\ Plain(Ferret) /\ Plain(Openwhisk) /\ Plain(PostCreate)
  /\ Plain(Of("system", "controller", << "deploy" >>))
<1> DEFINE None == {"clean", "configure", "owner", "apihost", "remove", "forget"}
           Allowed(d) == d \in Seq(Dos) /\ \A i \in 1 .. Len(d) : d[i] \notin None
<1>g. \A c \in Groups \ Early, w \in Workloads \cup {"none"} : \A d : Allowed(d) => Plain(Of(c, w, d))
  BY PlainOf
<1>h. \A x \in Dos \ None : Allowed(<< x >>)
  BY DEF Dos
<1>i. \A x, y \in Dos \ None : Allowed(<< x, y >>)
  <2> TAKE x, y \in Dos \ None
  <2> DEFINE d == << x, y >>
  <2>1. d \in Seq(Dos) /\ Len(d) = 2 /\ d[1] = x /\ d[2] = y
    BY DEF Dos
  <2> HIDE DEF d
  <2>2. \A i \in 1 .. Len(d) : d[i] = x \/ d[i] = y
    BY <2>1
  <2> QED BY <2>1, <2>2 DEF d
<1>j. Allowed(Deployed)
  <2>1. Deployed \in Seq(Dos) /\ Len(Deployed) = 3
        /\ Deployed[1] = "apply" /\ Deployed[2] = "pick" /\ Deployed[3] = "wait"
    BY DEF Dos, Deployed
  <2>2. \A i \in 1 .. Len(Deployed) : i = 1 \/ i = 2 \/ i = 3
    BY <2>1
  <2> QED BY <2>1, <2>2
<1>k. \A x \in Dos \ None : Allowed(Deployed \o << x >>)
  <2> TAKE x \in Dos \ None
  <2> DEFINE d == Deployed \o << x >>
  <2>1. d \in Seq(Dos) /\ Len(d) = 4
        /\ d[1] = "apply" /\ d[2] = "pick" /\ d[3] = "wait" /\ d[4] = x
    BY DEF Dos, Deployed
  <2> HIDE DEF d
  <2>2. \A i \in 1 .. Len(d) : i = 1 \/ i = 2 \/ i = 3 \/ i = 4
    BY <2>1
  <2> QED BY <2>1, <2>2 DEF d
<1>n. /\ {"couchdb", "redis", "redis user", "minio", "minio user", "data bucket", "web bucket",
          "policy", "kubegres", "postgres", "postgres keys", "mongodb", "mongodb keys",
          "openwhisk", "metadata", "system"} \subseteq Groups \ Early
      /\ {"couchdb", "redis", "minio", "kubegres", "postgres", "mongodb", "controller", "none"}
           \subseteq Workloads \cup {"none"}
      /\ {"account", "note", "user", "bucket", "grant", "service", "endpoint", "save", "deploy",
          "pick", "wait"} \subseteq Dos \ None
  BY DEF Groups, Early, Workloads, Dos
<1> HIDE DEF None, Allowed
<1>1. Plain(CouchDB)
  BY <1>g, <1>j, <1>n DEF CouchDB
<1>2. Plain(RedisUser)
  BY <1>g, <1>i, <1>n DEF RedisUser
<1>3. Plain(Redis)
  <2>1. Plain(Of("redis", "redis", Deployed))
    BY <1>g, <1>j, <1>n
  <2> QED BY <1>2, <2>1, PlainCat DEF Redis
<1>4. Plain(Minio)
  <2>1. Plain(Of("minio", "minio", Deployed))
    BY <1>g, <1>j, <1>n
  <2>2. Plain(Of("minio user", "minio", << "user", "note" >>))
    BY <1>g, <1>i, <1>n
  <2>3. Plain(Of("data bucket", "minio", << "bucket", "note" >>))
    BY <1>g, <1>i, <1>n
  <2>4. Plain(Of("web bucket", "minio", << "bucket", "note" >>))
    BY <1>g, <1>i, <1>n
  <2>5. Plain(Of("policy", "minio", << "grant" >>))
    BY <1>g, <1>h, <1>n
  <2>6. Plain(Storage)
    BY <2>2, <2>3, <2>4, <2>5, PlainCat DEF Storage
  <2> QED BY <2>1, <2>6, PlainCat DEF Minio
<1>5. Plain(Postgres)
  <2>1. Plain(Of("kubegres", "kubegres", Deployed))
    BY <1>g, <1>j, <1>n
  <2>2. Plain(Of("postgres", "postgres", Deployed \o << "service" >>))
    BY <1>g, <1>k, <1>n
  <2>3. Plain(Of("postgres keys", "postgres", << "note" >>))
    BY <1>g, <1>h, <1>n
  <2> QED BY <2>1, <2>2, <2>3, PlainCat DEF Postgres
<1>6. Plain(Ferret)
  <2>1. Plain(Of("mongodb", "mongodb", Deployed))
    BY <1>g, <1>j, <1>n
  <2>2. Plain(Of("mongodb keys", "mongodb", << "note" >>))
    BY <1>g, <1>h, <1>n
  <2> QED BY <2>1, <2>2, PlainCat DEF Ferret
<1>7. Plain(Openwhisk)
  <2>1. Plain(Of("openwhisk", "couchdb", << "pick", "wait" >>))
    BY <1>g, <1>i, <1>n
  <2>2. Plain(Of("openwhisk", "controller", Deployed \o << "endpoint" >>))
    BY <1>g, <1>k, <1>n
  <2> QED BY <2>1, <2>2, PlainCat DEF Openwhisk, Controller
<1>8. Plain(Of("system", "controller", << "deploy" >>))
  BY <1>g, <1>h, <1>n
<1>9. Plain(PostCreate)
  <2>1. Plain(Of("metadata", "none", << "save" >>))
    BY <1>g, <1>h, <1>n
  <2> QED BY <1>8, <2>1, PlainCat DEF PostCreate
<1> QED
  BY <1>1, <1>2, <1>3, <1>4, <1>5, <1>6, <1>7, <1>8, <1>9

\* The configuration and the preloader, at the head of the creation.
LEMMA Opening ==
  LET b == (Begun \o Of("config", "none", << "owner" >>)) \o Preloader IN
  /\ b \in Seq(Step) /\ Len(b) = 9 /\ Ordered(b) /\ b[1].c = "config" /\ b[1].do = "clean"
  /\ \A i \in 1 .. Len(b) : b[i].do \notin {"apihost", "forget"}
<1> DEFINE o == Of("config", "none", << "owner" >>)
           a == Begun \o o
           b == a \o Preloader
<1>g. "config" \in Groups /\ "none" \in Workloads \cup {"none"}
  BY DEF Groups
<1>1. /\ Begun \in Seq(Step) /\ Len(Begun) = 2 /\ Begun[1].c = "config" /\ Begun[2].c = "config"
      /\ Begun[1].do = "clean" /\ Begun[2].do = "configure"
  <2> DEFINE d == << "clean", "configure" >>
  <2>1. d \in Seq(Dos) /\ Len(d) = 2 /\ 1 \in 1 .. Len(d) /\ 2 \in 1 .. Len(d)
        /\ d[1] = "clean" /\ d[2] = "configure"
    BY DEF Dos
  <2> HIDE DEF d
  <2>2. /\ Begun \in Seq(Step) /\ Len(Begun) = Len(d)
        /\ \A i \in 1 .. Len(d) : Begun[i] = [c |-> "config", w |-> "none", do |-> d[i]]
    BY <1>g, <2>1, OfIs DEF Begun, d
  <2>3. /\ Begun[1] = [c |-> "config", w |-> "none", do |-> "clean"]
        /\ Begun[2] = [c |-> "config", w |-> "none", do |-> "configure"]
    BY <2>1, <2>2
  <2> QED BY <2>1, <2>2, <2>3
<1>2. o \in Seq(Step) /\ Len(o) = 1 /\ o[1].c = "config" /\ o[1].do = "owner"
  <2>1. << "owner" >> \in Seq(Dos)
    BY DEF Dos
  <2>2. o \in Seq(Step)
    BY <1>g, <2>1, OfIs
  <2>3. Len(o) = 1 /\ o[1].c = "config" /\ o[1].do = "owner"
    BY DEF Of
  <2> QED BY <2>2, <2>3
<1> HIDE DEF o
<1>3. /\ a \in Seq(Step) /\ Len(a) = 3 /\ \A i \in {1, 2, 3} : a[i].c = "config"
      /\ a[1].do = "clean" /\ a[2].do = "configure" /\ a[3].do = "owner"
  <2>1. /\ a \in Seq(Step) /\ Len(a) = Len(Begun) + Len(o)
        /\ \A i \in 1 .. Len(Begun) : a[i] = Begun[i]
        /\ \A i \in 1 .. Len(o) : a[Len(Begun) + i] = o[i]
    BY <1>1, <1>2, CatIs
  <2>2. a[1] = Begun[1] /\ a[2] = Begun[2] /\ a[3] = o[1]
    <3>1. 1 \in 1 .. Len(Begun) /\ 2 \in 1 .. Len(Begun) /\ 1 \in 1 .. Len(o) /\ Len(Begun) + 1 = 3
      BY <1>1, <1>2
    <3> HIDE DEF a
    <3> QED BY <2>1, <3>1
  <2> HIDE DEF a
  <2> QED BY <1>1, <1>2, <2>1, <2>2
<1> HIDE DEF a
<1>4. /\ b \in Seq(Step) /\ Len(b) = 9
      /\ b[1] = a[1] /\ b[2] = a[2] /\ b[3] = a[3] /\ b[4] = Preloader[1] /\ b[5] = Preloader[2]
      /\ b[6] = Preloader[3] /\ b[7] = Preloader[4] /\ b[8] = Preloader[5] /\ b[9] = Preloader[6]
  <2>0. Preloader \in Seq(Step) /\ Len(Preloader) = 6
    BY PreloaderIs
  <2>1. /\ b \in Seq(Step) /\ Len(b) = Len(a) + Len(Preloader)
        /\ \A i \in 1 .. Len(a) : b[i] = a[i]
        /\ \A i \in 1 .. Len(Preloader) : b[Len(a) + i] = Preloader[i]
    BY <1>3, <2>0, CatIs
  <2> HIDE DEF b
  <2>2. b[1] = a[1] /\ b[2] = a[2] /\ b[3] = a[3]
    BY <1>3, <2>1
  <2>3. \A i \in 1 .. 6 : b[3 + i] = Preloader[i]
    BY <1>3, <2>0, <2>1
  <2>4. /\ b[3 + 1] = Preloader[1] /\ b[3 + 2] = Preloader[2] /\ b[3 + 3] = Preloader[3]
        /\ b[3 + 4] = Preloader[4] /\ b[3 + 5] = Preloader[5] /\ b[3 + 6] = Preloader[6]
    BY <2>3
  <2> QED BY <1>3, <2>0, <2>1, <2>2, <2>4
<1> HIDE DEF b
<1>5. /\ b[1].do = "clean" /\ b[2].do = "configure" /\ b[3].do = "owner"
      /\ b[4].do = "read" /\ b[5].do = "patch" /\ b[6].do = "open" /\ b[7].do = "close"
      /\ b[8].do = "build" /\ b[9].do = "create"
  BY <1>3, <1>4, PreloaderIs
<1>6. \A i \in 1 .. 9 : b[i].c = IF i =< 3 THEN "config" ELSE "preloader"
  <2>1. \A i \in 1 .. 6 : Preloader[i].c = "preloader"
    BY PreloaderIs
  <2>2. /\ Preloader[1].c = "preloader" /\ Preloader[2].c = "preloader"
        /\ Preloader[3].c = "preloader" /\ Preloader[4].c = "preloader"
        /\ Preloader[5].c = "preloader" /\ Preloader[6].c = "preloader"
    BY <2>1
  <2>3. b[1].c = "config" /\ b[2].c = "config" /\ b[3].c = "config"
    BY <1>3, <1>4
  <2>4. /\ b[4].c = "preloader" /\ b[5].c = "preloader" /\ b[6].c = "preloader"
        /\ b[7].c = "preloader" /\ b[8].c = "preloader" /\ b[9].c = "preloader"
    BY <1>4, <2>2
  <2>5. \A i \in 1 .. 9 : i = 1 \/ i = 2 \/ i = 3 \/ i = 4 \/ i = 5 \/ i = 6 \/ i = 7 \/ i = 8 \/ i = 9
    OBVIOUS
  <2> QED BY <2>3, <2>4, <2>5
<1>7. ASSUME NEW i \in 1 .. 9
      PROVE  /\ i > 3 => b[i].do \notin {"clean", "configure", "owner", "apihost"}
             /\ i =< 3 => b[i].do \in {"clean", "configure", "owner"}
             /\ b[i].do \notin {"apihost", "forget", "remove"}
             /\ b[i].do = "create" => i = 9
             /\ i =< 3 => b[i + 1].do \in Then(b[i].do)
  <2>1. i = 1 \/ i = 2 \/ i = 3 \/ i = 4 \/ i = 5 \/ i = 6 \/ i = 7 \/ i = 8 \/ i = 9
    OBVIOUS
  <2>2. CASE i = 1
    BY <1>5, <2>2 DEF Then
  <2>3. CASE i = 2
    BY <1>5, <2>3 DEF Then
  <2>4. CASE i = 3
    BY <1>5, <2>4 DEF Then
  <2>5. CASE i \in {4, 5, 6}
    BY <1>5, <2>5
  <2>6. CASE i \in {7, 8, 9}
    BY <1>5, <2>6
  <2> QED BY <2>1, <2>2, <2>3, <2>4, <2>5, <2>6
<1>8. ASSUME NEW i \in 1 .. 9
      PROVE  Sorted(b, i)
  <2>1. i =< 3 => i + 1 \in 1 .. 9 /\ i < 9
    OBVIOUS
  <2>2. i =< 3 => b[i + 1].c \in Early
    BY <1>6, <2>1 DEF Early
  <2>3. i =< 3 \/ i > 3
    OBVIOUS
  <2> QED BY <1>4, <1>6, <1>7, <2>1, <2>2, <2>3 DEF Sorted
<1>9. Ordered(b)
  BY <1>4, <1>6, <1>7, <1>8 DEF Ordered, Early
<1>10. b[1].c = "config" /\ b[1].do = "clean"
  BY <1>3, <1>4
<1> QED
  BY <1>4, <1>7, <1>9, <1>10 DEF b, a, o

\* A handler that begins with the configuration, and has none of the steps D.
Opens(L, D) ==
  /\ L \in Seq(Step) /\ L # << >> /\ L[1].c = "config" /\ L[1].do = "clean"
  /\ Ordered(L) /\ \A i \in 1 .. Len(L) : L[i].do \notin D

LEMMA OpensCat ==
  ASSUME NEW D \in SUBSET {"apihost", "forget"}, NEW s, NEW u, Opens(s, D), Plain(u)
  PROVE  Opens(s \o u, D)
<1>1. s \in Seq(Step) /\ u \in Seq(Step) /\ Len(s) > 0 /\ Len(s) \in Nat /\ Len(u) \in Nat
  BY DEF Opens, Plain
<1> DEFINE v == s \o u
<1>2. /\ v \in Seq(Step) /\ Len(v) = Len(s) + Len(u) /\ \A i \in 1 .. Len(s) : v[i] = s[i]
  BY <1>1, CatIs
<1>3. Ordered(v) /\ \A i \in 1 .. Len(v) : v[i].do \notin D
  BY OrderedCat DEF Opens
<1> HIDE DEF v
<1>4. v # << >> /\ v[1] = s[1]
  <2>1. Len(v) # 0 /\ Len(<< >>) = 0 /\ 1 \in 1 .. Len(s)
    BY <1>1, <1>2
  <2> QED BY <1>2, <2>1
<1>5. Opens(v, D)
  BY <1>2, <1>3, <1>4 DEF Opens
<1> QED
  BY <1>5 DEF v

LEMMA CreateOpens == Opens(WhiskCreate, {"apihost", "forget"})
<1> DEFINE D == {"apihost", "forget"}
           b == (Begun \o Of("config", "none", << "owner" >>)) \o Preloader
           c1 == b \o CouchDB
           c2 == c1 \o If("redis" \in Comps, Redis)
           c3 == c2 \o If("minio" \in Comps, Minio)
           c4 == c3 \o If(Comps \cap {"postgres", "mongodb"} # {}, Postgres)
           c5 == c4 \o If("mongodb" \in Comps, Ferret)
           c6 == c5 \o Openwhisk
           c7 == c6 \o PostCreate
<1>1. Opens(b, D)
  <2>1. b # << >>
    <3>1. b \in Seq(Step) /\ Len(b) = 9
      BY Opening
    <3> HIDE DEF b
    <3> QED BY <3>1
  <2>2. b \in Seq(Step) /\ Ordered(b) /\ b[1].c = "config" /\ b[1].do = "clean"
        /\ \A i \in 1 .. Len(b) : b[i].do \notin {"apihost", "forget"}
    BY Opening
  <2> HIDE DEF b
  <2> QED BY <2>1, <2>2 DEF Opens
<1>p. /\ Plain(If("redis" \in Comps, Redis)) /\ Plain(If("minio" \in Comps, Minio))
      /\ Plain(If(Comps \cap {"postgres", "mongodb"} # {}, Postgres))
      /\ Plain(If("mongodb" \in Comps, Ferret))
  BY PlainParts, PlainIf
<1>e. WhiskCreate = c7
  BY DEF WhiskCreate
<1>d. D \in SUBSET {"apihost", "forget"}
  OBVIOUS
<1> HIDE DEF b, D
<1>2. Opens(c1, D)
  BY <1>1, <1>d, PlainParts, OpensCat
<1> HIDE DEF c1
<1>3. Opens(c2, D)
  BY <1>2, <1>d, <1>p, OpensCat
<1> HIDE DEF c2
<1>4. Opens(c3, D)
  BY <1>3, <1>d, <1>p, OpensCat
<1> HIDE DEF c3
<1>5. Opens(c4, D)
  BY <1>4, <1>d, <1>p, OpensCat
<1> HIDE DEF c4
<1>6. Opens(c5, D)
  BY <1>5, <1>d, <1>p, OpensCat
<1> HIDE DEF c5
<1>7. Opens(c6, D)
  BY <1>6, <1>d, PlainParts, OpensCat
<1> HIDE DEF c6
<1>8. Opens(c7, D)
  BY <1>7, <1>d, PlainParts, OpensCat
<1>9. Opens(WhiskCreate, D)
  BY <1>8, <1>e
<1> QED
  BY <1>9 DEF D

LEMMA ResumeOpens == Opens(WhiskResume, {"forget"})
<1> DEFINE D == {"forget"}
           a == Begun \o Of("config", "none", << "apihost" >>)
           c1 == a \o If("redis" \in Comps, RedisUser)
           c2 == c1 \o Of("system", "controller", << "deploy" >>)
<1>1. Opens(a, D)
  <2> DEFINE o == Of("config", "none", << "apihost" >>)
  <2>g. "config" \in Groups /\ "none" \in Workloads \cup {"none"}
    BY DEF Groups
  <2>1. /\ Begun \in Seq(Step) /\ Len(Begun) = 2 /\ Begun[1].c = "config" /\ Begun[2].c = "config"
        /\ Begun[1].do = "clean" /\ Begun[2].do = "configure"
    <3> DEFINE d == << "clean", "configure" >>
    <3>1. d \in Seq(Dos) /\ Len(d) = 2 /\ 1 \in 1 .. Len(d) /\ 2 \in 1 .. Len(d)
          /\ d[1] = "clean" /\ d[2] = "configure"
      BY DEF Dos
    <3> HIDE DEF d
    <3>2. /\ Begun \in Seq(Step) /\ Len(Begun) = Len(d)
          /\ \A i \in 1 .. Len(d) : Begun[i] = [c |-> "config", w |-> "none", do |-> d[i]]
      BY <2>g, <3>1, OfIs DEF Begun, d
    <3>3. /\ Begun[1] = [c |-> "config", w |-> "none", do |-> "clean"]
          /\ Begun[2] = [c |-> "config", w |-> "none", do |-> "configure"]
      BY <3>1, <3>2
    <3> QED BY <3>1, <3>2, <3>3
  <2>2. o \in Seq(Step) /\ Len(o) = 1 /\ o[1].c = "config" /\ o[1].do = "apihost"
    <3>1. << "apihost" >> \in Seq(Dos)
      BY DEF Dos
    <3>2. o \in Seq(Step)
      BY <2>g, <3>1, OfIs
    <3>3. Len(o) = 1 /\ o[1].c = "config" /\ o[1].do = "apihost"
      BY DEF Of
    <3> QED BY <3>2, <3>3
  <2> HIDE DEF o
  <2>3. /\ a \in Seq(Step) /\ Len(a) = 3 /\ a[1] = Begun[1] /\ a[2] = Begun[2] /\ a[3] = o[1]
    <3>1. /\ a \in Seq(Step) /\ Len(a) = Len(Begun) + Len(o)
          /\ \A i \in 1 .. Len(Begun) : a[i] = Begun[i]
          /\ \A i \in 1 .. Len(o) : a[Len(Begun) + i] = o[i]
      BY <2>1, <2>2, CatIs DEF o
    <3>2. 1 \in 1 .. Len(Begun) /\ 2 \in 1 .. Len(Begun) /\ 1 \in 1 .. Len(o) /\ Len(Begun) + 1 = 3
      BY <2>1, <2>2
    <3> HIDE DEF a
    <3> QED BY <2>1, <2>2, <3>1, <3>2
  <2> HIDE DEF a
  <2>4. ASSUME NEW i \in 1 .. 3
        PROVE  Sorted(a, i) /\ a[i].do \notin D /\ a[i].c = "config" /\ a[i].do # "create"
               /\ (i < 3 => a[i].do # "apihost")
    <3>1. i = 1 \/ i = 2 \/ i = 3
      OBVIOUS
    <3>2. CASE i = 1
      BY <2>1, <2>3, <3>2 DEF Sorted, Then, Early
    <3>3. CASE i = 2
      BY <2>1, <2>2, <2>3, <3>3 DEF Sorted, Then, Early
    <3>4. CASE i = 3
      BY <2>2, <2>3, <3>4 DEF Sorted, Then, Early
    <3> QED BY <3>1, <3>2, <3>3, <3>4
  <2>5. Ordered(a)
    BY <2>3, <2>4 DEF Ordered, Early
  <2> QED BY <2>1, <2>3, <2>4, <2>5 DEF Opens
<1>p. Plain(If("redis" \in Comps, RedisUser))
  BY PlainParts, PlainIf
<1>e. WhiskResume = c2
  BY DEF WhiskResume
<1>d. D \in SUBSET {"apihost", "forget"}
  OBVIOUS
<1> HIDE DEF a, D
<1>2. Opens(c1, D)
  BY <1>1, <1>d, <1>p, OpensCat
<1> HIDE DEF c1
<1>3. Opens(c2, D)
  BY <1>2, <1>d, PlainParts, OpensCat
<1>4. Opens(WhiskResume, D)
  BY <1>3, <1>e
<1> QED
  BY <1>4 DEF D

LEMMA DeleteOrdered ==
  /\ Ordered(WhiskDelete) /\ Place(WhiskDelete) = "out"
  /\ \A i \in 1 .. Len(WhiskDelete) : WhiskDelete[i].c = "removal"
<1> DEFINE d == << "forget", "delete" >>
<1>1. d \in Seq(Dos) /\ Len(d) = 2 /\ d[1] = "forget" /\ d[2] = "delete"
  BY DEF Dos
<1>g. "removal" \in Groups /\ "none" \in Workloads \cup {"none"}
  BY DEF Groups
<1> HIDE DEF d
<1>2. /\ WhiskDelete \in Seq(Step) /\ Len(WhiskDelete) = Len(d)
      /\ \A i \in 1 .. Len(d) : WhiskDelete[i] = [c |-> "removal", w |-> "none", do |-> d[i]]
  BY <1>1, <1>g, OfIs DEF WhiskDelete, d
<1>3. ASSUME NEW i \in 1 .. Len(WhiskDelete)
      PROVE  WhiskDelete[i].c = "removal" /\ WhiskDelete[i].do \in {"forget", "delete"}
  <2>1. i = 1 \/ i = 2
    BY <1>1, <1>2
  <2>2. WhiskDelete[i] = [c |-> "removal", w |-> "none", do |-> d[i]]
    BY <1>2
  <2>3. d[i] \in {"forget", "delete"}
    BY <1>1, <2>1
  <2> QED BY <2>2, <2>3
<1>4. Ordered(WhiskDelete)
  BY <1>3 DEF Ordered, Sorted, Early
<1>5. Place(WhiskDelete) = "out"
  <2>1. 1 \in 1 .. Len(WhiskDelete)
    BY <1>1, <1>2
  <2> QED BY <1>3, <2>1 DEF Place, Early
<1> QED
  BY <1>3, <1>4, <1>5

LEMMA WatcherOrdered ==
  ASSUME NEW o \in BOOLEAN
  PROVE  /\ Ordered(Watcher(o)) /\ Place(Watcher(o)) = IF o THEN "first" ELSE "forget"
<1> DEFINE W == Watcher(o)
           a == Ahead(o)
<1>a. a \in {1, 2} /\ (o <=> a = 2)
  BY DEF Ahead
<1>1. /\ W \in Seq(Step) /\ Len(W) = a + 7
      /\ a = 2 => /\ W[1].c = "preloader" /\ W[1].do = "build"
                  /\ W[2].c = "preloader" /\ W[2].do = "remove"
      /\ a = 1 => W[1].c = "preloader" /\ W[1].do = "forget"
  BY <1>a, WatcherIs
<1>2. /\ \A i \in 1 .. 6 : W[a + i] = Preloader[i]
      /\ W[a + 7].c = "restart" /\ W[a + 7].do = "rollout"
  BY WatcherIs
<1> HIDE DEF W, a
<1>3. ASSUME NEW i \in 1 .. 6
      PROVE  /\ Preloader[i].c = "preloader" /\ (Preloader[i].do = "create" <=> i = 6)
             /\ Preloader[i].do \notin {"clean", "configure", "owner", "apihost", "remove"}
  <2>1. i = 1 \/ i = 2 \/ i = 3 \/ i = 4 \/ i = 5 \/ i = 6
    OBVIOUS
  <2> QED BY <2>1, PreloaderIs
<1>4. ASSUME NEW i \in 1 .. Len(W)
      PROVE  /\ W[i].c = IF i = a + 7 THEN "restart" ELSE "preloader"
             /\ W[i].do \notin {"clean", "configure", "owner", "apihost"}
             /\ W[i].do = "remove" => i =< 2
             /\ W[i].do = "create" => i = a + 6
  <2>1. CASE i =< a
    <3>1. i = 1 \/ i = 2
      BY <1>a, <2>1
    <3> QED BY <1>a, <1>1, <2>1, <3>1
  <2>2. CASE i = a + 7
    BY <1>2, <2>2
  <2>3. CASE i > a /\ i # a + 7
    <3>1. i - a \in 1 .. 6 /\ a + (i - a) = i
      BY <1>a, <1>1, <2>3
    <3>2. W[i] = Preloader[i - a]
      BY <1>2, <3>1
    <3>3. i - a = 6 => i = a + 6
      BY <1>a
    <3> QED BY <1>3, <2>3, <3>1, <3>2, <3>3
  <2> QED BY <1>a, <1>1, <2>1, <2>2, <2>3
<1>5. Ordered(W)
  <2>1. \A i \in 1 .. Len(W) : Sorted(W, i)
    BY <1>4 DEF Sorted
  <2>2. ASSUME NEW i \in 1 .. Len(W), NEW j \in 1 .. Len(W), i < j
        PROVE  /\ W[i].c \notin Early \/ W[i].do \in {"create", "apihost"} => W[j].c \notin Early
               /\ W[i].c = "preloader" => W[j].c # "config"
    <3>1. i # a + 7 /\ (i = a + 6 => j = a + 7)
      BY <1>a, <1>1, <2>2
    <3>2. W[i].c = "preloader" /\ W[j].c \in {"restart", "preloader"} /\ W[i].do # "apihost"
      BY <1>4, <3>1
    <3>3. W[i].do = "create" => W[j].c = "restart"
      BY <1>4, <3>1
    <3> QED BY <3>2, <3>3 DEF Early
  <2> QED BY <2>1, <2>2 DEF Ordered
<1>6. Place(W) = IF o THEN "first" ELSE "forget"
  <2>1. W # << >>
    <3>1. Len(W) # 0 /\ Len(<< >>) = 0
      BY <1>a, <1>1
    <3> QED BY <3>1
  <2> QED BY <1>a, <1>1, <2>1 DEF Place, Early
<1> QED
  BY <1>5, <1>6 DEF W

\* The place after a step.
Next1(p) ==
  CASE p = "clean" -> {"configure"} [] p = "configure" -> {"owner", "apihost"} [] p = "owner" -> {"read"}
    [] p = "read" -> {"patch"} [] p = "patch" -> {"open"} [] p = "open" -> {"close"}
    [] p = "close" -> {"build"} [] p = "build" -> {"create"} [] p = "first" -> {"remove"}
    [] p \in {"remove", "forget"} -> {"read"} [] OTHER -> {"out"}

LEMMA PlaceTail ==
  ASSUME NEW L \in Seq(Step), Chain(L), Ordered(L), L # << >>
  PROVE  /\ Place(Tail(L)) \in Next1(Place(L))
         /\ L[1].c \notin Early <=> Place(L) = "out"
         /\ Place(L) # "out" =>
              /\ Place(L) = "first" <=> L[1].do = "build" /\ Place(L) # "build"
              /\ L[1].do = IF Place(L) = "first" THEN "build" ELSE Place(L)
<1> DEFINE M == Tail(L)
           x == L[1]
           y == L[2]
<1>1. M \in Seq(Step) /\ Len(M) = Len(L) - 1 /\ Len(L) \in Nat \ {0} /\ Len(M) \in Nat
      /\ \A i \in 1 .. Len(M) : M[i] = L[i + 1]
  <2>1. Drop(L, M, 1) /\ Len(L) \in Nat \ {0}
    BY TailDrops
  <2> QED BY <2>1 DEF Drop
<1>2. 1 \in 1 .. Len(L) /\ Linked(L, 1) /\ Sorted(L, 1) /\ x \in Step
  <2>1. 1 \in 1 .. Len(L)
    BY <1>1
  <2>2. Linked(L, 1)
    BY <2>1 DEF Chain
  <2>3. Sorted(L, 1)
    BY <2>1 DEF Ordered
  <2> QED BY <2>1, <2>2, <2>3
<1>3. M # << >> => 2 \in 1 .. Len(L) /\ M[1] = y /\ 1 < Len(L) /\ Linked(L, 2) /\ Sorted(L, 2) /\ y \in Step
  <2>1. M # << >> => Len(M) > 0
    BY <1>1
  <2>2. M # << >> => 2 \in 1 .. Len(L) /\ 1 \in 1 .. Len(M) /\ 1 < Len(L)
    BY <1>1, <2>1
  <2>3. M # << >> => M[1] = L[1 + 1]
    BY <1>1, <2>2
  <2> QED BY <2>2, <2>3 DEF Chain, Ordered
<1>4. 1 < Len(L) => M # << >>
  <2>1. 1 < Len(L) => Len(M) # 0
    BY <1>1
  <2>2. Len(<< >>) = 0
    OBVIOUS
  <2> QED BY <2>1, <2>2
<1>5. M # << >> => M[2].do # "remove" \/ Len(M) < 2
  <2>1. Len(M) >= 2 => M[2] = L[3] /\ 3 \in 1 .. Len(L)
    <3>1. Len(M) >= 2 => 2 \in 1 .. Len(M) /\ 3 \in 1 .. Len(L)
      BY <1>1
    <3>2. Len(M) >= 2 => M[2] = L[2 + 1]
      BY <1>1, <3>1
    <3> QED BY <3>1, <3>2
  <2>2. Len(M) >= 2 => Sorted(L, 3)
    BY <2>1 DEF Ordered
  <2>3. Len(M) >= 2 \/ Len(M) < 2
    BY <1>1
  <2> QED BY <2>1, <2>2, <2>3 DEF Sorted
<1>6. M # << >> /\ y.c = "preloader" /\ y.do = "build" => M[2].do # "remove"
  <2> SUFFICES ASSUME M # << >>, y.c = "preloader", y.do = "build"
               PROVE  M[2].do # "remove"
    OBVIOUS
  <2>1. 2 < Len(L)
    BY <1>3 DEF Linked
  <2>2. ~(Len(M) < 2)
    BY <1>1, <2>1
  <2> QED BY <1>5, <2>2
<1>7. M # << >> /\ x.c \notin Early => y.c \notin Early
  BY <1>2, <1>3 DEF Ordered
<1>8. M # << >> /\ x.do \in {"create", "apihost"} => y.c \notin Early
  BY <1>2, <1>3 DEF Ordered
<1>9. x.c = "config" => x.do \in {"clean", "configure", "owner", "apihost"}
  BY <1>2 DEF Sorted
<1>10. x.c = "preloader" => x.do \in {"read", "patch", "open", "close", "build", "create", "remove", "forget"}
  BY <1>2 DEF Linked, Follow
<1>11. x.do \in {"clean", "configure", "owner"} => M # << >> /\ y.c \in Early /\ y.do \in Then(x.do)
  BY <1>2, <1>4 DEF Sorted
<1>12. x.c = "preloader" /\ x.do # "create" => M # << >> /\ y.c = "preloader" /\ y.do \in Follow(x.do)
  BY <1>2, <1>4 DEF Linked
<1>13. Place(L) = IF x.c \notin Early THEN "out"
                  ELSE IF x.do = "build" /\ y.do = "remove" THEN "first" ELSE x.do
  BY DEF Place
<1>14. Place(M) = IF M = << >> \/ y.c \notin Early THEN "out" ELSE y.do
  <2>1. CASE M = << >>
    BY <2>1 DEF Place
  <2>2. CASE M # << >> /\ y.c \notin Early
    BY <1>3, <2>2 DEF Place
  <2>3. CASE M # << >> /\ y.c \in Early
    <3>1. y.do = "build" => y.c = "preloader"
      BY <1>3, <2>3 DEF Sorted, Early
    <3>2. ~(M[1].do = "build" /\ M[2].do = "remove")
      BY <1>3, <1>6, <2>3, <3>1
    <3> QED BY <1>3, <2>3, <3>2 DEF Place
  <2> QED BY <2>1, <2>2, <2>3
<1>15. x.c \notin Early \/ x.do \in {"create", "apihost"} => Place(M) = "out"
  BY <1>7, <1>8, <1>14
<1>16. ASSUME x.c = "config"
       PROVE  Place(M) \in Next1(x.do) /\ Place(L) = x.do
  <2>1. Place(L) = x.do
    BY <1>9, <1>13, <1>16 DEF Early
  <2>2. x.do = "apihost" => Place(M) \in Next1(x.do)
    BY <1>15 DEF Next1
  <2>3. x.do \in {"clean", "configure", "owner"} => Place(M) = y.do /\ y.do \in Then(x.do)
    BY <1>11, <1>14
  <2>4. x.do \in {"clean", "configure", "owner"} => Place(M) \in Next1(x.do)
    BY <2>3 DEF Next1, Then
  <2> QED BY <1>9, <1>16, <2>1, <2>2, <2>4
<1>17. ASSUME x.c = "preloader"
       PROVE  Place(M) \in Next1(Place(L))
  <2>1. CASE x.do = "create"
    <3>1. Place(L) = "create"
      BY <1>13, <1>17, <2>1 DEF Early
    <3> QED BY <1>15, <2>1, <3>1 DEF Next1
  <2>2. CASE x.do = "build"
    <3>1. Place(M) = y.do /\ y.do \in {"create", "remove"}
      BY <1>12, <1>14, <1>17, <2>2 DEF Follow, Early
    <3>2. Place(L) = IF y.do = "remove" THEN "first" ELSE "build"
      BY <1>13, <1>17, <2>2 DEF Early
    <3> QED BY <3>1, <3>2 DEF Next1
  <2>3. CASE x.do \notin {"create", "build"}
    <3>1. Place(L) = x.do
      BY <1>13, <1>17, <2>3 DEF Early
    <3>2. Place(M) = y.do /\ y.do \in Follow(x.do)
      BY <1>12, <1>14, <1>17, <2>3 DEF Early
    <3>3. Follow(x.do) \subseteq Next1(x.do)
      BY <1>10, <1>17, <2>3 DEF Follow, Next1
    <3> QED BY <3>1, <3>2, <3>3
  <2> QED BY <2>1, <2>2, <2>3
<1>18. x.c \notin Early => Place(L) = "out" /\ Place(M) \in Next1("out")
  BY <1>13, <1>15 DEF Next1
<1>19. Place(M) \in Next1(Place(L))
  BY <1>16, <1>17, <1>18 DEF Early
<1>20. /\ x.c \notin Early <=> Place(L) = "out"
       /\ Place(L) # "out" =>
            /\ Place(L) = "first" <=> x.do = "build" /\ Place(L) # "build"
            /\ x.do = IF Place(L) = "first" THEN "build" ELSE Place(L)
  <2>1. x.c \in Early => x.do \notin {"out", "first"}
    BY <1>9, <1>10 DEF Early
  <2> QED BY <1>13, <2>1
<1> QED
  BY <1>19, <1>20

LEMMA PlaceDrop ==
  ASSUME NEW L \in Seq(Step), Ordered(L), Place(L) = "out", NEW M, NEW d, Drop(L, M, d)
  PROVE  Place(M) = "out"
<1>0. d \in Nat /\ Len(L) \in Nat /\ Len(M) \in Nat /\ M \in Seq(Step)
  BY DEF Drop
<1>1. CASE M = << >>
  BY <1>1 DEF Place
<1>2. CASE M # << >>
  <2>1. 1 \in 1 .. Len(M) /\ 1 \in 1 .. Len(L) /\ 1 + d \in 1 .. Len(L) /\ M[1] = L[1 + d]
    <3>1. Len(M) > 0
      BY <1>0, <1>2
    <3>2. 1 \in 1 .. Len(M)
      BY <1>0, <3>1
    <3> QED BY <1>0, <3>2 DEF Drop
  <2>2. L[1].c \notin Early
    <3>1. L # << >> /\ L[1] \in Step
      BY <2>1
    <3>2. L[1].do # "out"
      BY <3>1 DEF Step, Dos
    <3> QED BY <3>1, <3>2 DEF Place
  <2>3. M[1].c \notin Early
    <3>1. d = 0 \/ 1 < 1 + d
      BY <1>0
    <3>2. 1 < 1 + d => L[1 + d].c \notin Early
      BY <2>1, <2>2 DEF Ordered
    <3> QED BY <2>1, <2>2, <3>1, <3>2
  <2> QED BY <2>3 DEF Place
<1> QED
  BY <1>1, <1>2

LEMMA PlaceSkip ==
  ASSUME NEW L \in Seq(Step), Ordered(L), L # << >>, L[1].c = "preloader"
  PROVE  Place(After(L, {"preloader"})) = "out"
<1> DEFINE M == After(L, {"preloader"})
<1>1. PICK d \in 0 .. Len(L) :
        /\ Drop(L, M, d) /\ \A j \in 1 .. d : L[j].c \in {"preloader"}
        /\ d < Len(L) => L[d + 1].c \notin {"preloader"}
  BY AfterDrops
<1> HIDE DEF M
<1>2. Len(L) \in Nat \ {0} /\ Len(M) \in Nat /\ M \in Seq(Step) /\ Len(M) = Len(L) - d
  BY <1>1, TailDrops DEF Drop
<1>3. CASE M = << >>
  BY <1>3 DEF Place, M
<1>4. CASE M # << >>
  <2>1. d < Len(L) /\ 1 \in 1 .. Len(M)
    <3>1. Len(M) > 0
      BY <1>2, <1>4
    <3> QED BY <1>2, <3>1
  <2>2. M[1] = L[1 + d]
    BY <1>1, <2>1 DEF Drop
  <2>3. d # 0
    BY <1>1, <1>2, <2>1
  <2>4. 1 \in 1 .. Len(L) /\ d + 1 \in 1 .. Len(L) /\ 1 < d + 1 /\ 1 + d = d + 1
    BY <1>2, <2>1, <2>3
  <2>5. L[d + 1].c # "config" /\ L[d + 1].c # "preloader"
    BY <1>1, <2>1, <2>4 DEF Ordered
  <2> QED BY <2>2, <2>4, <2>5 DEF Place, Early, M
<1> QED
  BY <1>3, <1>4

\* The record of a thread after a step.
Keeps(t) ==
  /\ th'[t].op = th[t].op /\ th'[t].owner = th[t].owner
  /\ th'[t].seen = th[t].seen /\ th'[t].spec = th[t].spec

LEMMA GoesKeeps ==
  ASSUME TypeInv, NEW t \in Threads, Goes(t)
  PROVE  Keeps(t) /\ th'[t].left = Tail(th[t].left)
<1> DEFINE y == [th[t] EXCEPT !.left = Tail(@)]
<1>1. /\ y.left = Tail(th[t].left) /\ y.op = th[t].op /\ y.owner = th[t].owner
      /\ y.seen = th[t].seen /\ y.spec = th[t].spec
  BY ThreadIs DEF Record
<1>2. th' = [th EXCEPT ![t] = y]
  BY DEF Goes
<1> HIDE DEF y
<1> QED
  BY <1>1, <1>2, Replacing DEF Keeps

LEMMA SkipsKeeps ==
  ASSUME TypeInv, NEW t \in Threads, NEW cs, Skips(t, cs)
  PROVE  Keeps(t) /\ th'[t].left = After(th[t].left, cs)
<1> DEFINE y == [th[t] EXCEPT !.left = After(@, cs)]
<1>1. /\ y.left = After(th[t].left, cs) /\ y.op = th[t].op /\ y.owner = th[t].owner
      /\ y.seen = th[t].seen /\ y.spec = th[t].spec
  BY ThreadIs DEF Record
<1>2. th' = [th EXCEPT ![t] = y]
  BY DEF Skips
<1> HIDE DEF y
<1> QED
  BY <1>1, <1>2, Replacing DEF Keeps

LEMMA RaiseKeeps ==
  ASSUME TypeInv, NEW t \in Threads, Raise(t)
  PROVE  \/ Now(t).c \in Caught /\ Keeps(t) /\ th'[t].left = After(th[t].left, Inside(Now(t).c))
         \/ Now(t).c \notin Caught /\ th'[t] = Idle
<1>1. CASE Now(t).c \in Caught
  BY <1>1, SkipsKeeps DEF Raise
<1>2. CASE Now(t).c \notin Caught
  BY <1>2, Replacing DEF Raise
<1> QED
  BY <1>1, <1>2

LEMMA ReadKeeps ==
  ASSUME TypeInv, NEW t \in Threads, ReadRuntimes(t)
  PROVE  /\ th'[t].op = th[t].op /\ th'[t].owner = th[t].owner /\ th'[t].spec = th[t].spec
         /\ th'[t].seen = version /\ th'[t].left = Tail(th[t].left)
<1> DEFINE V == version
           y == [th[t] EXCEPT !.left = Tail(@), !.seen = V]
<1>1. /\ y.left = Tail(th[t].left) /\ y.op = th[t].op /\ y.owner = th[t].owner
      /\ y.seen = V /\ y.spec = th[t].spec
  BY ThreadIs DEF Record
<1>2. th' = [th EXCEPT ![t] = y]
  BY DEF ReadRuntimes
<1> HIDE DEF y
<1> QED
  BY <1>1, <1>2, Replacing

LEMMA BuildKeeps ==
  ASSUME TypeInv, NEW t \in Threads, Build(t)
  PROVE  /\ th'[t].op = th[t].op /\ th'[t].owner = th[t].owner /\ th'[t].seen = th[t].seen
         /\ th'[t].spec = (IF kust = "full" THEN tpl ELSE 0) /\ th'[t].left = Tail(th[t].left)
<1> DEFINE V == IF kust = "full" THEN tpl ELSE 0
           y == [th[t] EXCEPT !.left = Tail(@), !.spec = V]
<1>1. /\ y.left = Tail(th[t].left) /\ y.op = th[t].op /\ y.owner = th[t].owner
      /\ y.spec = V /\ y.seen = th[t].seen
  BY ThreadIs DEF Record
<1>2. th' = [th EXCEPT ![t] = y]
  BY DEF Build
<1> HIDE DEF y
<1> QED
  BY <1>1, <1>2, Replacing

LEMMA OwnerKeeps ==
  ASSUME TypeInv, NEW t \in Threads, GetOwner(t)
  PROVE  /\ th'[t].op = th[t].op /\ th'[t].seen = th[t].seen /\ th'[t].spec = th[t].spec
         /\ th'[t].left = Tail(th[t].left)
         /\ th'[t].owner \/ (Trouble /\ th'[t].owner = th[t].owner)
<1>1. CASE Goes(t) /\ Trouble
  BY <1>1, GoesKeeps DEF Keeps
<1>2. CASE th' = [th EXCEPT ![t].left = Tail(@), ![t].owner = TRUE]
  <2> DEFINE y == [th[t] EXCEPT !.left = Tail(@), !.owner = TRUE]
  <2>1. /\ y.left = Tail(th[t].left) /\ y.op = th[t].op /\ y.owner
        /\ y.spec = th[t].spec /\ y.seen = th[t].seen
    BY ThreadIs DEF Record
  <2>2. th' = [th EXCEPT ![t] = y]
    BY <1>2
  <2> HIDE DEF y
  <2> QED BY <2>1, <2>2, Replacing
<1> QED
  BY <1>1, <1>2 DEF GetOwner

\* A step of the others keeps the record; what is left is dropped at the front.
LEMMA RestKeeps ==
  ASSUME TypeInv, NEW t \in Threads, Working(t)
  PROVE  \/ th'[t] = Idle \/ Keeps(t)
         \/ ReadRuntimes(t) \/ Build(t) \/ GetOwner(t)
<1>1. CASE End(t)
  BY <1>1, Replacing DEF End
<1>2. CASE CallFails(t)
  BY <1>2, RaiseKeeps DEF CallFails
<1>3. CASE Preloads(t)
  <2>1. CASE Patch(t) \/ OpenKustomization(t) \/ CloseKustomization(t)
    BY <2>1, GoesKeeps DEF Patch, OpenKustomization, CloseKustomization
  <2>2. CASE CreateJob(t)
    BY <2>2, GoesKeeps, RaiseKeeps DEF CreateJob, Applied
  <2>3. CASE RemoveByOwner(t) \/ RemoveBySpec(t)
    BY <2>3, GoesKeeps, RaiseKeeps DEF RemoveByOwner, RemoveBySpec, Removed
  <2> QED BY <1>3, <2>1, <2>2, <2>3 DEF Preloads
<1>4. CASE Configures(t)
  BY <1>4, GoesKeeps, RaiseKeeps DEF Configures, Clean, Configure, Apihost
<1>5. CASE Creates(t)
  <2>1. CASE Apply(t) \/ WaitForPod(t) \/ Annotate(t) \/ Grant(t) \/ Endpoint(t)
    BY <2>1, GoesKeeps DEF Apply, WaitForPod, Annotate, Grant, Endpoint
  <2>2. CASE PickPod(t)
    <3> DEFINE p == pods[Now(t).w].n
               y == [th[t] EXCEPT !.left = Tail(@), !.pod = p]
    <3>1. th' = [th EXCEPT ![t] = y]
      BY <2>2 DEF PickPod
    <3>2. /\ y.op = th[t].op /\ y.owner = th[t].owner
          /\ y.seen = th[t].seen /\ y.spec = th[t].spec
      BY ThreadIs DEF Record
    <3> HIDE DEF y
    <3> QED BY <3>1, <3>2, Replacing DEF Keeps
  <2>3. CASE NoPod(t)
    <3> DEFINE y == [th[t] EXCEPT !.left = Tail(Tail(@))]
    <3>1. th' = [th EXCEPT ![t] = y]
      BY <2>3 DEF NoPod
    <3>2. /\ y.op = th[t].op /\ y.owner = th[t].owner
          /\ y.seen = th[t].seen /\ y.spec = th[t].spec
      BY ThreadIs DEF Record
    <3> HIDE DEF y
    <3> QED BY <3>1, <3>2, Replacing DEF Keeps
  <2>4. CASE AnnotateFails(t)
    BY <2>4, RaiseKeeps DEF AnnotateFails
  <2>5. CASE Account(t) \/ WaitForService(t)
    BY <2>5, GoesKeeps, RaiseKeeps DEF Account, WaitForService
  <2>6. CASE AddUser(t)
    BY <2>6, GoesKeeps, SkipsKeeps DEF AddUser
  <2>7. CASE MakeBucket(t)
    BY <2>7, GoesKeeps, SkipsKeeps DEF MakeBucket, Gain
  <2> QED BY <1>5, <2>1, <2>2, <2>3, <2>4, <2>5, <2>6, <2>7 DEF Creates
<1>6. CASE Finishes(t)
  <2>1. CASE Save(t) \/ Delete(t)
    BY <2>1, GoesKeeps DEF Save, Delete
  <2>2. ASSUME NEW done \in BOOLEAN, Result(t, done)
        PROVE  Keeps(t)
    <3>1. CASE th[t].op # "create"
      BY <2>2, <3>1, GoesKeeps DEF Result
    <3>2. CASE th[t].op = "create"
      <4> DEFINE M == Of("result", "none", << IF done THEN "created" ELSE "failed" >>)
                 y == [th[t] EXCEPT !.left = M]
      <4>1. th' = [th EXCEPT ![t] = y]
        BY <2>2, <3>2 DEF Result
      <4>2. /\ y.op = th[t].op /\ y.owner = th[t].owner
            /\ y.seen = th[t].seen /\ y.spec = th[t].spec
        BY ThreadIs DEF Record
      <4> HIDE DEF y
      <4> QED BY <4>1, <4>2, Replacing DEF Keeps
    <3> QED BY <3>1, <3>2
  <2>3. CASE Deploy(t) \/ DeployGivesUp(t)
    BY <2>2, <2>3 DEF Deploy, DeployGivesUp
  <2>4. CASE DeployFails(t)
    BY <2>4 DEF DeployFails, Keeps
  <2>5. CASE Report(t)
    BY <2>5, GoesKeeps, Replacing DEF Report
  <2> QED BY <1>6, <2>1, <2>3, <2>4, <2>5 DEF Finishes
<1> QED
  BY <1>1, <1>2, <1>3, <1>4, <1>5, <1>6 DEF Working

LEMMA OpKeeps ==
  ASSUME TypeInv, NEW t \in Threads, Working(t)
  PROVE  th'[t].op \in {"idle", th[t].op}
<1>1. Idle.op = "idle"
  BY DEF Idle
<1> QED
  BY <1>1, RestKeeps, ReadKeeps, BuildKeeps, OwnerKeeps DEF Keeps

--------------------------------------------------------------------------------
\* The preloader and the threads in it.

\* Who changes the record of a thread.
LEMMA Who ==
  ASSUME TypeInv, Next, NEW t \in Threads
  PROVE  \/ th'[t] = th[t]
         \/ t = "whisk" /\ Begin
         \/ t = "watcher" /\ ((\E found \in BOOLEAN : Watch(found)) \/ Rollout)
         \/ Restart
         \/ Working(t)
<1>t. "whisk" \in Threads /\ "watcher" \in Threads /\ Threads = {"whisk", "watcher"}
  BY DEF Threads
<1>1. CASE Begin
  <2> DEFINE y == [Idle EXCEPT !.op = due, !.left = Program[due]]
  <2>1. th' = [th EXCEPT !["whisk"] = y]
    BY <1>1 DEF Begin
  <2> HIDE DEF y
  <2> QED BY <1>1, <1>t, <2>1, Replacing
<1>2. ASSUME NEW found \in BOOLEAN, Watch(found)
      PROVE  th'[t] = th[t] \/ (t = "watcher" /\ Watch(found))
  <2> DEFINE y == [Idle EXCEPT !.op = "watch", !.owner = found, !.left = Watcher(found)]
  <2>1. th' = [th EXCEPT !["watcher"] = y]
    BY <1>2 DEF Watch
  <2> HIDE DEF y
  <2> QED BY <1>2, <1>t, <2>1, Replacing
<1>3. CASE Rollout
  <2> DEFINE y == [th["watcher"] EXCEPT !.left = Tail(@)]
  <2>1. th' = [th EXCEPT !["watcher"] = y]
    BY <1>3 DEF Rollout, Goes
  <2> HIDE DEF y
  <2> QED BY <1>3, <1>t, <2>1, Replacing
<1>4. CASE Around
  BY <1>4 DEF Around, AddWhisk, DiscardWhisk, EditRuntimes, DatabasesMade, Collect, PodReady, PodLost
<1>5. ASSUME NEW s \in Threads, Working(s)
      PROVE  th'[t] = th[t] \/ Working(t)
  <2>1. s # t => th'[t] = th[t]
    BY <1>5, Motions DEF Motion
  <2> QED BY <1>5, <2>1
<1> QED
  BY <1>1, <1>2, <1>3, <1>4, <1>5, NextIs

LEMMA BeginSets ==
  ASSUME TypeInv, Begin
  PROVE  /\ th'["whisk"].left = Program[due] /\ th'["whisk"].op = due
         /\ ~th'["whisk"].owner /\ th["whisk"].op = "idle" /\ th["whisk"].left = << >>
         /\ th'["watcher"] = th["watcher"] /\ due \in {"create", "resume", "delete"}
<1> DEFINE D == due
           P == Program[due]
           y == [Idle EXCEPT !.op = D, !.left = P]
<1>1. y.left = P /\ y.op = D /\ ~y.owner
  BY DEF Idle
<1>2. th' = [th EXCEPT !["whisk"] = y] /\ due \in {"create", "resume", "delete"}
      /\ th["whisk"].op = "idle"
  BY DEF Begin, TypeInv, Values, TheObject
<1>t. "whisk" \in Threads /\ "watcher" \in Threads /\ "whisk" # "watcher"
  BY DEF Threads
<1>3. th["whisk"].left = << >>
  BY <1>t, <1>2, ThreadIs DEF Worker
<1> HIDE DEF y
<1> QED
  BY <1>1, <1>2, <1>3, <1>t, Replacing

LEMMA WatchSets ==
  ASSUME TypeInv, NEW found \in BOOLEAN, Watch(found)
  PROVE  /\ th'["watcher"].left = Watcher(found) /\ th'["watcher"].op = "watch"
         /\ th'["watcher"].owner = found /\ th["watcher"].left = << >>
         /\ th'["whisk"] = th["whisk"]
<1> DEFINE P == Watcher(found)
           y == [Idle EXCEPT !.op = "watch", !.owner = found, !.left = P]
<1>1. y.left = P /\ y.op = "watch" /\ y.owner = found
  BY DEF Idle
<1>2. th' = [th EXCEPT !["watcher"] = y] /\ th["watcher"].op = "idle"
  BY DEF Watch
<1>t. "whisk" \in Threads /\ "watcher" \in Threads /\ "whisk" # "watcher"
  BY DEF Threads
<1>3. th["watcher"].left = << >>
  BY <1>t, <1>2, ThreadIs DEF Worker
<1> HIDE DEF y
<1> QED
  BY <1>1, <1>2, <1>3, <1>t, Replacing

LEMMA RolloutSets ==
  ASSUME TypeInv, Rollout
  PROVE  /\ th'["watcher"].left = Tail(th["watcher"].left) /\ th["watcher"].left # << >>
         /\ th["watcher"].left[1].do = "rollout" /\ th["watcher"].left[1].c \notin Early
         /\ Keeps("watcher") /\ th'["whisk"] = th["whisk"]
<1>t. "whisk" \in Threads /\ "watcher" \in Threads /\ "whisk" # "watcher"
  BY DEF Threads
<1>1. Goes("watcher") /\ th["watcher"].left # << >> /\ Now("watcher").do = "rollout"
  BY DEF Rollout, At
<1>2. th'["whisk"] = th["whisk"]
  <2> DEFINE y == [th["watcher"] EXCEPT !.left = Tail(@)]
  <2>1. th' = [th EXCEPT !["watcher"] = y]
    BY <1>1 DEF Goes
  <2> HIDE DEF y
  <2> QED BY <1>t, <2>1, Replacing
<1>3. th["watcher"].left[1].do = "rollout" /\ Fits(th["watcher"].left[1])
  BY <1>t, <1>1, FirstStep
<1>4. th["watcher"].left[1].c = "restart"
  BY <1>3 DEF Fits, Suits
<1> QED
  BY <1>t, <1>1, <1>2, <1>3, <1>4, GoesKeeps DEF Early

\* No handler removes the Job in the middle of the preloader's create, and a
\* creation does not ask for the apihost.
Handles(L, op) ==
  \A i \in 1 .. Len(L) :
    /\ ~(L[i].c = "preloader" /\ L[i].do = "forget")
    /\ op = "create" => L[i].do \notin {"apihost", "forget"}
OrderInv ==
  /\ \A t \in Threads : Ordered(th[t].left)
  /\ Handles(th["whisk"].left, th["whisk"].op)

LEMMA NoSteps == Ordered(<< >>) /\ \A op : Handles(<< >>, op)
<1>1. Len(<< >>) = 0
  OBVIOUS
<1>2. \A i : i \notin 1 .. 0
  OBVIOUS
<1> QED
  BY <1>1, <1>2 DEF Ordered, Handles

LEMMA Results ==
  ASSUME NEW done \in BOOLEAN, NEW M,
         M = Of("result", "none", << IF done THEN "created" ELSE "failed" >>)
  PROVE  Ordered(M) /\ Place(M) = "out" /\ \A op : Handles(M, op)
<1> DEFINE x == IF done THEN "created" ELSE "failed"
           d == << x >>
<1>1. d \in Seq(Dos) /\ Len(d) = 1 /\ d[1] = x /\ x \in {"created", "failed"}
  BY DEF Dos
<1>g. "result" \in Groups /\ "none" \in Workloads \cup {"none"}
  BY DEF Groups
<1>e. M = Of("result", "none", d)
  OBVIOUS
<1> HIDE DEF d, x
<1>2. /\ M \in Seq(Step) /\ Len(M) = 1
      /\ \A i \in 1 .. Len(d) : M[i] = [c |-> "result", w |-> "none", do |-> d[i]]
  BY <1>1, <1>g, <1>e, OfIs
<1>3. M[1] = [c |-> "result", w |-> "none", do |-> x]
  BY <1>1, <1>2
<1>4. M[1].c = "result" /\ M[1].do \in {"created", "failed"}
  BY <1>1, <1>3
<1>5. \A i \in 1 .. Len(M) : i = 1
  <2>1. Len(M) = 1
    BY <1>2
  <2>2. \A i \in 1 .. 1 : i = 1
    OBVIOUS
  <2> QED BY <2>1, <2>2
<1>6. Ordered(M)
  BY <1>2, <1>4, <1>5 DEF Ordered, Sorted, Early
<1> QED
  BY <1>4, <1>5, <1>6 DEF Place, Handles, Early

LEMMA OrderInvKept ==
  ASSUME TypeInv, Next, OrderInv
  PROVE  OrderInv'
<1>t. "whisk" \in Threads /\ "watcher" \in Threads
  BY DEF Threads
<1>b. /\ Begin => due \in {"create", "resume", "delete"}
      /\ \A d \in {"create", "resume", "delete"} : Ordered(Program[d]) /\ Handles(Program[d], d)
  <2>1. Begin => due \in {"create", "resume", "delete"}
    BY BeginSets
  <2>2. Ordered(WhiskCreate) /\ Handles(WhiskCreate, "create")
    BY CreateOpens DEF Opens, Handles
  <2>3. Ordered(WhiskResume) /\ Handles(WhiskResume, "resume")
    BY ResumeOpens DEF Opens, Handles
  <2>4. Ordered(WhiskDelete) /\ Handles(WhiskDelete, "delete")
    BY DeleteOrdered DEF Handles
  <2>5. /\ Program["create"] = WhiskCreate /\ Program["resume"] = WhiskResume
        /\ Program["delete"] = WhiskDelete
    BY DEF Program
  <2> QED BY <2>1, <2>2, <2>3, <2>4, <2>5
<1>1. ASSUME NEW t \in Threads
      PROVE  Ordered(th'[t].left)
  <2>0. Ordered(th[t].left) /\ th[t].left \in Seq(Step)
    BY ThreadIs DEF OrderInv
  <2>1. ASSUME Begin, th'[t].left = Program[due]
        PROVE  Ordered(th'[t].left)
    BY <1>b, <2>1
  <2>2. ASSUME NEW found \in BOOLEAN, th'[t].left = Watcher(found)
        PROVE  Ordered(th'[t].left)
    BY <2>2, WatcherOrdered
  <2>3. ASSUME th[t].left # << >>, th'[t].left = Tail(th[t].left)
        PROVE  Ordered(th'[t].left)
    <3>1. Drop(th[t].left, th'[t].left, 1)
      BY <2>0, <2>3, TailDrops
    <3> QED BY <2>0, <3>1, OrderedDrop
  <2>4. ASSUME th'[t].left = << >>
        PROVE  Ordered(th'[t].left)
    BY <2>4, NoSteps
  <2>5. ASSUME Working(t)
        PROVE  Ordered(th'[t].left)
    BY <2>0, <2>5, Drops, OrderedDrop, Results
  <2> QED BY <2>0, <2>1, <2>2, <2>3, <2>4, <2>5, Moves
<1>2. Handles(th'["whisk"].left, th'["whisk"].op)
  <2>0. Handles(th["whisk"].left, th["whisk"].op)
    BY DEF OrderInv
  <2>1. CASE Begin
    BY <1>b, <2>1, BeginSets
  <2>2. CASE Restart
    <3>1. th'["whisk"].left = << >>
      BY <1>t, <2>2 DEF Restart, Idle
    <3> QED BY <3>1, NoSteps
  <2>3. CASE Working("whisk")
    <3> DEFINE L == th["whisk"].left
               M == th'["whisk"].left
    <3>1. th'["whisk"].op = "create" => th["whisk"].op = "create"
      BY <1>t, <2>3, OpKeeps
    <3>2. ASSUME NEW d, Drop(L, M, d)
          PROVE  Handles(M, th'["whisk"].op)
      <4>1. ASSUME NEW i \in 1 .. Len(M)
            PROVE  i + d \in 1 .. Len(L) /\ M[i] = L[i + d]
        <5>1. L \in Seq(Step)
          BY <1>t, ThreadIs
        <5> HIDE DEF L, M
        <5> QED BY <3>2, <5>1 DEF Drop
      <4> HIDE DEF M
      <4> QED BY <2>0, <3>1, <4>1 DEF Handles
    <3>3. ASSUME NEW done \in BOOLEAN,
                 M = Of("result", "none", << IF done THEN "created" ELSE "failed" >>)
          PROVE  Handles(M, th'["whisk"].op)
      BY <3>3, Results
    <3> QED BY <1>t, <2>3, <3>2, <3>3, Drops
  <2> QED BY <1>t, <2>0, <2>1, <2>2, <2>3, Who
<1> QED
  BY <1>1, <1>2 DEF OrderInv

LEMMA TailPlace ==
  ASSUME TypeInv, OrderInv, NEW t \in Threads, th[t].left # << >>, th'[t].left = Tail(th[t].left)
  PROVE  Place(th'[t].left) \in Next1(Place(th[t].left))
<1>1. th[t].left \in Seq(Step) /\ Chain(th[t].left) /\ Ordered(th[t].left)
  BY ThreadIs DEF OrderInv
<1> QED
  BY <1>1, PlaceTail

LEMMA RaisePlace ==
  ASSUME TypeInv, OrderInv, NEW t \in Threads, th[t].left # << >>, Now(t).c = "preloader", Raise(t)
  PROVE  Keeps(t) /\ Place(th'[t].left) = "out"
<1>1. th[t].left \in Seq(Step) /\ Ordered(th[t].left) /\ th[t].left[1].c = "preloader"
  BY ThreadIs, FirstStep DEF OrderInv
<1>2. Now(t).c \in Caught /\ Inside(Now(t).c) = {"preloader"}
  BY DEF Caught, Inside
<1>3. Keeps(t) /\ th'[t].left = After(th[t].left, {"preloader"})
  BY <1>2, RaiseKeeps
<1> QED
  BY <1>1, <1>3, PlaceSkip

\* Behind the preloader a thread stays.
LEMMA OutStays ==
  ASSUME TypeInv, OrderInv, NEW t \in Threads, Working(t), Place(th[t].left) = "out"
  PROVE  Place(th'[t].left) = "out"
<1>1. th[t].left \in Seq(Step) /\ Ordered(th[t].left)
  BY ThreadIs DEF OrderInv
<1> QED
  BY <1>1, Drops, PlaceDrop, Results

LEMMA IdlePlace == Place(Idle.left) = "out"
<1>1. Idle.left = << >>
  BY DEF Idle
<1> QED
  BY <1>1 DEF Place

\* What the first step says of the place.
LEMMA FirstPlace ==
  ASSUME TypeInv, OrderInv, NEW t \in Threads, th[t].left # << >>
  PROVE  /\ Now(t).c \notin Early <=> Place(th[t].left) = "out"
         /\ Place(th[t].left) # "out" =>
              Now(t).do = IF Place(th[t].left) = "first" THEN "build" ELSE Place(th[t].left)
         /\ Now(t).c = "config" <=> Now(t).do \in {"clean", "configure", "owner", "apihost"}
         /\ Now(t).do \in {"read", "patch", "open", "close", "build", "create", "remove"} =>
              Now(t).c = "preloader"
         /\ Now(t).c = "preloader" =>
              Now(t).do \in {"read", "patch", "open", "close", "build", "create", "remove", "forget"}
         /\ Now(t).do = "build" => Place(th[t].left) \in {"build", "first"}
<1>1. th[t].left \in Seq(Step) /\ Chain(th[t].left) /\ Ordered(th[t].left)
  BY ThreadIs DEF OrderInv
<1>2. /\ Now(t) = th[t].left[1] /\ 1 \in 1 .. Len(th[t].left)
      /\ Linked(th[t].left, 1) /\ Fits(Now(t))
  BY FirstStep
<1>3. Sorted(th[t].left, 1)
  BY <1>1, <1>2 DEF Ordered
<1>4. /\ Now(t).c \notin Early <=> Place(th[t].left) = "out"
      /\ Place(th[t].left) # "out" =>
           Now(t).do = IF Place(th[t].left) = "first" THEN "build" ELSE Place(th[t].left)
  BY <1>1, <1>2, PlaceTail
<1>5. Now(t).c = "config" <=> Now(t).do \in {"clean", "configure", "owner", "apihost"}
  BY <1>2, <1>3 DEF Sorted
<1>6. Now(t).do \in {"read", "patch", "open", "close", "build", "create", "remove"} => Now(t).c = "preloader"
  BY <1>2 DEF Fits, Suits
<1>7. Now(t).c = "preloader" =>
        Now(t).do \in {"read", "patch", "open", "close", "build", "create", "remove", "forget"}
  BY <1>2 DEF Linked, Follow
<1>8. Now(t).do = "build" => Place(th[t].left) \in {"build", "first"}
  <2> SUFFICES ASSUME Now(t).do = "build"
               PROVE  Place(th[t].left) \in {"build", "first"}
    OBVIOUS
  <2>1. Place(th[t].left) # "out"
    BY <1>4, <1>6 DEF Early
  <2> QED BY <1>4, <2>1
<1> QED
  BY <1>4, <1>5, <1>6, <1>7, <1>8

\* What a thread does where it is.
LEMMA Doing ==
  ASSUME TypeInv, OrderInv, NEW t \in Threads, Working(t)
  PROVE  LET p == Place(th[t].left) IN
         \/ End(t) \/ CallFails(t)
         \/ t = "whisk" /\ \/ p = "clean" /\ Clean(t)
                           \/ p = "configure" /\ Configure(t)
                           \/ p = "apihost" /\ Apihost(t)
                           \/ p = "owner" /\ GetOwner(t)
                           \/ p = "out" /\ (Creates(t) \/ Finishes(t))
         \/ Preloads(t) /\ \/ p = "read" /\ ReadRuntimes(t)
                           \/ p = "patch" /\ Patch(t)
                           \/ p = "open" /\ OpenKustomization(t)
                           \/ p = "close" /\ CloseKustomization(t)
                           \/ p \in {"build", "first"} /\ Build(t)
                           \/ p = "create" /\ CreateJob(t)
                           \/ p = "remove" /\ RemoveByOwner(t)
                           \/ p = "forget" /\ RemoveBySpec(t)
                           \/ p = "out" /\ t = "whisk" /\ RemoveBySpec(t) /\ Now(t).c # "preloader"
<1> DEFINE p == Place(th[t].left)
<1>0. th[t].left # << >> =>
         /\ Now(t).c \notin Early <=> p = "out"
         /\ p # "out" => Now(t).do = IF p = "first" THEN "build" ELSE p
         /\ Now(t).c = "config" <=> Now(t).do \in {"clean", "configure", "owner", "apihost"}
         /\ Now(t).do \in {"read", "patch", "open", "close", "build", "create", "remove"} =>
              Now(t).c = "preloader"
         /\ Now(t).c = "preloader" =>
              Now(t).do \in {"read", "patch", "open", "close", "build", "create", "remove", "forget"}
         /\ Now(t).do = "build" => p \in {"build", "first"}
  BY FirstPlace
<1>w. t = "watcher" \/ t = "whisk"
  BY DEF Threads
<1>v. t = "watcher" /\ th[t].left # << >> => Now(t).c \in {"preloader", "restart"}
  BY FirstStep, ThreadIs DEF Worker
<1> HIDE DEF p
<1>1. CASE Configures(t) /\ t = "whisk"
  <2>1. th[t].left # << >> /\ \/ Now(t).do = "clean" /\ Clean(t)
                              \/ Now(t).do = "configure" /\ Configure(t)
                              \/ Now(t).do = "apihost" /\ Apihost(t)
                              \/ Now(t).do = "owner" /\ GetOwner(t)
    BY <1>1 DEF Configures, Clean, Configure, Apihost, GetOwner, At
  <2> QED BY <1>0, <1>1, <2>1 DEF Early, p
<1>2. CASE (Creates(t) \/ Finishes(t)) /\ t = "whisk"
  <2>1. th[t].left # << >> /\ Now(t).do \in {"apply", "pick", "wait", "note", "account", "user", "bucket",
          "grant", "service", "endpoint", "save", "deploy", "created", "failed", "delete"}
    <3>1. Creates(t) => th[t].left # << >> /\ Now(t).do \in {"apply", "pick", "wait", "note", "account",
            "user", "bucket", "grant", "service", "endpoint"}
      BY Zenon DEF Creates, Apply, PickPod, NoPod, WaitForPod, Annotate, AnnotateFails, Account, AddUser,
             MakeBucket, Grant, WaitForService, Endpoint, At
    <3>2. Finishes(t) => th[t].left # << >> /\ Now(t).do \in {"save", "deploy", "created", "failed", "delete"}
      BY DEF Finishes, Save, Deploy, DeployFails, DeployGivesUp, Report, Delete, At
    <3> QED BY <1>2, <3>1, <3>2
  <2>2. p = "out"
    BY <1>0, <2>1 DEF Early
  <2> QED BY <1>2, <2>2 DEF p
<1>3. CASE Preloads(t)
  <2>1. th[t].left # << >> /\ \/ Now(t).do = "read" /\ ReadRuntimes(t)
                              \/ Now(t).do = "patch" /\ Patch(t)
                              \/ Now(t).do = "open" /\ OpenKustomization(t)
                              \/ Now(t).do = "close" /\ CloseKustomization(t)
                              \/ Now(t).do = "build" /\ Build(t)
                              \/ Now(t).do = "create" /\ CreateJob(t)
                              \/ Now(t).do = "remove" /\ RemoveByOwner(t)
                              \/ Now(t).do = "forget" /\ RemoveBySpec(t)
    BY <1>3 DEF Preloads, ReadRuntimes, Patch, OpenKustomization, CloseKustomization, Build, CreateJob,
                RemoveByOwner, RemoveBySpec, At
  <2>2. Now(t).do \in {"read", "patch", "open", "close", "create", "remove"} => p = Now(t).do
    BY <1>0, <2>1 DEF Early
  <2>3. Now(t).do = "forget" => p = "forget" \/ (p = "out" /\ t = "whisk" /\ Now(t).c # "preloader")
    <3>1. Suits(Now(t).c, Now(t).w, Now(t).do)
      BY <2>1, FirstStep DEF Fits
    <3>2. Now(t).do = "forget" => Now(t).c \notin {"config", "restart"}
      BY <1>0, <2>1, <3>1 DEF Suits
    <3>3. Now(t).do = "forget" /\ Now(t).c = "preloader" => p = "forget"
      BY <1>0, <2>1 DEF Early
    <3>4. Now(t).do = "forget" /\ Now(t).c # "preloader" => p = "out" /\ t = "whisk"
      BY <1>0, <1>v, <1>w, <2>1, <3>2 DEF Early
    <3> QED BY <3>3, <3>4
  <2> QED BY <1>0, <1>3, <2>1, <2>2, <2>3 DEF p
<1> QED
  BY <1>1, <1>2, <1>3 DEF Working, p

\* Where the two threads are.
WhiskAt == Place(th["whisk"].left)
WatcherAt == Place(th["watcher"].left)

\* The handler that runs is the one that is due, and only a restart makes a
\* resume due.  The watcher removes by owner what the object owns.
TurnInv ==
  /\ th["whisk"].op \in {"idle", due}
  /\ obj \in {"absent", "gone"} => due = "none"
  /\ obj = "deleting" => due = "delete"
  /\ obj = "present" => due \in {"none", "create", "resume"}
  /\ due = "resume" => troubles > 0
  /\ WatcherAt \in {"first", "remove"} => th["watcher"].owner
  /\ WatcherAt = "forget" => ~th["watcher"].owner

LEMMA OutsideSame ==
  ASSUME TypeInv, Around, ~Restart
  PROVE  /\ UNCHANGED th /\ WhiskAt' = WhiskAt /\ WatcherAt' = WatcherAt
<1>1. UNCHANGED th
  BY DEF Around, AddWhisk, DiscardWhisk, EditRuntimes, DatabasesMade, Collect, PodReady, PodLost
<1> QED
  BY <1>1 DEF WhiskAt, WatcherAt

\* The places after a step of the watcher.
LEMMA WatcherPlaces ==
  ASSUME TypeInv, OrderInv, Working("watcher")
  PROVE  /\ th'["whisk"] = th["whisk"]
         /\ \/ WatcherAt' = "out"
            \/ WatcherAt = "first" /\ WatcherAt' = "remove" /\ th'["watcher"].owner = th["watcher"].owner
            \/ WatcherAt' \notin {"first", "remove", "forget"}
<1> DEFINE t == "watcher"
<1>t. t \in Threads /\ "whisk" \in Threads /\ "whisk" # t
  BY DEF Threads
<1>1. th'["whisk"] = th["whisk"]
  BY <1>t, Motions DEF Motion
<1>2. ASSUME th[t].left # << >>, th'[t].left = Tail(th[t].left), th'[t].owner = th[t].owner
      PROVE  \/ WatcherAt' = "out"
             \/ WatcherAt = "first" /\ WatcherAt' = "remove" /\ th'[t].owner = th[t].owner
             \/ WatcherAt' \notin {"first", "remove", "forget"}
  <2>1. Place(th'[t].left) \in Next1(Place(th[t].left))
    BY <1>t, <1>2, TailPlace
  <2>2. WatcherAt' \in Next1(WatcherAt)
    BY <2>1 DEF WatcherAt
  <2>3. WatcherAt # "first" => \A q \in Next1(WatcherAt) : q \notin {"first", "remove", "forget"}
    BY DEF Next1
  <2>4. Next1("first") = {"remove"}
    BY DEF Next1
  <2> QED BY <1>2, <2>2, <2>3, <2>4
<1>3. th'[t] = Idle => WatcherAt' = "out"
  BY IdlePlace DEF WatcherAt
<1>4. CASE End(t)
  BY <1>1, <1>3, <1>4, <1>t, Replacing DEF End
<1>5. CASE CallFails(t)
  <2>1. th[t].left # << >> /\ Raise(t) /\ Now(t).c \in {"preloader", "restart"}
    <3>1. th[t].left # << >> /\ Raise(t)
      BY <1>5 DEF CallFails
    <3> QED BY <1>t, <3>1, FirstStep, ThreadIs DEF Worker
  <2>2. CASE Now(t).c = "preloader"
    BY <1>1, <1>t, <2>1, <2>2, RaisePlace DEF WatcherAt
  <2>3. CASE Now(t).c = "restart"
    <3>1. Place(th[t].left) = "out"
      BY <1>t, <2>1, <2>3, FirstPlace DEF Early
    <3> QED BY <1>1, <1>t, <3>1, OutStays DEF WatcherAt
  <2> QED BY <2>1, <2>2, <2>3
<1>6. CASE Preloads(t)
  <2>1. CASE ReadRuntimes(t)
    <3>1. th[t].left # << >>
      BY <2>1 DEF ReadRuntimes, At
    <3> QED BY <1>1, <1>2, <1>t, <2>1, <3>1, ReadKeeps
  <2>2. CASE Build(t)
    <3>1. th[t].left # << >>
      BY <2>2 DEF Build, At
    <3> QED BY <1>1, <1>2, <1>t, <2>2, <3>1, BuildKeeps
  <2>3. ASSUME th[t].left # << >>, Goes(t)
        PROVE  \/ WatcherAt' = "out"
               \/ WatcherAt = "first" /\ WatcherAt' = "remove" /\ th'[t].owner = th[t].owner
               \/ WatcherAt' \notin {"first", "remove", "forget"}
    BY <1>2, <1>t, <2>3, GoesKeeps DEF Keeps
  <2>4. ASSUME th[t].left # << >>, Now(t).do \in {"create", "remove", "forget"}, Raise(t)
        PROVE  WatcherAt' = "out"
    <3>1. Now(t).c = "preloader"
      <4>1. Fits(Now(t)) /\ Now(t).c \in {"preloader", "restart"}
        BY <1>t, <2>4, FirstStep, ThreadIs DEF Worker
      <4> QED BY <2>4, <4>1 DEF Fits, Suits
    <3> QED BY <1>t, <2>4, <3>1, RaisePlace DEF WatcherAt
  <2>5. CASE Patch(t) \/ OpenKustomization(t) \/ CloseKustomization(t)
    BY <1>1, <2>3, <2>5 DEF Patch, OpenKustomization, CloseKustomization, At
  <2>6. CASE CreateJob(t)
    BY <1>1, <2>3, <2>4, <2>6 DEF CreateJob, Applied, At
  <2>7. CASE RemoveByOwner(t) \/ RemoveBySpec(t)
    BY <1>1, <2>3, <2>4, <2>7 DEF RemoveByOwner, RemoveBySpec, Removed, At
  <2> QED BY <1>6, <2>1, <2>2, <2>5, <2>6, <2>7 DEF Preloads
<1> QED
  BY <1>1, <1>4, <1>5, <1>6, <1>t DEF Working

LEMMA TurnInvKept ==
  ASSUME TypeInv, Next, OrderInv, TurnInv
  PROVE  TurnInv'
<1>t. "whisk" \in Threads /\ "watcher" \in Threads /\ "whisk" # "watcher"
  BY DEF Threads
<1>o. th["whisk"].op \in {"idle", "create", "resume", "delete"} /\ th["watcher"].op \in {"idle", "watch"}
  <2>1. Worker("whisk", th["whisk"], troubles + 1, bound.versions, Len(WhiskCreate))
        /\ Worker("watcher", th["watcher"], troubles + 1, bound.versions, Len(WhiskCreate))
    BY <1>t, ThreadIs
  <2> QED BY <2>1 DEF Worker
<1>n. troubles \in Nat /\ troubles' \in {troubles, troubles + 1}
  BY Sizes, StepBounds DEF TypeInv
<1>v. TheObject
  BY DEF TypeInv, Values
<1> DEFINE Owning == /\ WatcherAt' \in {"first", "remove"} => th'["watcher"].owner
                     /\ WatcherAt' = "forget" => ~th'["watcher"].owner
           Turning == /\ th'["whisk"].op \in {"idle", due'}
                      /\ obj' \in {"absent", "gone"} => due' = "none"
                      /\ obj' = "deleting" => due' = "delete"
                      /\ obj' = "present" => due' \in {"none", "create", "resume"}
                      /\ due' = "resume" => troubles' > 0
<1>s. /\ UNCHANGED << th, WatcherAt >> => Owning
      /\ th'["watcher"] = th["watcher"] => Owning
  <2>1. th'["watcher"] = th["watcher"] => WatcherAt' = WatcherAt
    BY DEF WatcherAt
  <2> QED BY <2>1 DEF TurnInv
<1>k. UNCHANGED << obj, due >> /\ th'["whisk"].op \in {"idle", th["whisk"].op} => Turning
  BY <1>n DEF TurnInv
<1> HIDE DEF Owning, Turning
<1>1. CASE Begin
  <2>1. UNCHANGED << obj, due >> /\ th'["whisk"].op = due /\ th'["watcher"] = th["watcher"]
    BY <1>1, BeginSets DEF Begin, object
  <2>2. Turning
    BY <1>n, <2>1 DEF TurnInv, Turning
  <2> QED BY <1>s, <2>1, <2>2 DEF TurnInv, Owning, Turning
<1>2. ASSUME NEW found \in BOOLEAN, Watch(found)
      PROVE  TurnInv'
  <2>1. /\ th'["watcher"].left = Watcher(found) /\ th'["watcher"].owner = found
        /\ th'["whisk"] = th["whisk"]
    BY <1>2, WatchSets
  <2>2. WatcherAt' = IF found THEN "first" ELSE "forget"
    BY <2>1, WatcherOrdered DEF WatcherAt
  <2>3. Owning
    BY <2>1, <2>2 DEF Owning
  <2>4. UNCHANGED << obj, due >>
    BY <1>2 DEF Watch, object
  <2> QED BY <1>k, <2>1, <2>3, <2>4 DEF TurnInv, Owning, Turning
<1>3. CASE Rollout
  <2>1. Place(th["watcher"].left) = "out"
    BY <1>3, RolloutSets DEF Place
  <2>2. Place(th'["watcher"].left) = "out"
    BY <1>3, <1>t, <2>1, RolloutSets, TailPlace DEF Next1
  <2>3. Owning
    BY <2>2 DEF Owning, WatcherAt
  <2>4. UNCHANGED << obj, due >> /\ th'["whisk"] = th["whisk"]
    BY <1>3, RolloutSets DEF Rollout, object
  <2> QED BY <1>k, <2>3, <2>4 DEF TurnInv, Owning, Turning
<1>4. CASE Restart
  <2>1. /\ th'["whisk"] = Idle /\ th'["watcher"] = Idle /\ obj' = obj
        /\ due' = IF obj = "present" /\ due = "none" THEN "resume" ELSE due
        /\ troubles' = troubles + 1
    BY <1>4, <1>t DEF Restart, Trouble
  <2>2. Idle.op = "idle" /\ WatcherAt' = "out"
    BY <2>1, IdlePlace DEF Idle, WatcherAt
  <2>3. Turning
    BY <1>n, <2>1, <2>2 DEF TurnInv, Turning
  <2> QED BY <2>2, <2>3 DEF TurnInv, Turning
<1>5. CASE Around /\ ~Restart
  <2>1. UNCHANGED << th, WatcherAt >>
    BY <1>5, OutsideSame
  <2>2. Owning
    BY <1>s, <2>1
  <2>3. CASE AddWhisk
    <3>1. obj = "absent" /\ obj' = "present" /\ due' = "create"
      BY <2>3 DEF AddWhisk
    <3>2. th'["whisk"].op = "idle"
      BY <1>o, <2>1, <3>1 DEF TurnInv
    <3>3. Turning
      BY <3>1, <3>2 DEF Turning
    <3> QED BY <2>2, <3>3 DEF TurnInv, Owning, Turning
  <2>4. CASE DiscardWhisk
    <3>1. th["whisk"].op = "idle" /\ obj' = "deleting" /\ due' = "delete"
      BY <2>4 DEF DiscardWhisk
    <3>2. Turning
      BY <2>1, <3>1 DEF Turning
    <3> QED BY <2>2, <3>2 DEF TurnInv, Owning, Turning
  <2>5. CASE ~AddWhisk /\ ~DiscardWhisk
    <3>1. UNCHANGED << obj, due >>
      BY <1>5, <2>5 DEF Around, EditRuntimes, DatabasesMade, Collect, PodReady, PodLost, object
    <3> QED BY <1>k, <2>1, <2>2, <3>1 DEF TurnInv, Owning, Turning
  <2> QED BY <2>3, <2>4, <2>5
<1>6. CASE Working("whisk")
  <2>1. th'["watcher"] = th["watcher"] /\ th'["whisk"].op \in {"idle", th["whisk"].op}
    BY <1>6, <1>t, Motions, OpKeeps DEF Motion
  <2>2. CASE UNCHANGED << obj, due >>
    BY <1>k, <1>s, <2>1, <2>2 DEF TurnInv, Owning, Turning
  <2>3. CASE End("whisk")
    <3>1. /\ th["whisk"].op # "idle" /\ th'["whisk"].op = "idle"
          /\ due' = (IF th["whisk"].op = due THEN "none" ELSE due)
          /\ obj' = (IF th["whisk"].op = "delete" THEN "gone" ELSE obj)
      <4>1. th' = [th EXCEPT !["whisk"] = Idle]
        BY <2>3 DEF End
      <4>2. th'["whisk"] = Idle
        BY <1>t, <4>1, Replacing
      <4>3. Idle.op = "idle"
        BY DEF Idle
      <4> QED BY <2>3, <4>2, <4>3 DEF End
    <3>2. Turning
      BY <1>o, <1>n, <1>v, <3>1 DEF TurnInv, Turning, TheObject
    <3> QED BY <1>s, <2>1, <3>2 DEF TurnInv, Owning, Turning
  <2> QED BY <1>6, <1>t, <2>2, <2>3, Frames DEF Frame
<1>7. CASE Working("watcher")
  <2>1. th'["whisk"] = th["whisk"]
    BY <1>7, WatcherPlaces
  <2>2. UNCHANGED << obj, due >>
    <3>1. CASE End("watcher")
      <4>1. due # "watch"
        BY <1>v DEF TheObject
      <4>2. th["watcher"].op = "watch"
        BY <1>o, <3>1 DEF End
      <4> QED BY <3>1, <4>1, <4>2 DEF End
    <3> QED BY <1>7, <1>t, <3>1, Frames DEF Frame
  <2>3. Owning
    BY <1>7, WatcherPlaces DEF TurnInv, Owning
  <2> QED BY <1>k, <2>1, <2>2, <2>3 DEF TurnInv, Owning, Turning
<1>8. \/ Begin \/ (\E found \in BOOLEAN : Watch(found)) \/ Rollout \/ Around
      \/ Working("whisk") \/ Working("watcher")
  <2>1. \A t \in Threads : t = "whisk" \/ t = "watcher"
    BY DEF Threads
  <2> QED BY <2>1, NextIs
<1> QED
  BY <1>1, <1>2, <1>3, <1>4, <1>5, <1>6, <1>7, <1>8

\* While no call fails, a handler that reaches the preloader has its object.
OwnInv == troubles = 0 /\ WhiskAt \in {"read"} \cup Within => th["whisk"].owner

\* While no call fails, a Job without an owner is remembered, or was forgotten
\* in a configuration that was cleared; a watcher that found no object has
\* removed it before it makes another one.
AccountInv ==
  troubles = 0 =>
    /\ job.v > 0 /\ ~job.owned => memory = job.v \/ dropped
    /\ WatcherAt \in {"read"} \cup Within /\ ~th["watcher"].owner =>
         job.v = 0 \/ job.owned \/ dropped
    /\ dropped => obj # "absent"

\* Where nothing failed and the threads did not meet.
Smooth == troubles = 0 /\ ~crossed /\ obj \in {"absent", "present"}

\* One of them is in the preloader, and the object was there when the watcher
\* asked for it.
Apart ==
  /\ WhiskAt \in Within => WatcherAt \in {"out", "first"}
  /\ th["watcher"].owner => obj = "present"
  /\ WatcherAt = "forget" /\ obj = "present" =>
       (due = "create" /\ th["whisk"].op = "idle") \/ WhiskAt = "clean"

\* The files are those of the thread that is at them.
Reads(at, x) ==
  /\ at \in Within => x.seen > 0
  /\ at \in Within \ {"patch"} => tpl = x.seen
  /\ at \in {"build", "create"} => kust = "full"
  /\ at = "create" => x.spec = x.seen
FilesInv ==
  /\ Reads(WhiskAt, th["whisk"]) /\ Reads(WatcherAt, th["watcher"])
  /\ kust # "none" => tpl > 0
  /\ kust = "torn" => WhiskAt = "close" \/ WatcherAt = "close"

\* Who finds files finds the Job made of them, and the watcher that is going to
\* make the Job has removed the one there was.
JobInv ==
  /\ WhiskAt \notin Within /\ WatcherAt \in {"out", "forget", "first"} => (kust # "none" <=> job.v > 0)
  /\ WatcherAt = "remove" => (th["watcher"].spec > 0 <=> job.v > 0)
  /\ WatcherAt \in {"read"} \cup Within => job.v = 0
  /\ WatcherAt = "forget" \/ (WatcherAt = "out" /\ obj = "absent") => (memory > 0 <=> job.v > 0)

\* The Job has the current runtimes, or someone is on the way to make it.
CurrentInv ==
  /\ job.v \in {0, version} \/ pending \/ WatcherAt \in {"first", "remove", "forget"}
  /\ WatcherAt \in Within => th["watcher"].seen = version \/ pending
  /\ WhiskAt \in Within => th["whisk"].seen = version \/ pending \/ WatcherAt = "first"
  /\ obj = "present" =>
       \/ job.v > 0 /\ job.owned
       \/ pending
       \/ th["watcher"].owner /\ WatcherAt \in {"first", "remove", "read"} \cup Within
       \/ due = "create" /\ th["whisk"].op = "idle"
       \/ WhiskAt \in {"clean", "configure", "owner", "read"} \cup Within

Preloading == Apart /\ FilesInv /\ JobInv /\ CurrentInv
PreloaderInv == Smooth => Preloading

\* Where a thread is in the preloader it is seen there.
Seen ==
  /\ WhiskAt \in Within => InPreloader("whisk")
  /\ WatcherAt \in {"first", "remove", "forget", "read"} \cup Within => InPreloader("watcher")

LEMMA AllSeen == TypeInv /\ OrderInv => Seen
<1> SUFFICES ASSUME TypeInv, OrderInv
             PROVE  Seen
  OBVIOUS
<1>t. "whisk" \in Threads /\ "watcher" \in Threads
  BY DEF Threads
<1>1. ASSUME NEW t \in Threads, Place(th[t].left) \in {"first", "remove", "forget", "read"} \cup Within
      PROVE  th[t].left # << >> /\ Now(t).c = "preloader"
             /\ (Place(th[t].left) \in Within => Now(t).do # "read")
  <2>1. th[t].left # << >>
    BY <1>1 DEF Place, Within
  <2>2. Place(th[t].left) # "out"
    BY <1>1 DEF Within
  <2>3. Now(t).c \in Early /\ Now(t).do = IF Place(th[t].left) = "first" THEN "build" ELSE Place(th[t].left)
    BY <2>1, <2>2, FirstPlace
  <2>4. Now(t).do \notin {"clean", "configure", "owner", "apihost"}
    BY <1>1, <2>3 DEF Within
  <2>5. Now(t).c # "config"
    BY <2>1, <2>4, FirstPlace
  <2> QED BY <1>1, <2>1, <2>3, <2>5 DEF Early, Within
<1>2. WhiskAt \in Within => InPreloader("whisk")
  BY <1>1, <1>t DEF InPreloader, WhiskAt
<1>3. WatcherAt \in {"first", "remove", "forget", "read"} \cup Within => InPreloader("watcher")
  BY <1>1, <1>t DEF InPreloader, WatcherAt
<1> QED
  BY <1>2, <1>3 DEF Seen

LEMMA NotCrossed ==
  ASSUME TypeInv', OrderInv', NEW t, Preloads(t), ~crossed'
  PROVE  ~crossed /\ ~(WhiskAt' \in Within
                       /\ WatcherAt' \in {"first", "remove", "forget", "read"} \cup Within)
<1>1. Seen'
  BY AllSeen, PTL
<1>2. crossed' = (crossed \/ (\A s \in Threads : InPreloader(s)'))
  BY DEF Preloads
<1>3. ~(InPreloader("whisk")' /\ InPreloader("watcher")') /\ ~crossed
  <2>1. \A s \in Threads : s = "whisk" \/ s = "watcher"
    BY DEF Threads
  <2> QED BY <1>2, <2>1
<1>4. /\ WhiskAt' \in Within => InPreloader("whisk")'
      /\ WatcherAt' \in {"first", "remove", "forget", "read"} \cup Within => InPreloader("watcher")'
  BY <1>1 DEF Seen, Within
<1> QED
  BY <1>3, <1>4

\* Where a handler can be.
LEMMA WhiskPlaces ==
  ASSUME TypeInv, OrderInv
  PROVE  /\ WhiskAt \notin {"first", "remove", "forget"}
         /\ th["whisk"].op = "create" => WhiskAt # "apihost"
         /\ th["whisk"].op = "idle" => WhiskAt = "out"
<1> DEFINE L == th["whisk"].left
<1>t. "whisk" \in Threads
  BY DEF Threads
<1>1. /\ th["whisk"].op = "idle" => L = << >>
      /\ \A i \in 1 .. Len(L) : L[i].do # "remove"
      /\ L \in Seq(Step) /\ Chain(L)
  BY <1>t, ThreadIs DEF Worker
<1>2. Handles(L, th["whisk"].op)
  BY DEF OrderInv
<1>3. th["whisk"].op = "idle" => WhiskAt = "out"
  BY <1>1 DEF WhiskAt, Place
<1>4. CASE L # << >>
  <2>1. /\ Now("whisk") = L[1] /\ 1 \in 1 .. Len(L) /\ Linked(L, 1)
    BY <1>t, <1>4, FirstStep
  <2>2. WhiskAt # "out" => L[1].c \in Early /\ L[1].do = IF WhiskAt = "first" THEN "build" ELSE WhiskAt
    BY <1>t, <1>4, <2>1, FirstPlace DEF WhiskAt
  <2>3. L[1].c = "config" <=> L[1].do \in {"clean", "configure", "owner", "apihost"}
    BY <1>t, <1>4, <2>1, FirstPlace
  <2>4. WhiskAt # "forget"
    BY <1>2, <2>1, <2>2, <2>3 DEF Handles, Early
  <2>5. WhiskAt # "remove"
    BY <1>1, <2>1, <2>2
  <2>6. WhiskAt # "first"
    <3> SUFFICES ASSUME WhiskAt = "first"
                 PROVE  FALSE
      OBVIOUS
    <3>1. L[1].c = "preloader" /\ L[1].do = "build"
      BY <2>2, <2>3 DEF Early
    <3>2. 1 < Len(L) /\ L[1 + 1].c = "preloader"
      BY <2>1, <3>1 DEF Linked
    <3>3. 2 \in 1 .. Len(L)
      <4> HIDE DEF L
      <4> QED BY <1>1, <3>2
    <3>4. L[2].do # "remove"
      BY <1>1, <3>3
    <3>5. WhiskAt # "first"
      BY <3>1, <3>4, <1>4 DEF WhiskAt, Place, Early
    <3> QED BY <3>5
  <2>7. th["whisk"].op = "create" => WhiskAt # "apihost"
    BY <1>2, <2>1, <2>2 DEF Handles
  <2> QED BY <1>3, <2>4, <2>5, <2>6, <2>7
<1>5. CASE L = << >>
  BY <1>3, <1>5 DEF WhiskAt, Place
<1> QED
  BY <1>4, <1>5

\* What holds of numbers and of turns where nothing failed.
LEMMA SmoothIs ==
  ASSUME TypeInv, OrderInv, TurnInv, Smooth
  PROVE  /\ job.v \in Nat /\ job.owned \in BOOLEAN /\ tpl \in Nat /\ version \in Nat \ {0} /\ memory \in Int
         /\ kust \in {"none", "torn", "full"} /\ pending \in BOOLEAN
         /\ due \in {"none", "create"} /\ th["whisk"].op \in {"idle", "create"}
         /\ th["whisk"].op = "create" => due = "create" /\ obj = "present"
         /\ th["whisk"].op = "idle" => WhiskAt = "out"
         /\ WhiskAt \notin {"first", "remove", "forget", "apihost"}
         /\ th["whisk"].seen \in Nat /\ th["whisk"].spec \in Nat
         /\ th["watcher"].seen \in Nat /\ th["watcher"].spec \in Nat
         /\ th["whisk"].owner \in BOOLEAN /\ th["watcher"].owner \in BOOLEAN
<1>t. "whisk" \in Threads /\ "watcher" \in Threads
  BY DEF Threads
<1>1. bound.versions \in Nat \ {0} /\ TheRuntimes /\ TheObject
  BY Sizes DEF TypeInv, Values
<1>2. job.v \in Nat /\ job.owned \in BOOLEAN /\ tpl \in Nat /\ version \in Nat \ {0} /\ memory \in Int
      /\ kust \in {"none", "torn", "full"} /\ pending \in BOOLEAN
  BY <1>1 DEF TheRuntimes, NoSpec
<1>3. /\ th["whisk"].op \in {"idle", "create", "resume", "delete"}
      /\ th["whisk"].seen \in Nat /\ th["whisk"].spec \in Nat
      /\ th["watcher"].seen \in Nat /\ th["watcher"].spec \in Nat
  BY <1>t, ThreadIs DEF Worker
<1>4. th["whisk"].owner \in BOOLEAN /\ th["watcher"].owner \in BOOLEAN
  BY <1>t, ThreadIs DEF Record
<1>5. due \in {"none", "create"} /\ th["whisk"].op \in {"idle", "create"}
      /\ (th["whisk"].op = "create" => due = "create" /\ obj = "present")
  <2>1. ~(troubles > 0)
    BY DEF Smooth
  <2> QED BY <1>3, <2>1 DEF Smooth, TurnInv
<1> QED
  BY <1>2, <1>3, <1>4, <1>5, WhiskPlaces

\* The places the two threads can be at.
KnownPlaces ==
  /\ WhiskAt \notin {"first", "remove", "forget"}
  /\ th["whisk"].op = "create" => WhiskAt # "apihost"
  /\ th["whisk"].op = "idle" => WhiskAt = "out"
  /\ WatcherAt \in {"out", "first", "remove", "forget", "read"} \cup Within

LEMMA PlacesKnown == TypeInv /\ OrderInv => KnownPlaces
<1> SUFFICES ASSUME TypeInv, OrderInv
             PROVE  KnownPlaces
  OBVIOUS
<1> DEFINE L == th["watcher"].left
<1>t. "watcher" \in Threads
  BY DEF Threads
<1>1. CASE L = << >>
  <2>1. WatcherAt = "out"
    BY <1>1 DEF WatcherAt, Place
  <2> QED BY <2>1, WhiskPlaces DEF KnownPlaces
<1>2. CASE L # << >>
  <2>1. Now("watcher").c \in {"preloader", "restart"}
    BY <1>2, <1>t, FirstStep, ThreadIs DEF Worker
  <2>2. CASE Now("watcher").c = "restart"
    <3>1. WatcherAt = "out"
      BY <1>2, <1>t, <2>2, FirstPlace DEF WatcherAt, Early
    <3> QED BY <3>1, WhiskPlaces DEF KnownPlaces
  <2>3. CASE Now("watcher").c = "preloader"
    <3>1. Now("watcher").do \in {"read", "patch", "open", "close", "build", "create", "remove", "forget"}
      BY <1>2, <1>t, <2>3, FirstPlace
    <3>2. Now("watcher").do = IF WatcherAt = "first" THEN "build" ELSE WatcherAt
      BY <1>2, <1>t, <2>3, FirstPlace DEF WatcherAt, Early
    <3>3. WatcherAt \in {"out", "first", "remove", "forget", "read"} \cup Within
      BY <3>1, <3>2 DEF Within
    <3> QED BY <3>3, WhiskPlaces DEF KnownPlaces
  <2> QED BY <2>1, <2>2, <2>3
<1> QED
  BY <1>1, <1>2

\* A step of one thread, seen by the other.
LEMMA WhiskMoves ==
  ASSUME TypeInv, OrderInv, Working("whisk")
  PROVE  /\ th'["watcher"] = th["watcher"] /\ WatcherAt' = WatcherAt
         /\ th["whisk"].left # << >> /\ th'["whisk"].left = Tail(th["whisk"].left) =>
              WhiskAt' \in Next1(WhiskAt)
<1>t. "whisk" \in Threads /\ "watcher" \in Threads /\ "whisk" # "watcher"
  BY DEF Threads
<1>1. th'["watcher"] = th["watcher"]
  BY <1>t, Motions DEF Motion
<1>2. th["whisk"].left # << >> /\ th'["whisk"].left = Tail(th["whisk"].left) =>
        Place(th'["whisk"].left) \in Next1(Place(th["whisk"].left))
  BY <1>t, TailPlace
<1> QED
  BY <1>1, <1>2 DEF WhiskAt, WatcherAt

LEMMA WatcherMoves ==
  ASSUME TypeInv, OrderInv, Working("watcher")
  PROVE  /\ th'["whisk"] = th["whisk"] /\ WhiskAt' = WhiskAt
         /\ th["watcher"].left # << >> /\ th'["watcher"].left = Tail(th["watcher"].left) =>
              WatcherAt' \in Next1(WatcherAt)
<1>t. "whisk" \in Threads /\ "watcher" \in Threads /\ "whisk" # "watcher"
  BY DEF Threads
<1>1. th'["whisk"] = th["whisk"]
  BY <1>t, Motions DEF Motion
<1>2. th["watcher"].left # << >> /\ th'["watcher"].left = Tail(th["watcher"].left) =>
        Place(th'["watcher"].left) \in Next1(Place(th["watcher"].left))
  BY <1>t, TailPlace
<1> QED
  BY <1>1, <1>2 DEF WhiskAt, WatcherAt

\* What changes in a step of the configuration or of the preloader: the place p
\* it leaves, and the place q it gets to.
WhiskFrom(p, q) ==
  /\ WhiskAt = p /\ WhiskAt' = q
  /\ th'["watcher"] = th["watcher"] /\ WatcherAt' = WatcherAt
  /\ UNCHANGED << obj, due, version, pending >>
  /\ th'["whisk"].op = th["whisk"].op
WatcherFrom(p, q) ==
  /\ WatcherAt = p /\ WatcherAt' = q
  /\ th'["whisk"] = th["whisk"] /\ WhiskAt' = WhiskAt
  /\ UNCHANGED << obj, due, version, pending >>
  /\ th'["watcher"].owner = th["watcher"].owner

Sound == TypeInv /\ OrderInv /\ TurnInv /\ OwnInv /\ Smooth /\ Smooth' /\ TypeInv' /\ OrderInv'

LEMMA SoundIs ==
  ASSUME Sound
  PROVE  /\ job.v \in Nat /\ job.owned \in BOOLEAN /\ tpl \in Nat /\ version \in Nat \ {0} /\ memory \in Int
         /\ kust \in {"none", "torn", "full"} /\ pending \in BOOLEAN
         /\ due \in {"none", "create"} /\ th["whisk"].op \in {"idle", "create"}
         /\ th["whisk"].op = "create" => due = "create" /\ obj = "present"
         /\ th["whisk"].op = "idle" => WhiskAt = "out"
         /\ th["whisk"].seen \in Nat /\ th["whisk"].spec \in Nat
         /\ th["watcher"].seen \in Nat /\ th["watcher"].spec \in Nat
         /\ th["whisk"].owner \in BOOLEAN /\ th["watcher"].owner \in BOOLEAN
         /\ WhiskAt \notin {"first", "remove", "forget", "apihost"}
         /\ WatcherAt \in {"out", "first", "remove", "forget", "read"} \cup Within
         /\ WatcherAt' \in {"out", "first", "remove", "forget", "read"} \cup Within
         /\ th'["whisk"].op = "create" => WhiskAt' # "apihost"
         /\ WatcherAt \in {"first", "remove"} => th["watcher"].owner
         /\ WatcherAt = "forget" => ~th["watcher"].owner
         /\ WhiskAt \in {"read"} \cup Within => th["whisk"].owner
         /\ troubles = 0 /\ troubles' = 0 /\ ~crossed /\ ~crossed'
<1>1. KnownPlaces /\ KnownPlaces'
  BY PlacesKnown, PTL DEF Sound
<1>2. /\ WatcherAt \in {"out", "first", "remove", "forget", "read"} \cup Within
      /\ WatcherAt' \in {"out", "first", "remove", "forget", "read"} \cup Within
      /\ th'["whisk"].op = "create" => WhiskAt' # "apihost"
  BY <1>1 DEF KnownPlaces, Within
<1>3. troubles = 0 /\ troubles' = 0 /\ ~crossed /\ ~crossed'
  BY DEF Sound, Smooth
<1>4. /\ WatcherAt \in {"first", "remove"} => th["watcher"].owner
      /\ WatcherAt = "forget" => ~th["watcher"].owner
      /\ WhiskAt \in {"read"} \cup Within => th["whisk"].owner
  BY <1>3 DEF Sound, TurnInv, OwnInv
<1> QED
  BY <1>2, <1>3, <1>4, SmoothIs DEF Sound

\* Each step keeps it: those of the configuration.
LEMMA CleanKept ==
  ASSUME Sound, Preloading, WhiskAt = "clean", Clean("whisk")
  PROVE  Preloading'
<1>t. "whisk" \in Threads /\ "watcher" \in Threads
  BY DEF Threads
<1>s. TypeInv /\ OrderInv
  BY DEF Sound
<1>w. Working("whisk") /\ Goes("whisk") /\ th["whisk"].left # << >>
  BY DEF Working, Configures, Clean, At
<1>a. /\ WhiskFrom("clean", "configure") /\ UNCHANGED << tpl, kust, job >>
      /\ th'["whisk"].owner = th["whisk"].owner /\ memory' = NoSpec
  <2>1. Keeps("whisk") /\ th'["whisk"].left = Tail(th["whisk"].left)
    BY <1>t, <1>s, <1>w, GoesKeeps
  <2>2. WhiskAt' = "configure"
    BY <1>s, <1>w, <2>1, WhiskMoves DEF Next1
  <2> QED BY <1>s, <1>w, <2>1, <2>2, WhiskMoves DEF WhiskFrom, Keeps, Clean, object, runtimes, files
<1>b. WatcherAt # "forget"
  <2>1. ~At("watcher", "forget")
    BY SoundIs DEF Clean
  <2>2. WatcherAt = "forget" => th["watcher"].left # << >>
    BY DEF WatcherAt, Place
  <2>3. WatcherAt = "forget" => Now("watcher").do = "forget"
    BY <1>s, <1>t, <2>2, FirstPlace DEF WatcherAt
  <2> QED BY <2>1, <2>2, <2>3 DEF At
<1>1. Apart'
  BY <1>a, <1>b, SoundIs DEF Preloading, Apart, Within, WhiskFrom, NoSpec
<1>2. FilesInv'
  BY <1>a, <1>b, SoundIs DEF Preloading, FilesInv, Reads, Apart, Within, WhiskFrom, NoSpec
<1>3. JobInv'
  BY <1>a, <1>b, SoundIs DEF Preloading, JobInv, FilesInv, Apart, Within, WhiskFrom, NoSpec
<1>4. CurrentInv'
  BY <1>a, <1>b, SoundIs DEF Preloading, CurrentInv, JobInv, Apart, FilesInv, Reads, Within, WhiskFrom, NoSpec
<1> QED
  BY <1>1, <1>2, <1>3, <1>4 DEF Preloading

LEMMA ConfigureKept ==
  ASSUME Sound, Preloading, WhiskAt = "configure", Configure("whisk")
  PROVE  Preloading'
<1>t. "whisk" \in Threads /\ "watcher" \in Threads
  BY DEF Threads
<1>s. TypeInv /\ OrderInv
  BY DEF Sound
<1>w. Working("whisk") /\ Goes("whisk") /\ th["whisk"].left # << >>
  BY DEF Working, Configures, Configure, At
<1>a. /\ WhiskFrom("configure", "owner") /\ UNCHANGED << tpl, kust, job, memory >>
      /\ th'["whisk"].owner = th["whisk"].owner
  <2>1. Keeps("whisk") /\ th'["whisk"].left = Tail(th["whisk"].left)
    BY <1>t, <1>s, <1>w, GoesKeeps
  <2>2. WhiskAt' \in {"owner", "apihost"}
    BY <1>s, <1>w, <2>1, WhiskMoves DEF Next1
  <2>3. th["whisk"].op = "create"
    BY SoundIs
  <2>4. WhiskAt' = "owner"
    BY <2>1, <2>2, <2>3, SoundIs DEF Keeps
  <2> QED BY <1>s, <1>w, <2>1, <2>4, WhiskMoves DEF WhiskFrom, Keeps, Configure, object, runtimes, files
<1>1. Apart'
  BY <1>a, SoundIs DEF Preloading, Apart, Within, WhiskFrom
<1>2. FilesInv'
  BY <1>a, SoundIs DEF Preloading, FilesInv, Reads, Apart, Within, WhiskFrom
<1>3. JobInv'
  BY <1>a, SoundIs DEF Preloading, JobInv, FilesInv, Apart, Within, WhiskFrom
<1>4. CurrentInv'
  BY <1>a, SoundIs DEF Preloading, CurrentInv, JobInv, Apart, FilesInv, Reads, Within, WhiskFrom
<1> QED
  BY <1>1, <1>2, <1>3, <1>4 DEF Preloading

LEMMA GetOwnerKept ==
  ASSUME Sound, Preloading, WhiskAt = "owner", GetOwner("whisk")
  PROVE  Preloading'
<1>t. "whisk" \in Threads /\ "watcher" \in Threads
  BY DEF Threads
<1>s. TypeInv /\ OrderInv
  BY DEF Sound
<1>w. Working("whisk") /\ th["whisk"].left # << >>
  BY DEF Working, Configures, GetOwner, At
<1>a. WhiskFrom("owner", "read") /\ UNCHANGED << tpl, kust, job, memory >>
  <2>1. th'["whisk"].op = th["whisk"].op /\ th'["whisk"].left = Tail(th["whisk"].left)
    BY <1>t, <1>s, OwnerKeeps
  <2>2. WhiskAt' = "read"
    BY <1>s, <1>w, <2>1, WhiskMoves DEF Next1
  <2> QED BY <1>s, <1>w, <2>1, <2>2, WhiskMoves DEF WhiskFrom, GetOwner, object, config, runtimes, files
<1>1. Apart'
  BY <1>a, SoundIs DEF Preloading, Apart, Within, WhiskFrom
<1>2. FilesInv'
  BY <1>a, SoundIs DEF Preloading, FilesInv, Reads, Apart, Within, WhiskFrom
<1>3. JobInv'
  BY <1>a, SoundIs DEF Preloading, JobInv, FilesInv, Apart, Within, WhiskFrom
<1>4. CurrentInv'
  BY <1>a, SoundIs DEF Preloading, CurrentInv, JobInv, Apart, FilesInv, Reads, Within, WhiskFrom
<1> QED
  BY <1>1, <1>2, <1>3, <1>4 DEF Preloading

\* Those of the preloader.  Where the threads would meet they are crossed.
LEMMA WhiskReads ==
  ASSUME Sound, Preloading, WhiskAt = "read", Preloads("whisk"), ReadRuntimes("whisk")
  PROVE  Preloading'
<1>t. "whisk" \in Threads /\ "watcher" \in Threads
  BY DEF Threads
<1>s. TypeInv /\ OrderInv /\ TypeInv' /\ OrderInv' /\ ~crossed'
  BY SoundIs DEF Sound
<1>w. Working("whisk") /\ th["whisk"].left # << >>
  BY DEF Working, ReadRuntimes, At
<1>a. /\ WhiskFrom("read", "patch") /\ UNCHANGED << tpl, kust, job, memory >>
      /\ th'["whisk"].owner = th["whisk"].owner
      /\ th'["whisk"].seen = version /\ th'["whisk"].spec = th["whisk"].spec
  <2>1. /\ th'["whisk"].op = th["whisk"].op /\ th'["whisk"].owner = th["whisk"].owner
        /\ th'["whisk"].seen = version /\ th'["whisk"].spec = th["whisk"].spec
        /\ th'["whisk"].left = Tail(th["whisk"].left)
    BY <1>t, <1>s, <1>w, ReadKeeps
  <2>2. WhiskAt' = "patch"
    BY <1>s, <1>w, <2>1, WhiskMoves DEF Next1
  <2> QED BY <1>s, <1>w, <2>1, <2>2, WhiskMoves DEF WhiskFrom, ReadRuntimes, object, config, runtimes, files
<1>b. ~(WhiskAt' \in Within /\ WatcherAt' \in {"first", "remove", "forget", "read"} \cup Within)
  BY <1>s, NotCrossed
<1>1. Apart'
  BY <1>a, <1>b, SoundIs DEF Preloading, Apart, Within, WhiskFrom
<1>2. FilesInv'
  BY <1>a, <1>b, SoundIs DEF Preloading, FilesInv, Reads, Apart, Within, WhiskFrom
<1>3. JobInv'
  BY <1>a, <1>b, SoundIs DEF Preloading, JobInv, FilesInv, Apart, Within, WhiskFrom
<1>4. CurrentInv'
  BY <1>a, <1>b, SoundIs DEF Preloading, CurrentInv, JobInv, Apart, FilesInv, Reads, Within, WhiskFrom
<1> QED
  BY <1>1, <1>2, <1>3, <1>4 DEF Preloading

LEMMA WhiskPatches ==
  ASSUME Sound, Preloading, WhiskAt = "patch", Preloads("whisk"), Patch("whisk")
  PROVE  Preloading'
<1>t. "whisk" \in Threads /\ "watcher" \in Threads
  BY DEF Threads
<1>s. TypeInv /\ OrderInv /\ TypeInv' /\ OrderInv' /\ ~crossed'
  BY SoundIs DEF Sound
<1>w. Working("whisk") /\ Goes("whisk") /\ th["whisk"].left # << >>
  BY DEF Working, Patch, At
<1>a. /\ WhiskFrom("patch", "open") /\ UNCHANGED << kust, job, memory >>
      /\ th'["whisk"].owner = th["whisk"].owner
      /\ th'["whisk"].seen = th["whisk"].seen /\ th'["whisk"].spec = th["whisk"].spec /\ tpl' = th["whisk"].seen
  <2>1. /\ th'["whisk"].op = th["whisk"].op /\ th'["whisk"].owner = th["whisk"].owner
        /\ th'["whisk"].seen = th["whisk"].seen /\ th'["whisk"].spec = th["whisk"].spec
        /\ th'["whisk"].left = Tail(th["whisk"].left)
    BY <1>t, <1>s, <1>w, GoesKeeps DEF Keeps
  <2>2. WhiskAt' = "open"
    BY <1>s, <1>w, <2>1, WhiskMoves DEF Next1
  <2> QED BY <1>s, <1>w, <2>1, <2>2, WhiskMoves DEF WhiskFrom, Patch, object, config, runtimes, files
<1>b. ~(WhiskAt' \in Within /\ WatcherAt' \in {"first", "remove", "forget", "read"} \cup Within)
  BY <1>s, NotCrossed
<1>1. Apart'
  BY <1>a, <1>b, SoundIs DEF Preloading, Apart, Within, WhiskFrom
<1>2. FilesInv'
  BY <1>a, <1>b, SoundIs DEF Preloading, FilesInv, Reads, Apart, Within, WhiskFrom
<1>3. JobInv'
  BY <1>a, <1>b, SoundIs DEF Preloading, JobInv, FilesInv, Apart, Within, WhiskFrom
<1>4. CurrentInv'
  BY <1>a, <1>b, SoundIs DEF Preloading, CurrentInv, JobInv, Apart, FilesInv, Reads, Within, WhiskFrom
<1> QED
  BY <1>1, <1>2, <1>3, <1>4 DEF Preloading

LEMMA WhiskTruncates ==
  ASSUME Sound, Preloading, WhiskAt = "open", Preloads("whisk"), OpenKustomization("whisk")
  PROVE  Preloading'
<1>t. "whisk" \in Threads /\ "watcher" \in Threads
  BY DEF Threads
<1>s. TypeInv /\ OrderInv /\ TypeInv' /\ OrderInv' /\ ~crossed'
  BY SoundIs DEF Sound
<1>w. Working("whisk") /\ Goes("whisk") /\ th["whisk"].left # << >>
  BY DEF Working, OpenKustomization, At
<1>a. /\ WhiskFrom("open", "close") /\ UNCHANGED << tpl, job, memory >>
      /\ th'["whisk"].owner = th["whisk"].owner
      /\ th'["whisk"].seen = th["whisk"].seen /\ th'["whisk"].spec = th["whisk"].spec /\ kust' = "torn"
  <2>1. /\ th'["whisk"].op = th["whisk"].op /\ th'["whisk"].owner = th["whisk"].owner
        /\ th'["whisk"].seen = th["whisk"].seen /\ th'["whisk"].spec = th["whisk"].spec
        /\ th'["whisk"].left = Tail(th["whisk"].left)
    BY <1>t, <1>s, <1>w, GoesKeeps DEF Keeps
  <2>2. WhiskAt' = "close"
    BY <1>s, <1>w, <2>1, WhiskMoves DEF Next1
  <2> QED BY <1>s, <1>w, <2>1, <2>2, WhiskMoves DEF WhiskFrom, OpenKustomization, object, config, runtimes, files
<1>b. ~(WhiskAt' \in Within /\ WatcherAt' \in {"first", "remove", "forget", "read"} \cup Within)
  BY <1>s, NotCrossed
<1>1. Apart'
  BY <1>a, <1>b, SoundIs DEF Preloading, Apart, Within, WhiskFrom
<1>2. FilesInv'
  BY <1>a, <1>b, SoundIs DEF Preloading, FilesInv, Reads, Apart, Within, WhiskFrom
<1>3. JobInv'
  BY <1>a, <1>b, SoundIs DEF Preloading, JobInv, FilesInv, Apart, Within, WhiskFrom
<1>4. CurrentInv'
  BY <1>a, <1>b, SoundIs DEF Preloading, CurrentInv, JobInv, Apart, FilesInv, Reads, Within, WhiskFrom
<1> QED
  BY <1>1, <1>2, <1>3, <1>4 DEF Preloading

LEMMA WhiskCloses ==
  ASSUME Sound, Preloading, WhiskAt = "close", Preloads("whisk"), CloseKustomization("whisk")
  PROVE  Preloading'
<1>t. "whisk" \in Threads /\ "watcher" \in Threads
  BY DEF Threads
<1>s. TypeInv /\ OrderInv /\ TypeInv' /\ OrderInv' /\ ~crossed'
  BY SoundIs DEF Sound
<1>w. Working("whisk") /\ Goes("whisk") /\ th["whisk"].left # << >>
  BY DEF Working, CloseKustomization, At
<1>a. /\ WhiskFrom("close", "build") /\ UNCHANGED << tpl, job, memory >>
      /\ th'["whisk"].owner = th["whisk"].owner
      /\ th'["whisk"].seen = th["whisk"].seen /\ th'["whisk"].spec = th["whisk"].spec /\ kust' = "full"
  <2>1. /\ th'["whisk"].op = th["whisk"].op /\ th'["whisk"].owner = th["whisk"].owner
        /\ th'["whisk"].seen = th["whisk"].seen /\ th'["whisk"].spec = th["whisk"].spec
        /\ th'["whisk"].left = Tail(th["whisk"].left)
    BY <1>t, <1>s, <1>w, GoesKeeps DEF Keeps
  <2>2. WhiskAt' = "build"
    BY <1>s, <1>w, <2>1, WhiskMoves DEF Next1
  <2> QED BY <1>s, <1>w, <2>1, <2>2, WhiskMoves DEF WhiskFrom, CloseKustomization, object, config, runtimes, files
<1>b. ~(WhiskAt' \in Within /\ WatcherAt' \in {"first", "remove", "forget", "read"} \cup Within)
  BY <1>s, NotCrossed
<1>1. Apart'
  BY <1>a, <1>b, SoundIs DEF Preloading, Apart, Within, WhiskFrom
<1>2. FilesInv'
  BY <1>a, <1>b, SoundIs DEF Preloading, FilesInv, Reads, Apart, Within, WhiskFrom
<1>3. JobInv'
  BY <1>a, <1>b, SoundIs DEF Preloading, JobInv, FilesInv, Apart, Within, WhiskFrom
<1>4. CurrentInv'
  BY <1>a, <1>b, SoundIs DEF Preloading, CurrentInv, JobInv, Apart, FilesInv, Reads, Within, WhiskFrom
<1> QED
  BY <1>1, <1>2, <1>3, <1>4 DEF Preloading

LEMMA WhiskBuilds ==
  ASSUME Sound, Preloading, WhiskAt = "build", Preloads("whisk"), Build("whisk")
  PROVE  Preloading'
<1>t. "whisk" \in Threads /\ "watcher" \in Threads
  BY DEF Threads
<1>s. TypeInv /\ OrderInv /\ TypeInv' /\ OrderInv' /\ ~crossed'
  BY SoundIs DEF Sound
<1>w. Working("whisk") /\ th["whisk"].left # << >>
  BY DEF Working, Build, At
<1>a. /\ WhiskFrom("build", "create") /\ UNCHANGED << tpl, kust, job, memory >>
      /\ th'["whisk"].owner = th["whisk"].owner
      /\ th'["whisk"].seen = th["whisk"].seen /\ th'["whisk"].spec = (IF kust = "full" THEN tpl ELSE 0)
  <2>1. /\ th'["whisk"].op = th["whisk"].op /\ th'["whisk"].owner = th["whisk"].owner
        /\ th'["whisk"].seen = th["whisk"].seen /\ th'["whisk"].spec = (IF kust = "full" THEN tpl ELSE 0)
        /\ th'["whisk"].left = Tail(th["whisk"].left)
    BY <1>t, <1>s, <1>w, BuildKeeps
  <2>2. WhiskAt' = "create"
    BY <1>s, <1>w, <2>1, WhiskMoves DEF Next1
  <2> QED BY <1>s, <1>w, <2>1, <2>2, WhiskMoves DEF WhiskFrom, Build, object, config, runtimes, files
<1>b. ~(WhiskAt' \in Within /\ WatcherAt' \in {"first", "remove", "forget", "read"} \cup Within)
  BY <1>s, NotCrossed
<1>1. Apart'
  BY <1>a, <1>b, SoundIs DEF Preloading, Apart, Within, WhiskFrom
<1>2. FilesInv'
  BY <1>a, <1>b, SoundIs DEF Preloading, FilesInv, Reads, Apart, Within, WhiskFrom
<1>3. JobInv'
  BY <1>a, <1>b, SoundIs DEF Preloading, JobInv, FilesInv, Apart, Within, WhiskFrom
<1>4. CurrentInv'
  BY <1>a, <1>b, SoundIs DEF Preloading, CurrentInv, JobInv, Apart, FilesInv, Reads, Within, WhiskFrom
<1> QED
  BY <1>1, <1>2, <1>3, <1>4 DEF Preloading

LEMMA WatcherReads ==
  ASSUME Sound, Preloading, WatcherAt = "read", Preloads("watcher"), ReadRuntimes("watcher")
  PROVE  Preloading'
<1>t. "whisk" \in Threads /\ "watcher" \in Threads
  BY DEF Threads
<1>s. TypeInv /\ OrderInv /\ TypeInv' /\ OrderInv' /\ ~crossed'
  BY SoundIs DEF Sound
<1>w. Working("watcher") /\ th["watcher"].left # << >>
  BY DEF Working, ReadRuntimes, At
<1>a. /\ WatcherFrom("read", "patch") /\ UNCHANGED << tpl, kust, job, memory >>
      /\ th'["watcher"].owner = th["watcher"].owner
      /\ th'["watcher"].seen = version /\ th'["watcher"].spec = th["watcher"].spec
  <2>1. /\ th'["watcher"].op = th["watcher"].op /\ th'["watcher"].owner = th["watcher"].owner
        /\ th'["watcher"].seen = version /\ th'["watcher"].spec = th["watcher"].spec
        /\ th'["watcher"].left = Tail(th["watcher"].left)
    BY <1>t, <1>s, <1>w, ReadKeeps
  <2>2. WatcherAt' = "patch"
    BY <1>s, <1>w, <2>1, WatcherMoves DEF Next1
  <2> QED BY <1>s, <1>w, <2>1, <2>2, WatcherMoves DEF WatcherFrom, ReadRuntimes, object, config, runtimes, files
<1>b. ~(WhiskAt' \in Within /\ WatcherAt' \in {"first", "remove", "forget", "read"} \cup Within)
  BY <1>s, NotCrossed
<1>1. Apart'
  BY <1>a, <1>b, SoundIs DEF Preloading, Apart, Within, WatcherFrom
<1>2. FilesInv'
  BY <1>a, <1>b, SoundIs DEF Preloading, FilesInv, Reads, Apart, Within, WatcherFrom
<1>3. JobInv'
  BY <1>a, <1>b, SoundIs DEF Preloading, JobInv, FilesInv, Apart, Within, WatcherFrom
<1>4. CurrentInv'
  BY <1>a, <1>b, SoundIs DEF Preloading, CurrentInv, JobInv, Apart, FilesInv, Reads, Within, WatcherFrom
<1> QED
  BY <1>1, <1>2, <1>3, <1>4 DEF Preloading

LEMMA WatcherPatches ==
  ASSUME Sound, Preloading, WatcherAt = "patch", Preloads("watcher"), Patch("watcher")
  PROVE  Preloading'
<1>t. "whisk" \in Threads /\ "watcher" \in Threads
  BY DEF Threads
<1>s. TypeInv /\ OrderInv /\ TypeInv' /\ OrderInv' /\ ~crossed'
  BY SoundIs DEF Sound
<1>w. Working("watcher") /\ Goes("watcher") /\ th["watcher"].left # << >>
  BY DEF Working, Patch, At
<1>a. /\ WatcherFrom("patch", "open") /\ UNCHANGED << kust, job, memory >>
      /\ th'["watcher"].owner = th["watcher"].owner
      /\ th'["watcher"].seen = th["watcher"].seen /\ th'["watcher"].spec = th["watcher"].spec /\ tpl' = th["watcher"].seen
  <2>1. /\ th'["watcher"].op = th["watcher"].op /\ th'["watcher"].owner = th["watcher"].owner
        /\ th'["watcher"].seen = th["watcher"].seen /\ th'["watcher"].spec = th["watcher"].spec
        /\ th'["watcher"].left = Tail(th["watcher"].left)
    BY <1>t, <1>s, <1>w, GoesKeeps DEF Keeps
  <2>2. WatcherAt' = "open"
    BY <1>s, <1>w, <2>1, WatcherMoves DEF Next1
  <2> QED BY <1>s, <1>w, <2>1, <2>2, WatcherMoves DEF WatcherFrom, Patch, object, config, runtimes, files
<1>b. ~(WhiskAt' \in Within /\ WatcherAt' \in {"first", "remove", "forget", "read"} \cup Within)
  BY <1>s, NotCrossed
<1>1. Apart'
  BY <1>a, <1>b, SoundIs DEF Preloading, Apart, Within, WatcherFrom
<1>2. FilesInv'
  BY <1>a, <1>b, SoundIs DEF Preloading, FilesInv, Reads, Apart, Within, WatcherFrom
<1>3. JobInv'
  BY <1>a, <1>b, SoundIs DEF Preloading, JobInv, FilesInv, Apart, Within, WatcherFrom
<1>4. CurrentInv'
  BY <1>a, <1>b, SoundIs DEF Preloading, CurrentInv, JobInv, Apart, FilesInv, Reads, Within, WatcherFrom
<1> QED
  BY <1>1, <1>2, <1>3, <1>4 DEF Preloading

LEMMA WatcherTruncates ==
  ASSUME Sound, Preloading, WatcherAt = "open", Preloads("watcher"), OpenKustomization("watcher")
  PROVE  Preloading'
<1>t. "whisk" \in Threads /\ "watcher" \in Threads
  BY DEF Threads
<1>s. TypeInv /\ OrderInv /\ TypeInv' /\ OrderInv' /\ ~crossed'
  BY SoundIs DEF Sound
<1>w. Working("watcher") /\ Goes("watcher") /\ th["watcher"].left # << >>
  BY DEF Working, OpenKustomization, At
<1>a. /\ WatcherFrom("open", "close") /\ UNCHANGED << tpl, job, memory >>
      /\ th'["watcher"].owner = th["watcher"].owner
      /\ th'["watcher"].seen = th["watcher"].seen /\ th'["watcher"].spec = th["watcher"].spec /\ kust' = "torn"
  <2>1. /\ th'["watcher"].op = th["watcher"].op /\ th'["watcher"].owner = th["watcher"].owner
        /\ th'["watcher"].seen = th["watcher"].seen /\ th'["watcher"].spec = th["watcher"].spec
        /\ th'["watcher"].left = Tail(th["watcher"].left)
    BY <1>t, <1>s, <1>w, GoesKeeps DEF Keeps
  <2>2. WatcherAt' = "close"
    BY <1>s, <1>w, <2>1, WatcherMoves DEF Next1
  <2> QED BY <1>s, <1>w, <2>1, <2>2, WatcherMoves DEF WatcherFrom, OpenKustomization, object, config, runtimes, files
<1>b. ~(WhiskAt' \in Within /\ WatcherAt' \in {"first", "remove", "forget", "read"} \cup Within)
  BY <1>s, NotCrossed
<1>1. Apart'
  BY <1>a, <1>b, SoundIs DEF Preloading, Apart, Within, WatcherFrom
<1>2. FilesInv'
  BY <1>a, <1>b, SoundIs DEF Preloading, FilesInv, Reads, Apart, Within, WatcherFrom
<1>3. JobInv'
  BY <1>a, <1>b, SoundIs DEF Preloading, JobInv, FilesInv, Apart, Within, WatcherFrom
<1>4. CurrentInv'
  BY <1>a, <1>b, SoundIs DEF Preloading, CurrentInv, JobInv, Apart, FilesInv, Reads, Within, WatcherFrom
<1> QED
  BY <1>1, <1>2, <1>3, <1>4 DEF Preloading

LEMMA WatcherCloses ==
  ASSUME Sound, Preloading, WatcherAt = "close", Preloads("watcher"), CloseKustomization("watcher")
  PROVE  Preloading'
<1>t. "whisk" \in Threads /\ "watcher" \in Threads
  BY DEF Threads
<1>s. TypeInv /\ OrderInv /\ TypeInv' /\ OrderInv' /\ ~crossed'
  BY SoundIs DEF Sound
<1>w. Working("watcher") /\ Goes("watcher") /\ th["watcher"].left # << >>
  BY DEF Working, CloseKustomization, At
<1>a. /\ WatcherFrom("close", "build") /\ UNCHANGED << tpl, job, memory >>
      /\ th'["watcher"].owner = th["watcher"].owner
      /\ th'["watcher"].seen = th["watcher"].seen /\ th'["watcher"].spec = th["watcher"].spec /\ kust' = "full"
  <2>1. /\ th'["watcher"].op = th["watcher"].op /\ th'["watcher"].owner = th["watcher"].owner
        /\ th'["watcher"].seen = th["watcher"].seen /\ th'["watcher"].spec = th["watcher"].spec
        /\ th'["watcher"].left = Tail(th["watcher"].left)
    BY <1>t, <1>s, <1>w, GoesKeeps DEF Keeps
  <2>2. WatcherAt' = "build"
    BY <1>s, <1>w, <2>1, WatcherMoves DEF Next1
  <2> QED BY <1>s, <1>w, <2>1, <2>2, WatcherMoves DEF WatcherFrom, CloseKustomization, object, config, runtimes, files
<1>b. ~(WhiskAt' \in Within /\ WatcherAt' \in {"first", "remove", "forget", "read"} \cup Within)
  BY <1>s, NotCrossed
<1>1. Apart'
  BY <1>a, <1>b, SoundIs DEF Preloading, Apart, Within, WatcherFrom
<1>2. FilesInv'
  BY <1>a, <1>b, SoundIs DEF Preloading, FilesInv, Reads, Apart, Within, WatcherFrom
<1>3. JobInv'
  BY <1>a, <1>b, SoundIs DEF Preloading, JobInv, FilesInv, Apart, Within, WatcherFrom
<1>4. CurrentInv'
  BY <1>a, <1>b, SoundIs DEF Preloading, CurrentInv, JobInv, Apart, FilesInv, Reads, Within, WatcherFrom
<1> QED
  BY <1>1, <1>2, <1>3, <1>4 DEF Preloading

LEMMA WatcherBuilds ==
  ASSUME Sound, Preloading, WatcherAt = "build", Preloads("watcher"), Build("watcher")
  PROVE  Preloading'
<1>t. "whisk" \in Threads /\ "watcher" \in Threads
  BY DEF Threads
<1>s. TypeInv /\ OrderInv /\ TypeInv' /\ OrderInv' /\ ~crossed'
  BY SoundIs DEF Sound
<1>w. Working("watcher") /\ th["watcher"].left # << >>
  BY DEF Working, Build, At
<1>a. /\ WatcherFrom("build", "create") /\ UNCHANGED << tpl, kust, job, memory >>
      /\ th'["watcher"].owner = th["watcher"].owner
      /\ th'["watcher"].seen = th["watcher"].seen /\ th'["watcher"].spec = (IF kust = "full" THEN tpl ELSE 0)
  <2>1. /\ th'["watcher"].op = th["watcher"].op /\ th'["watcher"].owner = th["watcher"].owner
        /\ th'["watcher"].seen = th["watcher"].seen /\ th'["watcher"].spec = (IF kust = "full" THEN tpl ELSE 0)
        /\ th'["watcher"].left = Tail(th["watcher"].left)
    BY <1>t, <1>s, <1>w, BuildKeeps
  <2>2. WatcherAt' = "create"
    BY <1>s, <1>w, <2>1, WatcherMoves DEF Next1
  <2> QED BY <1>s, <1>w, <2>1, <2>2, WatcherMoves DEF WatcherFrom, Build, object, config, runtimes, files
<1>b. ~(WhiskAt' \in Within /\ WatcherAt' \in {"first", "remove", "forget", "read"} \cup Within)
  BY <1>s, NotCrossed
<1>1. Apart'
  BY <1>a, <1>b, SoundIs DEF Preloading, Apart, Within, WatcherFrom
<1>2. FilesInv'
  BY <1>a, <1>b, SoundIs DEF Preloading, FilesInv, Reads, Apart, Within, WatcherFrom
<1>3. JobInv'
  BY <1>a, <1>b, SoundIs DEF Preloading, JobInv, FilesInv, Apart, Within, WatcherFrom
<1>4. CurrentInv'
  BY <1>a, <1>b, SoundIs DEF Preloading, CurrentInv, JobInv, Apart, FilesInv, Reads, Within, WatcherFrom
<1> QED
  BY <1>1, <1>2, <1>3, <1>4 DEF Preloading

LEMMA WatcherBuildsFirst ==
  ASSUME Sound, Preloading, WatcherAt = "first", Preloads("watcher"), Build("watcher")
  PROVE  Preloading'
<1>t. "whisk" \in Threads /\ "watcher" \in Threads
  BY DEF Threads
<1>s. TypeInv /\ OrderInv /\ TypeInv' /\ OrderInv' /\ ~crossed'
  BY SoundIs DEF Sound
<1>w. Working("watcher") /\ th["watcher"].left # << >>
  BY DEF Working, Build, At
<1>a. /\ WatcherFrom("first", "remove") /\ UNCHANGED << tpl, kust, job, memory >>
      /\ th'["watcher"].owner = th["watcher"].owner
      /\ th'["watcher"].seen = th["watcher"].seen /\ th'["watcher"].spec = (IF kust = "full" THEN tpl ELSE 0)
  <2>1. /\ th'["watcher"].op = th["watcher"].op /\ th'["watcher"].owner = th["watcher"].owner
        /\ th'["watcher"].seen = th["watcher"].seen /\ th'["watcher"].spec = (IF kust = "full" THEN tpl ELSE 0)
        /\ th'["watcher"].left = Tail(th["watcher"].left)
    BY <1>t, <1>s, <1>w, BuildKeeps
  <2>2. WatcherAt' = "remove"
    BY <1>s, <1>w, <2>1, WatcherMoves DEF Next1
  <2> QED BY <1>s, <1>w, <2>1, <2>2, WatcherMoves DEF WatcherFrom, Build, object, config, runtimes, files
<1>b. ~(WhiskAt' \in Within /\ WatcherAt' \in {"first", "remove", "forget", "read"} \cup Within)
  BY <1>s, NotCrossed
<1>1. Apart'
  BY <1>a, <1>b, SoundIs DEF Preloading, Apart, Within, WatcherFrom
<1>2. FilesInv'
  BY <1>a, <1>b, SoundIs DEF Preloading, FilesInv, Reads, Apart, Within, WatcherFrom
<1>3. JobInv'
  BY <1>a, <1>b, SoundIs DEF Preloading, JobInv, FilesInv, Apart, Within, WatcherFrom
<1>4. CurrentInv'
  BY <1>a, <1>b, SoundIs DEF Preloading, CurrentInv, JobInv, Apart, FilesInv, Reads, Within, WatcherFrom
<1> QED
  BY <1>1, <1>2, <1>3, <1>4 DEF Preloading

\* The calls of kubectl in the preloader.
LEMMA WhiskMakes ==
  ASSUME Sound, Preloading, WhiskAt = "create", Preloads("whisk"), CreateJob("whisk")
  PROVE  Preloading'
<1>t. "whisk" \in Threads /\ "watcher" \in Threads
  BY DEF Threads
<1>s. TypeInv /\ OrderInv
  BY DEF Sound
<1>w. /\ Working("whisk") /\ th["whisk"].left # << >> /\ Now("whisk").c = "preloader"
      /\ Applied("whisk")
  <2>1. Working("whisk") /\ th["whisk"].left # << >> /\ Now("whisk").do = "create" /\ Applied("whisk")
    BY DEF Working, CreateJob, At
  <2> QED BY <1>s, <1>t, <2>1, FirstPlace
<1>o. /\ th["whisk"].owner /\ th["whisk"].spec = th["whisk"].seen /\ th["whisk"].seen > 0
      /\ kust = "full" /\ tpl = th["whisk"].seen /\ WatcherAt \in {"out", "first"}
      /\ th["whisk"].spec \in Nat
  BY SoundIs DEF Preloading, Apart, FilesInv, Reads, Within
<1>a. /\ WhiskFrom("create", "out") /\ UNCHANGED << tpl, kust, memory >>
      /\ th'["whisk"].owner = th["whisk"].owner
  <2>1. Keeps("whisk") /\ WhiskAt' = "out"
    <3>1. CASE Goes("whisk")
      <4>1. Keeps("whisk") /\ th'["whisk"].left = Tail(th["whisk"].left)
        BY <1>s, <1>t, <3>1, GoesKeeps
      <4> QED BY <1>s, <1>w, <4>1, WhiskMoves DEF Next1
    <3>2. CASE Raise("whisk")
      BY <1>s, <1>t, <1>w, <3>2, RaisePlace DEF WhiskAt
    <3> QED BY <1>w, <3>1, <3>2 DEF Applied
  <2> QED BY <1>o, <1>s, <1>w, <2>1, WhiskMoves DEF WhiskFrom, Keeps, CreateJob, object, runtimes, files
<1>j. \/ job'.v = th["whisk"].seen /\ job'.owned
      \/ job' = job /\ job.v \notin {0, th["whisk"].seen}
  <2>1. CASE job.v \notin {0, th["whisk"].seen}
    BY <1>o, <1>w, <2>1 DEF Applied
  <2>2. CASE job.v \in {0, th["whisk"].seen}
    <3>1. job' = [v |-> th["whisk"].spec, owned |-> th["whisk"].owner]
      BY <1>o, <1>w, <2>2 DEF Applied
    <3> QED BY <1>o, <3>1
  <2> QED BY <2>1, <2>2
<1>1. Apart'
  BY <1>a, <1>o, SoundIs DEF Preloading, Apart, Within, WhiskFrom
<1>2. FilesInv'
  BY <1>a, <1>o, SoundIs DEF Preloading, FilesInv, Reads, Apart, Within, WhiskFrom
<1>3. JobInv'
  BY <1>a, <1>j, <1>o, SoundIs DEF Preloading, JobInv, FilesInv, Apart, Within, WhiskFrom
<1>4. CurrentInv'
  BY <1>a, <1>j, <1>o, SoundIs DEF Preloading, CurrentInv, JobInv, Within, WhiskFrom
<1> QED
  BY <1>1, <1>2, <1>3, <1>4 DEF Preloading

LEMMA WatcherMakes ==
  ASSUME Sound, Preloading, WatcherAt = "create", Preloads("watcher"), CreateJob("watcher")
  PROVE  Preloading'
<1>t. "whisk" \in Threads /\ "watcher" \in Threads
  BY DEF Threads
<1>s. TypeInv /\ OrderInv
  BY DEF Sound
<1>w. Working("watcher") /\ th["watcher"].left # << >> /\ Applied("watcher")
  BY DEF Working, CreateJob, At
<1>o. /\ th["watcher"].spec = th["watcher"].seen /\ th["watcher"].seen > 0
      /\ kust = "full" /\ tpl = th["watcher"].seen /\ WhiskAt \notin Within /\ job.v = 0
      /\ th["watcher"].spec \in Nat
  BY SoundIs DEF Preloading, Apart, FilesInv, JobInv, Reads, Within
<1>g. /\ Goes("watcher") /\ job' = [v |-> th["watcher"].spec, owned |-> th["watcher"].owner]
      /\ memory' = IF th["watcher"].owner THEN memory ELSE th["watcher"].spec
  BY <1>o, <1>w DEF Applied, CreateJob
<1>a. /\ WatcherFrom("create", "out") /\ UNCHANGED << tpl, kust >>
      /\ job'.v = th["watcher"].seen /\ job'.owned = th["watcher"].owner
      /\ memory' = IF th["watcher"].owner THEN memory ELSE th["watcher"].seen
  <2>1. Keeps("watcher") /\ th'["watcher"].left = Tail(th["watcher"].left)
    BY <1>s, <1>t, <1>g, GoesKeeps
  <2>2. WatcherAt' = "out"
    BY <1>s, <1>w, <2>1, WatcherMoves DEF Next1
  <2>3. job'.v = th["watcher"].seen /\ job'.owned = th["watcher"].owner
    BY <1>g, <1>o
  <2> QED BY <1>g, <1>o, <1>s, <1>w, <2>1, <2>2, <2>3, WatcherMoves
          DEF WatcherFrom, Keeps, CreateJob, object, runtimes, files
<1>1. Apart'
  BY <1>a, <1>o, SoundIs DEF Preloading, Apart, Within, WatcherFrom
<1>2. FilesInv'
  BY <1>a, <1>o, SoundIs DEF Preloading, FilesInv, Reads, Apart, Within, WatcherFrom
<1>3. JobInv'
  BY <1>a, <1>o, SoundIs DEF Preloading, JobInv, FilesInv, Apart, Within, WatcherFrom
<1>4. CurrentInv'
  BY <1>a, <1>o, SoundIs DEF Preloading, Apart, CurrentInv, JobInv, Within, WatcherFrom
<1> QED
  BY <1>1, <1>2, <1>3, <1>4 DEF Preloading

\* What removes the Job finds it where the files or the memory say so.
LEMMA WatcherRemoves ==
  ASSUME Sound, Preloading, Preloads("watcher"),
         \/ WatcherAt = "remove" /\ RemoveByOwner("watcher")
         \/ WatcherAt = "forget" /\ RemoveBySpec("watcher")
  PROVE  Preloading'
<1>t. "whisk" \in Threads /\ "watcher" \in Threads
  BY DEF Threads
<1>s. TypeInv /\ OrderInv
  BY DEF Sound
<1> DEFINE from == IF WatcherAt = "remove" THEN th["watcher"].spec ELSE memory
<1>w. /\ Working("watcher") /\ th["watcher"].left # << >> /\ Removed("watcher", from)
      /\ UNCHANGED << object, config, runtimes, files >>
  BY DEF Working, RemoveByOwner, RemoveBySpec, At
<1>o. WatcherAt \in {"remove", "forget"} /\ (from > 0 <=> job.v > 0) /\ WhiskAt \notin Within
  BY SoundIs DEF Preloading, Apart, JobInv, Within
<1>g. Goes("watcher") /\ job' = IF from > 0 THEN [v |-> 0, owned |-> FALSE] ELSE job
  <2>1. ~(from > 0 /\ job.v = 0)
    <3> HIDE DEF from
    <3> QED BY <1>o, SoundIs
  <2> HIDE DEF from
  <2> QED BY <1>w, <2>1 DEF Removed
<1>j. job'.v = 0 /\ job'.owned \in BOOLEAN
  <2>1. CASE from > 0
    <3>1. job' = [v |-> 0, owned |-> FALSE]
      BY <1>g, <2>1
    <3> QED BY <3>1
  <2>2. CASE ~(from > 0)
    <3> HIDE DEF from
    <3>1. job' = job /\ ~(job.v > 0)
      BY <1>g, <1>o, <2>2
    <3> QED BY <3>1, SoundIs
  <2> QED BY <2>1, <2>2
<1>a. /\ WatcherFrom(WatcherAt, "read") /\ UNCHANGED << tpl, kust, memory >>
      /\ th'["watcher"].seen = th["watcher"].seen
  <2>1. Keeps("watcher") /\ th'["watcher"].left = Tail(th["watcher"].left)
    BY <1>s, <1>t, <1>g, GoesKeeps
  <2>2. WatcherAt' = "read"
    BY <1>o, <1>s, <1>w, <2>1, WatcherMoves DEF Next1
  <2> QED BY <1>s, <1>w, <2>1, <2>2, WatcherMoves DEF WatcherFrom, Keeps, object, config, runtimes, files
<1>b. ~(WhiskAt' \in Within /\ WatcherAt' \in {"first", "remove", "forget", "read"} \cup Within)
  BY NotCrossed, SoundIs DEF Sound
<1>1. Apart'
  BY <1>a, <1>b, <1>o, SoundIs DEF Preloading, Apart, Within, WatcherFrom
<1>2. FilesInv'
  BY <1>a, <1>o, SoundIs DEF Preloading, FilesInv, Reads, Apart, Within, WatcherFrom
<1>3. JobInv'
  BY <1>a, <1>j, <1>o, SoundIs DEF Preloading, JobInv, FilesInv, Apart, Within, WatcherFrom
<1>4. CurrentInv'
  BY <1>a, <1>j, <1>o, SoundIs DEF Preloading, Apart, CurrentInv, JobInv, Within, WatcherFrom
<1> QED
  BY <1>1, <1>2, <1>3, <1>4 DEF Preloading

\* The other steps of the handler, and the end of it.
LEMMA WhiskPasses ==
  ASSUME Sound, Preloading, WhiskAt = "out", Creates("whisk") \/ Finishes("whisk") \/ End("whisk")
  PROVE  Preloading'
<1>t. "whisk" \in Threads /\ "watcher" \in Threads
  BY DEF Threads
<1>s. TypeInv /\ OrderInv
  BY DEF Sound
<1>w. Working("whisk")
  BY DEF Working
<1>o. th["whisk"].op = "create" /\ due = "create"
  <2>1. th["whisk"].op # "idle"
    <3>1. CASE End("whisk")
      BY <3>1 DEF End
    <3>2. CASE Creates("whisk") \/ Finishes("whisk")
      <4>1. th["whisk"].left # << >>
        BY <3>2, Zenon DEF Creates, Finishes, Apply, PickPod, NoPod, WaitForPod, Annotate, AnnotateFails, Account,
               AddUser, MakeBucket, Grant, WaitForService, Endpoint, Save, Deploy, DeployFails,
               DeployGivesUp, Report, Delete, At
      <4>2. th["whisk"].op = "idle" => th["whisk"].left = << >>
        BY <1>s, <1>t, ThreadIs DEF Worker
      <4> QED BY <4>1, <4>2
    <3> QED BY <3>1, <3>2
  <2> QED BY <2>1, SoundIs
<1>u. UNCHANGED << memory, version, pending, tpl, kust, job >>
  <2>1. CASE End("whisk")
    BY <2>1 DEF End, config, runtimes, files
  <2>2. CASE Creates("whisk")
    BY <2>2, Zenon DEF Creates, Apply, PickPod, NoPod, WaitForPod, Annotate, AnnotateFails, Account,
           AddUser, MakeBucket, Grant, WaitForService, Endpoint, config, runtimes, files
  <2>3. CASE Finishes("whisk")
    BY <2>3 DEF Finishes, Save, Deploy, DeployFails, DeployGivesUp, Report, Delete, config, runtimes, files
  <2> QED BY <2>1, <2>2, <2>3
<1>d. UNCHANGED obj /\ \/ due' = "none" /\ th'["whisk"].op = "idle"
                       \/ due' = due /\ th'["whisk"].op \in {"idle", "create"}
  <2>1. CASE End("whisk")
    <3>1. due' = "none" /\ obj' = obj
      BY <1>o, <2>1 DEF End
    <3>2. th'["whisk"] = Idle
      BY <1>s, <1>t, <2>1, Replacing DEF End
    <3>3. Idle.op = "idle"
      BY DEF Idle
    <3> QED BY <3>1, <3>2, <3>3
  <2>2. CASE ~End("whisk")
    <3>1. UNCHANGED << obj, due >>
      BY <1>t, <1>w, <2>2, Frames DEF Frame
    <3> QED BY <1>o, <1>s, <1>t, <1>w, <3>1, OpKeeps
  <2> QED BY <2>1, <2>2
<1>a. WhiskAt' = "out" /\ th'["watcher"] = th["watcher"] /\ WatcherAt' = WatcherAt
  BY <1>s, <1>t, <1>w, OutStays, WhiskMoves DEF WhiskAt
<1>1. Apart'
  BY <1>a, <1>d, <1>o, <1>u DEF Preloading, Apart, Within
<1>2. FilesInv'
  BY <1>a, <1>d, <1>u DEF Preloading, FilesInv, Reads, Within
<1>3. JobInv'
  BY <1>a, <1>d, <1>u DEF Preloading, JobInv, Within
<1>4. CurrentInv'
  BY <1>a, <1>d, <1>o, <1>u DEF Preloading, CurrentInv, Within
<1> QED
  BY <1>1, <1>2, <1>3, <1>4 DEF Preloading

\* The end of the watcher, and its rollout.
LEMMA WatcherPasses ==
  ASSUME Sound, Preloading, End("watcher") \/ Rollout
  PROVE  Preloading'
<1>t. "whisk" \in Threads /\ "watcher" \in Threads
  BY DEF Threads
<1>s. TypeInv /\ OrderInv
  BY DEF Sound
<1>a. /\ WatcherAt = "out" /\ WatcherAt' = "out"
      /\ th'["watcher"].owner => th["watcher"].owner
      /\ th'["whisk"] = th["whisk"] /\ WhiskAt' = WhiskAt
      /\ UNCHANGED << obj, due, memory, version, pending, tpl, kust, job >>
  <2>1. CASE End("watcher")
    <3>1. th'["watcher"] = Idle /\ th'["whisk"] = th["whisk"]
      BY <1>s, <1>t, <2>1, Replacing DEF End
    <3>2. th["watcher"].op = "watch" /\ due # "watch"
      BY <1>s, <1>t, <2>1, ThreadIs DEF End, Worker, TypeInv, Values, TheObject
    <3>3. UNCHANGED << obj, due, memory, version, pending, tpl, kust, job >>
      BY <2>1, <3>2 DEF End, config, runtimes, files
    <3>4. WatcherAt = "out"
      BY <2>1 DEF End, WatcherAt, Place
    <3>5. Idle.owner = FALSE
      BY DEF Idle
    <3> QED BY <3>1, <3>3, <3>4, <3>5, IdlePlace DEF WatcherAt, WhiskAt
  <2>2. CASE Rollout
    <3>1. WatcherAt = "out"
      BY <1>s, <2>2, RolloutSets DEF WatcherAt, Place
    <3>2. WatcherAt' \in Next1(WatcherAt)
      BY <1>s, <1>t, <2>2, RolloutSets, TailPlace DEF WatcherAt
    <3>3. WatcherAt' = "out"
      BY <3>1, <3>2 DEF Next1
    <3>4. UNCHANGED << obj, due, memory, version, pending, tpl, kust, job >>
      BY <2>2 DEF Rollout, object, config, runtimes, files
    <3> QED BY <1>s, <2>2, <3>1, <3>3, <3>4, RolloutSets DEF Keeps, WhiskAt
  <2> QED BY <2>1, <2>2
<1>1. Apart'
  BY <1>a DEF Preloading, Apart, Within
<1>2. FilesInv'
  BY <1>a DEF Preloading, FilesInv, Reads, Within
<1>3. JobInv'
  BY <1>a DEF Preloading, JobInv, Within
<1>4. CurrentInv'
  BY <1>a DEF Preloading, CurrentInv, Within
<1> QED
  BY <1>1, <1>2, <1>3, <1>4 DEF Preloading

\* A handler begins.
LEMMA WhiskBegins ==
  ASSUME Sound, Preloading, Begin
  PROVE  Preloading'
<1>s. TypeInv /\ OrderInv
  BY DEF Sound
<1>a. /\ WhiskAt = "out" /\ WhiskAt' = "clean" /\ due = "create"
      /\ th'["watcher"] = th["watcher"] /\ WatcherAt' = WatcherAt
      /\ UNCHANGED << obj, due, memory, version, pending, tpl, kust, job >>
  <2>1. due = "create"
    BY SoundIs DEF Begin
  <2>2. th'["whisk"].left = WhiskCreate
    BY <1>s, <2>1, BeginSets DEF Program
  <2>3. WhiskAt' = "clean"
    <3>1. th'["whisk"].left # << >> /\ th'["whisk"].left[1].c = "config" /\ th'["whisk"].left[1].do = "clean"
      BY <2>2, CreateOpens DEF Opens
    <3> QED BY <3>1 DEF WhiskAt, Place, Early
  <2>4. UNCHANGED << obj, due, memory, version, pending, tpl, kust, job >>
    BY DEF Begin, object, config, runtimes, files
  <2> QED BY <1>s, <2>1, <2>3, <2>4, BeginSets, SoundIs DEF WatcherAt
<1>1. Apart'
  BY <1>a DEF Preloading, Apart, Within
<1>2. FilesInv'
  BY <1>a DEF Preloading, FilesInv, Reads, Within
<1>3. JobInv'
  BY <1>a DEF Preloading, JobInv, Within
<1>4. CurrentInv'
  BY <1>a DEF Preloading, CurrentInv, Within
<1> QED
  BY <1>1, <1>2, <1>3, <1>4 DEF Preloading

LEMMA WatcherBegins ==
  ASSUME Sound, Preloading, NEW found \in BOOLEAN, Watch(found)
  PROVE  Preloading'
<1>s. TypeInv /\ OrderInv
  BY DEF Sound
<1>f. found = (obj = "present")
  <2>1. troubles' # troubles + 1
    BY SoundIs
  <2>2. found = (obj \in {"present", "deleting"})
    BY <2>1 DEF Watch, Trouble
  <2> QED BY <2>2 DEF Sound, Smooth
<1>a. /\ WatcherAt = "out" /\ WatcherAt' = IF found THEN "first" ELSE "forget"
      /\ th'["watcher"].owner = found
      /\ th'["whisk"] = th["whisk"] /\ WhiskAt' = WhiskAt
      /\ UNCHANGED << obj, due, memory, version, tpl, kust, job >>
      /\ WhiskAt \in Within => found
  <2>1. WatcherAt' = IF found THEN "first" ELSE "forget"
    BY <1>s, WatchSets, WatcherOrdered DEF WatcherAt
  <2>2. UNCHANGED << obj, due, memory, version, tpl, kust, job >>
    BY DEF Watch, object, config, files
  <2>3. WatcherAt = "out"
    BY <1>s, WatchSets DEF WatcherAt, Place
  <2>4. WhiskAt \in Within => found
    BY <1>f, SoundIs DEF Within
  <2> QED BY <1>s, <2>1, <2>2, <2>3, <2>4, WatchSets DEF WhiskAt
<1>1. Apart'
  BY <1>a, <1>f DEF Preloading, Apart, Within
<1>2. FilesInv'
  BY <1>a, <1>f DEF Preloading, FilesInv, Reads, Within
<1>3. JobInv'
  BY <1>a, <1>f DEF Preloading, JobInv, Within, Sound, Smooth
<1>4. CurrentInv'
  BY <1>a, <1>f DEF Preloading, CurrentInv, Within
<1> QED
  BY <1>1, <1>2, <1>3, <1>4 DEF Preloading

\* What goes on around them.
LEMMA AroundKept ==
  ASSUME Sound, Preloading, Around
  PROVE  Preloading'
<1>s. TypeInv /\ OrderInv
  BY DEF Sound
<1>r. ~Restart /\ ~DiscardWhisk /\ ~Collect /\ \A w : ~PodLost(w)
  <2>1. troubles' # troubles + 1
    BY SoundIs
  <2> QED BY <2>1 DEF Restart, PodLost, Trouble, DiscardWhisk, Collect, Sound, Smooth
<1>a. UNCHANGED th /\ WhiskAt' = WhiskAt /\ WatcherAt' = WatcherAt
  BY <1>r, <1>s, OutsideSame
<1>k. UNCHANGED << memory, tpl, kust, job >>
  BY <1>r DEF Around, AddWhisk, EditRuntimes, DatabasesMade, PodReady, config, files
<1>1. CASE AddWhisk
  <2>a. /\ obj = "absent" /\ obj' = "present" /\ due' = "create" /\ UNCHANGED << version, pending >>
        /\ th["whisk"].op = "idle"
    BY <1>1, SoundIs DEF AddWhisk, runtimes
  <2>1. Apart'
    BY <1>a, <1>k, <2>a DEF Preloading, Apart, Within
  <2>2. FilesInv'
    BY <1>a, <1>k, <2>a DEF Preloading, FilesInv, Reads, Within
  <2>3. JobInv'
    BY <1>a, <1>k, <2>a DEF Preloading, JobInv, Within
  <2>4. CurrentInv'
    BY <1>a, <1>k, <2>a DEF Preloading, CurrentInv, Within
  <2> QED BY <2>1, <2>2, <2>3, <2>4 DEF Preloading
<1>2. CASE EditRuntimes
  <2>a. pending' /\ UNCHANGED << obj, due >>
    BY <1>2 DEF EditRuntimes, object
  <2>1. Apart'
    BY <1>a, <1>k, <2>a DEF Preloading, Apart, Within
  <2>2. FilesInv'
    BY <1>a, <1>k, <2>a DEF Preloading, FilesInv, Reads, Within
  <2>3. JobInv'
    BY <1>a, <1>k, <2>a DEF Preloading, JobInv, Within
  <2>4. CurrentInv'
    BY <2>a DEF CurrentInv
  <2> QED BY <2>1, <2>2, <2>3, <2>4 DEF Preloading
<1>3. CASE DatabasesMade \/ \E w \in Workloads : PodReady(w)
  <2>a. UNCHANGED << obj, due, version, pending >>
    BY <1>3 DEF DatabasesMade, PodReady, object, runtimes
  <2> QED BY <1>a, <1>k, <2>a DEF Preloading, Apart, FilesInv, JobInv, CurrentInv, Reads
<1> QED
  BY <1>1, <1>2, <1>3, <1>r DEF Around

\* Nothing that failed is undone, and an object is not discarded twice.
LEMMA SmoothBefore ==
  ASSUME TypeInv, Next, Smooth'
  PROVE  Smooth
<1>1. troubles = 0
  BY StepBounds, Sizes DEF TypeInv, Smooth
<1>2. obj \in {"absent", "present"}
  <2>1. obj' \in {"absent", "present"} /\ TheObject
    BY DEF Smooth, TypeInv, Values
  <2>2. obj' = obj \/ obj = "absent" \/ obj' \in {"deleting", "gone"}
    BY Outside DEF object, Frame, AddWhisk, DiscardWhisk, End, Collect, Restart, PodLost
  <2> QED BY <2>1, <2>2 DEF TheObject
<1>3. ~crossed
  BY Outside DEF Smooth, ghosts, Frame, Preloads, Clean, Collect, Restart, PodLost
<1> QED
  BY <1>1, <1>2, <1>3 DEF Smooth

LEMMA PreloaderInvKept ==
  ASSUME TypeInv, Next, OrderInv, TurnInv, OwnInv, PreloaderInv, TypeInv', OrderInv'
  PROVE  PreloaderInv'
<1> SUFFICES ASSUME Smooth'
             PROVE  Preloading'
  BY DEF PreloaderInv
<1>1. Sound /\ Preloading
  BY SmoothBefore DEF Sound, PreloaderInv
<1>2. \A t : ~CallFails(t)
  BY <1>1, SoundIs DEF CallFails, Trouble
<1>3. CASE Working("whisk")
  <2>1. \/ End("whisk")
        \/ WhiskAt = "clean" /\ Clean("whisk")
        \/ WhiskAt = "configure" /\ Configure("whisk")
        \/ WhiskAt = "owner" /\ GetOwner("whisk")
        \/ WhiskAt = "out" /\ (Creates("whisk") \/ Finishes("whisk"))
        \/ Preloads("whisk") /\ \/ WhiskAt = "read" /\ ReadRuntimes("whisk")
                                \/ WhiskAt = "patch" /\ Patch("whisk")
                                \/ WhiskAt = "open" /\ OpenKustomization("whisk")
                                \/ WhiskAt = "close" /\ CloseKustomization("whisk")
                                \/ WhiskAt = "build" /\ Build("whisk")
                                \/ WhiskAt = "create" /\ CreateJob("whisk")
                                \/ RemoveBySpec("whisk")
    <3>1. "whisk" \in Threads /\ "whisk" # "watcher"
      BY DEF Threads
    <3> QED BY <1>1, <1>2, <1>3, <3>1, Doing, SoundIs DEF WhiskAt
  <2>2. ~RemoveBySpec("whisk")
    <3> SUFFICES ASSUME RemoveBySpec("whisk")
                 PROVE  FALSE
      OBVIOUS
    <3>1. th["whisk"].left # << >> /\ Now("whisk").do = "forget" /\ "whisk" \in Threads
      BY DEF RemoveBySpec, At, Threads
    <3>2. Now("whisk") = th["whisk"].left[1] /\ 1 \in 1 .. Len(th["whisk"].left)
      BY <1>1, <3>1, FirstStep
    <3>3. th["whisk"].op # "create"
      BY <3>1, <3>2 DEF OrderInv, Handles
    <3>4. th["whisk"].op # "idle"
      BY <1>1, <3>1, ThreadIs DEF Worker
    <3> QED BY <1>1, <3>3, <3>4, SoundIs
  <2>3. End("whisk") => WhiskAt = "out"
    BY DEF End, WhiskAt, Place
  <2> QED BY <1>1, <2>1, <2>2, <2>3, CleanKept, ConfigureKept, GetOwnerKept, WhiskPasses, WhiskReads,
             WhiskPatches, WhiskTruncates, WhiskCloses, WhiskBuilds, WhiskMakes
<1>4. CASE Working("watcher")
  <2>1. \/ End("watcher")
        \/ Preloads("watcher") /\ \/ WatcherAt = "read" /\ ReadRuntimes("watcher")
                                  \/ WatcherAt = "patch" /\ Patch("watcher")
                                  \/ WatcherAt = "open" /\ OpenKustomization("watcher")
                                  \/ WatcherAt = "close" /\ CloseKustomization("watcher")
                                  \/ WatcherAt = "build" /\ Build("watcher")
                                  \/ WatcherAt = "first" /\ Build("watcher")
                                  \/ WatcherAt = "create" /\ CreateJob("watcher")
                                  \/ WatcherAt = "remove" /\ RemoveByOwner("watcher")
                                  \/ WatcherAt = "forget" /\ RemoveBySpec("watcher")
    <3>1. "watcher" \in Threads /\ "whisk" # "watcher"
      BY DEF Threads
    <3> QED BY <1>1, <1>2, <1>4, <3>1, Doing DEF WatcherAt
  <2> QED BY <1>1, <2>1, WatcherPasses, WatcherReads, WatcherPatches, WatcherTruncates, WatcherCloses,
             WatcherBuilds, WatcherBuildsFirst, WatcherMakes, WatcherRemoves
<1>5. \/ Begin \/ (\E found \in BOOLEAN : Watch(found)) \/ Rollout \/ Around
      \/ Working("whisk") \/ Working("watcher")
  <2>1. \A t \in Threads : t = "whisk" \/ t = "watcher"
    BY DEF Threads
  <2> QED BY <2>1, NextIs
<1> QED
  BY <1>1, <1>3, <1>4, <1>5, WhiskBegins, WatcherBegins, WatcherPasses, AroundKept

\* Where a step leads while no call fails.
Reached(t) ==
  Place(th'[t].left) = "out" \/ Place(th'[t].left) \in Next1(Place(th[t].left))

LEMMA Stepped ==
  ASSUME TypeInv, OrderInv, NEW t \in Threads, Working(t), ~CallFails(t)
  PROVE  Reached(t)
<1> DEFINE p == Place(th[t].left)
<1>1. ASSUME th'[t] = Idle
      PROVE  Reached(t)
  BY <1>1, IdlePlace DEF Reached
<1>2. ASSUME th[t].left # << >>, th'[t].left = Tail(th[t].left)
      PROVE  Reached(t)
  BY <1>2, TailPlace DEF Reached
<1>3. ASSUME th[t].left # << >>, Goes(t)
      PROVE  Reached(t)
  BY <1>2, <1>3, GoesKeeps
<1>4. ASSUME th[t].left # << >>, Now(t).c \in {"preloader", "config"}, Raise(t)
      PROVE  Reached(t)
  <2>1. CASE Now(t).c = "preloader"
    BY <1>4, <2>1, RaisePlace DEF Reached
  <2>2. CASE Now(t).c = "config"
    <3>1. th'[t] = Idle
      BY <1>4, <2>2, RaiseKeeps DEF Caught
    <3> QED BY <1>1, <3>1
  <2> QED BY <1>4, <2>1, <2>2
<1>5. CASE p = "out"
  BY <1>5, OutStays DEF Reached
<1>6. CASE p # "out"
  <2>c. th[t].left # << >> /\ Now(t).c \in {"preloader", "config"}
    <3>1. th[t].left # << >>
      BY <1>6 DEF Place
    <3> QED BY <1>6, <3>1, FirstPlace DEF Early
  <2>1. CASE End(t)
    BY <2>1, <2>c DEF End
  <2>2. CASE Clean(t) \/ Configure(t) \/ Patch(t) \/ OpenKustomization(t) \/ CloseKustomization(t)
    BY <1>3, <2>2, <2>c DEF Clean, Configure, Patch, OpenKustomization, CloseKustomization
  <2>3. CASE Apihost(t)
    BY <1>3, <1>4, <2>3, <2>c DEF Apihost
  <2>4. CASE GetOwner(t)
    BY <1>2, <2>4, <2>c, OwnerKeeps
  <2>5. CASE ReadRuntimes(t)
    BY <1>2, <2>5, <2>c, ReadKeeps
  <2>6. CASE Build(t)
    BY <1>2, <2>6, <2>c, BuildKeeps
  <2>7. CASE CreateJob(t)
    BY <1>3, <1>4, <2>7, <2>c DEF CreateJob, Applied
  <2>8. CASE RemoveByOwner(t) \/ RemoveBySpec(t)
    BY <1>3, <1>4, <2>8, <2>c DEF RemoveByOwner, RemoveBySpec, Removed
  <2> QED BY <1>6, <2>1, <2>2, <2>3, <2>4, <2>5, <2>6, <2>7, <2>8, Doing
<1> QED
  BY <1>5, <1>6

LEMMA OwnInvKept ==
  ASSUME TypeInv, Next, OrderInv, OwnInv
  PROVE  OwnInv'
<1> SUFFICES ASSUME troubles' = 0, WhiskAt' \in {"read"} \cup Within
             PROVE  th'["whisk"].owner
  BY DEF OwnInv
<1>t. "whisk" \in Threads /\ "whisk" # "watcher"
  BY DEF Threads
<1>0. troubles = 0 /\ ~Trouble
  BY StepBounds, Sizes DEF TypeInv, Trouble
<1>1. CASE th'["whisk"] = th["whisk"]
  BY <1>0, <1>1 DEF OwnInv, WhiskAt
<1>2. CASE Begin
  <2>1. th["whisk"].op = "idle" /\ th'["whisk"].left = Program[due] /\ due \in {"create", "resume", "delete"}
    BY <1>2, BeginSets
  <2>2. WhiskAt' \in {"clean", "out"}
    <3>1. /\ Program["create"] = WhiskCreate /\ Program["resume"] = WhiskResume
          /\ Program["delete"] = WhiskDelete
      BY DEF Program
    <3>2. \A L, D : Opens(L, D) => Place(L) = "clean"
      BY DEF Opens, Place, Early
    <3> QED BY <2>1, <3>1, <3>2, CreateOpens, ResumeOpens, DeleteOrdered DEF WhiskAt
  <2> QED BY <2>2 DEF Within
<1>3. CASE Working("whisk")
  <2>1. ~CallFails("whisk")
    BY <1>0 DEF CallFails
  <2>2. WhiskAt' \in Next1(WhiskAt)
    BY <1>3, <1>t, <2>1, Stepped DEF Reached, WhiskAt, Within
  <2>3. WhiskAt \in {"owner", "read"} \cup Within
    BY <2>2, WhiskPlaces DEF Next1, Within
  <2>4. CASE GetOwner("whisk")
    BY <1>0, <1>t, <2>4, OwnerKeeps
  <2>5. CASE ~GetOwner("whisk")
    <3>1. WhiskAt # "owner"
      <4> SUFFICES ASSUME WhiskAt = "owner"
                   PROVE  FALSE
        OBVIOUS
      <4>1. ~End("whisk")
        BY DEF End, WhiskAt, Place
      <4> QED BY <1>3, <1>t, <2>1, <2>5, <4>1, Doing DEF WhiskAt
    <3>2. th["whisk"].owner
      BY <1>0, <2>3, <3>1 DEF OwnInv
    <3>3. th'["whisk"] # Idle
      <4>1. th'["whisk"] = Idle => WhiskAt' = "out"
        BY IdlePlace DEF WhiskAt
      <4> QED BY <4>1 DEF Within
    <3> QED BY <1>3, <1>t, <2>5, <3>2, <3>3, RestKeeps, ReadKeeps, BuildKeeps DEF Keeps
  <2> QED BY <2>4, <2>5
<1>4. ~Restart
  BY <1>0 DEF Restart
<1> QED
  BY <1>1, <1>2, <1>3, <1>4, <1>t, Who

\* Who touches the Job, and what is remembered of it.
LEMMA JobMoves ==
  ASSUME TypeInv, Next
  PROVE  \/ UNCHANGED job \/ job'.v = 0
         \/ \E t \in Threads :
              CreateJob(t) /\ Working(t) /\ job'.v = th[t].spec /\ job'.owned = th[t].owner
<1>1. CASE UNCHANGED job
  BY <1>1
<1>2. CASE job' # job /\ Collect
  <2>1. job' = [v |-> 0, owned |-> FALSE]
    BY <1>2 DEF Collect
  <2> QED BY <2>1
<1>3. ASSUME job' # job, NEW t \in Threads, Working(t)
      PROVE  \/ job'.v = 0
             \/ CreateJob(t) /\ Working(t) /\ job'.v = th[t].spec /\ job'.owned = th[t].owner
  <2>1. CASE CreateJob(t)
    <3>1. job' = [v |-> th[t].spec, owned |-> th[t].owner]
      BY <1>3, <2>1 DEF CreateJob, Applied
    <3> QED BY <1>3, <2>1, <3>1
  <2>2. CASE RemoveByOwner(t) \/ RemoveBySpec(t)
    <3>1. job' = [v |-> 0, owned |-> FALSE]
      BY <1>3, <2>2 DEF RemoveByOwner, RemoveBySpec, Removed
    <3> QED BY <3>1
  <2> QED BY <1>3, <2>1, <2>2, Frames DEF Frame
<1>4. job' # job => Collect \/ \E t \in Threads : Working(t)
  BY Outside
<1> QED
  BY <1>1, <1>2, <1>3, <1>4

LEMMA CleanIs ==
  ASSUME TypeInv, OrderInv, NEW t \in Threads, Clean(t)
  PROVE  t = "whisk" /\ WhiskAt = "clean"
<1>1. th[t].left # << >> /\ Now(t).do = "clean"
  BY DEF Clean, At
<1>2. t = "watcher" => Now(t).c \in {"preloader", "restart"}
  BY <1>1, FirstStep, ThreadIs DEF Worker
<1>3. Now(t).c = "config" /\ Place(th[t].left) = "clean"
  BY <1>1, FirstPlace DEF Early
<1> QED
  BY <1>2, <1>3 DEF Threads, WhiskAt

LEMMA MemoryMoves ==
  ASSUME TypeInv, OrderInv, Next, troubles' = troubles
  PROVE  \/ UNCHANGED memory
         \/ Clean("whisk") /\ Working("whisk")
         \/ \E t \in Threads : CreateJob(t) /\ Working(t)
<1>1. ~Trouble
  BY Sizes DEF TypeInv, Trouble
<1>2. ~Restart /\ (\A t : ~CallFails(t)) /\ \A w : ~PodLost(w)
  BY <1>1 DEF Restart, CallFails, PodLost
<1>3. UNCHANGED memory \/ Collect \/ \E t \in Threads : Working(t)
  BY <1>2, Outside DEF config
<1>4. Collect => UNCHANGED memory
  BY DEF Collect, config
<1>5. ASSUME NEW t \in Threads, Working(t)
      PROVE  UNCHANGED memory \/ CreateJob(t) \/ (t = "whisk" /\ Clean(t))
  <2>1. Configure(t) => UNCHANGED memory
    BY DEF Configure
  <2> QED BY <1>2, <1>5, <2>1, CleanIs, Frames DEF Frame
<1> QED
  BY <1>3, <1>4, <1>5

LEMMA DroppedMoves ==
  ASSUME TypeInv, OrderInv, Next
  PROVE  UNCHANGED dropped \/ (Clean("whisk") /\ Working("whisk"))
<1>1. UNCHANGED dropped \/ \E t \in Threads : Working(t) /\ Clean(t)
  BY Outside DEF ghosts, Collect, Restart, PodLost, Frame
<1> QED
  BY <1>1, CleanIs

\* An account of the Job is kept.
LEMMA AccountInvKept ==
  ASSUME TypeInv, Next, OrderInv, TurnInv, OwnInv, AccountInv, TypeInv', OrderInv'
  PROVE  AccountInv'
<1> SUFFICES ASSUME troubles' = 0
             PROVE  /\ job'.v > 0 /\ ~job'.owned => memory' = job'.v \/ dropped'
                    /\ WatcherAt' \in {"read"} \cup Within /\ ~th'["watcher"].owner =>
                         job'.v = 0 \/ job'.owned \/ dropped'
                    /\ dropped' => obj' # "absent"
  BY DEF AccountInv
<1>t. "whisk" \in Threads /\ "watcher" \in Threads /\ "whisk" # "watcher"
  BY DEF Threads
<1>0. troubles = 0 /\ troubles' = troubles /\ ~Trouble
  BY StepBounds, Sizes DEF TypeInv, Trouble
<1>b. /\ job.v > 0 /\ ~job.owned => memory = job.v \/ dropped
      /\ WatcherAt \in {"read"} \cup Within /\ ~th["watcher"].owner => job.v = 0 \/ job.owned \/ dropped
      /\ dropped => obj # "absent"
  BY <1>0 DEF AccountInv
<1>n. job.v \in Nat /\ memory \in Int /\ dropped \in BOOLEAN /\ job.owned \in BOOLEAN
  BY Sizes DEF TypeInv, Values, TheRuntimes, TheGhosts, NoSpec
<1>d. dropped => dropped'
  BY DroppedMoves DEF Clean
<1>3. dropped' => obj' # "absent"
  <2>1. obj' = "absent" => obj = "absent"
    BY Outside DEF object, Frame, AddWhisk, DiscardWhisk, End, Collect, Restart, PodLost
  <2>2. Clean("whisk") => obj # "absent"
    <3>1. Clean("whisk") => th["whisk"].op # "idle"
      <4>1. Clean("whisk") => th["whisk"].left # << >>
        BY DEF Clean, At
      <4> QED BY <1>t, <4>1, ThreadIs DEF Worker
    <3>2. obj = "absent" => th["whisk"].op \in {"idle", "none"}
      BY DEF TurnInv
    <3>3. th["whisk"].op \in {"idle", "create", "resume", "delete"}
      BY <1>t, ThreadIs DEF Worker
    <3> QED BY <3>1, <3>2, <3>3
  <2> QED BY <1>b, <2>1, <2>2, DroppedMoves
\* The thread that makes the Job does it for the object, or remembers it.
<1>c. ASSUME NEW t \in Threads, CreateJob(t), Working(t)
      PROVE  \/ th[t].owner /\ memory' = memory
             \/ t = "watcher" /\ ~th[t].owner /\ memory' = th[t].spec
                /\ (job.v = 0 \/ job.owned \/ dropped)
  <2>1. Place(th[t].left) = "create"
    <3>1. th[t].left # << >> /\ Now(t).do = "create"
      BY <1>c DEF CreateJob, At
    <3> QED BY <3>1, FirstPlace DEF Early
  <2>2. CASE t = "whisk"
    BY <1>0, <1>c, <2>1, <2>2 DEF OwnInv, Within, CreateJob, WhiskAt
  <2>3. CASE t = "watcher"
    <3>1. WatcherAt = "create"
      BY <2>1, <2>3 DEF WatcherAt
    <3> QED BY <1>b, <1>c, <2>3, <3>1 DEF Within, CreateJob
  <2> QED BY <2>2, <2>3 DEF Threads
<1>1. job'.v > 0 /\ ~job'.owned => memory' = job'.v \/ dropped'
  <2>1. ASSUME UNCHANGED job
        PROVE  job'.v > 0 /\ ~job'.owned => memory' = job'.v \/ dropped'
    <3>1. CASE UNCHANGED memory
      BY <1>b, <1>d, <2>1, <3>1
    <3>2. CASE Clean("whisk")
      BY <1>b, <1>d, <2>1, <3>2 DEF Clean
    <3>3. ASSUME NEW t \in Threads, CreateJob(t), Working(t)
          PROVE  job'.v > 0 /\ ~job'.owned => memory' = job'.v \/ dropped'
      <4>1. CASE th[t].owner /\ memory' = memory
        BY <1>b, <1>d, <2>1, <4>1
      <4>2. CASE job.v = 0 \/ job.owned \/ dropped
        BY <1>d, <2>1, <4>2
      <4> QED BY <1>c, <3>3, <4>1, <4>2
    <3> QED BY <1>0, <3>1, <3>2, <3>3, MemoryMoves
  <2>2. ASSUME NEW t \in Threads, CreateJob(t), Working(t), job'.v = th[t].spec, job'.owned = th[t].owner
        PROVE  job'.v > 0 /\ ~job'.owned => memory' = job'.v \/ dropped'
    BY <1>c, <2>2
  <2>3. job'.v = 0 => ~(job'.v > 0)
    OBVIOUS
  <2> QED BY <2>1, <2>2, <2>3, JobMoves
<1>2. WatcherAt' \in {"read"} \cup Within /\ ~th'["watcher"].owner => job'.v = 0 \/ job'.owned \/ dropped'
  <2> SUFFICES ASSUME WatcherAt' \in {"read"} \cup Within, ~th'["watcher"].owner
               PROVE  job'.v = 0 \/ job'.owned \/ dropped'
    OBVIOUS
  \* It was as far before, or it has just removed what was remembered.
  <2>1. \/ WatcherAt \in {"read"} \cup Within /\ ~th["watcher"].owner
           /\ ~(CreateJob("watcher") /\ Working("watcher"))
        \/ WatcherAt = "forget" /\ RemoveBySpec("watcher") /\ Goes("watcher")
    <3>1. CASE th'["watcher"] = th["watcher"]
      <4>1. WatcherAt' = WatcherAt
        BY <3>1 DEF WatcherAt
      <4>2. ~(CreateJob("watcher") /\ Working("watcher"))
        <5> SUFFICES ASSUME CreateJob("watcher"), Working("watcher")
                     PROVE  FALSE
          OBVIOUS
        <5>1. th["watcher"].left # << >> /\ Now("watcher").do = "create"
          BY DEF CreateJob, At
        <5>2. WatcherAt = "create"
          BY <1>t, <5>1, FirstPlace DEF Early, WatcherAt
        <5>3. ~CallFails("watcher")
          BY <1>0 DEF CallFails
        <5>4. WatcherAt' \in {"out"}
          BY <1>t, <5>2, <5>3, Stepped DEF Reached, Next1, WatcherAt
        <5> QED BY <4>1, <5>2, <5>4
      <4> QED BY <3>1, <4>1, <4>2
    <3>2. CASE (\E found \in BOOLEAN : Watch(found)) \/ Rollout
      <4>1. ASSUME NEW found \in BOOLEAN, Watch(found)
            PROVE  FALSE
        <5>1. WatcherAt' = IF found THEN "first" ELSE "forget"
          BY <4>1, WatchSets, WatcherOrdered DEF WatcherAt
        <5> QED BY <5>1 DEF Within
      <4>2. ~Rollout
        <5> SUFFICES ASSUME Rollout
                     PROVE  FALSE
          OBVIOUS
        <5>1. WatcherAt = "out"
          BY RolloutSets DEF WatcherAt, Place
        <5>2. WatcherAt' \in Next1(WatcherAt)
          BY <1>t, RolloutSets, TailPlace DEF WatcherAt
        <5> QED BY <5>1, <5>2 DEF Next1, Within
      <4> QED BY <3>2, <4>1, <4>2
    <3>3. CASE Working("watcher")
      <4>1. ~CallFails("watcher")
        BY <1>0 DEF CallFails
      <4>2. WatcherAt' \in Next1(WatcherAt)
        BY <1>t, <3>3, <4>1, Stepped DEF Reached, WatcherAt, Within
      <4>3. WatcherAt \in {"owner", "remove", "forget", "read", "patch", "open", "close", "build"}
        BY <4>2 DEF Next1, Within
      <4>4. th'["watcher"] # Idle
        <5>1. th'["watcher"] = Idle => WatcherAt' = "out"
          BY IdlePlace DEF WatcherAt
        <5> QED BY <5>1 DEF Within
      <4>5. WatcherAt # "owner"
        BY PlacesKnown DEF KnownPlaces, Within
      <4>6. th'["watcher"].owner = th["watcher"].owner
        <5>1. ~GetOwner("watcher")
          <6>1. GetOwner("watcher") => th["watcher"].left # << >> /\ Now("watcher").do = "owner"
            BY DEF GetOwner, At
          <6>2. th["watcher"].left # << >> => Now("watcher").c \in {"preloader", "restart"}
            BY <1>t, FirstStep, ThreadIs DEF Worker
          <6> QED BY <1>t, <6>1, <6>2, FirstPlace
        <5> QED BY <1>t, <3>3, <4>4, <5>1, RestKeeps, ReadKeeps, BuildKeeps DEF Keeps
      <4>7. WatcherAt # "remove"
        BY <4>6 DEF TurnInv
      <4>8. ~CreateJob("watcher")
        <5>1. CreateJob("watcher") => th["watcher"].left # << >> /\ Now("watcher").do = "create"
          BY DEF CreateJob, At
        <5>2. CreateJob("watcher") => WatcherAt = "create"
          BY <1>t, <5>1, FirstPlace DEF Early, WatcherAt
        <5> QED BY <4>3, <5>2
      <4>9. CASE WatcherAt = "forget"
        <5>1. RemoveBySpec("watcher")
          <6>1. ~End("watcher")
            BY <4>9 DEF End, WatcherAt, Place
          <6> QED BY <1>t, <3>3, <4>1, <4>9, <6>1, Doing DEF WatcherAt
        <5>2. ~Raise("watcher")
          <6>1. th["watcher"].left # << >>
            BY <5>1 DEF RemoveBySpec, At
          <6>2. Now("watcher").c = "preloader"
            <7>1. Now("watcher").c \in {"preloader", "restart"} /\ Now("watcher").c \in Early
              BY <1>t, <4>9, <6>1, FirstStep, FirstPlace, ThreadIs DEF Worker, WatcherAt
            <7> QED BY <7>1 DEF Early
          <6>3. Raise("watcher") => WatcherAt' = "out"
            BY <1>t, <6>1, <6>2, RaisePlace DEF WatcherAt
          <6> QED BY <6>3 DEF Within
        <5> QED BY <1>t, <4>9, <5>1, <5>2 DEF RemoveBySpec, Removed
      <4> QED BY <4>3, <4>5, <4>6, <4>7, <4>8, <4>9 DEF Within
    <3>4. ~Restart
      BY <1>0 DEF Restart
    <3> QED BY <1>t, <3>1, <3>2, <3>3, <3>4, Who
  <2>2. CASE /\ WatcherAt \in {"read"} \cup Within /\ ~th["watcher"].owner
             /\ ~(CreateJob("watcher") /\ Working("watcher"))
    <3>1. ASSUME NEW t \in Threads, CreateJob(t), Working(t), job'.owned = th[t].owner
          PROVE  job'.owned
      <4>1. t # "watcher"
        BY <2>2, <3>1
      <4> QED BY <1>c, <3>1, <4>1
    <3> QED BY <1>b, <1>d, <2>2, <3>1, JobMoves
  <2>3. CASE WatcherAt = "forget" /\ RemoveBySpec("watcher") /\ Goes("watcher")
    <3>1. CASE memory > 0 /\ ~(job.v = 0)
      <4>1. job' = [v |-> 0, owned |-> FALSE]
        BY <1>t, <2>3, <3>1 DEF RemoveBySpec, Removed
      <4> QED BY <4>1
    <3>2. CASE ~(memory > 0) \/ job.v = 0
      <4>1. job.v = 0 \/ job.owned \/ dropped
        BY <1>b, <1>n, <3>2
      <4>2. UNCHANGED job \/ job'.v = 0
        <5>1. CASE memory > 0
          <6>1. job' = job \/ job' = [v |-> 0, owned |-> FALSE]
            BY <1>t, <2>3, <5>1 DEF RemoveBySpec, Removed
          <6> QED BY <6>1
        <5>2. CASE ~(memory > 0)
          BY <1>t, <2>3, <5>2 DEF RemoveBySpec, Removed
        <5> QED BY <5>1, <5>2
      <4> QED BY <1>d, <4>1, <4>2
    <3> QED BY <3>1, <3>2
  <2> QED BY <2>1, <2>2, <2>3
<1> QED
  BY <1>1, <1>2, <1>3

JobsInv == OrderInv /\ TurnInv /\ OwnInv /\ AccountInv /\ PreloaderInv

LEMMA JobsInit == Init => JobsInv
<1> SUFFICES ASSUME Init
             PROVE  JobsInv
  OBVIOUS
<1>t. "whisk" \in Threads /\ "watcher" \in Threads
  BY DEF Threads
<1>1. th = [t \in Threads |-> Idle] /\ Idle.left = << >> /\ Idle.op = "idle" /\ Idle.owner = FALSE
  BY DEF Init, Idle
<1>2. \A t \in Threads : th[t] = Idle
  BY <1>1
<1>3. WhiskAt = "out" /\ WatcherAt = "out" /\ ~th["watcher"].owner /\ th["whisk"].op = "idle"
  BY <1>1, <1>2, <1>t, IdlePlace DEF WhiskAt, WatcherAt
<1>4. OrderInv
  BY <1>1, <1>2, <1>t, NoSteps DEF OrderInv
<1>5. job = [v |-> 0, owned |-> FALSE] /\ memory = -1 /\ kust = "none" /\ obj = "absent" /\ due = "none"
      /\ dropped = FALSE
  BY DEF Init, NoSpec
<1>6. job.v = 0 /\ ~(memory > 0)
  BY <1>5
<1>7. TurnInv /\ OwnInv
  BY <1>3, <1>5 DEF TurnInv, OwnInv, Within
<1>8. AccountInv
  BY <1>3, <1>5, <1>6 DEF AccountInv, Within
<1>9. Apart /\ FilesInv /\ JobInv /\ CurrentInv
  BY <1>3, <1>5, <1>6 DEF Apart, FilesInv, Reads, JobInv, CurrentInv, Within
<1> QED
  BY <1>4, <1>7, <1>8, <1>9 DEF JobsInv, PreloaderInv, Preloading

LEMMA JobsInvKept == TypeInv /\ JobsInv /\ [Next]_vars => JobsInv'
<1>1. ASSUME TypeInv, JobsInv, Next
      PROVE  JobsInv'
  <2>1. TypeInv' /\ OrderInv'
    BY <1>1, TypeInvKept, OrderInvKept DEF JobsInv
  <2> QED BY <1>1, <2>1, TurnInvKept, OwnInvKept, AccountInvKept, PreloaderInvKept DEF JobsInv
<1>2. ASSUME JobsInv, UNCHANGED vars
      PROVE  JobsInv'
  <2>1. /\ UNCHANGED << th, obj, due, memory, version, pending, tpl, kust, job, troubles, crossed, dropped >>
        /\ WhiskAt' = WhiskAt /\ WatcherAt' = WatcherAt
    BY <1>2 DEF vars, object, config, runtimes, files, ghosts, WhiskAt, WatcherAt
  <2>2. OrderInv' /\ TurnInv' /\ OwnInv' /\ AccountInv'
    BY <1>2, <2>1 DEF JobsInv, OrderInv, TurnInv, OwnInv, AccountInv
  <2>3. PreloaderInv'
    BY <1>2, <2>1
       DEF JobsInv, PreloaderInv, Smooth, Preloading, Apart, FilesInv, Reads, JobInv, CurrentInv
  <2> QED BY <2>2, <2>3 DEF JobsInv
<1> QED
  BY <1>1, <1>2

LEMMA JobsAlways == Spec => []JobsInv
<1>1. Spec => [](TypeInv /\ JobsInv)
  BY InitTypes, TypeInvKept, JobsInit, JobsInvKept, PTL DEF Spec
<1> QED
  BY <1>1, PTL

LEMMA TypesAlways == Spec => []TypeInv
BY InitTypes, TypeInvKept, PTL DEF Spec

\* A thread that rests is behind the preloader.
LEMMA RestingPlaces ==
  ASSUME TypeInv, Resting
  PROVE  WhiskAt = "out" /\ WatcherAt = "out"
<1>1. \A t \in Threads : th[t].left = << >>
  BY ThreadIs DEF Resting, Worker
<1> QED
  BY <1>1 DEF WhiskAt, WatcherAt, Place, Threads

\* The Job of a settled installation is made of the current runtimes, and is the
\* object's.
LEMMA SettledJob ==
  ASSUME TypeInv, PreloaderInv, Settled, ~crossed, obj = "present"
  PROVE  job.v = version /\ job.owned
<1>1. Preloading /\ ~pending /\ due = "none"
  BY DEF PreloaderInv, Smooth, Settled, Resting
<1>2. WhiskAt = "out" /\ WatcherAt = "out"
  BY RestingPlaces DEF Settled
<1>3. job.v > 0 /\ job.owned
  BY <1>1, <1>2 DEF Preloading, CurrentInv, Within
<1>4. job.v \in {0, version}
  BY <1>1, <1>2 DEF Preloading, CurrentInv
<1> QED
  BY <1>3, <1>4

\* Where nothing failed and nothing is to be done, the Job of the preloader
\* preloads the current runtimes, and the controller has read them
\* (patcher.patch_preloader, runtimes_preloader.create).
THEOREM RuntimesCorrect == Spec => []RuntimesCurrent
<1>1. TypeInv /\ JobsInv => PreloaderCurrent
  BY SettledJob DEF JobsInv, PreloaderCurrent
<1>2. Spec => []PreloaderCurrent
  BY <1>1, JobsAlways, TypesAlways, PTL
<1>3. PreloaderCurrent /\ ControllerCurrent => RuntimesCurrent
  BY DEF RuntimesCurrent
<1> QED
  BY <1>2, <1>3, ControllerCorrect, PTL

\* The Job is the object's, or the process remembers it; one that a cleared
\* configuration forgot is there only when the object is gone
\* (runtimes_preloader.delete_by_spec, main.py's config_from_spec).
THEOREM JobCorrect == Spec => []JobAccounted
<1>1. TypeInv /\ JobsInv => JobAccounted
  <2> SUFFICES ASSUME TypeInv, JobsInv, Settled, ~crossed, job.v > 0, ~job.owned, memory # job.v
               PROVE  obj = "gone" /\ dropped
    BY DEF JobAccounted
  <2>1. dropped /\ obj # "absent"
    BY DEF JobsInv, AccountInv, Settled
  <2>2. obj # "present"
    BY SettledJob DEF JobsInv
  <2>3. obj # "deleting"
    BY DEF JobsInv, TurnInv, Settled, Resting
  <2>4. TheObject
    BY DEF TypeInv, Values
  <2> QED BY <2>1, <2>2, <2>3, <2>4 DEF TheObject
<1> QED
  BY <1>1, JobsAlways, TypesAlways, PTL
--------------------------------------------------------------------------------
\* What a creation without trouble gives.

\* The calls that need a Pod that is up, and the workload whose Pod it is.
Needs == {"account", "user", "bucket", "grant", "service"}
Host(do) ==
  IF do = "account" THEN "redis" ELSE IF do = "service" THEN "postgres" ELSE "minio"

\* What it takes for the steps L to go on one after the other: a Pod is there
\* when it is asked for its name, and up when it is called; a bucket is made
\* once; and nothing is given once the metadata are stored.
Called(L, i, up) ==
  L[i].do \in Needs =>
    /\ L[i].w = Host(L[i].do)
    /\ L[i].w \in up \/ \E j \in 1 .. i - 1 : L[j].do = "wait" /\ L[j].w = L[i].w
Named(L, i, running) ==
  L[i].do = "pick" =>
    L[i].w \in running \/ \E j \in 1 .. i - 1 : L[j].do = "apply" /\ L[j].w = L[i].w
Once(L, i, there) ==
  L[i].do = "bucket" =>
    /\ L[i].c \notin there
    /\ \A j \in i + 1 .. Len(L) : L[j].do = "bucket" => L[j].c # L[i].c
Giving == {"note", "endpoint", "grant"}
Stored == {"save", "deploy"}
Tails(L, i) ==
  L[i].do \in Stored => \A j \in i + 1 .. Len(L) : L[j].do \notin Giving
Ready(L, up, running, there) ==
  \A i \in 1 .. Len(L) :
    Called(L, i, up) /\ Named(L, i, running) /\ Once(L, i, there) /\ Tails(L, i)

\* Less is needed where more is there.
LEMMA ReadyStays ==
  ASSUME NEW L, NEW u, NEW u2, NEW r, NEW r2, NEW g, NEW g2, Ready(L, u, r, g),
         u \subseteq u2, r \subseteq r2,
         \A i \in 1 .. Len(L) : L[i].do = "bucket" /\ L[i].c \in g2 => L[i].c \in g
  PROVE  Ready(L, u2, r2, g2)
BY DEF Ready, Called, Named, Once, Tails

\* The steps before and behind one, and the same when the first is dropped.
LEMMA DropOne ==
  ASSUME NEW L \in Seq(Step), NEW M, Drop(L, M, 1), NEW i \in 1 .. Len(M)
  PROVE  /\ i + 1 \in 1 .. Len(L) /\ M[i] = L[i + 1]
         /\ 1 \in 1 .. Len(L) /\ i + 1 \in 1 + 1 .. Len(L)
         /\ \A j \in 1 .. (i + 1) - 1 : j = 1 \/ (j - 1 \in 1 .. i - 1 /\ M[j - 1] = L[j])
         /\ \A j \in i + 1 .. Len(M) : j + 1 \in (i + 1) + 1 .. Len(L) /\ M[j] = L[j + 1]
<1>1. M \in Seq(Step) /\ Len(M) = Len(L) - 1 /\ \A j \in 1 .. Len(M) : M[j] = L[j + 1]
  BY DEF Drop
<1>2. Len(M) \in Nat /\ Len(L) \in Nat
  BY <1>1
<1>3. Len(L) = Len(M) + 1 /\ i \in Nat /\ i > 0 /\ i =< Len(M)
  BY <1>1, <1>2
<1>4. i + 1 \in 1 .. Len(L) /\ M[i] = L[i + 1] /\ 1 \in 1 .. Len(L) /\ i + 1 \in 1 + 1 .. Len(L)
  BY <1>1, <1>2, <1>3
<1>5. ASSUME NEW j \in 1 .. (i + 1) - 1
      PROVE  j = 1 \/ (j - 1 \in 1 .. i - 1 /\ M[j - 1] = L[j])
  <2>1. j = 1 \/ (j - 1 \in 1 .. i - 1 /\ j - 1 \in 1 .. Len(M) /\ (j - 1) + 1 = j)
    BY <1>2, <1>3
  <2> QED BY <1>1, <2>1
<1>6. ASSUME NEW j \in i + 1 .. Len(M)
      PROVE  j + 1 \in (i + 1) + 1 .. Len(L) /\ M[j] = L[j + 1]
  <2>1. j \in 1 .. Len(M) /\ j + 1 \in (i + 1) + 1 .. Len(L)
    BY <1>2, <1>3
  <2> QED BY <1>1, <2>1
<1> QED
  BY <1>4, <1>5, <1>6

\* The steps behind the first are ready when it is done.
LEMMA ReadyDrop ==
  ASSUME NEW L \in Seq(Step), NEW M, Drop(L, M, 1),
         NEW u, NEW u2, NEW r, NEW r2, NEW g, NEW g2, Ready(L, u, r, g),
         u \subseteq u2, r \subseteq r2,
         L[1].do = "wait" /\ L[1].w # "controller" => L[1].w \in u2,
         L[1].do = "apply" => L[1].w \in r2,
         \A x \in g2 : x \in g \/ x \notin {"data bucket", "web bucket"}
                         \/ (L[1].do = "bucket" /\ x = L[1].c),
         Chain(L)
  PROVE  Ready(M, u2, r2, g2)
<1> SUFFICES ASSUME NEW i \in 1 .. Len(M)
             PROVE  Called(M, i, u2) /\ Named(M, i, r2) /\ Once(M, i, g2) /\ Tails(M, i)
  BY DEF Ready
<1> DEFINE k == i + 1
<1>1. /\ k \in 1 .. Len(L) /\ M[i] = L[k] /\ 1 \in 1 .. Len(L) /\ k \in 1 + 1 .. Len(L)
      /\ \A j \in 1 .. k - 1 : j = 1 \/ (j - 1 \in 1 .. i - 1 /\ M[j - 1] = L[j])
      /\ \A j \in i + 1 .. Len(M) : j + 1 \in k + 1 .. Len(L) /\ M[j] = L[j + 1]
  BY ONLY L \in Seq(Step), Drop(L, M, 1), i \in 1 .. Len(M), DropOne
<1>3. Called(L, k, u) /\ Named(L, k, r) /\ Once(L, k, g) /\ Tails(L, k) /\ Once(L, 1, g)
  BY <1>1 DEF Ready
<1>5. L[k].do = "bucket" => L[k].c \in {"data bucket", "web bucket"}
  BY <1>1 DEF Chain, Linked, Fits, Suits
<1> HIDE DEF k
<1>6. Called(M, i, u2)
  BY <1>1, <1>3 DEF Called, Host
<1>7. Named(M, i, r2)
  BY <1>1, <1>3 DEF Named
<1>8. Once(M, i, g2)
  <2> SUFFICES ASSUME M[i].do = "bucket"
               PROVE  /\ M[i].c \notin g2
                      /\ \A j \in i + 1 .. Len(M) : M[j].do = "bucket" => M[j].c # M[i].c
    BY DEF Once
  <2>1. L[k].c \notin g /\ \A j \in k + 1 .. Len(L) : L[j].do = "bucket" => L[j].c # L[k].c
    BY <1>1, <1>3 DEF Once
  <2>2. L[1].do = "bucket" => L[k].c # L[1].c
    BY <1>1, <1>3 DEF Once
  <2> QED BY <1>1, <1>5, <2>1, <2>2
<1>9. Tails(M, i)
  BY <1>1, <1>3 DEF Tails
<1> QED
  BY <1>6, <1>7, <1>8, <1>9

\* A concatenation is ready when its parts are; what is waited for in the first
\* is up for the second, and what is applied runs.
LEMMA ReadyCat ==
  ASSUME NEW s \in Seq(Step), NEW v \in Seq(Step), NEW u, NEW r, NEW u2, NEW r2, NEW g,
         Ready(s, u, r, g), Ready(v, u2, r2, g),
         \A w \in u2 : w \in u \/ \E j \in 1 .. Len(s) : s[j].do = "wait" /\ s[j].w = w,
         \A w \in r2 : w \in r \/ \E j \in 1 .. Len(s) : s[j].do = "apply" /\ s[j].w = w,
         \A i \in 1 .. Len(s), j \in 1 .. Len(v) :
           s[i].do = "bucket" /\ v[j].do = "bucket" => s[i].c # v[j].c,
         \A i \in 1 .. Len(s), j \in 1 .. Len(v) :
           s[i].do \in Stored => v[j].do \notin Giving
  PROVE  Ready(s \o v, u, r, g)
<1> DEFINE L == s \o v
           n == Len(s)
<1>1. /\ n \in Nat /\ Len(v) \in Nat /\ Len(L) = n + Len(v)
      /\ \A i \in 1 .. n : i \in 1 .. Len(L) /\ L[i] = s[i]
      /\ \A i \in 1 .. Len(v) : n + i \in 1 .. Len(L) /\ L[n + i] = v[i]
      /\ \A i \in 1 .. Len(L) : i \in 1 .. n \/ \E j \in 1 .. Len(v) : i = n + j
  BY CatIs
<1> HIDE DEF L, n
<1>n. n = Len(s)
  BY DEF n
<1>2. ASSUME NEW i \in 1 .. n
      PROVE  Called(L, i, u) /\ Named(L, i, r) /\ Once(L, i, g) /\ Tails(L, i)
  <2>1. L[i] = s[i] /\ \A j \in 1 .. i - 1 : L[j] = s[j] /\ j \in 1 .. n
    BY <1>1
  <2>2. Called(s, i, u) /\ Named(s, i, r) /\ Once(s, i, g) /\ Tails(s, i)
    BY <1>n DEF Ready
  <2>3. \A j \in i + 1 .. Len(L) :
          \/ j \in i + 1 .. n /\ j \in 1 .. n /\ L[j] = s[j]
          \/ \E k \in 1 .. Len(v) : L[j] = v[k]
    <3> SUFFICES ASSUME NEW j \in i + 1 .. Len(L)
                 PROVE  \/ j \in i + 1 .. n /\ j \in 1 .. n /\ L[j] = s[j]
                        \/ \E k \in 1 .. Len(v) : L[j] = v[k]
      OBVIOUS
    <3>1. j \in 1 .. Len(L)
      BY <1>1
    <3>2. CASE j \in 1 .. n
      BY <1>1, <3>2
    <3>3. CASE \E k \in 1 .. Len(v) : j = n + k
      BY <1>1, <3>3
    <3> QED BY <1>1, <3>1, <3>2, <3>3
  <2>4. Called(L, i, u)
    BY <2>1, <2>2 DEF Called
  <2>5. Named(L, i, r)
    BY <2>1, <2>2 DEF Named
  <2>6. Once(L, i, g)
    BY <1>n, <2>1, <2>2, <2>3 DEF Once
  <2>7. Tails(L, i)
    BY <1>n, <2>1, <2>2, <2>3 DEF Tails
  <2> QED BY <2>4, <2>5, <2>6, <2>7
<1>3. ASSUME NEW k \in 1 .. Len(v)
      PROVE  LET i == n + k IN Called(L, i, u) /\ Named(L, i, r) /\ Once(L, i, g) /\ Tails(L, i)
  <2> DEFINE i == n + k
  <2>1. /\ L[i] = v[k] /\ \A j \in 1 .. k - 1 : n + j \in 1 .. i - 1 /\ L[n + j] = v[j]
        /\ \A j \in 1 .. n : j \in 1 .. i - 1 /\ L[j] = s[j]
    BY <1>1
  <2>2. Called(v, k, u2) /\ Named(v, k, r2) /\ Once(v, k, g) /\ Tails(v, k)
    BY DEF Ready
  <2>3. \A j \in i + 1 .. Len(L) : \E m \in k + 1 .. Len(v) : L[j] = v[m]
    <3> SUFFICES ASSUME NEW j \in i + 1 .. Len(L)
                 PROVE  \E m \in k + 1 .. Len(v) : L[j] = v[m]
      OBVIOUS
    <3>1. j - n \in k + 1 .. Len(v) /\ j - n \in 1 .. Len(v) /\ n + (j - n) = j
      BY <1>1
    <3> QED BY <1>1, <3>1
  <2> HIDE DEF i
  <2>4. Called(L, i, u)
    BY <1>n, <2>1, <2>2 DEF Called
  <2>5. Named(L, i, r)
    <3>1. L[i].do = "pick" =>
            L[i].w \in r2 \/ \E j \in 1 .. k - 1 : v[j].do = "apply" /\ v[j].w = L[i].w
      BY <2>1, <2>2 DEF Named
    <3>2. \A w \in r2 : w \in r \/ \E j \in 1 .. n : s[j].do = "apply" /\ s[j].w = w
      BY <1>n
    <3>3. L[i].w \in r2 =>
            L[i].w \in r \/ \E j \in 1 .. i - 1 : L[j].do = "apply" /\ L[j].w = L[i].w
      <4>1. ASSUME NEW j \in 1 .. n, s[j].do = "apply" /\ s[j].w = L[i].w
            PROVE  \E m \in 1 .. i - 1 : L[m].do = "apply" /\ L[m].w = L[i].w
        BY <2>1, <4>1
      <4> QED BY <3>2, <4>1
    <3>4. (\E j \in 1 .. k - 1 : v[j].do = "apply" /\ v[j].w = L[i].w) =>
            \E j \in 1 .. i - 1 : L[j].do = "apply" /\ L[j].w = L[i].w
      BY <2>1
    <3> QED BY <3>1, <3>3, <3>4 DEF Named
  <2>6. Once(L, i, g)
    <3>1. L[i] = v[k]
      BY <2>1
    <3>2. v[k].do = "bucket" =>
            v[k].c \notin g /\ \A m \in k + 1 .. Len(v) : v[m].do = "bucket" => v[m].c # v[k].c
      BY <2>2 DEF Once
    <3>3. ASSUME NEW j \in i + 1 .. Len(L), v[k].do = "bucket", L[j].do = "bucket"
          PROVE  L[j].c # v[k].c
      <4>1. PICK m \in k + 1 .. Len(v) : L[j] = v[m]
        BY <2>3
      <4> QED BY <3>2, <3>3, <4>1
    <3> HIDE DEF L
    <3> QED BY <3>1, <3>2, <3>3 DEF Once
  <2>7. Tails(L, i)
    <3>1. L[i] = v[k]
      BY <2>1
    <3>2. v[k].do \in Stored => \A m \in k + 1 .. Len(v) : v[m].do \notin Giving
      BY <2>2 DEF Tails
    <3>3. ASSUME NEW j \in i + 1 .. Len(L), v[k].do \in Stored
          PROVE  L[j].do \notin Giving
      <4>1. PICK m \in k + 1 .. Len(v) : L[j] = v[m]
        BY <2>3
      <4> QED BY <3>2, <3>3, <4>1
    <3> HIDE DEF L
    <3> QED BY <3>1, <3>2, <3>3 DEF Tails
  <2> QED BY <2>4, <2>5, <2>6, <2>7 DEF i
<1>4. Ready(L, u, r, g)
  <2> SUFFICES ASSUME NEW i \in 1 .. Len(L)
               PROVE  Called(L, i, u) /\ Named(L, i, r) /\ Once(L, i, g) /\ Tails(L, i)
    BY DEF Ready
  <2>1. CASE i \in 1 .. n
    BY <1>2, <2>1
  <2>2. CASE \E j \in 1 .. Len(v) : i = n + j
    BY <1>3, <2>2
  <2> QED BY <1>1, <2>1, <2>2
<1> QED
  BY <1>4 DEF L

--------------------------------------------------------------------------------
\* The steps of a part, and a part that is ready when nothing has been made.
Steps(s) == {s[i] : i \in 1 .. Len(s)}
Part(s, up, running) == s \in Seq(Step) /\ Ready(s, up, running, {})

\* The steps of s are all of the component c, about w, and do just dos.
Are(s, c, w, dos) ==
  /\ \A x \in Steps(s) : x.c = c /\ x.w = w /\ x.do \in dos
  /\ \A do \in dos : \E x \in Steps(s) : x.c = c /\ x.w = w /\ x.do = do

\* The steps of a concatenation.
LEMMA StepsCat ==
  ASSUME NEW s \in Seq(Step), NEW v \in Seq(Step)
  PROVE  Steps(s \o v) = Steps(s) \cup Steps(v)
<1> DEFINE L == s \o v
<1>1. /\ \A i \in 1 .. Len(s) : i \in 1 .. Len(L) /\ L[i] = s[i]
      /\ \A i \in 1 .. Len(v) : Len(s) + i \in 1 .. Len(L) /\ L[Len(s) + i] = v[i]
      /\ \A i \in 1 .. Len(L) : i \in 1 .. Len(s) \/ \E j \in 1 .. Len(v) : i = Len(s) + j
  BY CatIs
<1> HIDE DEF L
<1>2. ASSUME NEW x
      PROVE  x \in Steps(L) <=> x \in Steps(s) \/ x \in Steps(v)
  <2>1. x \in Steps(s) => x \in Steps(L)
    BY <1>1 DEF Steps
  <2>2. x \in Steps(v) => x \in Steps(L)
    BY <1>1 DEF Steps
  <2>3. ASSUME x \in Steps(L)
        PROVE  x \in Steps(s) \/ x \in Steps(v)
    <3>1. PICK i \in 1 .. Len(L) : x = L[i]
      BY <2>3 DEF Steps
    <3>2. CASE i \in 1 .. Len(s)
      BY <1>1, <3>1, <3>2 DEF Steps
    <3>3. CASE \E j \in 1 .. Len(v) : i = Len(s) + j
      BY <1>1, <3>1, <3>3 DEF Steps
    <3> QED BY <1>1, <3>2, <3>3
  <2> QED BY <2>1, <2>2, <2>3
<1> QED
  BY <1>2 DEF L

\* What it takes for two parts to make one.
Joins(s, v, u, r, u2, r2) ==
  /\ \A w \in u2 : w \in u \/ \E x \in Steps(s) : x.do = "wait" /\ x.w = w
  /\ \A w \in r2 : w \in r \/ \E x \in Steps(s) : x.do = "apply" /\ x.w = w
  /\ \A x \in Steps(s), y \in Steps(v) : x.do = "bucket" /\ y.do = "bucket" => x.c # y.c
  /\ \A x \in Steps(s), y \in Steps(v) : x.do \in Stored => y.do \notin Giving

\* Two parts that join.
LEMMA PartCat ==
  ASSUME NEW s, NEW v, NEW u, NEW r, NEW u2, NEW r2, Part(s, u, r), Part(v, u2, r2),
         Joins(s, v, u, r, u2, r2)
  PROVE  Part(s \o v, u, r) /\ Steps(s \o v) = Steps(s) \cup Steps(v)
<1>1. s \in Seq(Step) /\ v \in Seq(Step) /\ s \o v \in Seq(Step)
  BY CatIs DEF Part
<1>2. Ready(s, u, r, {}) /\ Ready(v, u2, r2, {})
  BY DEF Part
<1>3. /\ \A w \in u2 : w \in u \/ \E j \in 1 .. Len(s) : s[j].do = "wait" /\ s[j].w = w
      /\ \A w \in r2 : w \in r \/ \E j \in 1 .. Len(s) : s[j].do = "apply" /\ s[j].w = w
  BY DEF Joins, Steps
<1>4. /\ \A i \in 1 .. Len(s), j \in 1 .. Len(v) :
           s[i].do = "bucket" /\ v[j].do = "bucket" => s[i].c # v[j].c
      /\ \A i \in 1 .. Len(s), j \in 1 .. Len(v) :
           s[i].do \in Stored => v[j].do \notin Giving
  BY DEF Joins, Steps
<1>5. Ready(s \o v, u, r, {})
  <2> QED BY ONLY <1>1, <1>2, <1>3, <1>4, ReadyCat
<1> QED
  BY <1>1, <1>5, StepsCat DEF Part

\* The steps of one component.
LEMMA OfPart ==
  ASSUME NEW c \in Groups, NEW w \in Workloads \cup {"none"}, NEW dos \in Seq(Dos), NEW u, NEW r,
         \A i \in 1 .. Len(dos) :
           /\ dos[i] \in Needs =>
                w = Host(dos[i]) /\ (w \in u \/ \E j \in 1 .. i - 1 : dos[j] = "wait")
           /\ dos[i] = "pick" => w \in r \/ \E j \in 1 .. i - 1 : dos[j] = "apply"
           /\ dos[i] = "bucket" => \A j \in i + 1 .. Len(dos) : dos[j] # "bucket"
           /\ dos[i] \in Stored => \A j \in i + 1 .. Len(dos) : dos[j] \notin Giving
  PROVE  Part(Of(c, w, dos), u, r) /\ Are(Of(c, w, dos), c, w, {dos[i] : i \in 1 .. Len(dos)})
<1> DEFINE s == Of(c, w, dos)
<1>1. /\ s \in Seq(Step) /\ Len(s) = Len(dos)
      /\ \A i \in 1 .. Len(dos) : s[i] = [c |-> c, w |-> w, do |-> dos[i]]
  BY OfIs
<1>e. ASSUME NEW i \in 1 .. Len(dos)
      PROVE  s[i].c = c /\ s[i].do = dos[i] /\ s[i].w = w
  <2> DEFINE x == [c |-> c, w |-> w, do |-> dos[i]]
  <2>1. s[i] = x /\ x.c = c /\ x.do = dos[i] /\ x.w = w
    BY <1>1
  <2> HIDE DEF s, x
  <2> QED BY <2>1
<1>l. s \in Seq(Step) /\ Len(s) = Len(dos) /\ Len(dos) \in Nat
  BY <1>1
<1> HIDE DEF s
<1>2. ASSUME NEW i \in 1 .. Len(s)
      PROVE  Called(s, i, u) /\ Named(s, i, r) /\ Once(s, i, {}) /\ Tails(s, i)
  <2>1. s[i].c = c /\ s[i].do = dos[i] /\ s[i].w = w
    BY <1>l, <1>e
  <2>2. \A j \in 1 .. i - 1 : s[j].do = dos[j] /\ s[j].w = w
    <3>1. \A j \in 1 .. i - 1 : j \in 1 .. Len(dos)
      BY <1>l
    <3> QED BY <1>e, <3>1
  <2>3. \A j \in i + 1 .. Len(s) : j \in i + 1 .. Len(dos) /\ s[j].do = dos[j]
    <3>1. \A j \in i + 1 .. Len(s) : j \in 1 .. Len(dos)
      BY <1>l
    <3> QED BY <1>l, <1>e, <3>1
  <2>4. Called(s, i, u)
    BY <1>l, <2>1, <2>2 DEF Called
  <2>5. Named(s, i, r)
    BY <1>l, <2>1, <2>2 DEF Named
  <2>6. Once(s, i, {})
    BY <1>l, <2>1, <2>3 DEF Once
  <2>7. Tails(s, i)
    BY <1>l, <2>1, <2>3 DEF Tails
  <2> QED BY <2>4, <2>5, <2>6, <2>7
<1>3. Part(s, u, r)
  BY <1>l, <1>2 DEF Part, Ready
<1>4. Are(s, c, w, {dos[i] : i \in 1 .. Len(dos)})
  BY <1>l, <1>e DEF Are, Steps
<1> QED
  BY <1>3, <1>4 DEF s

\* Steps that need nothing.
LEMMA FreePart ==
  ASSUME NEW s \in Seq(Step), \A x \in Steps(s) : x.do \notin Needs \cup Stored \cup {"pick"}
  PROVE  Part(s, {}, {})
BY DEF Part, Ready, Called, Named, Once, Tails, Steps, Needs

\* One, two, three and four steps of a component.
LEMMA OnePart ==
  ASSUME NEW c \in Groups, NEW w \in Workloads \cup {"none"}, NEW x \in Dos \ {"pick"}, NEW u,
         x \in Needs => w = Host(x) /\ w \in u
  PROVE  /\ Part(Of(c, w, << x >>), u, {})
         /\ Are(Of(c, w, << x >>), c, w, {x})
<1> DEFINE dos == << x >>
<1>1. dos \in Seq(Dos) /\ Len(dos) = 1 /\ dos[1] = x
  OBVIOUS
<1> HIDE DEF dos
<1>2. \A i \in 1 .. Len(dos) : i = 1
  BY <1>1
<1>3. Part(Of(c, w, dos), u, {}) /\ Are(Of(c, w, dos), c, w, {x})
  <2>1. \A i \in 1 .. Len(dos) :
          /\ dos[i] \in Needs =>
               w = Host(dos[i]) /\ (w \in u \/ \E j \in 1 .. i - 1 : dos[j] = "wait")
          /\ dos[i] # "pick"
          /\ \A j \in i + 1 .. Len(dos) : FALSE
    BY <1>1, <1>2
  <2>2. {dos[i] : i \in 1 .. Len(dos)} = {x}
    BY <1>1
  <2>3. Part(Of(c, w, dos), u, {}) /\ Are(Of(c, w, dos), c, w, {dos[i] : i \in 1 .. Len(dos)})
    BY <1>1, <2>1, OfPart
  <2> QED BY <2>2, <2>3
<1> QED
  BY <1>3 DEF dos

LEMMA TwoPart ==
  ASSUME NEW c \in Groups, NEW w \in Workloads \cup {"none"}, NEW x \in Dos \ Stored,
         NEW y \in {"configure", "note", "wait"}, NEW u, NEW r,
         x \in Needs => w = Host(x) /\ w \in u, x = "pick" => w \in r
  PROVE  /\ Part(Of(c, w, << x, y >>), u, r)
         /\ Are(Of(c, w, << x, y >>), c, w, {x, y})
<1> DEFINE dos == << x, y >>
<1>1. dos \in Seq(Dos) /\ Len(dos) = 2 /\ dos[1] = x /\ dos[2] = y
  BY DEF Dos
<1> HIDE DEF dos
<1>2. \A i \in 1 .. Len(dos) : i = 1 \/ i = 2
  BY <1>1
<1>y. y \notin Needs \cup Stored \cup {"pick", "bucket"}
  BY DEF Needs, Stored
<1>3. Part(Of(c, w, dos), u, r) /\ Are(Of(c, w, dos), c, w, {x, y})
  <2>1. ASSUME NEW i \in 1 .. Len(dos)
        PROVE  /\ dos[i] \in Needs => w = Host(dos[i]) /\ w \in u
               /\ dos[i] = "pick" => w \in r
               /\ dos[i] = "bucket" => \A j \in i + 1 .. Len(dos) : dos[j] # "bucket"
               /\ dos[i] \notin Stored
    <3>1. CASE i = 1
      <4>1. \A j \in i + 1 .. Len(dos) : j = 2
        BY <1>1, <3>1
      <4> QED BY <1>1, <1>y, <3>1, <4>1
    <3>2. CASE i = 2
      BY <1>1, <1>y, <3>2
    <3> QED BY <1>2, <3>1, <3>2
  <2>2. {dos[i] : i \in 1 .. Len(dos)} = {x, y}
    BY <1>1
  <2>3. Part(Of(c, w, dos), u, r) /\ Are(Of(c, w, dos), c, w, {dos[i] : i \in 1 .. Len(dos)})
    BY <1>1, <2>1, OfPart
  <2> QED BY <2>2, <2>3
<1> QED
  BY <1>3 DEF dos

LEMMA ThreePart ==
  ASSUME NEW c \in Groups, NEW w \in Workloads
  PROVE  /\ Part(Of(c, w, Deployed), {}, {})
         /\ Are(Of(c, w, Deployed), c, w, {"apply", "pick", "wait"})
<1> DEFINE dos == Deployed
<1>1. /\ dos \in Seq(Dos) /\ Len(dos) = 3
      /\ dos[1] = "apply" /\ dos[2] = "pick" /\ dos[3] = "wait"
  BY DEF Dos, Deployed
<1> HIDE DEF dos
<1>2. \A i \in 1 .. Len(dos) : i = 1 \/ i = 2 \/ i = 3
  BY <1>1
<1>3. Part(Of(c, w, dos), {}, {}) /\ Are(Of(c, w, dos), c, w, {"apply", "pick", "wait"})
  <2>1. ASSUME NEW i \in 1 .. Len(dos)
        PROVE  /\ dos[i] \notin Needs /\ dos[i] \notin Stored /\ dos[i] # "bucket"
               /\ dos[i] = "pick" => \E j \in 1 .. i - 1 : dos[j] = "apply"
    <3>1. dos[i] = "pick" => i = 2 /\ 1 \in 1 .. i - 1
      BY <1>1, <1>2
    <3>2. dos[i] \in {"apply", "pick", "wait"}
      BY <1>1, <1>2
    <3> QED BY <1>1, <3>1, <3>2 DEF Needs, Stored
  <2>2. {dos[i] : i \in 1 .. Len(dos)} = {"apply", "pick", "wait"}
    BY <1>1
  <2>3. Part(Of(c, w, dos), {}, {}) /\ Are(Of(c, w, dos), c, w, {dos[i] : i \in 1 .. Len(dos)})
    BY <1>1, <2>1, OfPart
  <2> QED BY <2>2, <2>3
<1> QED
  BY <1>3 DEF dos

LEMMA FourPart ==
  ASSUME NEW c \in Groups, NEW w \in Workloads, NEW x \in {"service", "endpoint"},
         x = "service" => w = Host(x)
  PROVE  /\ Part(Of(c, w, Deployed \o << x >>), {}, {})
         /\ Are(Of(c, w, Deployed \o << x >>), c, w, {"apply", "pick", "wait", x})
<1> DEFINE dos == Deployed \o << x >>
<1>1. /\ dos \in Seq(Dos) /\ Len(dos) = 4
      /\ dos[1] = "apply" /\ dos[2] = "pick" /\ dos[3] = "wait" /\ dos[4] = x
  BY DEF Dos, Deployed
<1> HIDE DEF dos
<1>2. \A i \in 1 .. Len(dos) : i = 1 \/ i = 2 \/ i = 3 \/ i = 4
  BY <1>1
<1>3. Part(Of(c, w, dos), {}, {}) /\ Are(Of(c, w, dos), c, w, {"apply", "pick", "wait", x})
  <2>1. ASSUME NEW i \in 1 .. Len(dos)
        PROVE  /\ dos[i] \in Needs => w = Host(dos[i]) /\ \E j \in 1 .. i - 1 : dos[j] = "wait"
               /\ dos[i] \notin Stored /\ dos[i] # "bucket"
               /\ dos[i] = "pick" => \E j \in 1 .. i - 1 : dos[j] = "apply"
    <3>1. dos[i] = "pick" => i = 2 /\ 1 \in 1 .. i - 1
      BY <1>1, <1>2
    <3>2. dos[i] \in {"apply", "pick", "wait", "service", "endpoint"}
      BY <1>1, <1>2
    <3>3. dos[i] \in Needs => x = "service" /\ 3 \in 1 .. i - 1
      BY <1>1, <1>2 DEF Needs
    <3> QED BY <1>1, <3>1, <3>2, <3>3 DEF Stored
  <2>2. {dos[i] : i \in 1 .. Len(dos)} = {"apply", "pick", "wait", x}
    BY <1>1
  <2>3. Part(Of(c, w, dos), {}, {}) /\ Are(Of(c, w, dos), c, w, {dos[i] : i \in 1 .. Len(dos)})
    BY <1>1, <2>1, OfPart
  <2> QED BY <2>2, <2>3
<1> QED
  BY <1>3 DEF dos

--------------------------------------------------------------------------------
\* The creation of an installation, part by part.

\* A part that needs nothing of those before it, stores nothing, and makes the
\* buckets B.
Tame(s, B) ==
  /\ Part(s, {}, {})
  /\ \A x \in Steps(s) : x.do \notin Stored /\ (x.do = "bucket" => x.c \in B)

LEMMA TameCat ==
  ASSUME NEW s, NEW v, NEW A, NEW B, Tame(s, A), Tame(v, B), A = {} \/ B = {}
  PROVE  Tame(s \o v, A \cup B) /\ Steps(s \o v) = Steps(s) \cup Steps(v)
<1>1. Joins(s, v, {}, {}, {}, {})
  BY DEF Tame, Joins
<1>2. Part(s \o v, {}, {}) /\ Steps(s \o v) = Steps(s) \cup Steps(v)
  BY <1>1, PartCat DEF Tame
<1> QED
  BY <1>2 DEF Tame

LEMMA TameBoth ==
  ASSUME NEW s, NEW v, Tame(s, {}), Tame(v, {})
  PROVE  Tame(s \o v, {}) /\ Steps(s \o v) = Steps(s) \cup Steps(v)
<1>1. {} \cup {} = {}
  OBVIOUS
<1> QED
  BY <1>1, TameCat

LEMMA TameIf ==
  ASSUME NEW v, NEW B, Tame(v, B), NEW cond
  PROVE  Tame(If(cond, v), B) /\ (cond => Steps(If(cond, v)) = Steps(v))
<1>1. Steps(<< >>) = {} /\ << >> \in Seq(Step)
  BY DEF Steps
<1>2. Tame(<< >>, B)
  BY <1>1, FreePart DEF Tame
<1> QED
  BY <1>2 DEF If

\* The steps of one component, when nothing has been waited for.
LEMMA TameOf ==
  ASSUME NEW s, NEW c, NEW w, NEW dos, Part(s, {}, {}), Are(s, c, w, dos),
         dos \cap {"save", "deploy", "bucket"} = {}
  PROVE  Tame(s, {})
BY DEF Tame, Are, Stored

LEMMA TameStep ==
  ASSUME NEW c \in Groups, NEW w \in Workloads \cup {"none"}, NEW x \in {"owner", "note"}
  PROVE  Tame(Of(c, w, << x >>), {}) /\ Are(Of(c, w, << x >>), c, w, {x})
<1>1. x \in Dos \ {"pick"} /\ x \notin Needs
  BY DEF Dos, Needs
<1>2. Part(Of(c, w, << x >>), {}, {}) /\ Are(Of(c, w, << x >>), c, w, {x})
  BY <1>1, OnePart
<1>3. {x} \cap {"save", "deploy", "bucket"} = {}
  OBVIOUS
<1> QED
  BY <1>2, <1>3, TameOf

LEMMA TameDeployed ==
  ASSUME NEW c \in Groups, NEW w \in Workloads
  PROVE  Tame(Of(c, w, Deployed), {}) /\ Are(Of(c, w, Deployed), c, w, {"apply", "pick", "wait"})
<1>1. {"apply", "pick", "wait"} \cap {"save", "deploy", "bucket"} = {}
  OBVIOUS
<1> QED
  BY <1>1, ThreePart, TameOf

\* A part gives the keys of c, or the right to use the buckets.
Gives(s, c) == \E x \in Steps(s) : x.do = "note" /\ x.c = c
Grants(s) == \E x \in Steps(s) : x.do = "grant"

LEMMA BasicParts ==
  /\ Tame(Begun, {}) /\ Tame(Of("config", "none", << "owner" >>), {}) /\ Tame(Preloader, {})
  /\ Tame(CouchDB, {}) /\ \E x \in Steps(CouchDB) : x.do = "apply" /\ x.w = "couchdb"
<1>g. "config" \in Groups /\ "couchdb" \in Groups /\ "couchdb" \in Workloads
  BY DEF Groups, Workloads, Host
<1>1. Tame(Begun, {})
  <2>1. "clean" \in Dos \ Stored /\ "clean" \notin Needs
    BY DEF Dos, Stored, Needs
  <2>2. Part(Begun, {}, {}) /\ Are(Begun, "config", "none", {"clean", "configure"})
    BY <1>g, <2>1, TwoPart DEF Begun
  <2>3. {"clean", "configure"} \cap {"save", "deploy", "bucket"} = {}
    OBVIOUS
  <2> QED BY <2>2, <2>3, TameOf
<1>2. Tame(Of("config", "none", << "owner" >>), {})
  BY <1>g, TameStep
<1>3. Tame(Preloader, {})
  <2>1. \A x \in Steps(Preloader) :
          x.do \in {"read", "patch", "open", "close", "build", "create"}
    <3>1. \A i \in 1 .. 6 : i = 1 \/ i = 2 \/ i = 3 \/ i = 4 \/ i = 5 \/ i = 6
      OBVIOUS
    <3> QED BY <3>1, PreloaderIs DEF Steps
  <2>2. \A x \in Steps(Preloader) : x.do \notin Needs \cup Stored \cup {"pick"}
    BY <2>1 DEF Needs, Stored
  <2>3. Part(Preloader, {}, {})
    BY <2>2, PreloaderIs, FreePart
  <2> QED BY <2>1, <2>3 DEF Tame, Stored
<1>4. Tame(CouchDB, {}) /\ \E x \in Steps(CouchDB) : x.do = "apply" /\ x.w = "couchdb"
  BY <1>g, TameDeployed DEF CouchDB, Are
<1> QED
  BY <1>1, <1>2, <1>3, <1>4

LEMMA RedisPart == Tame(Redis, {}) /\ Gives(Redis, "redis user")
<1> DEFINE a == Of("redis", "redis", Deployed)
<1>g. /\ "redis" \in Groups /\ "redis user" \in Groups /\ "redis" \in Workloads
      /\ Host("account") = "redis"
  BY DEF Groups, Workloads, Host
<1>1. Tame(a, {}) /\ Are(a, "redis", "redis", {"apply", "pick", "wait"})
  BY <1>g, TameDeployed
<1>2. Part(RedisUser, {"redis"}, {}) /\ Are(RedisUser, "redis user", "redis", {"account", "note"})
  <2>1. "account" \in Dos \ Stored
    BY DEF Dos, Stored
  <2> QED BY <1>g, <2>1, TwoPart DEF RedisUser
<1>3. Redis = a \o RedisUser
  BY DEF Redis
<1> HIDE DEF a
<1>4. Part(Redis, {}, {}) /\ Steps(Redis) = Steps(a) \cup Steps(RedisUser)
  <2>1. \E x \in Steps(a) : x.do = "wait" /\ x.w = "redis"
    BY <1>1 DEF Are
  <2>2. Part(a, {}, {}) /\ \A x \in Steps(a) : x.do # "bucket" /\ x.do \notin Stored
    BY <1>1 DEF Tame
  <2>j. Joins(a, RedisUser, {}, {}, {"redis"}, {})
    BY <2>1, <2>2 DEF Joins
  <2>3. Part(a \o RedisUser, {}, {}) /\ Steps(a \o RedisUser) = Steps(a) \cup Steps(RedisUser)
    BY <1>2, <2>2, <2>j, PartCat
  <2> QED BY <1>3, <2>3
<1>5. \A x \in Steps(Redis) : x.do # "bucket" /\ x.do \notin Stored
  BY <1>1, <1>2, <1>4 DEF Tame, Are, Stored
<1>6. Gives(Redis, "redis user")
  BY <1>2, <1>4 DEF Are, Gives
<1> QED
  BY <1>4, <1>5, <1>6 DEF Tame

\* The storage, when its Pod has been waited for.
LEMMA StoragePart ==
  /\ Part(Storage, {"minio"}, {})
  /\ \A x \in Steps(Storage) :
       x.do \notin Stored /\ (x.do = "bucket" => x.c \in {"data bucket", "web bucket"})
  /\ Grants(Storage)
  /\ Gives(Storage, "minio user") /\ Gives(Storage, "data bucket") /\ Gives(Storage, "web bucket")
<1> DEFINE a == Of("minio user", "minio", << "user", "note" >>)
           b == Of("data bucket", "minio", << "bucket", "note" >>)
           e == Of("web bucket", "minio", << "bucket", "note" >>)
           f == Of("policy", "minio", << "grant" >>)
<1>g. /\ "minio user" \in Groups /\ "data bucket" \in Groups /\ "web bucket" \in Groups
      /\ "policy" \in Groups /\ "minio" \in Workloads
      /\ \A x \in {"user", "bucket", "grant"} : Host(x) = "minio"
  BY DEF Groups, Workloads, Host
<1>0. "user" \in Dos \ Stored /\ "bucket" \in Dos \ Stored /\ "grant" \in Dos \ {"pick"}
  BY DEF Dos, Stored
<1>1. Part(a, {"minio"}, {}) /\ Are(a, "minio user", "minio", {"user", "note"})
  BY <1>g, <1>0, TwoPart
<1>2. Part(b, {"minio"}, {}) /\ Are(b, "data bucket", "minio", {"bucket", "note"})
  BY <1>g, <1>0, TwoPart
<1>3. Part(e, {"minio"}, {}) /\ Are(e, "web bucket", "minio", {"bucket", "note"})
  BY <1>g, <1>0, TwoPart
<1>4. Part(f, {"minio"}, {}) /\ Are(f, "policy", "minio", {"grant"})
  BY <1>g, <1>0, OnePart
<1>5. Storage = ((a \o b) \o e) \o f
  BY DEF Storage
<1> HIDE DEF a, b, e, f
<1>6. Part(a \o b, {"minio"}, {}) /\ Steps(a \o b) = Steps(a) \cup Steps(b)
  <2>1. \A x \in Steps(a) : x.do # "bucket" /\ x.do \notin Stored
    BY <1>1 DEF Are, Stored
  <2>2. Joins(a, b, {"minio"}, {}, {"minio"}, {})
    BY <2>1 DEF Joins
  <2> QED BY <1>1, <1>2, <2>2, PartCat
<1>7. Part((a \o b) \o e, {"minio"}, {}) /\ Steps((a \o b) \o e) = Steps(a \o b) \cup Steps(e)
  <2>1. \A x \in Steps(a \o b) : x.do \notin Stored /\ (x.do = "bucket" => x.c = "data bucket")
    BY <1>1, <1>2, <1>6 DEF Are, Stored
  <2>2. \A x \in Steps(e) : x.c = "web bucket"
    BY <1>3 DEF Are
  <2>3. Joins(a \o b, e, {"minio"}, {}, {"minio"}, {})
    BY <2>1, <2>2 DEF Joins
  <2> QED BY <1>3, <1>6, <2>3, PartCat
<1>8. /\ Part(((a \o b) \o e) \o f, {"minio"}, {})
      /\ Steps(((a \o b) \o e) \o f) = Steps((a \o b) \o e) \cup Steps(f)
  <2>1. \A x \in Steps(f) : x.do # "bucket"
    BY <1>4 DEF Are
  <2>2. \A x \in Steps((a \o b) \o e) : x.do \notin Stored
    BY <1>1, <1>2, <1>3, <1>6, <1>7 DEF Are, Stored
  <2>3. Joins((a \o b) \o e, f, {"minio"}, {}, {"minio"}, {})
    BY <2>1, <2>2 DEF Joins
  <2> QED BY <1>4, <1>7, <2>3, PartCat
<1>9. Steps(Storage) = Steps(a) \cup Steps(b) \cup Steps(e) \cup Steps(f)
  BY <1>5, <1>6, <1>7, <1>8
<1>10. \A x \in Steps(Storage) :
         x.do \notin Stored /\ (x.do = "bucket" => x.c \in {"data bucket", "web bucket"})
  <2>1. /\ \A x \in Steps(a) \cup Steps(f) : x.do \notin Stored /\ x.do # "bucket"
        /\ \A x \in Steps(b) : x.do \notin Stored /\ x.c = "data bucket"
        /\ \A x \in Steps(e) : x.do \notin Stored /\ x.c = "web bucket"
    BY <1>1, <1>2, <1>3, <1>4 DEF Are, Stored
  <2> QED BY <1>9, <2>1
<1>a. Gives(Storage, "minio user")
  BY <1>1, <1>9 DEF Gives, Are
<1>b. Gives(Storage, "data bucket")
  BY <1>2, <1>9 DEF Gives, Are
<1>11. Gives(Storage, "web bucket")
  BY <1>3, <1>9 DEF Gives, Are
<1>12. Grants(Storage)
  BY <1>4, <1>9 DEF Grants, Are
<1> QED
  BY <1>5, <1>8, <1>10, <1>a, <1>b, <1>11, <1>12

LEMMA MinioPart ==
  /\ Tame(Minio, {"data bucket", "web bucket"})
  /\ Grants(Minio)
  /\ Gives(Minio, "minio user") /\ Gives(Minio, "data bucket") /\ Gives(Minio, "web bucket")
<1> DEFINE a == Of("minio", "minio", Deployed)
<1>g. "minio" \in Groups /\ "minio" \in Workloads
  BY DEF Groups, Workloads, Host
<1>1. Tame(a, {}) /\ Are(a, "minio", "minio", {"apply", "pick", "wait"})
  BY <1>g, TameDeployed
<1>2. Minio = a \o Storage
  BY DEF Minio
<1> HIDE DEF a
<1>3. /\ \E x \in Steps(a) : x.do = "wait" /\ x.w = "minio"
      /\ Part(a, {}, {}) /\ \A x \in Steps(a) : x.do # "bucket" /\ x.do \notin Stored
  BY <1>1 DEF Are, Tame
<1>4. Part(Minio, {}, {}) /\ Steps(Minio) = Steps(a) \cup Steps(Storage)
  <2>1. Part(a \o Storage, {}, {}) /\ Steps(a \o Storage) = Steps(a) \cup Steps(Storage)
    <3>1. Part(Storage, {"minio"}, {})
      BY StoragePart
    <3>2. Joins(a, Storage, {}, {}, {"minio"}, {})
      BY <1>3 DEF Joins
    <3> QED BY <1>3, <3>1, <3>2, PartCat
  <2> QED BY <1>2, <2>1
<1>5. Grants(Minio) /\ Gives(Minio, "minio user") /\ Gives(Minio, "data bucket")
      /\ Gives(Minio, "web bucket")
  BY <1>4, StoragePart DEF Gives, Grants
<1>6. \A x \in Steps(Minio) :
        x.do \notin Stored /\ (x.do = "bucket" => x.c \in {"data bucket", "web bucket"})
  BY <1>3, <1>4, StoragePart
<1> QED
  BY <1>4, <1>5, <1>6 DEF Tame

LEMMA PostgresPart == Tame(Postgres, {}) /\ Gives(Postgres, "postgres keys")
<1> DEFINE a == Of("kubegres", "kubegres", Deployed)
           b == Of("postgres", "postgres", Deployed \o << "service" >>)
           e == Of("postgres keys", "postgres", << "note" >>)
<1>g. /\ "kubegres" \in Groups /\ "kubegres" \in Workloads /\ "postgres" \in Groups
      /\ "postgres" \in Workloads /\ "postgres keys" \in Groups /\ Host("service") = "postgres"
  BY DEF Groups, Workloads, Host
<1>1. Tame(a, {})
  BY <1>g, TameDeployed
<1>2. Tame(b, {})
  <2>1. Part(b, {}, {}) /\ Are(b, "postgres", "postgres", {"apply", "pick", "wait", "service"})
    BY <1>g, FourPart
  <2>2. {"apply", "pick", "wait", "service"} \cap {"save", "deploy", "bucket"} = {}
    OBVIOUS
  <2> HIDE DEF b
  <2> QED BY <2>1, <2>2, TameOf
<1>3. Tame(e, {}) /\ Gives(e, "postgres keys")
  <2>1. Tame(e, {}) /\ Are(e, "postgres keys", "postgres", {"note"})
    BY <1>g, TameStep
  <2> QED BY <2>1 DEF Gives, Are
<1>4. Postgres = (a \o b) \o e
  BY DEF Postgres
<1> HIDE DEF a, b, e
<1>5. Tame(a \o b, {})
  BY <1>1, <1>2, TameBoth
<1>6. Tame((a \o b) \o e, {}) /\ Steps((a \o b) \o e) = Steps(a \o b) \cup Steps(e)
  BY <1>3, <1>5, TameBoth
<1> QED
  BY <1>3, <1>4, <1>6 DEF Gives

LEMMA FerretPart == Tame(Ferret, {}) /\ Gives(Ferret, "mongodb keys")
<1> DEFINE a == Of("mongodb", "mongodb", Deployed)
           e == Of("mongodb keys", "mongodb", << "note" >>)
<1>g. "mongodb" \in Groups /\ "mongodb" \in Workloads /\ "mongodb keys" \in Groups
  BY DEF Groups, Workloads, Host
<1>1. Tame(a, {})
  BY <1>g, TameDeployed
<1>2. Tame(e, {}) /\ Gives(e, "mongodb keys")
  <2>1. Tame(e, {}) /\ Are(e, "mongodb keys", "mongodb", {"note"})
    BY <1>g, TameStep
  <2> QED BY <2>1 DEF Gives, Are
<1>3. Ferret = a \o e
  BY DEF Ferret
<1> HIDE DEF a, e
<1>4. Tame(a \o e, {}) /\ Steps(a \o e) = Steps(a) \cup Steps(e)
  BY <1>1, <1>2, TameBoth
<1> QED
  BY <1>2, <1>3, <1>4 DEF Gives

\* OpenWhisk asks for the Pod of CouchDB; what comes last gives nothing.
LEMMA LastParts ==
  /\ Part(Openwhisk, {}, {"couchdb"}) /\ Part(PostCreate, {}, {})
  /\ \A x \in Steps(Openwhisk) : x.do \notin Stored /\ x.do # "bucket"
  /\ \A x \in Steps(PostCreate) : x.do \notin Giving /\ x.do # "bucket"
<1> DEFINE a == Of("openwhisk", "couchdb", << "pick", "wait" >>)
           e == Of("metadata", "none", << "save" >>)
           f == Of("system", "controller", << "deploy" >>)
<1>g. /\ "openwhisk" \in Groups /\ "couchdb" \in Workloads /\ "controller" \in Workloads
      /\ "metadata" \in Groups /\ "system" \in Groups
  BY DEF Groups, Workloads, Host
<1>1. Part(a, {}, {"couchdb"}) /\ Are(a, "openwhisk", "couchdb", {"pick", "wait"})
  <2>1. "pick" \in Dos \ Stored /\ "pick" \notin Needs
    BY DEF Dos, Stored, Needs
  <2> QED BY <1>g, <2>1, TwoPart
<1>2. /\ Part(Controller, {}, {})
      /\ Are(Controller, "openwhisk", "controller", {"apply", "pick", "wait", "endpoint"})
  BY <1>g, FourPart DEF Controller
<1>3. /\ Part(e, {}, {}) /\ Are(e, "metadata", "none", {"save"})
      /\ Part(f, {}, {}) /\ Are(f, "system", "controller", {"deploy"})
  <2>1. /\ "save" \in Dos \ {"pick"} /\ "save" \notin Needs
        /\ "deploy" \in Dos \ {"pick"} /\ "deploy" \notin Needs
    BY DEF Dos, Needs
  <2>2. Part(e, {}, {}) /\ Are(e, "metadata", "none", {"save"})
    BY <1>g, <2>1, OnePart
  <2>3. Part(f, {}, {}) /\ Are(f, "system", "controller", {"deploy"})
    BY <1>g, <2>1, OnePart
  <2> QED BY <2>2, <2>3
<1>4. Openwhisk = a \o Controller /\ PostCreate = e \o f
  BY DEF Openwhisk, PostCreate
<1> HIDE DEF a, e, f
<1>5. /\ Part(a \o Controller, {}, {"couchdb"})
      /\ Steps(a \o Controller) = Steps(a) \cup Steps(Controller)
  <2>1. \A x \in Steps(a) : x.do # "bucket" /\ x.do \notin Stored
    BY <1>1 DEF Are, Stored
  <2>2. Joins(a, Controller, {}, {"couchdb"}, {}, {})
    BY <2>1 DEF Joins
  <2> QED BY <1>1, <1>2, <2>2, PartCat
<1>6. Part(e \o f, {}, {}) /\ Steps(e \o f) = Steps(e) \cup Steps(f)
  <2>1. \A x \in Steps(f) : x.do # "bucket" /\ x.do \notin Giving
    BY <1>3 DEF Are, Giving
  <2>2. Joins(e, f, {}, {}, {}, {})
    BY <2>1 DEF Joins
  <2> QED BY <1>3, <2>2, PartCat
<1>7. \A x \in Steps(Openwhisk) : x.do \notin Stored /\ x.do # "bucket"
  BY <1>1, <1>2, <1>4, <1>5 DEF Are, Stored
<1>8. \A x \in Steps(PostCreate) : x.do \notin Giving /\ x.do # "bucket"
  BY <1>3, <1>4, <1>6 DEF Are, Giving
<1> QED
  BY <1>4, <1>5, <1>6, <1>7, <1>8

--------------------------------------------------------------------------------
\* A creation can go on to its end, and gives what is wanted.
LEMMA CreateReady ==
  /\ Ready(WhiskCreate, {}, {}, {})
  /\ \A c \in Wanted : Gives(WhiskCreate, c)
  /\ "minio" \in Comps => Grants(WhiskCreate)
<1> DEFINE B == {"data bucket", "web bucket"}
           a == Begun \o Of("config", "none", << "owner" >>)
           b == a \o Preloader
           c == b \o CouchDB
           er == If("redis" \in Comps, Redis)
           e == c \o er
           fm == If("minio" \in Comps, Minio)
           f == e \o fm
           gp == If(Comps \cap {"postgres", "mongodb"} # {}, Postgres)
           g == f \o gp
           hm == If("mongodb" \in Comps, Ferret)
           h == g \o hm
           k == h \o Openwhisk
<1>z. WhiskCreate = k \o PostCreate
  BY DEF WhiskCreate
<1>0. /\ B \cup {} = B /\ {} \cup B = B
      /\ Tame(er, {}) /\ Tame(fm, B) /\ Tame(gp, {}) /\ Tame(hm, {})
      /\ "redis" \in Comps => Gives(er, "redis user")
      /\ "minio" \in Comps => /\ Grants(fm) /\ Gives(fm, "minio user")
                              /\ Gives(fm, "data bucket") /\ Gives(fm, "web bucket")
      /\ Comps \cap {"postgres", "mongodb"} # {} => Gives(gp, "postgres keys")
      /\ "mongodb" \in Comps => Gives(hm, "mongodb keys")
  <2> DEFINE cr == "redis" \in Comps
             cm == "minio" \in Comps
             cp == Comps \cap {"postgres", "mongodb"} # {}
             cf == "mongodb" \in Comps
  <2> HIDE DEF cr, cm, cp, cf
  <2>1. Tame(If(cr, Redis), {}) /\ (cr => Steps(If(cr, Redis)) = Steps(Redis))
    BY RedisPart, TameIf
  <2>2. Tame(If(cm, Minio), B) /\ (cm => Steps(If(cm, Minio)) = Steps(Minio))
    BY MinioPart, TameIf
  <2>3. Tame(If(cp, Postgres), {}) /\ (cp => Steps(If(cp, Postgres)) = Steps(Postgres))
    BY PostgresPart, TameIf
  <2>4. Tame(If(cf, Ferret), {}) /\ (cf => Steps(If(cf, Ferret)) = Steps(Ferret))
    BY FerretPart, TameIf
  <2>5. er = If(cr, Redis) /\ fm = If(cm, Minio) /\ gp = If(cp, Postgres) /\ hm = If(cf, Ferret)
    BY DEF cr, cm, cp, cf
  <2>6. (cr <=> "redis" \in Comps) /\ (cm <=> "minio" \in Comps)
        /\ (cp <=> Comps \cap {"postgres", "mongodb"} # {}) /\ (cf <=> "mongodb" \in Comps)
    BY DEF cr, cm, cp, cf
  <2> HIDE DEF er, fm, gp, hm
  <2>7. B \cup {} = B /\ {} \cup B = B
    OBVIOUS
  <2> HIDE DEF B
  <2>8. "redis" \in Comps => Gives(er, "redis user")
    BY <2>1, <2>5, <2>6, RedisPart DEF Gives
  <2>9. "minio" \in Comps => /\ Grants(fm) /\ Gives(fm, "minio user")
                             /\ Gives(fm, "data bucket") /\ Gives(fm, "web bucket")
    BY <2>2, <2>5, <2>6, MinioPart DEF Gives, Grants
  <2>10. Comps \cap {"postgres", "mongodb"} # {} => Gives(gp, "postgres keys")
    BY <2>3, <2>5, <2>6, PostgresPart DEF Gives
  <2>11. "mongodb" \in Comps => Gives(hm, "mongodb keys")
    BY <2>4, <2>5, <2>6, FerretPart DEF Gives
  <2>12. Tame(er, {}) /\ Tame(fm, B) /\ Tame(gp, {}) /\ Tame(hm, {})
    BY <2>1, <2>2, <2>3, <2>4, <2>5
  <2> QED
    BY <2>7, <2>8, <2>9, <2>10, <2>11, <2>12
<1> HIDE DEF er, fm, gp, hm, B
<1>1. Tame(a, {})
  BY BasicParts, TameBoth
<1> HIDE DEF a
<1>2. Tame(b, {})
  BY <1>1, BasicParts, TameBoth
<1> HIDE DEF b
<1>3. Tame(c, {}) /\ \E x \in Steps(c) : x.do = "apply" /\ x.w = "couchdb"
  BY <1>2, BasicParts, TameBoth
<1> HIDE DEF c
<1>4. Tame(e, {}) /\ Steps(e) = Steps(c) \cup Steps(er)
  BY <1>0, <1>3, TameBoth
<1> HIDE DEF e
<1>5. Tame(f, B) /\ Steps(f) = Steps(e) \cup Steps(fm)
  <2>1. Tame(f, {} \cup B) /\ Steps(f) = Steps(e) \cup Steps(fm)
    BY <1>0, <1>4, TameCat
  <2> QED BY <1>0, <2>1
<1> HIDE DEF f
<1>6. Tame(g, B) /\ Steps(g) = Steps(f) \cup Steps(gp)
  <2>1. Tame(g, B \cup {}) /\ Steps(g) = Steps(f) \cup Steps(gp)
    BY <1>0, <1>5, TameCat
  <2> QED BY <1>0, <2>1
<1> HIDE DEF g
<1>7. Tame(h, B) /\ Steps(h) = Steps(g) \cup Steps(hm)
  <2>1. Tame(h, B \cup {}) /\ Steps(h) = Steps(g) \cup Steps(hm)
    BY <1>0, <1>6, TameCat
  <2> QED BY <1>0, <2>1
<1> HIDE DEF h
<1>8. Part(k, {}, {}) /\ Steps(k) = Steps(h) \cup Steps(Openwhisk)
  <2>1. \E x \in Steps(h) : x.do = "apply" /\ x.w = "couchdb"
    BY <1>3, <1>4, <1>5, <1>6, <1>7
  <2>2. Joins(h, Openwhisk, {}, {}, {}, {"couchdb"})
    BY <1>7, <2>1, LastParts DEF Joins, Tame
  <2>3. Part(h, {}, {}) /\ Part(Openwhisk, {}, {"couchdb"})
    BY <1>7, LastParts DEF Tame
  <2> QED BY <2>2, <2>3, PartCat
<1> HIDE DEF k
<1>9. Part(k \o PostCreate, {}, {}) /\ Steps(k \o PostCreate) = Steps(k) \cup Steps(PostCreate)
  <2>1. Joins(k, PostCreate, {}, {}, {}, {})
    BY LastParts DEF Joins
  <2> QED BY <1>8, <2>1, LastParts, PartCat
<1>10. Ready(WhiskCreate, {}, {}, {})
  BY <1>z, <1>9 DEF Part
<1>11. Steps(er) \cup Steps(fm) \cup Steps(gp) \cup Steps(hm) \subseteq Steps(WhiskCreate)
  BY <1>z, <1>4, <1>5, <1>6, <1>7, <1>8, <1>9
<1>12. "minio" \in Comps => Grants(WhiskCreate)
  BY <1>0, <1>11 DEF Grants
<1>13. ASSUME NEW x \in Wanted
       PROVE  Gives(WhiskCreate, x)
  <2>1. \/ x = "redis user" /\ "redis" \in Comps
        \/ x \in {"minio user", "data bucket", "web bucket"} /\ "minio" \in Comps
        \/ x = "postgres keys" /\ Comps \cap {"postgres", "mongodb"} # {}
        \/ x = "mongodb keys" /\ "mongodb" \in Comps
    BY DEF Wanted
  <2>2. Gives(er, x) \/ Gives(fm, x) \/ Gives(gp, x) \/ Gives(hm, x)
    BY <1>0, <2>1
  <2> QED BY <1>11, <2>2 DEF Gives
<1> QED
  BY <1>10, <1>12, <1>13

--------------------------------------------------------------------------------
\* A step of a creation while no call fails.

\* What is dropped is the first.
LEMMA StepsDrop ==
  ASSUME NEW L \in Seq(Step), NEW M, Drop(L, M, 1)
  PROVE  Steps(M) \subseteq Steps(L) /\ Steps(L) \subseteq {L[1]} \cup Steps(M)
<1>1. M \in Seq(Step) /\ Len(M) = Len(L) - 1 /\ \A j \in 1 .. Len(M) : M[j] = L[j + 1]
  BY DEF Drop
<1>2. Len(M) \in Nat /\ Len(L) \in Nat
  BY <1>1
<1>3. \A j \in 1 .. Len(M) : j + 1 \in 1 .. Len(L)
  BY <1>1, <1>2
<1>4. ASSUME NEW i \in 1 .. Len(L)
      PROVE  L[i] = L[1] \/ L[i] \in Steps(M)
  <2>1. i = 1 \/ (i - 1 \in 1 .. Len(M) /\ (i - 1) + 1 = i)
    BY <1>1, <1>2
  <2>2. i - 1 \in 1 .. Len(M) => L[i] = M[i - 1]
    BY <1>1, <2>1
  <2> QED BY <2>1, <2>2 DEF Steps
<1> QED
  BY <1>1, <1>3, <1>4 DEF Steps

\* The Pods that are up, but for the controller's, which the watcher restarts,
\* and those there are.
Up == {w \in Workloads \ {"controller"} : pods[w].up}
Running == {w \in Workloads : pods[w].n > 0}

\* What the step x has done.
Effect(x) ==
  /\ x.do = "apply" => pods'[x.w].n > 0
  /\ x.do = "wait" => pods[x.w].up
  /\ x.do = "note" => ToSet(Keys[x.c]) \subseteq notes'
  /\ x.do \notin {"note", "endpoint"} => notes' = notes
  /\ x.do = "grant" => "policy" \in made'
  /\ \A y \in made' : y \in made \/ y \notin {"data bucket", "web bucket"}
                        \/ (x.do = "bucket" /\ y = x.c)
  /\ doc' = doc \/ (x.do = "save" /\ doc' = Document(notes))

\* The handler does its next step; it annotates what became of the actions.
Advances ==
  LET L == th["whisk"].left IN
  /\ L # << >> /\ Drop(L, th'["whisk"].left, 1) /\ Effect(L[1])
  /\ notes \subseteq notes' /\ made \subseteq made' /\ th'["whisk"].op = th["whisk"].op
Reports ==
  LET L == th["whisk"].left IN
  /\ L # << >> /\ L[1].do = "deploy" /\ UNCHANGED << made, notes, doc, pods >>
  /\ \E x \in {"created", "failed"} : th'["whisk"].left = Of("result", "none", << x >>)
  /\ th'["whisk"].op = th["whisk"].op

LEMMA GoesAdvances ==
  ASSUME TypeInv, th["whisk"].left # << >>, Goes("whisk"), Effect(Now("whisk")),
         notes \subseteq notes', made \subseteq made'
  PROVE  Advances
<1>t. "whisk" \in Threads
  BY DEF Threads
<1> QED
  BY <1>t, FirstStep, GoesKeeps DEF Advances, Keeps

\* The Job that there is already, or an empty list: the rest of the preloader,
\* nothing, is skipped.
LEMMA JobAdvances ==
  ASSUME TypeInv, At("whisk", "create"), Raise("whisk"), Effect(Now("whisk")),
         notes \subseteq notes', made \subseteq made'
  PROVE  Advances
<1> DEFINE t == "whisk"
           L == th["whisk"].left
           cs == {"preloader"}
<1>t. "whisk" \in Threads
  BY DEF Threads
<1>1. L # << >> /\ Now(t).do = "create"
  BY DEF At
<1>2. /\ Now(t) = L[1] /\ 1 \in 1 .. Len(L) /\ Len(L) \in Nat /\ Linked(L, 1) /\ Fits(L[1])
      /\ L \in Seq(Step)
  BY <1>t, <1>1, FirstStep, ThreadIs
<1>3. L[1].c = "preloader"
  BY <1>1, <1>2 DEF Fits, Suits
<1>4. Skips(t, cs)
  BY <1>2, <1>3 DEF Raise, Caught, Inside
<1>5. th'[t].left = After(L, cs) /\ th'[t].op = th[t].op
  BY <1>t, <1>4, SkipsKeeps DEF Keeps
<1>6. 1 = Len(L) \/ L[2].c # "preloader"
  BY <1>1, <1>2 DEF Linked
<1> HIDE DEF L, cs
<1>7. PICK d \in 0 .. Len(L) :
        /\ Drop(L, After(L, cs), d) /\ \A j \in 1 .. d : L[j].c \in cs
        /\ d < Len(L) => L[d + 1].c \notin cs
  BY <1>2, AfterDrops
<1>8. d = 1
  <2>1. d # 0
    BY <1>2, <1>3, <1>7 DEF cs
  <2>2. d > 1 => 2 \in 1 .. d /\ 1 # Len(L)
    BY <1>2, <1>7
  <2> QED BY <1>6, <1>7, <2>1, <2>2 DEF cs
<1> QED
  BY <1>1, <1>2, <1>5, <1>7, <1>8 DEF Advances, L

--------------------------------------------------------------------------------
\* A creation that is ready and has no trouble does step after step.

LEMMA TailAdvances ==
  ASSUME TypeInv, th["whisk"].left # << >>, th'["whisk"].left = Tail(th["whisk"].left),
         th'["whisk"].op = th["whisk"].op,
         Effect(Now("whisk")), notes \subseteq notes', made \subseteq made'
  PROVE  Advances
<1>t. "whisk" \in Threads
  BY DEF Threads
<1> QED
  BY <1>t, FirstStep DEF Advances

\* What the first step of a creation that is ready finds.
LEMMA FirstReady ==
  ASSUME TypeInv, NEW L, L = th["whisk"].left, L # << >>, Ready(L, Up, Running, made)
  PROVE  /\ Now("whisk") = L[1]
         /\ L[1].do \in Needs => pods[Host(L[1].do)].up
         /\ L[1].do = "pick" => pods[L[1].w].n > 0
         /\ L[1].do = "bucket" => L[1].c \notin made
<1>t. "whisk" \in Threads
  BY DEF Threads
<1>1. Now("whisk") = L[1] /\ 1 \in 1 .. Len(L)
  BY <1>t, FirstStep
<1>2. Called(L, 1, Up) /\ Named(L, 1, Running) /\ Once(L, 1, made)
  BY <1>1 DEF Ready
<1>3. \A j \in 1 .. 1 - 1 : FALSE
  OBVIOUS
<1>4. L[1].do \in Needs => L[1].w = Host(L[1].do) /\ L[1].w \in Up
  BY <1>2, <1>3 DEF Called
<1>5. L[1].do = "pick" => L[1].w \in Running
  BY <1>2, <1>3 DEF Named
<1> QED
  BY <1>1, <1>2, <1>4, <1>5 DEF Once, Up, Running

\* No trouble, no failing call.
LEMMA NoTrouble ==
  ASSUME troubles = 0, troubles' = 0
  PROVE  ~Trouble
BY DEF Trouble

\* What configures it, and the preloader, only go on.
LEMMA CreateConfigures ==
  ASSUME TypeInv, ~Trouble, Configures("whisk") \/ Preloads("whisk"),
         \A i \in 1 .. Len(th["whisk"].left) :
           th["whisk"].left[i].do \notin {"apihost", "forget", "remove"}
  PROVE  Advances
<1> DEFINE t == "whisk"
<1>t. "whisk" \in Threads
  BY DEF Threads
<1>1. th[t].left # << >> => Now(t).do \notin {"apihost", "forget", "remove"}
  BY <1>t, FirstStep
<1>2. ASSUME NEW x, At(t, x), x \notin {"apply", "wait", "note", "endpoint", "grant", "save"},
             UNCHANGED << made, notes, doc >>
      PROVE  /\ th[t].left # << >> /\ Effect(Now(t))
             /\ notes \subseteq notes' /\ made \subseteq made'
  BY <1>2 DEF At, Effect
<1>3. CASE Clean(t)
  <2>1. At(t, "clean") /\ Goes(t) /\ UNCHANGED << made, notes, doc >>
    BY <1>3 DEF Clean, cluster, stored
  <2> QED BY <1>2, <2>1, GoesAdvances
<1>4. CASE Configure(t)
  <2>1. At(t, "configure") /\ Goes(t) /\ UNCHANGED << made, notes, doc >>
    BY <1>4 DEF Configure, cluster, stored
  <2> QED BY <1>2, <2>1, GoesAdvances
<1>5. CASE Apihost(t) \/ RemoveByOwner(t) \/ RemoveBySpec(t)
  BY <1>1, <1>5 DEF Apihost, RemoveByOwner, RemoveBySpec, At
<1>6. CASE GetOwner(t)
  <2>1. At(t, "owner") /\ UNCHANGED << made, notes, doc >>
    BY <1>6 DEF GetOwner, cluster, stored
  <2>2. th'[t].left = Tail(th[t].left) /\ th'[t].op = th[t].op
    BY <1>t, <1>6, OwnerKeeps
  <2> QED BY <1>2, <2>1, <2>2, TailAdvances
<1>7. CASE ReadRuntimes(t)
  <2>1. At(t, "read") /\ UNCHANGED << made, notes, doc >>
    BY <1>7 DEF ReadRuntimes, cluster, stored
  <2>2. th'[t].left = Tail(th[t].left) /\ th'[t].op = th[t].op
    BY <1>t, <1>7, ReadKeeps
  <2> QED BY <1>2, <2>1, <2>2, TailAdvances
<1>8. CASE Build(t)
  <2>1. At(t, "build") /\ UNCHANGED << made, notes, doc >>
    BY <1>8 DEF Build, cluster, stored
  <2>2. th'[t].left = Tail(th[t].left) /\ th'[t].op = th[t].op
    BY <1>t, <1>8, BuildKeeps
  <2> QED BY <1>2, <2>1, <2>2, TailAdvances
<1>9. CASE Patch(t)
  <2>1. At(t, "patch") /\ Goes(t) /\ UNCHANGED << made, notes, doc >>
    BY <1>9 DEF Patch, cluster, stored
  <2> QED BY <1>2, <2>1, GoesAdvances
<1>10. CASE OpenKustomization(t)
  <2>1. At(t, "open") /\ Goes(t) /\ UNCHANGED << made, notes, doc >>
    BY <1>10 DEF OpenKustomization, cluster, stored
  <2> QED BY <1>2, <2>1, GoesAdvances
<1>11. CASE CloseKustomization(t)
  <2>1. At(t, "close") /\ Goes(t) /\ UNCHANGED << made, notes, doc >>
    BY <1>11 DEF CloseKustomization, cluster, stored
  <2> QED BY <1>2, <2>1, GoesAdvances
<1>12. CASE CreateJob(t)
  <2>1. At(t, "create") /\ (Goes(t) \/ Raise(t)) /\ UNCHANGED << made, notes, doc >>
    BY <1>12 DEF CreateJob, Applied, cluster, stored
  <2> QED BY <1>2, <2>1, GoesAdvances, JobAdvances
<1> QED
  BY <1>3, <1>4, <1>5, <1>6, <1>7, <1>8, <1>9, <1>10, <1>11, <1>12 DEF Configures, Preloads

--------------------------------------------------------------------------------
\* The create of every component finds the Pods it needs.
LEMMA CreateCreates ==
  ASSUME TypeInv, ~Trouble, Creates("whisk"), Ready(th["whisk"].left, Up, Running, made)
  PROVE  Advances
<1> DEFINE t == "whisk"
           L == th[t].left
<1>t. "whisk" \in Threads
  BY DEF Threads
<1>0. ASSUME L # << >>
      PROVE  /\ Now(t) = L[1] /\ Fits(Now(t))
             /\ Now(t).do \in Needs => pods[Host(Now(t).do)].up
             /\ Now(t).do = "pick" => pods[Now(t).w].n > 0
             /\ Now(t).do = "bucket" => Now(t).c \notin made
  BY <1>t, <1>0, FirstStep, FirstReady
<1>p. pods \in [Workloads -> [n : Nat, up : BOOLEAN, v : 0 .. bound.versions]]
  BY DEF TypeInv, Values, ThePods
<1>1. CASE Apply(t)
  <2>1. /\ L # << >> /\ Now(t).do = "apply" /\ Goes(t) /\ UNCHANGED << made, notes, doc >>
        /\ pods' = IF pods[Now(t).w].n > 0 THEN pods
                   ELSE [pods EXCEPT ![Now(t).w].n = 1, ![Now(t).w].v = version]
    BY <1>1 DEF Apply, At, stored
  <2>2. Now(t).w \in Workloads
    BY <1>0, <2>1 DEF Fits, Suits
  <2>3. pods'[Now(t).w].n > 0
    BY <1>p, <2>1, <2>2
  <2>4. Effect(Now(t))
    BY <2>1, <2>3 DEF Effect
  <2> QED BY <2>1, <2>4, GoesAdvances
<1>2. CASE PickPod(t)
  <2>1. L # << >> /\ Now(t).do = "pick" /\ UNCHANGED << made, notes, doc >>
        /\ th' = [th EXCEPT ![t].left = Tail(@), ![t].pod = pods[Now(t).w].n]
    BY <1>2 DEF PickPod, At, cluster, stored
  <2> DEFINE p == pods[Now(t).w].n
             y == [th[t] EXCEPT !.left = Tail(@), !.pod = p]
  <2>2. y.left = Tail(L) /\ y.op = th[t].op
    BY <1>t, ThreadIs DEF Record
  <2>3. th' = [th EXCEPT ![t] = y]
    BY <2>1
  <2> HIDE DEF y
  <2>4. th'[t].left = Tail(L) /\ th'[t].op = th[t].op
    BY <1>t, <2>2, <2>3, Replacing
  <2>5. Effect(Now(t))
    BY <2>1 DEF Effect
  <2> QED BY <2>1, <2>4, <2>5, TailAdvances
<1>3. CASE NoPod(t)
  <2>1. L # << >> /\ Now(t).do = "pick" /\ (pods[Now(t).w].n = 0 \/ Trouble)
    BY <1>3 DEF NoPod, At
  <2>2. pods[Now(t).w].n > 0
    BY <1>0, <2>1
  <2> QED BY <2>1, <2>2
<1>4. CASE WaitForPod(t)
  <2>1. /\ L # << >> /\ Now(t).do = "wait" /\ Goes(t) /\ UNCHANGED << made, notes, doc >>
        /\ pods[Now(t).w].up
    BY <1>4 DEF WaitForPod, At, cluster, stored
  <2>2. Effect(Now(t))
    BY <2>1 DEF Effect
  <2> QED BY <2>1, <2>2, GoesAdvances
<1>5. CASE Annotate(t)
  <2>1. /\ L # << >> /\ Now(t).do = "note" /\ Goes(t) /\ UNCHANGED << made, doc >>
        /\ notes' = notes \cup ToSet(Keys[Now(t).c])
    BY <1>5 DEF Annotate, At, cluster
  <2>2. Effect(Now(t))
    BY <2>1 DEF Effect
  <2> QED BY <2>1, <2>2, GoesAdvances
<1>6. CASE AnnotateFails(t)
  BY <1>6 DEF AnnotateFails
<1>7. CASE Account(t)
  <2>1. /\ L # << >> /\ Now(t).do = "account" /\ UNCHANGED << notes, doc >>
        /\ pods["redis"].up => made' = made \cup {"redis user"} /\ Goes(t)
    BY <1>7 DEF Account, At, stored
  <2>2. pods["redis"].up
    BY <1>0, <2>1 DEF Needs, Host
  <2>3. Effect(Now(t))
    BY <2>1, <2>2 DEF Effect
  <2> QED BY <2>1, <2>2, <2>3, GoesAdvances
<1>8. CASE AddUser(t)
  <2>1. /\ L # << >> /\ Now(t).do = "user" /\ UNCHANGED << notes, doc >>
        /\ pods["minio"].up => made' = made \cup {"minio user"} /\ Goes(t)
    BY <1>8 DEF AddUser, At, stored
  <2>2. pods["minio"].up
    BY <1>0, <2>1 DEF Needs, Host
  <2>3. Effect(Now(t))
    BY <2>1, <2>2 DEF Effect
  <2> QED BY <2>1, <2>2, <2>3, GoesAdvances
<1>9. CASE MakeBucket(t)
  <2>0. L # << >> /\ Now(t).do = "bucket" /\ UNCHANGED << notes, doc >>
    BY <1>9 DEF MakeBucket, At, stored
  <2>2. pods["minio"].up /\ Now(t).c \notin made
    BY <1>0, <2>0 DEF Needs, Host
  <2>1. made' = made \cup {Now(t).c} /\ Goes(t)
    BY <1>9, <2>2 DEF MakeBucket, Gain
  <2>3. Effect(Now(t))
    BY <2>0, <2>1 DEF Effect
  <2> QED BY <2>0, <2>1, <2>3, GoesAdvances
<1>10. CASE Grant(t)
  <2>1. /\ L # << >> /\ Now(t).do = "grant" /\ Goes(t) /\ UNCHANGED << notes, doc >>
        /\ pods["minio"].up => made' = made \cup {"policy"}
    BY <1>10 DEF Grant, At, stored
  <2>2. pods["minio"].up
    BY <1>0, <2>1 DEF Needs, Host
  <2>3. Effect(Now(t))
    BY <2>1, <2>2 DEF Effect
  <2> QED BY <2>1, <2>2, <2>3, GoesAdvances
<1>11. CASE WaitForService(t)
  <2>1. /\ L # << >> /\ Now(t).do = "service" /\ UNCHANGED << notes, doc >>
        /\ pods["postgres"].up => made' = made \cup {"postgres"} /\ Goes(t)
    BY <1>11 DEF WaitForService, At, stored
  <2>2. pods["postgres"].up
    BY <1>0, <2>1 DEF Needs, Host
  <2>3. Effect(Now(t))
    BY <2>1, <2>2 DEF Effect
  <2> QED BY <2>1, <2>2, <2>3, GoesAdvances
<1>12. CASE Endpoint(t)
  <2>1. /\ L # << >> /\ Now(t).do = "endpoint" /\ Goes(t) /\ UNCHANGED << made, doc >>
        /\ notes \subseteq notes'
    BY <1>12 DEF Endpoint, At, cluster
  <2>2. Effect(Now(t))
    BY <2>1 DEF Effect
  <2> QED BY <2>1, <2>2, GoesAdvances
<1> QED
  BY <1>1, <1>2, <1>3, <1>4, <1>5, <1>6, <1>7, <1>8, <1>9, <1>10, <1>11, <1>12 DEF Creates

\* What is done last.
LEMMA CreateFinishes ==
  ASSUME TypeInv, ~Trouble, Finishes("whisk"), th["whisk"].op = "create"
  PROVE  Advances \/ Reports
<1> DEFINE t == "whisk"
           L == th[t].left
<1>t. "whisk" \in Threads
  BY DEF Threads
<1>1. CASE Save(t)
  <2>1. /\ L # << >> /\ Now(t).do = "save" /\ Goes(t) /\ UNCHANGED << made, notes >>
        /\ doc' = doc \/ doc' = Document(notes)
    BY <1>1 DEF Save, At, cluster
  <2>2. Effect(Now(t))
    BY <2>1 DEF Effect
  <2> QED BY <2>1, <2>2, GoesAdvances
<1>2. ASSUME NEW done \in BOOLEAN, Result(t, done), At(t, "deploy"),
             UNCHANGED << made, notes, doc, pods >>
      PROVE  Reports
  <2> DEFINE x == IF done THEN "created" ELSE "failed"
             M == Of("result", "none", << x >>)
             y == [th[t] EXCEPT !.left = M]
  <2>1. y.left = M /\ y.op = th[t].op /\ x \in {"created", "failed"}
    BY <1>t, ThreadIs DEF Record
  <2>2. th' = [th EXCEPT ![t] = y]
    BY <1>2 DEF Result
  <2> HIDE DEF y
  <2>3. th'[t].left = M /\ th'[t].op = th[t].op
    BY <1>t, <2>1, <2>2, Replacing
  <2>4. L # << >> /\ L[1].do = "deploy"
    BY <1>t, <1>2, FirstStep DEF At
  <2> QED BY <1>2, <2>1, <2>3, <2>4 DEF Reports
<1>3. CASE Deploy(t)
  <2>1. At(t, "deploy") /\ Result(t, TRUE) /\ UNCHANGED << made, notes, doc, pods >>
    BY <1>3 DEF Deploy, cluster
  <2> QED BY <1>2, <2>1
<1>4. CASE DeployGivesUp(t)
  <2>1. At(t, "deploy") /\ Result(t, FALSE) /\ UNCHANGED << made, notes, doc, pods >>
    BY <1>4 DEF DeployGivesUp, cluster, stored
  <2> QED BY <1>2, <2>1
<1>5. CASE DeployFails(t)
  BY <1>5 DEF DeployFails
<1>6. CASE Report(t)
  <2>1. /\ L # << >> /\ Now(t).do \in {"created", "failed"} /\ Goes(t)
        /\ UNCHANGED << made, notes, doc >>
    BY <1>6 DEF Report, At, cluster
  <2>2. Effect(Now(t))
    BY <2>1 DEF Effect
  <2> QED BY <2>1, <2>2, GoesAdvances
<1>7. CASE Delete(t)
  <2>1. L # << >> /\ Now(t).do = "delete" /\ Goes(t) /\ UNCHANGED << made, notes, doc >>
    BY <1>7 DEF Delete, At, cluster, stored
  <2>2. Effect(Now(t))
    BY <2>1 DEF Effect
  <2> QED BY <2>1, <2>2, GoesAdvances
<1> QED
  BY <1>1, <1>3, <1>4, <1>5, <1>6, <1>7 DEF Finishes

\* No call fails, so that a creation that is ready ends only at its end.
LEMMA CreateStep ==
  ASSUME TypeInv, OrderInv, Working("whisk"), th["whisk"].op = "create",
         Ready(th["whisk"].left, Up, Running, made), troubles = 0, troubles' = 0
  PROVE  Advances \/ Reports \/ (End("whisk") /\ th["whisk"].left = << >>)
<1> DEFINE L == th["whisk"].left
<1>t. "whisk" \in Threads
  BY DEF Threads
<1>1. ~Trouble
  BY NoTrouble
<1>2. \A i \in 1 .. Len(L) : L[i].do \notin {"apihost", "forget", "remove"}
  <2>1. Worker("whisk", th["whisk"], troubles + 1, bound.versions, Len(WhiskCreate))
    BY <1>t, ThreadIs
  <2>2. \A i \in 1 .. Len(L) : L[i].do # "remove"
    BY <2>1 DEF Worker
  <2>3. \A i \in 1 .. Len(L) : L[i].do \notin {"apihost", "forget"}
    BY DEF OrderInv, Handles
  <2> QED BY <2>2, <2>3
<1>3. ~CallFails("whisk")
  BY <1>1 DEF CallFails
<1>4. End("whisk") => L = << >>
  BY DEF End
<1> QED
  BY <1>1, <1>2, <1>3, <1>4, CreateConfigures, CreateCreates, CreateFinishes DEF Working

--------------------------------------------------------------------------------
\* An installation is to be made, and its creation has not begun; it has.
Waiting ==
  obj = "absent" \/ (obj = "present" /\ due = "create" /\ th["whisk"].op = "idle")
Going == obj = "present" /\ ~(due = "create" /\ th["whisk"].op = "idle")

\* The keys that are wanted are given or will be by the steps L, and so are the
\* rights; a document has the keys given, and is the last to have them.
Promised(L, given, there, kept) ==
  /\ \A c \in Wanted : ToSet(Keys[c]) \subseteq given \/ Gives(L, c)
  /\ "minio" \in Comps => "policy" \in there \/ Grants(L)
  /\ kept # {} =>
       /\ kept = Document(given)
       /\ \A x \in Steps(L) : x.do \notin {"note", "endpoint"}
GivenInv ==
  troubles = 0 =>
    /\ Waiting => made = {} /\ doc = {}
    /\ Going => LET L == th["whisk"].left IN
                Ready(L, Up, Running, made) /\ Promised(L, notes, made, doc)

LEMMA SameWanted ==
  ASSUME bound' = bound
  PROVE  Wanted' = Wanted /\ Comps' = Comps
BY DEF Wanted, Comps

\* What is to be shown of a creation that has begun, and of the others.
LEMMA GivenThen ==
  ASSUME bound' = bound, ~Waiting', NEW M, M = th'["whisk"].left,
         Ready(M, Up', Running', made'), Promised(M, notes', made', doc')
  PROVE  GivenInv'
<1>1. Wanted' = Wanted /\ Comps' = Comps
  BY SameWanted
<1>2. Promised(M, notes', made', doc')
  OBVIOUS
<1>3. /\ \A c \in Wanted' : ToSet(Keys[c]) \subseteq notes' \/ Gives(M, c)
      /\ "minio" \in Comps' => "policy" \in made' \/ Grants(M)
      /\ doc' # {} => doc' = Document(notes')
                        /\ \A x \in Steps(M) : x.do \notin {"note", "endpoint"}
  BY <1>1, <1>2 DEF Promised
<1> QED
  BY <1>3 DEF GivenInv, Promised

LEMMA GivenElse ==
  ASSUME ~Going', Waiting' => made' = {} /\ doc' = {}
  PROVE  GivenInv'
BY DEF GivenInv

\* What a step gives need not be given any more.
LEMMA PromisedDrop ==
  ASSUME TypeInv, NEW L, L = th["whisk"].left, NEW M, M = th'["whisk"].left, Advances,
         Tails(L, 1), Promised(L, notes, made, doc)
  PROVE  Promised(M, notes', made', doc')
<1>t. "whisk" \in Threads
  BY DEF Threads
<1>1. /\ L \in Seq(Step) /\ L # << >> /\ Drop(L, M, 1) /\ Effect(L[1])
      /\ notes \subseteq notes' /\ made \subseteq made'
  BY <1>t, ThreadIs DEF Advances
<1>2. Steps(M) \subseteq Steps(L) /\ Steps(L) \subseteq {L[1]} \cup Steps(M)
  BY <1>1, StepsDrop
<1>3. L[1] \in Steps(L)
  <2>1. 1 \in 1 .. Len(L)
    BY <1>1
  <2> QED BY <2>1 DEF Steps
<1>4. \A c \in Wanted : ToSet(Keys[c]) \subseteq notes' \/ Gives(M, c)
  <2> SUFFICES ASSUME NEW c \in Wanted, Gives(L, c), ~Gives(M, c)
               PROVE  ToSet(Keys[c]) \subseteq notes'
    BY <1>1 DEF Promised
  <2>1. L[1].do = "note" /\ L[1].c = c
    BY <1>2 DEF Gives
  <2> QED BY <1>1, <2>1 DEF Effect
<1>5. "minio" \in Comps => "policy" \in made' \/ Grants(M)
  BY <1>1, <1>2 DEF Promised, Grants, Effect
<1>6. ASSUME doc' # {}
      PROVE  doc' = Document(notes') /\ \A x \in Steps(M) : x.do \notin {"note", "endpoint"}
  <2>1. CASE doc' = doc
    <3>1. doc = Document(notes) /\ \A x \in Steps(L) : x.do \notin {"note", "endpoint"}
      BY <1>6, <2>1 DEF Promised
    <3>2. notes' = notes
      BY <1>1, <1>3, <3>1 DEF Effect
    <3> QED BY <1>2, <2>1, <3>1, <3>2
  <2>2. CASE L[1].do = "save" /\ doc' = Document(notes)
    <3>1. notes' = notes
      BY <1>1, <2>2 DEF Effect
    <3>2. \A j \in 1 + 1 .. Len(L) : L[j].do \notin Giving
      BY <2>2 DEF Tails, Stored
    <3>3. \A i \in 1 .. Len(M) : M[i] = L[i + 1] /\ i + 1 \in 1 + 1 .. Len(L)
      BY <1>1, DropOne
    <3>4. \A x \in Steps(M) : x.do \notin Giving
      BY <3>2, <3>3 DEF Steps
    <3> QED BY <2>2, <3>1, <3>4 DEF Giving
  <2> QED BY <1>1, <2>1, <2>2 DEF Effect
<1> QED
  BY <1>4, <1>5, <1>6 DEF Promised

\* Without trouble Pods stay while the object is there.
LEMMA PodsGrow ==
  ASSUME TypeInv, Next, ~Trouble, obj # "gone"
  PROVE  Up \subseteq Up' /\ Running \subseteq Running'
<1>p. pods \in [Workloads -> [n : Nat, up : BOOLEAN, v : 0 .. bound.versions]]
  BY DEF TypeInv, Values, ThePods
<1> SUFFICES ASSUME NEW w \in Workloads
             PROVE  /\ pods[w].n > 0 => pods'[w].n > 0
                    /\ w # "controller" /\ pods[w].up => pods'[w].up
  BY DEF Up, Running
<1>1. \/ UNCHANGED pods \/ Rollout \/ \E t \in Threads : Working(t) /\ Apply(t)
      \/ \E x \in Workloads : PodReady(x) \/ PodLost(x)
  BY Outside DEF cluster, Frame, Collect
<1>2. CASE Rollout
  <2>1. pods' = pods
          \/ pods' = [pods EXCEPT !["controller"].up = FALSE, !["controller"].v = version]
    BY <1>2 DEF Rollout
  <2> QED BY <1>p, <2>1 DEF Workloads
<1>3. ASSUME NEW t \in Threads, Apply(t)
      PROVE  /\ pods[w].n > 0 => pods'[w].n > 0
             /\ pods[w].up => pods'[w].up
  <2>1. Now(t).w \in Workloads
    BY <1>3, FirstStep DEF Apply, At, Fits, Suits
  <2>2. pods' = IF pods[Now(t).w].n > 0 THEN pods
                ELSE [pods EXCEPT ![Now(t).w].n = 1, ![Now(t).w].v = version]
    BY <1>3 DEF Apply
  <2> QED BY <1>p, <2>1, <2>2
<1>4. ASSUME NEW x \in Workloads, PodReady(x)
      PROVE  /\ pods[w].n > 0 => pods'[w].n > 0
             /\ pods[w].up => pods'[w].up
  BY <1>p, <1>4 DEF PodReady
<1>5. \A x \in Workloads : ~PodLost(x)
  BY DEF PodLost
<1> QED
  BY <1>1, <1>2, <1>3, <1>4, <1>5

--------------------------------------------------------------------------------
\* Who works has a handler to end or a step to do.
LEMMA Busy ==
  ASSUME NEW t, Working(t)
  PROVE  th[t].op # "idle" \/ th[t].left # << >>
<1>1. CASE End(t) \/ CallFails(t)
  BY <1>1 DEF End, CallFails
<1>2. CASE Preloads(t)
  BY <1>2 DEF Preloads, ReadRuntimes, Patch, OpenKustomization, CloseKustomization, Build,
              CreateJob, RemoveByOwner, RemoveBySpec, At
<1>3. CASE Configures(t)
  BY <1>3 DEF Configures, Clean, Configure, Apihost, GetOwner, At
<1>4. CASE Creates(t)
  BY Zenon, <1>4 DEF Creates, Apply, PickPod, NoPod, WaitForPod, Annotate, AnnotateFails, Account,
                     AddUser, MakeBucket, Grant, WaitForService, Endpoint, At
<1>5. CASE Finishes(t)
  BY <1>5 DEF Finishes, Save, Deploy, DeployFails, DeployGivesUp, Report, Delete, At
<1> QED
  BY <1>1, <1>2, <1>3, <1>4, <1>5 DEF Working

\* The handler that runs while nothing has failed, and what is there for it.
LEMMA HandlerIs ==
  ASSUME TypeInv, TurnInv, troubles = 0
  PROVE  /\ th["whisk"].op \in {"idle", "create", "delete"}
         /\ th["whisk"].op = "create" => obj = "present" /\ due = "create"
         /\ th["whisk"].op = "delete" => obj = "deleting"
         /\ th["whisk"].op = "idle" => th["whisk"].left = << >>
         /\ obj = "absent" => due = "none" /\ th["whisk"].op = "idle"
<1>t. "whisk" \in Threads
  BY DEF Threads
<1>1. Worker("whisk", th["whisk"], troubles + 1, bound.versions, Len(WhiskCreate))
  BY <1>t, ThreadIs
<1>2. TheObject
  BY DEF TypeInv, Values
<1> QED
  BY <1>1, <1>2 DEF Worker, TurnInv, TheObject

\* A step of the creation.
LEMMA GivenCreates ==
  ASSUME TypeInv, Next, OrderInv, TurnInv, GivenInv, troubles = 0, troubles' = 0,
         Working("whisk"), th["whisk"].op = "create"
  PROVE  GivenInv'
<1> DEFINE L == th["whisk"].left
           M == th'["whisk"].left
<1>t. "whisk" \in Threads
  BY DEF Threads
<1>1. obj = "present" /\ due = "create" /\ Frame("whisk") /\ bound' = bound
  BY <1>t, HandlerIs, Frames, StepBounds
<1>2. Ready(L, Up, Running, made) /\ Promised(L, notes, made, doc)
  BY <1>1 DEF GivenInv, Going
<1>3. L \in Seq(Step) /\ Chain(L)
  BY <1>t, ThreadIs
<1>4. Up \subseteq Up' /\ Running \subseteq Running'
  BY <1>1, NoTrouble, PodsGrow
<1>5. ~End("whisk") => UNCHANGED << obj, due >>
  BY <1>1 DEF Frame
<1>6. CASE Advances
  <2>1. /\ L # << >> /\ Drop(L, M, 1) /\ Effect(L[1]) /\ th'["whisk"].op = "create"
        /\ 1 \in 1 .. Len(L)
    BY <1>3, <1>6 DEF Advances
  <2>2. UNCHANGED << obj, due >>
    BY <1>5, <2>1 DEF End
  <2>3. ~Waiting'
    BY <1>1, <2>1, <2>2 DEF Waiting
  <2>4. Tails(L, 1) /\ Fits(L[1])
    BY <1>2, <1>3, <2>1 DEF Ready, Chain, Linked
  <2>5. L[1].do = "wait" /\ L[1].w # "controller" => L[1].w \in Up'
    <3>1. L[1].do = "wait" /\ L[1].w # "controller" => L[1].w \in Up
      BY <2>1, <2>4 DEF Effect, Up, Fits, Suits
    <3> QED BY <1>4, <3>1
  <2>6. L[1].do = "apply" => L[1].w \in Running'
    BY <2>1, <2>4 DEF Effect, Running, Fits, Suits
  <2>7. \A x \in made' : x \in made \/ x \notin {"data bucket", "web bucket"}
                           \/ (L[1].do = "bucket" /\ x = L[1].c)
    BY <2>1 DEF Effect
  <2>8. Promised(M, notes', made', doc')
    BY <1>2, <1>6, <2>4, PromisedDrop
  <2> HIDE DEF L, M
  <2>9. Ready(M, Up', Running', made')
    BY ONLY <1>2, <1>3, <1>4, <2>1, <2>5, <2>6, <2>7, ReadyDrop
  <2> QED BY <1>1, <2>3, <2>8, <2>9, GivenThen DEF M
<1>7. CASE Reports
  <2>1. /\ L # << >> /\ L[1].do = "deploy" /\ UNCHANGED << made, notes, doc >>
        /\ th'["whisk"].op = "create" /\ 1 \in 1 .. Len(L)
        /\ \E x \in {"created", "failed"} : M = Of("result", "none", << x >>)
    BY <1>3, <1>7 DEF Reports
  <2>2. UNCHANGED << obj, due >>
    BY <1>5, <2>1 DEF End
  <2>3. ~Waiting'
    BY <1>1, <2>1, <2>2 DEF Waiting
  <2>4. Part(M, {}, {}) /\ \A y \in Steps(M) : y.do \in {"created", "failed"}
    <3>1. PICK x \in {"created", "failed"} : M = Of("result", "none", << x >>)
      BY <2>1
    <3>2. "result" \in Groups /\ x \in Dos \ {"pick"} /\ x \notin Needs
      BY DEF Groups, Dos, Needs
    <3>3. Part(Of("result", "none", << x >>), {}, {})
          /\ Are(Of("result", "none", << x >>), "result", "none", {x})
      BY <3>2, OnePart
    <3> QED BY <3>1, <3>3 DEF Are
  <2>5. \A y \in Steps(L) : y = L[1] \/ y.do \notin Giving
    <3>1. Tails(L, 1) /\ L[1].do \in Stored
      BY <1>2, <2>1 DEF Ready, Stored
    <3>2. \A j \in 1 .. Len(L) : j = 1 \/ j \in 1 + 1 .. Len(L)
      BY <1>3
    <3> QED BY <3>1, <3>2 DEF Tails, Steps
  <2>6. Promised(M, notes', made', doc')
    BY <1>2, <2>1, <2>4, <2>5 DEF Promised, Gives, Grants, Giving
  <2> HIDE DEF L, M
  <2>7. \A i \in 1 .. Len(M) : M[i].do # "bucket"
    BY <2>4 DEF Steps
  <2>8. Ready(M, {}, {}, {}) /\ {} \subseteq Up' /\ {} \subseteq Running'
    BY <2>4 DEF Part
  <2>9. Ready(M, Up', Running', made')
    BY ONLY <2>7, <2>8, ReadyStays
  <2> QED BY <1>1, <2>3, <2>6, <2>9, GivenThen DEF M
<1>8. CASE End("whisk") /\ L = << >>
  <2>1. /\ th' = [th EXCEPT !["whisk"] = Idle] /\ due' = "none" /\ obj' = obj
        /\ UNCHANGED << made, notes, doc >>
    BY <1>1, <1>8 DEF End, cluster, stored
  <2>i. Idle.left = << >>
    BY DEF Idle
  <2>2. M = << >>
    BY <1>t, <2>1, <2>i, Replacing
  <2>3. ~Waiting'
    BY <1>1, <2>1 DEF Waiting
  <2>4. Promised(M, notes', made', doc')
    BY <1>2, <1>8, <2>1, <2>2
  <2>5. Len(M) = 0
    BY <2>2
  <2> HIDE DEF M
  <2>6. Ready(M, Up', Running', made')
    BY <2>5 DEF Ready
  <2> QED BY <1>1, <2>3, <2>4, <2>6, GivenThen DEF M
<1> QED
  BY <1>2, <1>6, <1>7, <1>8, CreateStep

\* It begins.
LEMMA GivenBegins ==
  ASSUME TypeInv, TurnInv, GivenInv, troubles = 0, Begin
  PROVE  GivenInv'
<1>1. /\ th'["whisk"].left = Program[due] /\ th'["whisk"].op = due /\ th["whisk"].op = "idle"
      /\ due \in {"create", "resume", "delete"}
      /\ UNCHANGED << bound, obj, due, made, notes, doc >>
  BY BeginSets DEF Begin, object, cluster, stored
<1>2. TheObject
  BY DEF TypeInv, Values
<1>3. due = "create" => obj = "present"
  BY <1>2 DEF TurnInv, TheObject
<1>4. CASE due = "delete"
  <2>1. obj = "deleting"
    BY <1>2, <1>4 DEF TurnInv, TheObject
  <2> QED BY <1>1, <2>1, GivenElse DEF Waiting, Going
<1>5. CASE due = "create"
  <2> DEFINE M == th'["whisk"].left
  <2>1. M = WhiskCreate
    BY <1>1, <1>5 DEF Program
  <2>2. made = {} /\ doc = {}
    BY <1>1, <1>3, <1>5 DEF GivenInv, Waiting
  <2>3. ~Waiting'
    BY <1>1, <1>3, <1>5 DEF Waiting
  <2>4. /\ Ready(M, {}, {}, {}) /\ {} \subseteq Up' /\ {} \subseteq Running'
        /\ made' = {} /\ doc' = {}
        /\ \A c \in Wanted : Gives(M, c)
        /\ "minio" \in Comps => Grants(M)
    BY <1>1, <2>1, <2>2, CreateReady
  <2> HIDE DEF M
  <2>5. Ready(M, Up', Running', made')
    BY ONLY <2>4, ReadyStays
  <2>6. Promised(M, notes', made', doc')
    BY <2>4 DEF Promised
  <2> QED BY <1>1, <2>3, <2>5, <2>6, GivenThen DEF M
<1>6. CASE due = "resume"
  BY <1>6 DEF TurnInv
<1> QED
  BY <1>1, <1>4, <1>5, <1>6

\* All around it leaves it its Pods, and what was given.
LEMMA GivenAround ==
  ASSUME TypeInv, Next, GivenInv, troubles = 0, troubles' = 0, th'["whisk"] = th["whisk"],
         UNCHANGED << bound, obj, due, made, notes, doc >>
  PROVE  GivenInv'
<1> DEFINE L == th["whisk"].left
<1>1. CASE Going
  <2>1. Ready(L, Up, Running, made) /\ Promised(L, notes, made, doc)
    BY <1>1 DEF GivenInv
  <2>2. Up \subseteq Up' /\ Running \subseteq Running'
    BY <1>1, NoTrouble, PodsGrow DEF Going
  <2>3. ~Waiting'
    BY <1>1 DEF Waiting, Going
  <2> HIDE DEF L
  <2>4. \A i \in 1 .. Len(L) : L[i].do = "bucket" /\ L[i].c \in made => L[i].c \in made
    OBVIOUS
  <2>5. Ready(L, Up', Running', made)
    BY ONLY <2>1, <2>2, <2>4, ReadyStays
  <2> QED BY <2>1, <2>3, <2>5, GivenThen DEF L
<1>2. CASE ~Going
  BY <1>2, GivenElse DEF GivenInv, Going, Waiting
<1> QED
  BY <1>1, <1>2

LEMMA GivenInvKept ==
  ASSUME TypeInv, Next, OrderInv, TurnInv, GivenInv
  PROVE  GivenInv'
<1> SUFFICES ASSUME troubles' = 0
             PROVE  GivenInv'
  BY DEF GivenInv
<1>t. "whisk" \in Threads /\ "watcher" \in Threads /\ Threads = {"whisk", "watcher"}
  BY DEF Threads
<1>0. troubles = 0 /\ ~Trouble
  <2>1. troubles \in Nat /\ troubles' \in {troubles, troubles + 1}
    BY Sizes, StepBounds DEF TypeInv
  <2> QED BY <2>1, NoTrouble
<1>1. CASE Begin
  BY <1>0, <1>1, GivenBegins
<1>2. CASE Working("whisk")
  <2>1. th["whisk"].op # "idle"
    BY <1>0, <1>2, Busy, HandlerIs
  <2>2. CASE th["whisk"].op = "create"
    BY <1>0, <1>2, <2>2, GivenCreates
  <2>3. CASE th["whisk"].op = "delete"
    <3>1. obj = "deleting"
      BY <1>0, <2>3, HandlerIs
    <3>2. obj' \in {"deleting", "gone"}
      BY <1>t, <1>2, <3>1, Frames DEF Frame, End
    <3> QED BY <3>2, GivenElse DEF Waiting, Going
  <2> QED BY <1>0, <2>1, <2>2, <2>3, HandlerIs
<1>3. CASE AddWhisk
  <2>1. obj = "absent" /\ obj' = "present" /\ due' = "create" /\ UNCHANGED << th, made, doc >>
    BY <1>3 DEF AddWhisk, cluster, stored
  <2>2. made = {} /\ doc = {} /\ th["whisk"].op = "idle"
    BY <1>0, <2>1, HandlerIs DEF GivenInv, Waiting
  <2> QED BY <2>1, <2>2, GivenElse DEF Going
<1>4. CASE DiscardWhisk
  <2>1. obj' = "deleting"
    BY <1>4 DEF DiscardWhisk
  <2> QED BY <2>1, GivenElse DEF Waiting, Going
<1>5. CASE \/ EditRuntimes \/ DatabasesMade \/ Collect \/ \E w \in Workloads : PodReady(w)
           \/ \E found \in BOOLEAN : Watch(found) \/ Rollout
  <2>1. UNCHANGED << bound, obj, due, made, notes, doc >>
    BY <1>5 DEF EditRuntimes, DatabasesMade, Collect, PodReady, Watch, Rollout, object, cluster,
                stored
  <2>2. th'["whisk"] = th["whisk"]
    <3>1. CASE UNCHANGED th
      BY <3>1
    <3>2. CASE \E found \in BOOLEAN : Watch(found) \/ Rollout
      BY <3>2, WatchSets, RolloutSets
    <3> QED BY <1>5, <3>1, <3>2 DEF EditRuntimes, DatabasesMade, Collect, PodReady
  <2> QED BY <1>0, <2>1, <2>2, GivenAround
<1>6. CASE Restart \/ \E w \in Workloads : PodLost(w)
  BY <1>0, <1>6 DEF Restart, PodLost
<1>7. CASE Working("watcher")
  <2>1. th'["whisk"] = th["whisk"]
    BY <1>t, <1>7, Motions DEF Motion
  <2>2. End("watcher") \/ Preloads("watcher")
    BY <1>0, <1>7 DEF Working, CallFails
  <2>3. th["watcher"].op \in {"idle", "watch"} /\ due \in {"none", "create", "resume", "delete"}
    <3>1. Worker("watcher", th["watcher"], troubles + 1, bound.versions, Len(WhiskCreate))
      BY <1>t, ThreadIs
    <3> QED BY <3>1 DEF Worker, TypeInv, Values, TheObject
  <2>4. UNCHANGED << bound, obj, due, made, notes, doc >>
    <3>1. CASE End("watcher")
      BY <2>3, <3>1 DEF End, cluster, stored
    <3>2. CASE Preloads("watcher")
      BY <3>2 DEF Preloads, ReadRuntimes, Patch, OpenKustomization, CloseKustomization, Build,
                  CreateJob, RemoveByOwner, RemoveBySpec, object, cluster, stored
    <3> QED BY <2>2, <3>1, <3>2
  <2> QED BY <1>0, <2>1, <2>4, GivenAround
<1> QED
  BY <1>1, <1>2, <1>3, <1>4, <1>5, <1>6, <1>7, <1>t, NextIs DEF Around

LEMMA GivenInit == Init => GivenInv
<1> SUFFICES ASSUME Init
             PROVE  GivenInv
  OBVIOUS
<1>1. obj = "absent" /\ made = {} /\ doc = {}
  BY DEF Init
<1> QED
  BY <1>1 DEF GivenInv, Going

\* A creation in which no call fails gives every key of what is switched on, with
\* the rights to use the buckets, and what is stored of it are the keys given:
\* no handler goes on before the Pod it calls is up (main.py: whisk_create and
\* the create of every component, update_nuvolaris_metadata).
THEOREM KeysCorrect == Spec => []KeysGiven
<1>1. GivenInv /\ TypeInv => KeysGiven
  <2> SUFFICES ASSUME GivenInv, TypeInv, Settled, obj = "present"
               PROVE  /\ \A c \in Wanted : ToSet(Keys[c]) \subseteq notes
                      /\ "minio" \in Comps => "policy" \in made
                      /\ doc # {} => doc = Document(notes)
    BY DEF KeysGiven
  <2>1. troubles = 0 /\ Going
    BY DEF Settled, Resting, Going
  <2>2. th["whisk"].left = << >>
    <3>1. "whisk" \in Threads /\ th["whisk"].op = "idle"
      BY DEF Settled, Resting, Threads
    <3> QED BY <3>1, ThreadIs DEF Worker
  <2>3. Promised(<< >>, notes, made, doc)
    BY <2>1, <2>2 DEF GivenInv
  <2>4. Steps(<< >>) = {}
    BY DEF Steps
  <2> QED BY <2>3, <2>4 DEF Promised, Gives, Grants
<1>2. GivenInv /\ TypeInv /\ JobsInv /\ [Next]_vars => GivenInv'
  <2>1. ASSUME GivenInv, UNCHANGED vars
        PROVE  GivenInv'
    BY <2>1 DEF vars, object, cluster, stored, GivenInv, Waiting, Going, Up, Running, Promised,
                Wanted, Comps
  <2> QED BY <2>1, GivenInvKept DEF JobsInv
<1>3. Spec => []GivenInv
  BY <1>2, GivenInit, TypesAlways, JobsAlways, PTL DEF Spec
<1> QED
  BY <1>1, <1>3, TypesAlways, PTL
================================================================================
