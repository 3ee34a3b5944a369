---------------------------- MODULE Endpoints_proofs ----------------------------
(***************************************************************************)
(* Proofs about Endpoints, for every number of users, configurations,      *)
(* addresses and troubles.                                                 *)
(*                                                                         *)
(* The calls of a block are a sequence put together from parts; what is    *)
(* asked of them is asked of their members.                                *)
(***************************************************************************)
EXTENDS Endpoints, TLAPS, SequenceTheorems, FiniteSetTheorems

--------------------------------------------------------------------------------
\* Sequences and their members.
Members(s) == { s[i] : i \in DOMAIN s }
Listed(s) == s \in Seq(Members(s))

LEMMA NoMembers == Listed(<< >>) /\ Members(<< >>) = {}
<1>1. << >> \in Seq({}) /\ DOMAIN << >> = {}
  OBVIOUS
<1>2. Members(<< >>) = {}
  BY <1>1 DEF Members
<1> QED BY <1>1, <1>2 DEF Listed

LEMMA OneMember ==
  ASSUME NEW x PROVE Listed(<< x >>) /\ Members(<< x >>) = {x}
<1>1. << x >> \in Seq({x}) /\ DOMAIN << x >> = {1} /\ << x >>[1] = x
  OBVIOUS
<1>2. Members(<< x >>) = {x}
  BY <1>1 DEF Members
<1> QED BY <1>1, <1>2 DEF Listed

LEMMA CatMembers ==
  ASSUME NEW s, NEW t, Listed(s), Listed(t)
  PROVE  Listed(s \o t) /\ Members(s \o t) = Members(s) \cup Members(t)
<1> DEFINE S == Members(s) \cup Members(t)
           c == s \o t
<1>1. s \in Seq(S) /\ t \in Seq(S)
  BY SeqMonotonic DEF Listed
<1>m. Members(s) = { s[i] : i \in DOMAIN s } /\ Members(t) = { t[i] : i \in DOMAIN t }
  BY DEF Members
<1> HIDE DEF S
<1>2. /\ c \in Seq(S) /\ Len(c) = Len(s) + Len(t) /\ Len(s) \in Nat /\ Len(t) \in Nat
      /\ \A i \in 1 .. Len(c) : c[i] = IF i =< Len(s) THEN s[i] ELSE t[i - Len(s)]
      /\ DOMAIN s = 1 .. Len(s) /\ DOMAIN t = 1 .. Len(t) /\ DOMAIN c = 1 .. Len(c)
  BY <1>1, ConcatProperties
<1> HIDE DEF c
<1>3. ASSUME NEW i \in DOMAIN c PROVE c[i] \in Members(s) \cup Members(t)
  <2>1. CASE i =< Len(s)
    <3>1. i \in DOMAIN s
      BY <1>2, <2>1
    <3> QED BY <1>2, <1>m, <2>1, <3>1
  <2>2. CASE ~(i =< Len(s))
    <3>1. i - Len(s) \in DOMAIN t
      BY <1>2, <2>2
    <3> QED BY <1>2, <1>m, <2>2, <3>1
  <2> QED BY <2>1, <2>2
<1>4. ASSUME NEW i \in DOMAIN s PROVE i \in DOMAIN c /\ c[i] = s[i]
  <2>1. i \in DOMAIN c /\ i =< Len(s)
    BY <1>2
  <2> QED BY <1>2, <2>1
<1>5. ASSUME NEW i \in DOMAIN t PROVE i + Len(s) \in DOMAIN c /\ c[i + Len(s)] = t[i]
  <2>1. i + Len(s) \in DOMAIN c /\ ~(i + Len(s) =< Len(s)) /\ (i + Len(s)) - Len(s) = i
    BY <1>2
  <2> QED BY <1>2, <2>1
<1>6. Members(c) = Members(s) \cup Members(t)
  <2>1. Members(c) = { c[i] : i \in DOMAIN c }
    BY DEF Members
  <2> QED BY <1>3, <1>4, <1>5, <1>m, <2>1
<1> QED
  BY <1>2, <1>6 DEF c, S, Listed

\* Going on with what is left.
LEMMA Rest ==
  ASSUME NEW s, Listed(s), s # << >>
  PROVE  /\ Head(s) \in Members(s) /\ Listed(Tail(s)) /\ Tail(s) # s
         /\ Members(s) = Members(Tail(s)) \cup {Head(s)}
<1> DEFINE S == Members(s)
           r == Tail(s)
<1>1. s \in Seq(S)
  BY DEF Listed
<1>m. Members(s) = { s[i] : i \in DOMAIN s } /\ Members(r) = { r[i] : i \in DOMAIN r }
  BY DEF Members
<1> HIDE DEF S
<1>2. /\ r \in Seq(S) /\ Len(s) \in Nat /\ Len(s) > 0 /\ Len(r) = Len(s) - 1
      /\ \A i \in 1 .. Len(r) : r[i] = s[i + 1]
      /\ Head(s) = s[1] /\ DOMAIN s = 1 .. Len(s) /\ DOMAIN r = 1 .. Len(r)
  BY <1>1, HeadTailProperties
<1> HIDE DEF r
<1>3. ASSUME NEW i \in DOMAIN r PROVE i + 1 \in DOMAIN s /\ r[i] = s[i + 1]
  BY <1>2
<1>4. ASSUME NEW j \in DOMAIN s, j # 1 PROVE j - 1 \in DOMAIN r /\ r[j - 1] = s[j]
  <2>1. j - 1 \in DOMAIN r /\ (j - 1) + 1 = j
    BY <1>2, <1>4
  <2> QED BY <1>2, <2>1
<1>5. 1 \in DOMAIN s
  BY <1>2
<1>6. Members(s) = Members(r) \cup {s[1]} /\ s[1] \in Members(s)
  BY <1>3, <1>4, <1>5, <1>m
<1>7. r \in Seq(Members(r))
  <2>1. \A i \in DOMAIN r : r[i] \in Members(r)
    BY <1>m
  <2>2. r = [i \in 1 .. Len(r) |-> r[i]] /\ Len(r) \in Nat
    BY <1>2
  <2>3. r \in [1 .. Len(r) -> Members(r)]
    BY <1>2, <2>1, <2>2
  <2> QED BY <2>2, <2>3, SeqDef
<1>8. r # s
  BY <1>2
<1> QED
  BY <1>2, <1>6, <1>7, <1>8 DEF r, Listed

\* A sequence made element by element from another.
LEMMA Mapped ==
  ASSUME NEW s, Listed(s), NEW m, DOMAIN m = DOMAIN s, m = [i \in DOMAIN s |-> m[i]]
  PROVE  Listed(m)
<1>1. DOMAIN s = 1 .. Len(s) /\ Len(s) \in Nat
  BY DEF Listed
<1>2. \A i \in DOMAIN s : m[i] \in Members(m)
  BY DEF Members
<1>3. m \in [1 .. Len(s) -> Members(m)]
  BY <1>1, <1>2
<1>4. m \in Seq(Members(m))
  BY <1>1, <1>3, SeqDef
<1> QED BY <1>4 DEF Listed

LEMMA Listing ==
  ASSUME NEW S, NEW s \in Seq(S) PROVE Listed(s)
<1>1. DOMAIN s = 1 .. Len(s) /\ Len(s) \in Nat /\ s = [i \in 1 .. Len(s) |-> s[i]]
  OBVIOUS
<1>2. \A i \in DOMAIN s : s[i] \in Members(s)
  BY DEF Members
<1>3. s \in [1 .. Len(s) -> Members(s)]
  BY <1>1, <1>2
<1> QED BY <1>1, <1>3, SeqDef DEF Listed
--------------------------------------------------------------------------------
\* Whose an object is, and who calls for it.

\* Its name tells.
IdOwner(id) ==
  IF Len(id) = 2 \/ id[2] \in {"nuvolaris", "www-nuvolaris", "apihost"} THEN Whisk ELSE id[2]

\* A call is about the objects of the one whose handler makes it.
Mine(a, c) ==
  /\ c.do \in {"apply", "delete", "annotate", "raise"}
  /\ c.do \in {"apply", "delete"} => IdOwner(c.id) = a
  /\ c.do = "apply" => OwnerOf(c.rule.of) = a
  /\ c.do = "annotate" => a = Whisk
AllMine(a, s) == Listed(s) /\ \A c \in Members(s) : Mine(a, c)

LEMMA ActorsApart ==
  /\ Whisk \notin Users /\ "www-nuvolaris" \notin Users /\ "apihost" \notin Users
  /\ \A a \in Actor : OwnerOf(a) = a
BY UsersAssumption DEF Reserved, Whisk, Actor, OwnerOf

\* The names of a namespace are its owner's.
LEMMA NamesOwned ==
  ASSUME NEW c, NEW part, NEW ns \in Actor \cup {"www-nuvolaris"}
  PROVE  /\ ns \in Actor => IdOwner(ApiName(c, ns, part)) = ns
         /\ IdOwner(ApiMiddleware(ns, part)) = OwnerOf(ns)
         /\ IdOwner(StaticName(c, ns)) = OwnerOf(ns)
         /\ IdOwner(StaticMiddleware(ns)) = OwnerOf(ns)
<1>1. \A x, y : Len(<< x, y >>) = 2
  OBVIOUS
<1>2. \A x, y, z : Len(<< x, y, z >>) = 3 /\ << x, y, z >>[2] = y
  OBVIOUS
<1>3. \A x, y, z, w : Len(<< x, y, z, w >>) = 4 /\ << x, y, z, w >>[2] = y
  OBVIOUS
<1>4. ns \in Users => ns \notin {"nuvolaris", "www-nuvolaris", "apihost"}
  BY ActorsApart DEF Whisk
<1>5. ns \in Users \/ ns = "nuvolaris" \/ ns = "www-nuvolaris"
  BY DEF Actor, Whisk
<1>6. ns \in Actor => IdOwner(ApiName(c, ns, part)) = ns
  BY <1>1, <1>3, <1>4, ActorsApart DEF ApiName, IdOwner, Actor, Whisk
<1>7. IdOwner(ApiMiddleware(ns, part)) = OwnerOf(ns)
  BY <1>3, <1>4, <1>5 DEF ApiMiddleware, IdOwner, OwnerOf, Whisk
<1>8. IdOwner(StaticName(c, ns)) = OwnerOf(ns)
  BY <1>2, <1>4, <1>5 DEF StaticName, IdOwner, OwnerOf, Whisk
<1>9. IdOwner(StaticMiddleware(ns)) = OwnerOf(ns)
  BY <1>3, <1>4, <1>5 DEF StaticMiddleware, IdOwner, OwnerOf, Whisk
<1> QED
  BY <1>6, <1>7, <1>8, <1>9

LEMMA MineCat ==
  ASSUME NEW a, NEW s, NEW t, AllMine(a, s), AllMine(a, t) PROVE AllMine(a, s \o t)
BY CatMembers DEF AllMine

LEMMA MineWhen ==
  ASSUME NEW a, NEW s, NEW condition \in BOOLEAN, condition => AllMine(a, s)
  PROVE  AllMine(a, When(condition, s))
BY NoMembers DEF AllMine, When, Nothing

LEMMA MineOne ==
  ASSUME NEW a, NEW c, Mine(a, c) PROVE AllMine(a, << c >>)
BY OneMember DEF AllMine

LEMMA MineApply ==
  ASSUME NEW a, NEW id, NEW rule, IdOwner(id) = a, OwnerOf(rule.of) = a
  PROVE  AllMine(a, Apply(id, rule))
BY MineOne DEF Apply, Mine

LEMMA MineDelete ==
  ASSUME NEW a, NEW id, IdOwner(id) = a PROVE AllMine(a, Delete(id))
BY MineOne DEF Delete, Mine

LEMMA MineDeleteAll ==
  ASSUME NEW a, NEW ids, Listed(ids), \A i \in DOMAIN ids : IdOwner(ids[i]) = a
  PROVE  AllMine(a, DeleteAll(ids))
<1> DEFINE m == [i \in DOMAIN ids |-> [do |-> "delete", id |-> ids[i]]]
<1>1. Listed(m)
  BY Mapped
<1>2. \A i \in DOMAIN ids : Mine(a, m[i])
  BY DEF Mine
<1>3. Members(m) = { m[i] : i \in DOMAIN ids }
  BY DEF Members
<1> HIDE DEF m
<1>4. AllMine(a, m)
  BY <1>1, <1>2, <1>3 DEF AllMine
<1> QED BY <1>4 DEF m, DeleteAll

LEMMA MineMiddle ==
  ASSUME NEW a, NEW c, NEW ns, NEW mw, NEW to, IdOwner(mw) = a, OwnerOf(ns) = a
  PROVE  AllMine(a, Middle(c, ns, mw, to))
BY MineApply, MineWhen DEF Middle, Traefik

LEMMA MineExpose ==
  ASSUME NEW a \in Actor, NEW c, NEW part, NEW host
  PROVE  /\ AllMine(a, ApiMiddle(c, a, part)) /\ AllMine(a, ApiIngress(c, a, part, host))
         /\ AllMine(a, Expose(c, a, part, host))
<1>1. OwnerOf(a) = a /\ IdOwner(ApiName(c, a, part)) = a /\ IdOwner(ApiMiddleware(a, part)) = a
  BY NamesOwned, ActorsApart
<1>2. AllMine(a, ApiMiddle(c, a, part))
  BY <1>1, MineMiddle DEF ApiMiddle
<1>3. AllMine(a, ApiIngress(c, a, part, host))
  BY <1>1, MineApply DEF ApiIngress, Rule
<1> QED
  BY <1>2, <1>3, MineCat DEF Expose

LEMMA MineApi ==
  ASSUME NEW a \in Actor, NEW c, NEW host, NEW www \in BOOLEAN
  PROVE  AllMine(a, ApiCalls(c, a, host, www))
BY MineExpose, MineCat, MineWhen DEF ApiCalls

LEMMA MineStatic ==
  ASSUME NEW ns \in Actor \cup {"www-nuvolaris"}, NEW c, NEW bucket, NEW host
  PROVE  AllMine(OwnerOf(ns), StaticCalls(c, ns, bucket, host))
<1>1. AllMine(OwnerOf(ns), Middle(c, ns, StaticMiddleware(ns), << "static", bucket >>))
  BY NamesOwned, MineMiddle
<1>2. AllMine(OwnerOf(ns), Apply(StaticName(c, ns),
             Rule(c, ns, host, "/", << "static", bucket >>, StaticMiddleware(ns))))
  BY NamesOwned, MineApply DEF Rule
<1> QED
  BY <1>1, <1>2, MineCat DEF StaticCalls

LEMMA MineRemovals ==
  ASSUME NEW a \in Actor, NEW c, NEW parts, Listed(parts)
  PROVE  /\ AllMine(a, EndpointRemoval(c, a, parts))
         /\ \A part : AllMine(Whisk, MinioRemoval(c, part))
         /\ (\A i \in DOMAIN parts : parts[i] \in Actor \cup {"www-nuvolaris"}
                                       /\ OwnerOf(parts[i]) = a) =>
              AllMine(a, StaticRemoval(c, parts))
<1>1. AllMine(a, EndpointRemoval(c, a, parts))
  <2> DEFINE mws == [i \in DOMAIN parts |-> ApiMiddleware(a, parts[i])]
             ids == [i \in DOMAIN parts |-> ApiName(c, a, parts[i])]
  <2>1. Listed(mws) /\ Listed(ids)
    BY Mapped
  <2>2. AllMine(a, DeleteAll(mws))
    BY <2>1, NamesOwned, ActorsApart, MineDeleteAll
  <2>3. AllMine(a, DeleteAll(ids))
    BY <2>1, NamesOwned, MineDeleteAll
  <2> QED BY <2>2, <2>3, MineCat, MineWhen DEF EndpointRemoval, Traefik
<1>2. ASSUME NEW part PROVE AllMine(Whisk, MinioRemoval(c, part))
  <2>1. /\ IdOwner(ApiName(c, Whisk, part)) = Whisk
        /\ IdOwner(ApiMiddleware(Whisk, part)) = Whisk
    BY NamesOwned, ActorsApart DEF Actor
  <2> QED BY <2>1, MineDelete, MineCat, MineWhen DEF MinioRemoval, Traefik, Whisk
<1>3. ASSUME \A i \in DOMAIN parts : parts[i] \in Actor \cup {"www-nuvolaris"}
                                       /\ OwnerOf(parts[i]) = a
      PROVE  AllMine(a, StaticRemoval(c, parts))
  <2> DEFINE mws == [i \in DOMAIN parts |-> StaticMiddleware(parts[i])]
             ids == [i \in DOMAIN parts |-> StaticName(c, parts[i])]
  <2>1. Listed(mws) /\ Listed(ids)
    BY Mapped
  <2>2. AllMine(a, DeleteAll(mws))
    BY <1>3, <2>1, NamesOwned, MineDeleteAll
  <2>3. AllMine(a, DeleteAll(ids))
    BY <1>3, <2>1, NamesOwned, MineDeleteAll
  <2> QED BY <2>2, <2>3, MineCat, MineWhen DEF StaticRemoval, Traefik
<1> QED
  BY <1>1, <1>2, <1>3

\* The blocks of the handlers of a; one of them stands for a failed removal.
WhiskBlocks == {"minio", "static", "endpoint", "endpoint-removal", "static-removal",
                "upload-removal", "s3-removal", "console-removal", "raise"}
UserBlocks == {"user-api", "user-static", "user-api-removal", "user-static-removal"}
BlocksOf(a) == IF a = Whisk THEN WhiskBlocks ELSE UserBlocks

LEMMA MineBlock ==
  ASSUME NEW a \in Actor, NEW b \in BlocksOf(a), b # "raise"
  PROVE  AllMine(a, Calls(a, b))
<1>1. /\ \A x : Listed(<< x >>) /\ Members(<< x >>) = {x}
      /\ \A s, t : Listed(s) /\ Listed(t) =>
           Listed(s \o t) /\ Members(s \o t) = Members(s) \cup Members(t)
  BY OneMember, CatMembers
<1>2. CASE a = Whisk
  <2> DEFINE H == Host
             www == NeedsWww(cfgd, H)
  <2>0. www \in BOOLEAN /\ Whisk \in Actor /\ Whisk = "nuvolaris"
    BY DEF NeedsWww, Actor, Whisk
  <2>n. /\ AllMine(Whisk, << [do |-> "raise"] >>)
        /\ \A key, h : AllMine(Whisk, Annotate(key, h))
    BY MineOne DEF Mine, Annotate
  <2>x. \A part, h : AllMine(Whisk, Expose(cfgd, Whisk, part, h))
                       /\ AllMine(Whisk, ApiIngress(cfgd, Whisk, part, h))
    BY <2>0, MineExpose
  <2>p. Listed(NuvParts)
    <3>1. Listed(<< "apihost", "apihost-my", "apihost-info" >>)
      <4>1. << "apihost", "apihost-my", "apihost-info" >>
              \in Seq({"apihost", "apihost-my", "apihost-info"})
        OBVIOUS
      <4> QED BY <4>1, Listing
    <3>2. Listed(When(www, << "apihost-www-my" >>))
      BY <1>1, NoMembers DEF When, Nothing
    <3> QED BY <1>1, <3>1, <3>2 DEF NuvParts
  <2>q. Listed(NuvStatics) /\ \A i \in DOMAIN NuvStatics :
                                NuvStatics[i] \in {Whisk, "www-nuvolaris"}
    <3>1. /\ Listed(When(www, << "www-nuvolaris" >>))
          /\ Members(When(www, << "www-nuvolaris" >>)) \subseteq {"www-nuvolaris"}
      BY <1>1, NoMembers DEF When, Nothing
    <3>2. Listed(NuvStatics) /\ Members(NuvStatics) \subseteq {Whisk, "www-nuvolaris"}
      BY <1>1, <3>1 DEF NuvStatics
    <3> QED BY <3>2 DEF Members
  <2> HIDE DEF H, www
  <2>1. AllMine(Whisk, MinioCalls(cfgd, H))
    BY <2>0, <2>n, <2>x, MineCat, MineWhen DEF MinioCalls
  <2>2. AllMine(Whisk, NuvStaticCalls(cfgd, H))
    <3>1. OwnerOf("nuvolaris") = Whisk /\ OwnerOf("www-nuvolaris") = Whisk
      BY DEF OwnerOf, Whisk
    <3>2. /\ \A h : AllMine(Whisk, StaticCalls(cfgd, "nuvolaris", "nuvolaris-web", h))
          /\ \A h : AllMine(Whisk, StaticCalls(cfgd, "www-nuvolaris", "nuvolaris-web", h))
      BY <2>0, <3>1, MineStatic
    <3> QED BY <3>2, MineCat, MineWhen DEF NuvStaticCalls, NeedsWww
  <2>3. AllMine(Whisk, EndpointCalls(cfgd, H))
    BY <2>0, <2>n, <2>x, MineCat, MineApi DEF EndpointCalls, NeedsWww
  <2>4. AllMine(Whisk, EndpointRemoval(cfgd, Whisk, NuvParts))
    BY <2>0, <2>p, MineRemovals
  <2>5. AllMine(Whisk, StaticRemoval(cfgd, NuvStatics))
    <3>1. OwnerOf(Whisk) = Whisk /\ OwnerOf("www-nuvolaris") = Whisk
      BY DEF OwnerOf, Whisk
    <3> QED BY <2>0, <2>q, <3>1, MineRemovals
  <2>6. \A part : AllMine(Whisk, MinioRemoval(cfgd, part))
    BY <2>0, <2>p, MineRemovals
  <2>7. Extra \in BOOLEAN
    BY DEF Extra
  <2>8. b \in WhiskBlocks \ {"raise"}
    BY <1>2 DEF BlocksOf
  <2>9. \A part : AllMine(Whisk, When(Extra, MinioRemoval(cfgd, part)))
    BY <2>6, <2>7, MineWhen
  <2>10. Host = H
    BY DEF H
  <2> HIDE DEF Extra, Host
  <2> QED BY <1>2, <2>1, <2>2, <2>3, <2>4, <2>5, <2>6, <2>8, <2>9, <2>10 DEF Calls, WhiskBlocks
<1>3. CASE a # Whisk
  <2>0. a \in Users /\ OwnerOf(a) = a /\ b \in UserBlocks
    BY <1>3, ActorsApart DEF Actor, BlocksOf
  <2>1. AllMine(a, ApiCalls(cfgd, a, HostOf(a), FALSE))
    BY MineApi
  <2>2. Listed(<< a >>) /\ \A i \in DOMAIN << a >> : << a >>[i] = a
    BY <1>1
  <2>3. Listed(<< "apihost", "apihost-my" >>)
    <3>1. << "apihost", "apihost-my" >> \in Seq({"apihost", "apihost-my"})
      OBVIOUS
    <3> QED BY <3>1, Listing
  <2>4. AllMine(a, EndpointRemoval(cfgd, a, << "apihost", "apihost-my" >>))
    BY <2>3, MineRemovals
  <2>5. AllMine(a, StaticRemoval(cfgd, << a >>))
    BY <2>0, <2>2, MineRemovals
  <2>6. AllMine(a, StaticCalls(cfgd, a, a, HostOf(a)))
    BY <2>0, MineStatic
  <2>7. StaticOn \in BOOLEAN
    BY DEF StaticOn
  <2>8. /\ AllMine(a, When(StaticOn, StaticCalls(cfgd, a, a, HostOf(a))))
        /\ AllMine(a, When(StaticOn, StaticRemoval(cfgd, << a >>)))
    BY <2>5, <2>6, <2>7, MineWhen
  <2> HIDE DEF StaticOn, HostOf
  <2> QED BY <2>0, <2>1, <2>4, <2>8 DEF Calls, UserBlocks
<1> QED
  BY <1>2, <1>3
--------------------------------------------------------------------------------
(***************************************************************************)
(* Types.  A handler has blocks and calls of its own namespace before it,  *)
(* it creates or removes what is being created or removed, and an object's *)
(* name tells whose it is.                                                 *)
(***************************************************************************)
ControlOK(a) ==
  /\ todo[a] \in Seq(BlocksOf(a)) /\ block[a] \in BlocksOf(a) \cup {""}
  /\ AllMine(a, calls[a])
  /\ job[a] = "idle" => todo[a] = << >> /\ calls[a] = << >>
  /\ job[a] = "create" => life[a] \in {"creating", "deleting"}
  /\ job[a] = "delete" => life[a] = "deleting"

StoredOK(u) == saved[u] # {} => life[u] # "none" \/ faults > 0

Control == \A a \in Actor : ControlOK(a)
Stored == \A u \in Users : StoredOK(u)
Owned == \A i \in DOMAIN objects : OwnerOf(objects[i].of) = IdOwner(i)

Shape ==
  /\ life \in [Actor -> {"none", "creating", "present", "deleting"}]
  /\ job \in [Actor -> {"idle", "create", "delete"}]
  /\ DOMAIN todo = Actor /\ DOMAIN calls = Actor /\ DOMAIN block = Actor
  /\ DOMAIN urls = Users /\ DOMAIN saved = Users
  /\ faults \in Nat /\ crashes \in Nat /\ moves \in Nat
  /\ conf \in Confs /\ cfgd \in Confs \cup {Emptied}

TypeInv == Shape /\ Control /\ Stored /\ Owned

LEMMA NothingMine == \A a : AllMine(a, << >>)
BY NoMembers DEF AllMine

LEMMA BlocksListed ==
  /\ << >> \in Seq(BlocksOf(Whisk))
  /\ CreateBlocks \in Seq(BlocksOf(Whisk)) /\ DeleteBlocks \in Seq(BlocksOf(Whisk))
  /\ << "s3-removal", "raise" >> \in Seq(BlocksOf(Whisk))
  /\ \A u \in Users : /\ << >> \in Seq(BlocksOf(u))
                      /\ UserCreateBlocks \in Seq(BlocksOf(u))
                      /\ UserDeleteBlocks \in Seq(BlocksOf(u))
<1>1. /\ CreateBlocks \in Seq(WhiskBlocks) /\ DeleteBlocks \in Seq(WhiskBlocks)
      /\ << "s3-removal", "raise" >> \in Seq(WhiskBlocks)
  BY DEF CreateBlocks, DeleteBlocks, WhiskBlocks
<1>2. UserCreateBlocks \in Seq(UserBlocks) /\ UserDeleteBlocks \in Seq(UserBlocks)
  BY DEF UserCreateBlocks, UserDeleteBlocks, UserBlocks
<1>3. << >> \in Seq(WhiskBlocks) /\ << >> \in Seq(UserBlocks)
  OBVIOUS
<1> QED
  BY <1>1, <1>2, <1>3, ActorsApart DEF BlocksOf

\* The handler of one moves nothing of the others.
LEMMA OnlyIts ==
  ASSUME Shape, NEW a \in Actor, Handler(a)
  PROVE  /\ DOMAIN todo' = Actor /\ DOMAIN calls' = Actor /\ DOMAIN block' = Actor
         /\ DOMAIN urls' = Users /\ DOMAIN saved' = Users
         /\ life' \in [Actor -> {"none", "creating", "present", "deleting"}]
         /\ job' \in [Actor -> {"idle", "create", "delete"}]
         /\ \A x \in Actor \ {a} :
              /\ life'[x] = life[x] /\ job'[x] = job[x] /\ block'[x] = block[x]
              /\ todo'[x] = todo[x] /\ calls'[x] = calls[x]
         /\ \A u \in Users \ {a} : urls'[u] = urls[u] /\ saved'[u] = saved[u]
         /\ UNCHANGED << addr, conf, crashes, moves, installs >>
         /\ faults' \in Nat /\ faults' >= faults
<1> USE DEF Shape, cluster, stored, budget
<1>1. CASE Start(a)
  BY <1>1 DEF Start, Begin
<1>2. CASE Enter(a)
  BY <1>2 DEF Enter
<1>3. CASE EnterFails(a)
  <2>1. /\ UNCHANGED << addr, conf, crashes, moves, installs, life, urls, saved >>
        /\ faults' \in Nat /\ faults' >= faults
    BY <1>3 DEF EnterFails, Fault
  <2>2. CASE Idle(a)
    BY <2>1, <2>2 DEF Idle
  <2>3. CASE ~Idle(a)
    <3>1. todo' = [todo EXCEPT ![a] = Tail(@)] /\ UNCHANGED << job, block, calls >>
      BY <1>3, <2>3 DEF EnterFails
    <3> QED BY <2>1, <3>1
  <2> QED BY <2>2, <2>3
<1>4. CASE Call(a)
  BY <1>4 DEF Call
<1>5. CASE CallFails(a)
  <2>1. /\ UNCHANGED << addr, conf, crashes, moves, installs, life, urls, saved >>
        /\ faults' \in Nat /\ faults' >= faults
    BY <1>5 DEF CallFails, Fault
  <2>2. CASE Idle(a)
    BY <2>1, <2>2 DEF Idle
  <2>3. CASE ~Idle(a)
    <3>1. /\ calls' = [calls EXCEPT ![a] = << >>] /\ UNCHANGED << job, block >>
          /\ \/ todo' = [todo EXCEPT ![a] = << "s3-removal", "raise" >>]
             \/ todo' = todo
      BY <1>5, <2>3 DEF CallFails
    <3> QED BY <2>1, <3>1
  <2> QED BY <2>2, <2>3
<1>6. CASE Return(a)
  <2> USE <1>6 DEF Return
  <2>1. DOMAIN todo' = Actor /\ DOMAIN calls' = Actor /\ DOMAIN block' = Actor
    BY DEF Idle
  <2>2. /\ job' \in [Actor -> {"idle", "create", "delete"}]
        /\ \A x \in Actor \ {a} : job'[x] = job[x] /\ block'[x] = block[x]
                                  /\ todo'[x] = todo[x] /\ calls'[x] = calls[x]
    BY DEF Idle
  <2>3. /\ life' \in [Actor -> {"none", "creating", "present", "deleting"}]
        /\ \A x \in Actor \ {a} : life'[x] = life[x]
    OBVIOUS
  <2>4. /\ DOMAIN urls' = Users /\ DOMAIN saved' = Users
        /\ \A u \in Users \ {a} : urls'[u] = urls[u] /\ saved'[u] = saved[u]
    OBVIOUS
  <2>5. faults' \in Nat /\ faults' >= faults
    BY DEF Fault
  <2> QED BY <2>1, <2>2, <2>3, <2>4, <2>5
<1> QED
  BY <1>1, <1>2, <1>3, <1>4, <1>5, <1>6 DEF Handler

LEMMA CallMine ==
  ASSUME TypeInv, NEW a \in Actor, calls[a] # << >>
  PROVE  Mine(a, Current(a)) /\ AllMine(a, Tail(calls[a])) /\ Tail(calls[a]) # calls[a]
<1>1. Listed(calls[a]) /\ \A c \in Members(calls[a]) : Mine(a, c)
  BY DEF TypeInv, Control, ControlOK, AllMine
<1> QED
  BY <1>1, Rest DEF Current, AllMine

LEMMA BlockMine ==
  ASSUME TypeInv, NEW a \in Actor, todo[a] # << >>
  PROVE  Head(todo[a]) \in BlocksOf(a) /\ Tail(todo[a]) \in Seq(BlocksOf(a))
<1>1. todo[a] \in Seq(BlocksOf(a))
  BY DEF TypeInv, Control, ControlOK
<1> QED BY <1>1, HeadTailProperties

\* What a handler leaves of its own.
LEMMA ControlKept ==
  ASSUME TypeInv, NEW a \in Actor, Handler(a) PROVE ControlOK(a)'
<1>0. ControlOK(a) /\ Shape
  BY DEF TypeInv, Control
<1>d. DOMAIN todo = Actor /\ DOMAIN calls = Actor /\ DOMAIN job = Actor /\ DOMAIN life = Actor
      /\ DOMAIN block = Actor
  BY <1>0 DEF Shape
<1>n. AllMine(a, << >>) /\ << >> \in Seq(BlocksOf(a))
  BY NothingMine, BlocksListed DEF Actor
<1>i. Idle(a) => /\ job'[a] = "idle" /\ todo'[a] = << >> /\ calls'[a] = << >>
                 /\ ControlOK(a)'
  <2> SUFFICES ASSUME Idle(a)
               PROVE  /\ job'[a] = "idle" /\ todo'[a] = << >> /\ calls'[a] = << >>
                      /\ ControlOK(a)'
    OBVIOUS
  <2>1. job'[a] = "idle" /\ todo'[a] = << >> /\ calls'[a] = << >> /\ block'[a] = ""
    BY <1>d DEF Idle
  <2> QED BY <2>1, <1>n DEF ControlOK
<1>1. CASE Start(a)
  <2>1. /\ calls'[a] = << >> /\ life'[a] = life[a]
        /\ block'[a] \in BlocksOf(a) \cup {""}
        /\ \/ /\ life[a] = "creating" /\ job'[a] = "create"
              /\ todo'[a] = IF a = Whisk THEN CreateBlocks ELSE UserCreateBlocks
           \/ /\ life[a] = "deleting" /\ job'[a] = "delete"
              /\ todo'[a] = IF a # Whisk THEN UserDeleteBlocks
                            ELSE IF cfgd = Emptied THEN << >> ELSE DeleteBlocks
    BY <1>0, <1>1, <1>d DEF Start, Begin, ControlOK
  <2>2. todo'[a] \in Seq(BlocksOf(a))
    BY <2>1, <1>n, BlocksListed DEF Actor
  <2> QED BY <2>1, <2>2, <1>n DEF ControlOK
<1>2. CASE Enter(a)
  <2> DEFINE b == Head(todo[a])
  <2>1. /\ b # "raise" /\ todo[a] # << >> /\ UNCHANGED << life, job >>
        /\ calls'[a] = Calls(a, b) /\ todo'[a] = Tail(todo[a]) /\ block'[a] = b
    BY <1>2, <1>d DEF Enter, Answered
  <2>2. b \in BlocksOf(a) /\ todo'[a] \in Seq(BlocksOf(a))
    BY <2>1, BlockMine
  <2>3. AllMine(a, calls'[a])
    BY <2>1, <2>2, MineBlock
  <2>4. job[a] # "idle"
    BY <1>0, <2>1 DEF ControlOK
  <2> QED BY <1>0, <2>1, <2>2, <2>3, <2>4 DEF ControlOK
<1>3. CASE EnterFails(a)
  <2>1. CASE ~Idle(a)
    <3>1. /\ todo[a] # << >> /\ todo'[a] = Tail(todo[a])
          /\ UNCHANGED << life, job, block, calls >>
      BY <1>3, <2>1, <1>d DEF EnterFails, stored
    <3>2. todo'[a] \in Seq(BlocksOf(a))
      BY <3>1, BlockMine
    <3>3. job[a] # "idle"
      BY <1>0, <3>1 DEF ControlOK
    <3> QED BY <1>0, <3>1, <3>2, <3>3 DEF ControlOK
  <2> QED BY <1>i, <2>1
<1>4. CASE Call(a)
  <2>1. /\ calls[a] # << >> /\ calls'[a] = Tail(calls[a])
        /\ UNCHANGED << life, job, block, todo >>
    BY <1>4, <1>d DEF Call
  <2>2. AllMine(a, calls'[a])
    BY <2>1, CallMine
  <2>3. job[a] # "idle"
    BY <1>0, <2>1 DEF ControlOK
  <2> QED BY <1>0, <2>1, <2>2, <2>3 DEF ControlOK
<1>5. CASE CallFails(a)
  <2>1. CASE ~Idle(a)
    <3>1. /\ calls[a] # << >> /\ calls'[a] = << >>
          /\ UNCHANGED << life, job, block >>
          /\ \/ todo'[a] = todo[a]
             \/ block[a] = "upload-removal" /\ todo'[a] = << "s3-removal", "raise" >>
      BY <1>5, <2>1, <1>d DEF CallFails, stored
    <3>2. job[a] # "idle"
      BY <1>0, <3>1 DEF ControlOK
    <3>3. block[a] = "upload-removal" => a = Whisk
      BY <1>0 DEF ControlOK, BlocksOf, UserBlocks
    <3>4. todo'[a] \in Seq(BlocksOf(a))
      BY <1>0, <3>1, <3>3, BlocksListed DEF ControlOK
    <3> QED BY <1>0, <1>n, <3>1, <3>2, <3>4 DEF ControlOK
  <2> QED BY <1>i, <2>1
<1>6. CASE Return(a)
  BY <1>i, <1>6 DEF Return
<1> QED
  BY <1>1, <1>2, <1>3, <1>4, <1>5, <1>6 DEF Handler

\* An object that a handler replaces or removes is its own, and its calls show.
LEMMA EffectOwn ==
  ASSUME TypeInv, NEW a \in Actor, calls[a] # << >>, Effect(Current(a)),
         ~Impossible(Current(a))
  PROVE  /\ Owned'
         /\ \A i \in DOMAIN objects \cup DOMAIN objects' :
              \/ IdOwner(i) = a
              \/ i \in DOMAIN objects /\ i \in DOMAIN objects' /\ objects'[i] = objects[i]
<1> DEFINE c == Current(a)
<1>1. Mine(a, c)
  BY CallMine
<1>2. Owned
  BY DEF TypeInv
<1>3. c.do \in {"apply", "delete", "annotate"}
  BY <1>1 DEF Mine, Impossible
<1> HIDE DEF c
<1>4. CASE c.do = "apply"
  <2>1. objects' = [i \in DOMAIN objects \cup {c.id} |->
                     IF i = c.id THEN c.rule ELSE objects[i]]
    BY <1>4 DEF c, Effect
  <2>2. IdOwner(c.id) = a /\ OwnerOf(c.rule.of) = a
    BY <1>1, <1>4 DEF Mine
  <2> QED BY <1>2, <2>1, <2>2 DEF Owned
<1>5. CASE c.do = "delete"
  <2>1. objects' = [i \in DOMAIN objects \ {c.id} |-> objects[i]]
    BY <1>5 DEF c, Effect
  <2>2. IdOwner(c.id) = a
    BY <1>1, <1>5 DEF Mine
  <2> QED BY <1>2, <2>1, <2>2 DEF Owned
<1>6. CASE c.do = "annotate"
  <2>1. objects' = objects
    BY <1>6 DEF c, Effect
  <2> QED BY <1>2, <2>1 DEF Owned
<1> QED
  BY <1>3, <1>4, <1>5, <1>6

LEMMA ObjectsOwn ==
  ASSUME TypeInv, NEW a \in Actor, Handler(a)
  PROVE  /\ Owned'
         /\ \A i \in DOMAIN objects \cup DOMAIN objects' :
              \/ IdOwner(i) = a /\ calls'[a] # calls[a]
              \/ i \in DOMAIN objects /\ i \in DOMAIN objects' /\ objects'[i] = objects[i]
<1>s. objects' = objects => Owned'
  BY DEF TypeInv, Owned
<1>d. DOMAIN calls = Actor
  BY DEF TypeInv, Shape
<1>1. CASE objects' = objects
  BY <1>1, <1>s
<1>2. CASE Call(a)
  <2>1. calls[a] # << >> /\ ~Impossible(Current(a)) /\ Effect(Current(a))
        /\ calls'[a] = Tail(calls[a])
    BY <1>2, <1>d DEF Call
  <2> QED BY <2>1, EffectOwn, CallMine
<1>3. CASE CallFails(a) /\ objects' # objects
  <2>1. calls[a] # << >> /\ ~Impossible(Current(a)) /\ Effect(Current(a))
    BY <1>3 DEF CallFails
  <2>2. calls'[a] = << >>
    <3>1. Idle(a) \/ calls' = [calls EXCEPT ![a] = << >>]
      BY <1>3 DEF CallFails
    <3> QED BY <3>1, <1>d DEF Idle
  <2> QED BY <2>1, <2>2, EffectOwn
<1>4. Handler(a) => objects' = objects \/ Call(a) \/ CallFails(a)
  BY DEF Handler, Start, Enter, EnterFails, Return, cluster
<1> QED
  BY <1>1, <1>2, <1>3, <1>4

LEMMA StoredKept ==
  ASSUME TypeInv, NEW a \in Actor, Handler(a) PROVE Stored'
<1> SUFFICES ASSUME NEW u \in Users PROVE StoredOK(u)'
  BY DEF Stored
<1>0. /\ StoredOK(u) /\ Shape /\ u \in Actor /\ u # Whisk /\ ControlOK(a)
      /\ faults' >= faults /\ faults \in Nat /\ faults' \in Nat
  BY ActorsApart, OnlyIts DEF TypeInv, Stored, Shape, Actor, Control
<1>1. CASE u # a
  <2>1. life'[u] = life[u] /\ saved'[u] = saved[u]
    BY <1>0, <1>1, OnlyIts
  <2> QED BY <1>0, <2>1 DEF StoredOK
<1>2. CASE u = a /\ ~Return(a)
  <2>1. UNCHANGED << life, saved >>
    BY <1>2 DEF Handler, Start, Enter, EnterFails, Call, CallFails, stored
  <2> QED BY <1>0, <2>1 DEF StoredOK
<1>3. CASE u = a /\ Return(a)
  <2>1. CASE faults' > 0
    BY <2>1 DEF StoredOK
  <2>2. CASE ~(faults' > 0)
    <3>0. /\ saved' = [saved EXCEPT ![a] = IF job[a] = "create" THEN urls[a] ELSE {}]
          /\ life' = CASE job[a] = "create" /\ life[a] = "creating" -> [life EXCEPT ![a] = "present"]
                       [] job[a] = "delete" -> [life EXCEPT ![a] = "none"]
                       [] OTHER -> life
      BY <1>0, <1>3, <2>2 DEF Return, Fault
    <3>1. saved'[a] = IF job[a] = "create" THEN urls[a] ELSE {}
      BY <1>0, <1>3, <3>0 DEF Shape
    <3>2. job[a] = "create" => life'[a] # "none"
      BY <1>0, <3>0 DEF Shape, ControlOK
    <3> QED BY <1>3, <3>1, <3>2 DEF StoredOK
  <2> QED BY <2>1, <2>2
<1> QED
  BY <1>1, <1>2, <1>3

LEMMA HandlerTypes ==
  ASSUME TypeInv, NEW a \in Actor, Handler(a) PROVE TypeInv'
<1>1. Shape'
  <2>1. conf' = conf /\ cfgd' \in {cfgd, conf}
    BY DEF Handler, Start, Enter, EnterFails, Call, CallFails, Return
  <2> QED BY <2>1, OnlyIts DEF TypeInv, Shape
<1>2. Control'
  <2> SUFFICES ASSUME NEW x \in Actor, x # a PROVE ControlOK(x)'
    BY ControlKept DEF Control
  <2>1. ControlOK(x)
    BY DEF TypeInv, Control
  <2>2. /\ life'[x] = life[x] /\ job'[x] = job[x] /\ block'[x] = block[x]
        /\ todo'[x] = todo[x] /\ calls'[x] = calls[x]
    BY OnlyIts DEF TypeInv
  <2> QED BY <2>1, <2>2 DEF ControlOK
<1> QED
  BY <1>1, <1>2, StoredKept, ObjectsOwn DEF TypeInv

LEMMA AroundTypes ==
  ASSUME TypeInv, Environment PROVE TypeInv'
<1>o. UNCHANGED objects
  BY DEF Environment, Install, Move, Crash, Resume, AddUser, Discard, cluster
<1>1. Owned'
  BY <1>o DEF TypeInv, Owned
<1>w. Whisk \in Actor /\ Users \subseteq Actor /\ Whisk \notin Users
  BY ActorsApart DEF Actor
<1>2. CASE Crash
  <2>0. /\ UNCHANGED << life, conf, urls, saved, faults, moves >>
        /\ cfgd' = Emptied /\ crashes' = crashes + 1
        /\ job' = [a \in Actor |-> "idle"]
    BY <1>2 DEF Crash, stored
  <2>1. DOMAIN todo' = Actor /\ DOMAIN calls' = Actor /\ DOMAIN block' = Actor
    BY <1>2 DEF Crash
  <2>s. Shape'
    BY <2>0, <2>1 DEF TypeInv, Shape
  <2>2. Control'
    <3> SUFFICES ASSUME NEW a \in Actor PROVE ControlOK(a)'
      BY DEF Control
    <3>1. /\ job'[a] = "idle" /\ todo'[a] = << >> /\ calls'[a] = << >> /\ block'[a] = ""
      BY <1>2 DEF Crash
    <3>2. << >> \in Seq(BlocksOf(a)) /\ AllMine(a, << >>)
      BY NothingMine, BlocksListed DEF Actor
    <3> QED BY <3>1, <3>2 DEF ControlOK
  <2>3. Stored'
    BY <1>2 DEF TypeInv, Stored, StoredOK, Crash, stored
  <2> QED BY <1>1, <2>s, <2>2, <2>3 DEF TypeInv
<1>3. ASSUME NEW x \in Actor, NEW l \in {"creating", "deleting"},
             life' = [life EXCEPT ![x] = l],
             l = "creating" => life[x] = "none",
             l = "deleting" => life[x] \in {"creating", "present"},
             conf' \in Confs, cfgd' = cfgd, UNCHANGED << running, stored >>,
             faults' = faults, crashes' = crashes, moves' = moves
      PROVE  TypeInv'
  <2>1. Shape'
    BY <1>3 DEF TypeInv, Shape, running, stored
  <2>2. Control'
    <3> SUFFICES ASSUME NEW a \in Actor PROVE ControlOK(a)'
      BY DEF Control
    <3>1. ControlOK(a) /\ life'[a] = IF a = x THEN l ELSE life[a]
      BY <1>3 DEF TypeInv, Control, Shape
    <3> QED BY <1>3, <3>1 DEF ControlOK, running
  <2>3. Stored'
    BY <1>3, <1>w DEF TypeInv, Stored, StoredOK, stored, Shape
  <2> QED BY <1>1, <2>1, <2>2, <2>3 DEF TypeInv
<1>4. CASE Install
  BY <1>3, <1>4, <1>w DEF Install
<1>5. ASSUME NEW u \in Users, AddUser(u) PROVE TypeInv'
  BY <1>3, <1>5, <1>w DEF AddUser, TypeInv, Shape, budget
<1>6. ASSUME NEW a \in Actor, Discard(a) PROVE TypeInv'
  BY <1>3, <1>6, <1>w DEF Discard, TypeInv, Shape, budget
<1>7. CASE Move \/ Resume
  <2>1. /\ UNCHANGED << conf, life, running, stored, faults, crashes >>
        /\ moves' \in Nat /\ cfgd' \in {cfgd, conf}
    BY <1>7 DEF Move, Resume, budget, TypeInv, Shape
  <2>2. Shape'
    BY <2>1 DEF TypeInv, Shape, running, stored
  <2>3. Control'
    BY <2>1 DEF TypeInv, Control, ControlOK, running
  <2>4. Stored'
    BY <2>1 DEF TypeInv, Stored, StoredOK, stored
  <2> QED BY <1>1, <2>2, <2>3, <2>4 DEF TypeInv
<1> QED
  BY <1>2, <1>4, <1>5, <1>6, <1>7 DEF Environment

LEMMA TypesAtFirst == Init => TypeInv
<1> SUFFICES ASSUME Init PROVE TypeInv
  OBVIOUS
<1>1. Shape
  <2>1. /\ life = [a \in Actor |-> "none"] /\ job = [a \in Actor |-> "idle"]
        /\ conf \in Confs /\ cfgd = Emptied /\ faults = 0 /\ crashes = 0 /\ moves = 0
    BY DEF Init
  <2>2. /\ DOMAIN todo = Actor /\ DOMAIN calls = Actor /\ DOMAIN block = Actor
        /\ DOMAIN urls = Users /\ DOMAIN saved = Users
    BY DEF Init
  <2> QED BY <2>1, <2>2 DEF Shape
<1>2. Control
  <2> SUFFICES ASSUME NEW a \in Actor PROVE ControlOK(a)
    BY DEF Control
  <2>1. /\ job[a] = "idle" /\ todo[a] = << >> /\ calls[a] = << >> /\ block[a] = ""
    BY DEF Init
  <2>2. << >> \in Seq(BlocksOf(a)) /\ AllMine(a, << >>)
    BY NothingMine, BlocksListed DEF Actor
  <2> QED BY <2>1, <2>2 DEF ControlOK
<1>3. Stored
  BY DEF Init, Stored, StoredOK
<1>4. Owned
  <2>1. objects = << >>
    BY DEF Init
  <2>2. DOMAIN << >> = {}
    OBVIOUS
  <2> QED BY <2>1, <2>2 DEF Owned
<1> QED
  BY <1>1, <1>2, <1>3, <1>4 DEF TypeInv

LEMMA TypesKept == TypeInv /\ [Next]_vars => TypeInv'
<1> SUFFICES ASSUME TypeInv, [Next]_vars PROVE TypeInv'
  OBVIOUS
<1>1. ASSUME NEW a \in Actor, Handler(a) PROVE TypeInv'
  BY <1>1, HandlerTypes
<1>2. CASE UNCHANGED vars
  <2>1. Shape' /\ Control' /\ Stored'
    BY <1>2 DEF TypeInv, Shape, Control, ControlOK, Stored, StoredOK, vars, running,
                stored, budget
  <2>2. Owned'
    BY <1>2 DEF TypeInv, Owned, vars, cluster
  <2> QED BY <2>1, <2>2 DEF TypeInv
<1> QED
  BY <1>1, <1>2, AroundTypes DEF Next

\* The lives of the objects and the jobs of their handlers fit, a handler has
\* blocks of its own before it, and a user who is gone has no metadata unless
\* something failed (kopf's handlers of whisk and whisku).
THEOREM TypeCorrect == Spec => []TypeOK
<1>1. TypeInv => TypeOK
  BY DEF TypeInv, Shape, Control, ControlOK, Stored, StoredOK, TypeOK
<1> QED
  BY <1>1, TypesAtFirst, TypesKept, PTL DEF Spec

\* Whatever the namespaces, only the handlers of the one whose an ingress, route
\* or middleware is replace or remove it, and never but by a call of theirs.
THEOREM OwnCorrect == Spec => OwnOnly
<1> DEFINE Step == \A i \in DOMAIN objects :
        \/ i \in DOMAIN objects' /\ objects'[i] = objects[i]
        \/ calls'[OwnerOf(objects[i].of)] # calls[OwnerOf(objects[i].of)]
<1>1. TypeInv /\ [Next]_vars => [Step]_vars
  <2> SUFFICES ASSUME TypeInv, Next PROVE Step
    OBVIOUS
  <2>1. CASE Environment
    <3>1. UNCHANGED objects
      BY <2>1 DEF Environment, Install, Move, Crash, Resume, AddUser, Discard, cluster
    <3> QED BY <3>1
  <2>2. ASSUME NEW a \in Actor, Handler(a) PROVE Step
    BY <2>2, ObjectsOwn DEF TypeInv, Owned
  <2> QED BY <2>1, <2>2 DEF Next
<1> QED
  BY <1>1, TypesAtFirst, TypesKept, PTL DEF Spec, OwnOnly
--------------------------------------------------------------------------------
(***************************************************************************)
(* What a sequence of calls does: the objects it applies or deletes, the   *)
(* notes it makes, and what it makes of one of them.                       *)
(***************************************************************************)
Ids(s) == { c.id : c \in { d \in Members(s) : d.do \in {"apply", "delete"} } }
Keys(s) == { c.key : c \in { d \in Members(s) : d.do = "annotate" } }

\* Nothing in it can fail but by a fault.
Smooth(s) == \A c \in Members(s) : c.do \in {"apply", "annotate"}

\* If it touches this object, or this note, it is to make it so.
Fits(s, id, of, host) ==
  \A c \in Members(s) :
    c.do \in {"apply", "delete"} /\ c.id = id =>
      c.do = "apply" /\ c.rule.of = of /\ c.rule.host = host
Says(s, key, host) ==
  \A c \in Members(s) : c.do = "annotate" /\ c.key = key => c.host = host

LEMMA Cat ==
  ASSUME NEW s, NEW t, Listed(s), Listed(t)
  PROVE  /\ Listed(s \o t) /\ Ids(s \o t) = Ids(s) \cup Ids(t)
         /\ Keys(s \o t) = Keys(s) \cup Keys(t)
         /\ Smooth(s) /\ Smooth(t) => Smooth(s \o t)
         /\ \A id, of, host :
              Fits(s, id, of, host) /\ Fits(t, id, of, host) => Fits(s \o t, id, of, host)
         /\ \A key, host :
              Says(s, key, host) /\ Says(t, key, host) => Says(s \o t, key, host)
<1> DEFINE c == s \o t
<1>1. Listed(c) /\ Members(c) = Members(s) \cup Members(t)
  BY CatMembers
<1> HIDE DEF c
<1>2. Ids(c) = Ids(s) \cup Ids(t)
  BY <1>1 DEF Ids
<1>3. Keys(c) = Keys(s) \cup Keys(t)
  BY <1>1 DEF Keys
<1>4. Smooth(s) /\ Smooth(t) => Smooth(c)
  BY <1>1 DEF Smooth
<1>5. \A id, of, host :
        Fits(s, id, of, host) /\ Fits(t, id, of, host) => Fits(c, id, of, host)
  BY <1>1 DEF Fits
<1>6. \A key, host : Says(s, key, host) /\ Says(t, key, host) => Says(c, key, host)
  BY <1>1 DEF Says
<1> QED
  BY <1>1, <1>2, <1>3, <1>4, <1>5, <1>6 DEF c

LEMMA Empty ==
  /\ Listed(<< >>) /\ Ids(<< >>) = {} /\ Keys(<< >>) = {} /\ Smooth(<< >>)
  /\ \A id, of, host : Fits(<< >>, id, of, host)
  /\ \A key, host : Says(<< >>, key, host)
<1>1. Listed(<< >>) /\ Members(<< >>) = {}
  BY NoMembers
<1>2. Ids(<< >>) = {} /\ Keys(<< >>) = {}
  BY <1>1 DEF Ids, Keys
<1> QED
  BY <1>1, <1>2 DEF Smooth, Fits, Says

LEMMA Applied ==
  ASSUME NEW id, NEW rule
  PROVE  LET s == Apply(id, rule) IN
         /\ Listed(s) /\ Ids(s) = {id} /\ Keys(s) = {} /\ Smooth(s)
         /\ \A i, of, host :
              Fits(s, i, of, host) <=> (i = id => rule.of = of /\ rule.host = host)
<1> DEFINE c == [do |-> "apply", id |-> id, rule |-> rule]
<1>1. Listed(<< c >>) /\ Members(<< c >>) = {c}
  BY OneMember
<1>2. c.do = "apply" /\ c.id = id /\ c.rule = rule
  OBVIOUS
<1> HIDE DEF c
<1>3. Ids(<< c >>) = {id} /\ Keys(<< c >>) = {} /\ Smooth(<< c >>)
  BY <1>1, <1>2 DEF Ids, Keys, Smooth
<1>4. \A i, of, host :
        Fits(<< c >>, i, of, host) <=> (i = id => rule.of = of /\ rule.host = host)
  BY <1>1, <1>2 DEF Fits
<1> QED
  BY <1>1, <1>3, <1>4 DEF c, Apply

LEMMA Deleted ==
  ASSUME NEW id
  PROVE  LET s == Delete(id) IN Listed(s) /\ Ids(s) = {id} /\ Keys(s) = {}
<1> DEFINE c == [do |-> "delete", id |-> id]
<1>1. Listed(<< c >>) /\ Members(<< c >>) = {c}
  BY OneMember
<1>2. c.do = "delete" /\ c.id = id
  OBVIOUS
<1> HIDE DEF c
<1>3. Ids(<< c >>) = {id} /\ Keys(<< c >>) = {}
  BY <1>1, <1>2 DEF Ids, Keys
<1> QED
  BY <1>1, <1>3 DEF c, Delete

LEMMA AllDeleted ==
  ASSUME NEW ids, Listed(ids)
  PROVE  LET s == DeleteAll(ids) IN
         Listed(s) /\ Ids(s) = Members(ids) /\ Keys(s) = {}
<1> DEFINE m == [i \in DOMAIN ids |-> [do |-> "delete", id |-> ids[i]]]
<1>1. Listed(m)
  BY Mapped
<1>2. \A i \in DOMAIN ids : m[i].do = "delete" /\ m[i].id = ids[i]
  OBVIOUS
<1>3. Members(m) = { m[i] : i \in DOMAIN ids }
  BY DEF Members
<1> HIDE DEF m
<1>4. Ids(m) = Members(ids) /\ Keys(m) = {}
  BY <1>2, <1>3 DEF Ids, Keys, Members
<1> QED
  BY <1>1, <1>4 DEF m, DeleteAll

LEMMA Annotated ==
  ASSUME NEW key, NEW host
  PROVE  LET s == Annotate(key, host) IN
         /\ Listed(s) /\ Ids(s) = {} /\ Keys(s) = {key} /\ Smooth(s)
         /\ \A k, h : Says(s, k, h) <=> (k = key => host = h)
<1> DEFINE c == [do |-> "annotate", key |-> key, host |-> host]
<1>1. Listed(<< c >>) /\ Members(<< c >>) = {c}
  BY OneMember
<1>2. c.do = "annotate" /\ c.key = key /\ c.host = host
  OBVIOUS
<1> HIDE DEF c
<1>3. Ids(<< c >>) = {} /\ Keys(<< c >>) = {key} /\ Smooth(<< c >>)
  BY <1>1, <1>2 DEF Ids, Keys, Smooth
<1>4. \A k, h : Says(<< c >>, k, h) <=> (k = key => host = h)
  BY <1>1, <1>2 DEF Says
<1> QED
  BY <1>1, <1>3, <1>4 DEF c, Annotate

LEMMA Raised ==
  LET s == << [do |-> "raise"] >> IN Listed(s) /\ Ids(s) = {} /\ Keys(s) = {}
<1> DEFINE c == [do |-> "raise"]
<1>1. Listed(<< c >>) /\ Members(<< c >>) = {c}
  BY OneMember
<1>2. c.do = "raise"
  OBVIOUS
<1> HIDE DEF c
<1>3. Ids(<< c >>) = {} /\ Keys(<< c >>) = {}
  BY <1>1, <1>2 DEF Ids, Keys
<1> QED
  BY <1>1, <1>3 DEF c

LEMMA Untouched ==
  ASSUME NEW s
  PROVE  /\ \A id, of, host : id \notin Ids(s) => Fits(s, id, of, host)
         /\ \A key, host : key \notin Keys(s) => Says(s, key, host)
BY DEF Ids, Keys, Fits, Says

LEMMA Whenever ==
  ASSUME NEW condition \in BOOLEAN, NEW s, condition => Listed(s)
  PROVE  LET w == When(condition, s) IN
         /\ Listed(w) /\ Ids(w) = (IF condition THEN Ids(s) ELSE {})
         /\ Keys(w) = (IF condition THEN Keys(s) ELSE {})
         /\ (condition => Smooth(s)) => Smooth(w)
         /\ \A id, of, host :
              (condition => Fits(s, id, of, host)) => Fits(w, id, of, host)
         /\ \A key, host : (condition => Says(s, key, host)) => Says(w, key, host)
BY Empty DEF When, Nothing
--------------------------------------------------------------------------------
(***************************************************************************)
(* The objects of an installation and of a user, and the blocks that make  *)
(* them.                                                                   *)
(***************************************************************************)
ApiGroup(c, ns, parts) ==
  { ApiName(c, ns, part) : part \in parts }
    \cup (IF Traefik(c) THEN { ApiMiddleware(ns, part) : part \in parts } ELSE {})
StaticGroup(c, nss) ==
  { StaticName(c, ns) : ns \in nss }
    \cup (IF Traefik(c) THEN { StaticMiddleware(ns) : ns \in nss } ELSE {})

UserParts == {"apihost", "apihost-my"}
Parts(www) == UserParts \cup (IF www THEN {"apihost-www-my"} ELSE {})
MoreParts(www) == {"apihost-info"} \cup Parts(www)
Statics(www) == {Whisk} \cup (IF www THEN {"www-nuvolaris"} ELSE {})

LEMMA NamesApart ==
  ASSUME NEW c, NEW ns, NEW part
  PROVE  /\ \A ms, q : ApiName(c, ns, part) # ApiMiddleware(ms, q)
         /\ \A q : ApiName(c, ns, part) = ApiName(c, ns, q) => part = q
         /\ \A q : ApiMiddleware(ns, part) = ApiMiddleware(ns, q) => part = q
         /\ \A ms : ApiName(c, ns, part) # StaticName(c, ms)
         /\ \A ms : ApiName(c, ns, part) # StaticMiddleware(ms)
         /\ \A ms : ApiMiddleware(ns, part) # StaticName(c, ms)
         /\ part # "static" => \A ms : ApiMiddleware(ns, part) # StaticMiddleware(ms)
         /\ \A ms, q : StaticName(c, ms) # StaticMiddleware(q)
<1>1. \A x, y : Len(<< x, y >>) = 2 /\ << x, y >>[1] = x /\ << x, y >>[2] = y
  OBVIOUS
<1>2. \A x, y, z : Len(<< x, y, z >>) = 3
  OBVIOUS
<1>3. \A x, y, z, w : /\ Len(<< x, y, z, w >>) = 4 /\ << x, y, z, w >>[1] = x
                      /\ << x, y, z, w >>[3] = z
  OBVIOUS
<1>4. Kind(c) # "middleware"
  BY DEF Kind
<1>5. /\ ns = "nuvolaris" => /\ Len(ApiName(c, ns, part)) = 2
                             /\ \A q : ApiName(c, ns, q)[2] = q
      /\ ns # "nuvolaris" => /\ Len(ApiName(c, ns, part)) = 4
                             /\ ApiName(c, ns, part)[1] = Kind(c)
                             /\ \A q : ApiName(c, ns, q)[3] = q
  BY <1>1, <1>3 DEF ApiName
<1>6. \A ms, q : /\ Len(ApiMiddleware(ms, q)) = 4 /\ ApiMiddleware(ms, q)[1] = "middleware"
                 /\ ApiMiddleware(ms, q)[3] = q
  BY <1>3 DEF ApiMiddleware
<1>7. \A ms : /\ Len(StaticMiddleware(ms)) = 4 /\ StaticMiddleware(ms)[1] = "middleware"
              /\ StaticMiddleware(ms)[3] = "static"
  BY <1>3 DEF StaticMiddleware
<1>8. \A ms : Len(StaticName(c, ms)) = 3
  BY <1>2 DEF StaticName
<1> HIDE DEF ApiName, ApiMiddleware, StaticName, StaticMiddleware
<1>a. \A ms, q : ApiName(c, ns, part) # ApiMiddleware(ms, q)
  BY <1>4, <1>5, <1>6
<1>b. \A q : ApiName(c, ns, part) = ApiName(c, ns, q) => part = q
  BY <1>5
<1>c. \A q : ApiMiddleware(ns, part) = ApiMiddleware(ns, q) => part = q
  BY <1>6
<1>d. \A ms : ApiName(c, ns, part) # StaticName(c, ms)
  BY <1>5, <1>8
<1>e. \A ms : ApiName(c, ns, part) # StaticMiddleware(ms)
  BY <1>4, <1>5, <1>7
<1>f. \A ms : ApiMiddleware(ns, part) # StaticName(c, ms)
  BY <1>6, <1>8
<1>g. part # "static" => \A ms : ApiMiddleware(ns, part) # StaticMiddleware(ms)
  BY <1>6, <1>7
<1>h. \A ms, q : StaticName(c, ms) # StaticMiddleware(q)
  BY <1>7, <1>8
<1> QED
  BY <1>a, <1>b, <1>c, <1>d, <1>e, <1>f, <1>g, <1>h

\* Names tell the kind of cluster, and nothing else of a configuration.
LEMMA SameNames ==
  ASSUME NEW c, NEW d, c.kube = d.kube
  PROVE  \A ns, part : ApiName(c, ns, part) = ApiName(d, ns, part)
                         /\ StaticName(c, ns) = StaticName(d, ns)
BY DEF ApiName, StaticName, Kind

LEMMA MiddleMakes ==
  ASSUME NEW c, NEW ns, NEW mw, NEW to
  PROVE  LET s == Middle(c, ns, mw, to) IN
         /\ Listed(s) /\ Ids(s) = (IF Traefik(c) THEN {mw} ELSE {}) /\ Keys(s) = {}
         /\ Smooth(s) /\ \A id, of, host : id # mw => Fits(s, id, of, host)
<1> DEFINE r == [of |-> ns, host |-> NoHost, path |-> "", to |-> to, via |-> None]
           p == Apply(mw, r)
<1> HIDE DEF r
<1>1. /\ Listed(p) /\ Ids(p) = {mw} /\ Keys(p) = {} /\ Smooth(p)
      /\ \A id, of, host : id # mw => Fits(p, id, of, host)
  BY Applied
<1> HIDE DEF p
<1>2. Traefik(c) \in BOOLEAN
  BY DEF Traefik
<1> HIDE DEF Traefik
<1>3. LET s == When(Traefik(c), p) IN
      /\ Listed(s) /\ Ids(s) = (IF Traefik(c) THEN {mw} ELSE {}) /\ Keys(s) = {}
      /\ Smooth(s) /\ \A id, of, host : id # mw => Fits(s, id, of, host)
  BY <1>1, <1>2, Whenever
<1> QED
  BY <1>3 DEF p, r, Middle

LEMMA IngressMakes ==
  ASSUME NEW c, NEW ns, NEW part, NEW h
  PROVE  LET s == ApiIngress(c, ns, part, h) IN
         /\ Listed(s) /\ Ids(s) = {ApiName(c, ns, part)} /\ Keys(s) = {} /\ Smooth(s)
         /\ Fits(s, ApiName(c, ns, part), ns, h)
<1> DEFINE r == Rule(c, ns, h, Path(part), Service(ns, part),
                     IF part \in {"minio-s3", "minio-console"} THEN None
                                                      ELSE ApiMiddleware(ns, part))
<1>1. r.of = ns /\ r.host = h
  BY DEF Rule
<1> HIDE DEF r
<1>2. LET s == Apply(ApiName(c, ns, part), r) IN
      /\ Listed(s) /\ Ids(s) = {ApiName(c, ns, part)} /\ Keys(s) = {} /\ Smooth(s)
      /\ Fits(s, ApiName(c, ns, part), ns, h)
  BY <1>1, Applied
<1> QED
  BY <1>2 DEF r, ApiIngress

LEMMA ExposeMakes ==
  ASSUME NEW c, NEW ns, NEW part, NEW h
  PROVE  LET s == Expose(c, ns, part, h) IN
         /\ Listed(s) /\ Ids(s) = ApiGroup(c, ns, {part}) /\ Keys(s) = {} /\ Smooth(s)
         /\ Fits(s, ApiName(c, ns, part), ns, h)
<1> DEFINE m == ApiMiddle(c, ns, part)
           i == ApiIngress(c, ns, part, h)
<1>1. /\ Listed(m) /\ Keys(m) = {} /\ Smooth(m)
      /\ Ids(m) = (IF Traefik(c) THEN {ApiMiddleware(ns, part)} ELSE {})
      /\ Fits(m, ApiName(c, ns, part), ns, h)
  BY MiddleMakes, NamesApart DEF ApiMiddle
<1>2. /\ Listed(i) /\ Ids(i) = {ApiName(c, ns, part)} /\ Keys(i) = {} /\ Smooth(i)
      /\ Fits(i, ApiName(c, ns, part), ns, h)
  BY IngressMakes
<1> HIDE DEF m, i
<1>3. LET s == m \o i IN
      /\ Listed(s) /\ Keys(s) = {} /\ Smooth(s) /\ Ids(s) = Ids(m) \cup Ids(i)
      /\ Fits(s, ApiName(c, ns, part), ns, h)
  BY <1>1, <1>2, Cat
<1>4. Ids(m) \cup Ids(i) = ApiGroup(c, ns, {part})
  BY <1>1, <1>2 DEF ApiGroup
<1> QED
  BY <1>3, <1>4 DEF m, i, Expose

\* deploy_api_ingresses and deploy_api_routes
LEMMA ApiMakes ==
  ASSUME NEW c, NEW ns, NEW h, NEW www \in BOOLEAN
  PROVE  LET s == ApiCalls(c, ns, h, www) IN
         /\ Listed(s) /\ Ids(s) = ApiGroup(c, ns, Parts(www)) /\ Keys(s) = {} /\ Smooth(s)
         /\ \A part \in UserParts : Fits(s, ApiName(c, ns, part), ns, h)
<1> DEFINE m1 == ApiMiddle(c, ns, "apihost")
           m2 == ApiMiddle(c, ns, "apihost-my")
           i1 == ApiIngress(c, ns, "apihost", h)
           i2 == ApiIngress(c, ns, "apihost-my", h)
           x == Expose(c, ns, "apihost-www-my", WithPrefix("www", h))
           w == When(www, x)
           A1 == ApiName(c, ns, "apihost")
           A2 == ApiName(c, ns, "apihost-my")
<1>0. /\ A1 # A2
      /\ \A q : A1 # ApiMiddleware(ns, q) /\ A2 # ApiMiddleware(ns, q)
      /\ A1 # ApiName(c, ns, "apihost-www-my") /\ A2 # ApiName(c, ns, "apihost-www-my")
  BY NamesApart
<1>1. /\ Listed(m1) /\ Keys(m1) = {} /\ Smooth(m1)
      /\ Ids(m1) = (IF Traefik(c) THEN {ApiMiddleware(ns, "apihost")} ELSE {})
  BY MiddleMakes DEF ApiMiddle
<1>2. /\ Listed(m2) /\ Keys(m2) = {} /\ Smooth(m2)
      /\ Ids(m2) = (IF Traefik(c) THEN {ApiMiddleware(ns, "apihost-my")} ELSE {})
  BY MiddleMakes DEF ApiMiddle
<1>3. /\ Listed(i1) /\ Ids(i1) = {A1} /\ Keys(i1) = {} /\ Smooth(i1) /\ Fits(i1, A1, ns, h)
  BY IngressMakes
<1>4. /\ Listed(i2) /\ Ids(i2) = {A2} /\ Keys(i2) = {} /\ Smooth(i2) /\ Fits(i2, A2, ns, h)
  BY IngressMakes
<1>5. /\ Listed(x) /\ Ids(x) = ApiGroup(c, ns, {"apihost-www-my"}) /\ Keys(x) = {}
      /\ Smooth(x)
  BY ExposeMakes
<1> HIDE DEF x
<1>6. /\ Listed(w) /\ Keys(w) = {} /\ Smooth(w)
      /\ Ids(w) = (IF www THEN ApiGroup(c, ns, {"apihost-www-my"}) ELSE {})
  BY <1>5, Whenever
<1>7. /\ A1 \notin Ids(m1) /\ A1 \notin Ids(m2) /\ A1 \notin Ids(i2) /\ A1 \notin Ids(w)
      /\ A2 \notin Ids(m1) /\ A2 \notin Ids(m2) /\ A2 \notin Ids(i1) /\ A2 \notin Ids(w)
  <2> HIDE DEF A1, A2, m1, m2, i1, i2, w
  <2>1. /\ A1 \notin Ids(m1) /\ A1 \notin Ids(m2) /\ A1 \notin Ids(i2)
        /\ A2 \notin Ids(m1) /\ A2 \notin Ids(m2) /\ A2 \notin Ids(i1)
    BY <1>0, <1>1, <1>2, <1>3, <1>4
  <2>2. A1 \notin Ids(w) /\ A2 \notin Ids(w)
    BY <1>0, <1>6 DEF ApiGroup
  <2> QED BY <2>1, <2>2
<1>8. \A part \in UserParts : ApiName(c, ns, part) \in {A1, A2}
  BY DEF UserParts
<1>9. Ids(m1) \cup (Ids(m2) \cup (Ids(i1) \cup (Ids(i2) \cup Ids(w))))
        = ApiGroup(c, ns, Parts(www))
  <2>1. Ids(i1) \cup Ids(i2) \cup Ids(m1) \cup Ids(m2) = ApiGroup(c, ns, UserParts)
    BY <1>1, <1>2, <1>3, <1>4 DEF ApiGroup, UserParts
  <2>2. ApiGroup(c, ns, Parts(www)) = ApiGroup(c, ns, UserParts)
          \cup (IF www THEN ApiGroup(c, ns, {"apihost-www-my"}) ELSE {})
    BY DEF ApiGroup, Parts
  <2> HIDE DEF m1, m2, i1, i2, w, A1, A2
  <2> QED BY <1>6, <2>1, <2>2
<1> HIDE DEF m1, m2, i1, i2, w, A1, A2
<1> DEFINE s1 == m1 \o m2
           s2 == s1 \o i1
           s3 == s2 \o i2
           s4 == s3 \o w
<1>a. /\ Listed(s1) /\ Ids(s1) = Ids(m1) \cup Ids(m2) /\ Keys(s1) = {} /\ Smooth(s1)
      /\ Fits(s1, A1, ns, h) /\ Fits(s1, A2, ns, h)
  BY <1>1, <1>2, <1>7, Cat, Untouched
<1> HIDE DEF s1
<1>b. /\ Listed(s2) /\ Ids(s2) = Ids(s1) \cup Ids(i1) /\ Keys(s2) = {} /\ Smooth(s2)
      /\ Fits(s2, A1, ns, h) /\ Fits(s2, A2, ns, h)
  BY <1>3, <1>a, <1>7, Cat, Untouched
<1> HIDE DEF s2
<1>c. /\ Listed(s3) /\ Ids(s3) = Ids(s2) \cup Ids(i2) /\ Keys(s3) = {} /\ Smooth(s3)
      /\ Fits(s3, A1, ns, h) /\ Fits(s3, A2, ns, h)
  BY <1>4, <1>b, <1>7, Cat, Untouched
<1> HIDE DEF s3
<1>d. /\ Listed(s4) /\ Ids(s4) = Ids(s3) \cup Ids(w) /\ Keys(s4) = {} /\ Smooth(s4)
      /\ Fits(s4, A1, ns, h) /\ Fits(s4, A2, ns, h)
  BY <1>6, <1>c, <1>7, Cat, Untouched
<1> HIDE DEF s4
<1>e. /\ Ids(s4) = ApiGroup(c, ns, Parts(www))
      /\ \A part \in UserParts : Fits(s4, ApiName(c, ns, part), ns, h)
  BY <1>8, <1>9, <1>a, <1>b, <1>c, <1>d
<1>f. ApiCalls(c, ns, h, www) = s4
  BY DEF ApiCalls, m1, m2, i1, i2, w, x, s1, s2, s3, s4
<1> QED
  BY <1>d, <1>e, <1>f

\* deploy_content_ingress_template and deploy_content_route_template
LEMMA StaticMakes ==
  ASSUME NEW c, NEW ns, NEW bucket, NEW h
  PROVE  LET s == StaticCalls(c, ns, bucket, h) IN
         /\ Listed(s) /\ Ids(s) = StaticGroup(c, {ns}) /\ Keys(s) = {} /\ Smooth(s)
         /\ Fits(s, StaticName(c, ns), ns, h)
<1> DEFINE to == << "static", bucket >>
           m == Middle(c, ns, StaticMiddleware(ns), to)
           r == Rule(c, ns, h, "/", to, StaticMiddleware(ns))
           i == Apply(StaticName(c, ns), r)
           N == StaticName(c, ns)
<1>0. r.of = ns /\ r.host = h
  BY DEF Rule
<1>1. N # StaticMiddleware(ns)
  BY NamesApart
<1> HIDE DEF r, to
<1>2. /\ Listed(m) /\ Keys(m) = {} /\ Smooth(m) /\ Fits(m, N, ns, h)
      /\ Ids(m) = (IF Traefik(c) THEN {StaticMiddleware(ns)} ELSE {})
  BY <1>1, MiddleMakes
<1>3. Listed(i) /\ Ids(i) = {N} /\ Keys(i) = {} /\ Smooth(i) /\ Fits(i, N, ns, h)
  BY <1>0, Applied
<1>4. Ids(m) \cup Ids(i) = StaticGroup(c, {ns})
  BY <1>2, <1>3 DEF StaticGroup
<1> HIDE DEF m, i, N
<1>5. LET s == m \o i IN
      /\ Listed(s) /\ Ids(s) = Ids(m) \cup Ids(i) /\ Keys(s) = {} /\ Smooth(s)
      /\ Fits(s, N, ns, h)
  BY <1>2, <1>3, Cat
<1> QED
  BY <1>4, <1>5 DEF m, i, r, to, N, StaticCalls

\* create_nuv_static_ingress
LEMMA NuvStaticMakes ==
  ASSUME NEW c, NEW h
  PROVE  LET s == NuvStaticCalls(c, h) IN
         /\ Listed(s) /\ Ids(s) = StaticGroup(c, Statics(NeedsWww(c, h)))
         /\ Keys(s) = {} /\ Smooth(s)
<1> DEFINE www == NeedsWww(c, h)
           a == StaticCalls(c, "nuvolaris", "nuvolaris-web", h)
           x == StaticCalls(c, "www-nuvolaris", "nuvolaris-web", WithPrefix("www", h))
           b == When(www, x)
<1>0. www \in BOOLEAN
  BY DEF NeedsWww
<1>1. /\ Listed(a) /\ Ids(a) = StaticGroup(c, {"nuvolaris"}) /\ Keys(a) = {} /\ Smooth(a)
  BY StaticMakes
<1>2. /\ Listed(x) /\ Ids(x) = StaticGroup(c, {"www-nuvolaris"}) /\ Keys(x) = {}
      /\ Smooth(x)
  BY StaticMakes
<1> HIDE DEF www, a, x
<1>3. /\ Listed(b) /\ Keys(b) = {} /\ Smooth(b)
      /\ Ids(b) = (IF www THEN StaticGroup(c, {"www-nuvolaris"}) ELSE {})
  BY <1>0, <1>2, Whenever
<1>4. StaticGroup(c, Statics(www)) = StaticGroup(c, {"nuvolaris"})
        \cup (IF www THEN StaticGroup(c, {"www-nuvolaris"}) ELSE {})
  BY DEF StaticGroup, Statics, Whisk
<1> HIDE DEF b
<1>5. LET s == a \o b IN
      Listed(s) /\ Ids(s) = Ids(a) \cup Ids(b) /\ Keys(s) = {} /\ Smooth(s)
  BY <1>1, <1>3, Cat
<1>6. NuvStaticCalls(c, h) = a \o b
  BY DEF NuvStaticCalls, a, b, x, www
<1> QED
  BY <1>1, <1>3, <1>4, <1>5, <1>6 DEF www

\* endpoint.create
LEMMA EndpointMakes ==
  ASSUME NEW c, NEW h
  PROVE  LET s == EndpointCalls(c, h) IN
         /\ Listed(s) /\ Ids(s) = ApiGroup(c, Whisk, MoreParts(NeedsWww(c, h)))
         /\ Keys(s) = {"apihost"} /\ Smooth(s) /\ Says(s, "apihost", h)
         /\ Fits(s, ApiName(c, Whisk, "apihost"), Whisk, h)
<1> DEFINE www == NeedsWww(c, h)
           n == Annotate("apihost", h)
           x == Expose(c, "nuvolaris", "apihost-info", h)
           s == ApiCalls(c, "nuvolaris", h, www)
           A == ApiName(c, Whisk, "apihost")
<1>0. www \in BOOLEAN /\ Whisk = "nuvolaris"
  BY DEF NeedsWww, Whisk
<1>1. /\ Listed(n) /\ Ids(n) = {} /\ Keys(n) = {"apihost"} /\ Smooth(n)
      /\ Says(n, "apihost", h)
  BY Annotated
<1>2. /\ Listed(x) /\ Ids(x) = ApiGroup(c, Whisk, {"apihost-info"}) /\ Keys(x) = {}
      /\ Smooth(x)
  BY <1>0, ExposeMakes
<1>3. /\ Listed(s) /\ Ids(s) = ApiGroup(c, Whisk, Parts(www)) /\ Keys(s) = {} /\ Smooth(s)
      /\ Fits(s, A, Whisk, h)
  <2> HIDE DEF www
  <2>1. "apihost" \in UserParts
    BY DEF UserParts
  <2> QED BY <1>0, <2>1, ApiMakes
<1>4. A \notin Ids(x)
  <2>1. A # ApiName(c, Whisk, "apihost-info") /\ A # ApiMiddleware(Whisk, "apihost-info")
    BY NamesApart
  <2> HIDE DEF A
  <2> QED BY <1>2, <2>1 DEF ApiGroup
<1>5. ApiGroup(c, Whisk, MoreParts(www))
        = ApiGroup(c, Whisk, {"apihost-info"}) \cup ApiGroup(c, Whisk, Parts(www))
  BY DEF ApiGroup, MoreParts
<1> HIDE DEF www, n, x, s, A
<1> DEFINE s1 == n \o x
           s2 == s1 \o s
<1>a. /\ Listed(s1) /\ Ids(s1) = Ids(x) /\ Keys(s1) = {"apihost"} /\ Smooth(s1)
      /\ Says(s1, "apihost", h) /\ Fits(s1, A, Whisk, h)
  BY <1>1, <1>2, <1>4, Cat, Untouched
<1> HIDE DEF s1
<1>b. /\ Listed(s2) /\ Ids(s2) = Ids(s1) \cup Ids(s) /\ Keys(s2) = {"apihost"}
      /\ Smooth(s2) /\ Says(s2, "apihost", h) /\ Fits(s2, A, Whisk, h)
  BY <1>3, <1>a, Cat, Untouched
<1>c. EndpointCalls(c, h) = s2
  BY DEF EndpointCalls, n, x, s, www, s1
<1> QED
  BY <1>2, <1>3, <1>5, <1>a, <1>b, <1>c DEF www, A

\* create_minio_ingresses
LEMMA MinioMakes ==
  ASSUME NEW c, NEW h
  PROVE  LET s == MinioCalls(c, h)
             S3 == ApiName(c, Whisk, "minio-s3")
             Console == ApiName(c, Whisk, "minio-console") IN
         /\ Listed(s)
         /\ Ids(s) = ApiGroup(c, Whisk, {"minio-upload"})
                       \cup (IF c.extra = "auto" THEN {S3, Console} ELSE {})
         /\ "apihost" \notin Keys(s)
         /\ c.extra # "named" => Smooth(s)
         /\ c.extra = "auto" /\ c.kube # "kind" =>
              /\ {"s3", "console"} \subseteq Keys(s)
              /\ Says(s, "s3", WithPrefix("s3", h))
              /\ Says(s, "console", WithPrefix("minio", h))
              /\ Fits(s, S3, Whisk, WithPrefix("s3", h))
              /\ Fits(s, Console, Whisk, WithPrefix("minio", h))
<1> DEFINE S3 == ApiName(c, Whisk, "minio-s3")
           Console == ApiName(c, Whisk, "minio-console")
           h3 == WithPrefix("s3", h)
           hc == WithPrefix("minio", h)
           u == Expose(c, "nuvolaris", "minio-upload", h)
           i3 == ApiIngress(c, "nuvolaris", "minio-s3", h3)
           n3 == Annotate("s3", h3)
           ic == ApiIngress(c, "nuvolaris", "minio-console", hc)
           nc == Annotate("console", hc)
           r == << [do |-> "raise"] >>
           k == Annotate("s3", << "localhost" >>)
           auto == c.extra = "auto"
           named == c.extra = "named"
           kind == c.kube = "kind"
<1>0. Whisk = "nuvolaris" /\ auto \in BOOLEAN /\ named \in BOOLEAN /\ kind \in BOOLEAN
      /\ ~(auto /\ named)
  BY DEF Whisk
<1>1. Listed(u) /\ Ids(u) = ApiGroup(c, Whisk, {"minio-upload"}) /\ Keys(u) = {} /\ Smooth(u)
  BY <1>0, ExposeMakes
<1>2. /\ Listed(i3) /\ Ids(i3) = {S3} /\ Keys(i3) = {} /\ Smooth(i3)
      /\ Fits(i3, S3, Whisk, h3)
  BY <1>0, IngressMakes
<1>3. /\ Listed(ic) /\ Ids(ic) = {Console} /\ Keys(ic) = {} /\ Smooth(ic)
      /\ Fits(ic, Console, Whisk, hc)
  BY <1>0, IngressMakes
<1>4. /\ Listed(n3) /\ Ids(n3) = {} /\ Keys(n3) = {"s3"} /\ Smooth(n3) /\ Says(n3, "s3", h3)
  BY Annotated
<1>5. /\ Listed(nc) /\ Ids(nc) = {} /\ Keys(nc) = {"console"} /\ Smooth(nc)
      /\ Says(nc, "console", hc)
  BY Annotated
<1>6. Listed(k) /\ Ids(k) = {} /\ Keys(k) = {"s3"} /\ Smooth(k)
  BY Annotated
<1>7. Listed(r) /\ Ids(r) = {} /\ Keys(r) = {}
  BY Raised
<1>8. /\ S3 # Console
      /\ S3 \notin Ids(u) /\ Console \notin Ids(u)
  <2>1. /\ S3 # ApiName(c, Whisk, "minio-upload")
        /\ S3 # ApiMiddleware(Whisk, "minio-upload") /\ S3 # Console
        /\ Console # ApiName(c, Whisk, "minio-upload")
        /\ Console # ApiMiddleware(Whisk, "minio-upload")
    BY NamesApart
  <2> HIDE DEF S3, Console, u
  <2> QED BY <1>1, <2>1 DEF ApiGroup
<1> HIDE DEF S3, Console, h3, hc, u, i3, n3, ic, nc, r, k, auto, named, kind
<1> DEFINE t1 == i3 \o n3
           t2 == t1 \o ic
           t == t2 \o nc
<1>a. /\ Listed(t1) /\ Ids(t1) = {S3} /\ Keys(t1) = {"s3"} /\ Smooth(t1)
      /\ Says(t1, "s3", h3) /\ Fits(t1, S3, Whisk, h3)
  BY <1>2, <1>4, Cat, Untouched
<1> HIDE DEF t1
<1>b. /\ Listed(t2) /\ Ids(t2) = {S3, Console} /\ Keys(t2) = {"s3"} /\ Smooth(t2)
      /\ Says(t2, "s3", h3) /\ Fits(t2, S3, Whisk, h3) /\ Fits(t2, Console, Whisk, hc)
  BY <1>3, <1>a, <1>8, Cat, Untouched
<1> HIDE DEF t2
<1>c. /\ Listed(t) /\ Ids(t) = {S3, Console} /\ Keys(t) = {"s3", "console"} /\ Smooth(t)
      /\ Says(t, "s3", h3) /\ Says(t, "console", hc)
      /\ Fits(t, S3, Whisk, h3) /\ Fits(t, Console, Whisk, hc)
  BY <1>5, <1>b, Cat, Untouched
<1> HIDE DEF t
<1> DEFINE w1 == When(auto, t)
           w2 == When(named, r)
           w3 == When(kind, k)
<1>d. /\ Listed(w1) /\ Smooth(w1)
      /\ Ids(w1) = (IF auto THEN {S3, Console} ELSE {})
      /\ Keys(w1) = (IF auto THEN {"s3", "console"} ELSE {})
      /\ Says(w1, "s3", h3) /\ Says(w1, "console", hc)
      /\ Fits(w1, S3, Whisk, h3) /\ Fits(w1, Console, Whisk, hc)
  BY <1>0, <1>c, Whenever
<1>e. Listed(w2) /\ Ids(w2) = {} /\ Keys(w2) = {} /\ (~named => Smooth(w2))
  BY <1>0, <1>7, Whenever
<1>f. /\ Listed(w3) /\ Ids(w3) = {} /\ Keys(w3) = (IF kind THEN {"s3"} ELSE {})
      /\ Smooth(w3)
  BY <1>0, <1>6, Whenever
<1> HIDE DEF w1, w2, w3
<1> DEFINE s1 == u \o w1
           s2 == s1 \o w2
           s == s2 \o w3
<1>g. /\ Listed(s1) /\ Ids(s1) = Ids(u) \cup Ids(w1) /\ Keys(s1) = Keys(w1) /\ Smooth(s1)
      /\ Says(s1, "s3", h3) /\ Says(s1, "console", hc)
      /\ Fits(s1, S3, Whisk, h3) /\ Fits(s1, Console, Whisk, hc)
  BY <1>1, <1>d, <1>8, Cat, Untouched
<1> HIDE DEF s1
<1>h. /\ Listed(s2) /\ Ids(s2) = Ids(s1) /\ Keys(s2) = Keys(s1)
      /\ (~named => Smooth(s2))
      /\ Says(s2, "s3", h3) /\ Says(s2, "console", hc)
      /\ Fits(s2, S3, Whisk, h3) /\ Fits(s2, Console, Whisk, hc)
  BY <1>e, <1>g, Cat, Untouched
<1> HIDE DEF s2
<1>i. /\ Listed(s) /\ Ids(s) = Ids(s2) /\ Keys(s) = Keys(s2) \cup Keys(w3)
      /\ (~named => Smooth(s))
      /\ ~kind => Says(s, "s3", h3) /\ Says(s, "console", hc)
      /\ Fits(s, S3, Whisk, h3) /\ Fits(s, Console, Whisk, hc)
  BY <1>f, <1>h, Cat, Untouched
<1>j. MinioCalls(c, h) = s
  BY DEF MinioCalls, u, t, t1, t2, i3, n3, ic, nc, r, k, auto, named, kind, h3, hc,
         s, s1, s2, w1, w2, w3
<1> HIDE DEF s
<1>k. Ids(s) = ApiGroup(c, Whisk, {"minio-upload"}) \cup (IF auto THEN {S3, Console} ELSE {})
  BY <1>1, <1>d, <1>g, <1>h, <1>i
<1>l. "apihost" \notin Keys(s) /\ (auto => {"s3", "console"} \subseteq Keys(s))
  BY <1>d, <1>f, <1>g, <1>h, <1>i
<1> QED
  BY <1>0, <1>i, <1>j, <1>k, <1>l DEF auto, named, kind, S3, Console, h3, hc
--------------------------------------------------------------------------------
(***************************************************************************)
(* As long as nothing fails and the operator does not restart.  What a     *)
(* handler has to make is either still among its calls or made.            *)
(***************************************************************************)
Exposed(o, id, of, host) == id \in DOMAIN o /\ o[id].of = of /\ o[id].host = host
Delivers(s, o, id, of, host) ==
  Fits(s, id, of, host) /\ (id \in Ids(s) \/ Exposed(o, id, of, host))
Tells(s, n, key, host) == Says(s, key, host) /\ (key \in Keys(s) \/ n[key] = host)

\* The cluster after a call.
After(c, o, p, n, m) ==
  \/ /\ c.do = "apply" /\ m = n
     /\ p = [i \in DOMAIN o \cup {c.id} |-> IF i = c.id THEN c.rule ELSE o[i]]
  \/ c.do = "delete" /\ m = n /\ p = [i \in DOMAIN o \ {c.id} |-> o[i]]
  \/ c.do = "annotate" /\ p = o /\ m = [n EXCEPT ![c.key] = c.host]

LEMMA Sent ==
  ASSUME NEW s, Listed(s), s # << >>, NEW o, NEW p, NEW n, NEW m,
         After(Head(s), o, p, n, m)
  PROVE  /\ Listed(Tail(s)) /\ DOMAIN m = DOMAIN n
         /\ Ids(Tail(s)) \subseteq Ids(s) /\ Keys(Tail(s)) \subseteq Keys(s)
         /\ Smooth(s) => Smooth(Tail(s))
         /\ \A id, of, host : Fits(s, id, of, host) => Fits(Tail(s), id, of, host)
         /\ \A key, host : Says(s, key, host) => Says(Tail(s), key, host)
         /\ \A id, of, host :
              Delivers(s, o, id, of, host) => Delivers(Tail(s), p, id, of, host)
         /\ \A key \in DOMAIN n : \A host :
              Tells(s, n, key, host) => Tells(Tail(s), m, key, host)
<1> DEFINE c == Head(s)
           t == Tail(s)
<1>1. /\ c \in Members(s) /\ Listed(t) /\ Members(s) = Members(t) \cup {c}
      /\ After(c, o, p, n, m)
  BY Rest
<1> HIDE DEF c, t
<1>2. DOMAIN m = DOMAIN n
  BY <1>1 DEF After
<1>3. /\ Ids(t) \subseteq Ids(s) /\ Keys(t) \subseteq Keys(s) /\ (Smooth(s) => Smooth(t))
      /\ Ids(s) \subseteq Ids(t) \cup (IF c.do \in {"apply", "delete"} THEN {c.id} ELSE {})
      /\ Keys(s) \subseteq Keys(t) \cup (IF c.do = "annotate" THEN {c.key} ELSE {})
  BY <1>1 DEF Ids, Keys, Smooth
<1>4. /\ \A id, of, host : Fits(s, id, of, host) => Fits(t, id, of, host)
      /\ \A key, host : Says(s, key, host) => Says(t, key, host)
  BY <1>1 DEF Fits, Says
<1>5. ASSUME NEW id, NEW of, NEW host, Delivers(s, o, id, of, host)
      PROVE  Delivers(t, p, id, of, host)
  <2>1. Fits(t, id, of, host) /\ (id \in Ids(s) \/ Exposed(o, id, of, host))
    BY <1>4, <1>5 DEF Delivers
  <2>2. CASE c.do \in {"apply", "delete"} /\ c.id = id
    <3>1. c.do = "apply" /\ c.rule.of = of /\ c.rule.host = host
      BY <1>1, <1>5, <2>2 DEF Delivers, Fits
    <3>2. id \in DOMAIN p /\ p[id] = c.rule
      BY <1>1, <2>2, <3>1 DEF After
    <3> QED BY <2>1, <3>1, <3>2 DEF Delivers, Exposed
  <2>3. CASE ~(c.do \in {"apply", "delete"} /\ c.id = id)
    <3>1. id \in Ids(t) \/ Exposed(o, id, of, host)
      BY <1>3, <2>1, <2>3
    <3>2. Exposed(o, id, of, host) => Exposed(p, id, of, host)
      BY <1>1, <2>3 DEF After, Exposed
    <3> QED BY <2>1, <3>1, <3>2 DEF Delivers
  <2> QED BY <2>2, <2>3
<1>6. ASSUME NEW key \in DOMAIN n, NEW host, Tells(s, n, key, host)
      PROVE  Tells(t, m, key, host)
  <2>1. Says(t, key, host) /\ (key \in Keys(s) \/ n[key] = host)
    BY <1>4, <1>6 DEF Tells
  <2>2. CASE c.do = "annotate" /\ c.key = key
    <3>1. c.host = host
      BY <1>1, <1>6, <2>2 DEF Tells, Says
    <3>2. m[key] = host
      BY <1>1, <2>2, <3>1 DEF After
    <3> QED BY <2>1, <3>2 DEF Tells
  <2>3. CASE ~(c.do = "annotate" /\ c.key = key)
    <3>1. key \in Keys(t) \/ n[key] = host
      BY <1>3, <2>1, <2>3
    <3>2. m[key] = n[key]
      BY <1>1, <2>3 DEF After
    <3> QED BY <2>1, <3>1, <3>2 DEF Tells
  <2> QED BY <2>2, <2>3
<1> QED
  BY <1>1, <1>2, <1>3, <1>4, <1>5, <1>6 DEF c, t

LEMMA NothingLeft ==
  \A o, n, id, of, host, key :
    /\ Delivers(<< >>, o, id, of, host) <=> Exposed(o, id, of, host)
    /\ Tells(<< >>, n, key, host) <=> n[key] = host
BY Empty DEF Delivers, Tells

\* What a handler does, if undisturbed.
LEMMA CallDoes ==
  ASSUME TypeInv, NEW a \in Actor, Call(a)
  PROVE  /\ calls[a] # << >> /\ Listed(calls[a]) /\ calls'[a] = Tail(calls[a])
         /\ After(Head(calls[a]), objects, objects', notes, notes')
         /\ UNCHANGED << addr, conf, cfgd, life, job, todo, block, stored, budget >>
<1>1. /\ calls[a] # << >> /\ ~Impossible(Current(a)) /\ Effect(Current(a))
      /\ calls'[a] = Tail(calls[a])
      /\ UNCHANGED << addr, conf, cfgd, life, job, todo, block, stored, budget >>
  BY DEF Call, TypeInv, Shape
<1>2. Listed(calls[a])
  BY DEF TypeInv, Control, ControlOK, AllMine
<1> DEFINE c == Current(a)
<1>3. c.do \in {"apply", "delete", "annotate"} /\ Effect(c)
  BY <1>1, CallMine DEF Mine, Impossible
<1> HIDE DEF c
<1>4. After(c, objects, objects', notes, notes')
  BY <1>3 DEF Effect, After
<1> QED
  BY <1>1, <1>2, <1>4 DEF c, Current

LEMMA Undisturbing ==
  ASSUME TypeInv, NEW a \in Actor, Handler(a), Undisturbed'
  PROVE  /\ Undisturbed /\ ~Fault
         /\ EnterFails(a) => ~Answered(a, Head(todo[a]))
         /\ CallFails(a) => /\ Impossible(Current(a)) /\ UNCHANGED << objects, notes >>
                            /\ Idle(a) \/ ~EndsHandler(block[a])
<1>1. faults' >= faults /\ faults \in Nat /\ faults' = 0 /\ crashes' = 0
      /\ UNCHANGED crashes
  BY OnlyIts DEF Undisturbed, TypeInv, Shape
<1>2. Undisturbed /\ ~Fault
  BY <1>1 DEF Undisturbed, Fault
<1> QED
  BY <1>2 DEF EnterFails, CallFails
--------------------------------------------------------------------------------
(***************************************************************************)
(* The configuration: that of an installation from its first creation on,  *)
(* and of the same kind of cluster always.                                 *)
(***************************************************************************)
Configured ==
  /\ cfgd # Emptied => cfgd.kube = conf.kube
  /\ \A u \in Users : life[u] # "none" => cfgd # Emptied
  /\ job[Whisk] = "create" \/ life[Whisk] = "present" => cfgd = conf

Keyed == {"apihost", "s3", "console"} \subseteq DOMAIN notes

LEMMA KeyedKept ==
  ASSUME TypeInv, Keyed, Next PROVE Keyed'
<1>1. ASSUME NEW a \in Actor, calls[a] # << >>, Effect(Current(a)), ~Impossible(Current(a))
      PROVE  Keyed'
  <2>1. Current(a).do \in {"apply", "delete", "annotate"}
    BY <1>1, CallMine DEF Mine, Impossible
  <2> QED BY <1>1, <2>1 DEF Effect, Keyed
<1>2. ASSUME UNCHANGED notes PROVE Keyed'
  BY <1>2 DEF Keyed
<1>3. ASSUME NEW a \in Actor, Handler(a) PROVE Keyed'
  <2>1. \/ UNCHANGED notes
        \/ calls[a] # << >> /\ Effect(Current(a)) /\ ~Impossible(Current(a))
    BY <1>3 DEF Handler, Start, Enter, EnterFails, Call, CallFails, Return, cluster
  <2> QED BY <1>1, <1>2, <2>1
<1>4. Environment => UNCHANGED notes
  BY DEF Environment, Install, Move, Crash, Resume, AddUser, Discard, cluster
<1> QED
  BY <1>2, <1>3, <1>4 DEF Next

\* How the lives go.
LEMMA Living ==
  ASSUME TypeInv, NEW a \in Actor, Handler(a)
  PROVE  /\ ~Return(a) => life' = life
         /\ ~Start(a) => cfgd' = cfgd /\ (job'[a] # "idle" => job'[a] = job[a])
         /\ Start(a) => /\ \/ life[a] = "creating" /\ job'[a] = "create"
                           \/ life[a] = "deleting" /\ job'[a] = "delete"
                        /\ cfgd' = IF a = Whisk /\ life[a] = "creating" THEN conf ELSE cfgd
         /\ Return(a) => /\ Idle(a) /\ job'[a] = "idle" /\ job[a] # "idle" /\ life[a] # "none"
                         /\ life'[a] = IF job[a] = "delete" THEN "none"
                                       ELSE IF life[a] = "creating" THEN "present"
                                       ELSE life[a]
<1>0. Shape /\ ControlOK(a)
  BY DEF TypeInv, Control
<1>1. ~Return(a) => life' = life
  BY DEF Handler, Start, Enter, EnterFails, Call, CallFails
<1>i. Idle(a) => job'[a] = "idle"
  BY <1>0 DEF Idle, Shape
<1>2. ~Start(a) => cfgd' = cfgd /\ (job'[a] # "idle" => job'[a] = job[a])
  BY <1>i DEF Handler, Enter, EnterFails, Call, CallFails, Return
<1>3. Start(a) => /\ \/ life[a] = "creating" /\ job'[a] = "create"
                     \/ life[a] = "deleting" /\ job'[a] = "delete"
                  /\ cfgd' = IF a = Whisk /\ life[a] = "creating" THEN conf ELSE cfgd
  BY <1>0 DEF Start, Begin, Shape
<1>4. Return(a) => /\ Idle(a) /\ job'[a] = "idle" /\ job[a] # "idle" /\ life[a] # "none"
                   /\ life'[a] = IF job[a] = "delete" THEN "none"
                                 ELSE IF life[a] = "creating" THEN "present"
                                 ELSE life[a]
  <2> SUFFICES ASSUME Return(a)
               PROVE  /\ Idle(a) /\ job'[a] = "idle" /\ job[a] # "idle" /\ life[a] # "none"
                      /\ life'[a] = IF job[a] = "delete" THEN "none"
                                    ELSE IF life[a] = "creating" THEN "present"
                                    ELSE life[a]
    OBVIOUS
  <2>1. Idle(a) /\ job[a] \in {"create", "delete"}
    BY <1>0 DEF Return, Shape
  <2>2. /\ life[a] # "none" /\ (job[a] = "create" => life[a] \in {"creating", "deleting"})
    BY <1>0, <2>1 DEF ControlOK
  <2>3. life' = CASE job[a] = "create" /\ life[a] = "creating" -> [life EXCEPT ![a] = "present"]
                  [] job[a] = "delete" -> [life EXCEPT ![a] = "none"]
                  [] OTHER -> life
    BY DEF Return
  <2>4. life'[a] = IF job[a] = "delete" THEN "none"
                   ELSE IF life[a] = "creating" THEN "present" ELSE life[a]
    BY <1>0, <2>1, <2>2, <2>3 DEF Shape
  <2> QED BY <1>i, <2>1, <2>2, <2>4
<1> QED
  BY <1>1, <1>2, <1>3, <1>4

LEMMA ConfiguredKept ==
  ASSUME TypeInv, Configured, Next, Undisturbed' PROVE Configured'
<1>0. /\ Shape /\ Whisk \in Actor /\ Whisk \notin Users /\ Users \subseteq Actor
      /\ ControlOK(Whisk)
  BY ActorsApart DEF TypeInv, Actor, Control
<1>1. ASSUME NEW a \in Actor, Handler(a) PROVE Configured'
  <2>1. conf' = conf
    BY <1>1, OnlyIts, <1>0
  <2>2. conf # Emptied /\ (cfgd' # cfgd => cfgd' = conf)
    BY <1>0, <1>1, Living, ConfsAssumption DEF Shape
  <2>3. ASSUME NEW u \in Users, life'[u] # "none" PROVE cfgd' # Emptied
    <3>1. life[u] # "none"
      BY <1>0, <1>1, <2>3, OnlyIts, Living
    <3> QED BY <2>2, <3>1 DEF Configured
  <2>4. ASSUME job'[Whisk] = "create" \/ life'[Whisk] = "present"
        PROVE  cfgd' = conf
    <3>1. CASE a # Whisk
      BY <1>0, <1>1, <2>4, <3>1, OnlyIts, Living DEF Configured
    <3>2. CASE a = Whisk /\ Start(a)
      BY <1>1, <2>4, <3>2, Living DEF Configured
    <3>3. CASE a = Whisk /\ ~Start(a)
      <4>0. job[Whisk] \in {"idle", "create", "delete"}
        BY <1>0 DEF Shape
      <4>1. job[Whisk] = "create" \/ life[Whisk] = "present"
        <5>1. CASE job'[Whisk] = "create"
          BY <1>1, <3>3, <5>1, Living
        <5>2. CASE life'[Whisk] = "present" /\ ~Return(Whisk)
          BY <1>1, <3>3, <5>2, Living
        <5>3. CASE life'[Whisk] = "present" /\ Return(Whisk)
          <6>1. job[Whisk] # "idle" /\ job[Whisk] # "delete"
            BY <1>1, <3>3, <5>3, Living
          <6> QED BY <4>0, <6>1
        <5> QED BY <2>4, <5>1, <5>2, <5>3
      <4> QED BY <1>1, <3>3, <4>1, Living DEF Configured
    <3> QED BY <3>1, <3>2, <3>3
  <2> QED BY <2>1, <2>2, <2>3, <2>4 DEF Configured
<1>2. CASE Install
  <2>1. /\ life[Whisk] = "none" /\ life' = [life EXCEPT ![Whisk] = "creating"]
        /\ conf'.kube = conf.kube /\ UNCHANGED << cfgd, job >>
    BY <1>2 DEF Install, running
  <2>2. job[Whisk] # "create"
    BY <1>0, <2>1 DEF ControlOK
  <2> QED BY <1>0, <2>1, <2>2 DEF Configured, Shape
<1>3. ASSUME NEW u \in Users, AddUser(u) PROVE Configured'
  <2>1. /\ cfgd # Emptied /\ life' = [life EXCEPT ![u] = "creating"]
        /\ UNCHANGED << conf, cfgd, job >>
    BY <1>3 DEF AddUser, running
  <2> QED BY <1>0, <2>1 DEF Configured, Shape
<1>4. ASSUME NEW a \in Actor, Discard(a) PROVE Configured'
  <2>1. /\ life[a] # "none" /\ life' = [life EXCEPT ![a] = "deleting"]
        /\ UNCHANGED << conf, cfgd, job >>
    BY <1>4 DEF Discard, running
  <2> QED BY <1>0, <2>1 DEF Configured, Shape
<1>5. CASE Move
  <2>1. UNCHANGED << conf, cfgd, life, job >>
    BY <1>5 DEF Move, running
  <2> QED BY <2>1 DEF Configured
<1>6. CASE Resume
  <2>1. cfgd = Emptied /\ life[Whisk] = "present" /\ conf # Emptied
    BY <1>0, <1>6, ConfsAssumption DEF Resume, Shape
  <2> QED BY <2>1 DEF Configured
<1>7. ~Crash
  <2>1. crashes \in Nat /\ crashes' = 0
    BY <1>0 DEF Undisturbed, Shape
  <2>2. Crash => crashes' = crashes + 1
    BY DEF Crash
  <2> QED BY <2>1, <2>2
<1> QED
  BY <1>1, <1>2, <1>3, <1>4, <1>5, <1>6, <1>7 DEF Next, Environment
--------------------------------------------------------------------------------
(***************************************************************************)
(* A user's URLs.                                                          *)
(***************************************************************************)
IdOf(c, u, url) == IF url[1] = "user-api" THEN ApiName(c, u, "apihost-my")
                                          ELSE StaticName(c, u)
Both(s) == \E x, y : s = { << "user-api", x >>, << "user-static", y >> }

Making(u) ==
  /\ Smooth(calls[u])
  /\ \A url \in urls[u] : Delivers(calls[u], objects, IdOf(conf, u, url), u, url[2])
  /\ \/ todo[u] = UserCreateBlocks /\ calls[u] = << >> /\ urls[u] = {}
     \/ todo[u] = << "user-static" >> /\ \E x : urls[u] = { << "user-api", x >> }
     \/ todo[u] = << >> /\ Both(urls[u])

Serving(u) ==
  /\ life[u] = "present" =>
       /\ job[u] = "idle" /\ Both(saved[u])
       /\ \A url \in saved[u] : Exposed(objects, IdOf(conf, u, url), u, url[2])
  /\ job[u] = "create" => Making(u)

LEMMA IdsOwned ==
  ASSUME NEW u \in Users
  PROVE  \A c, url : IdOwner(IdOf(c, u, url)) = u
BY NamesOwned, ActorsApart DEF IdOf, Actor

LEMMA SameIds ==
  ASSUME NEW c, NEW d, c.kube = d.kube
  PROVE  \A u, url : IdOf(c, u, url) = IdOf(d, u, url)
BY SameNames DEF IdOf

\* What others do leaves a user served.
LEMMA ServingKept ==
  ASSUME NEW u \in Users, Serving(u), conf'.kube = conf.kube,
         \A i : IdOwner(i) = u =>
           /\ i \in DOMAIN objects <=> i \in DOMAIN objects'
           /\ i \in DOMAIN objects => objects'[i] = objects[i],
         life'[u] = life[u] \/ life'[u] # "present",
         job'[u] = job[u], todo'[u] = todo[u], calls'[u] = calls[u],
         urls'[u] = urls[u], saved'[u] = saved[u]
  PROVE  Serving(u)'
<1>1. \A url : IdOf(conf', u, url) = IdOf(conf, u, url)
  BY SameIds
<1>2. \A url : Exposed(objects, IdOf(conf, u, url), u, url[2])
                 => Exposed(objects', IdOf(conf', u, url), u, url[2])
  BY <1>1, IdsOwned DEF Exposed
<1>3. \A s, url : Delivers(s, objects, IdOf(conf, u, url), u, url[2])
                    => Delivers(s, objects', IdOf(conf', u, url), u, url[2])
  BY <1>1, <1>2 DEF Delivers
<1>4. Making(u) => Making(u)'
  BY <1>3 DEF Making
<1> QED
  BY <1>2, <1>4 DEF Serving

LEMMA ServingMade ==
  ASSUME TypeInv, Configured, NEW u \in Users, Serving(u), Handler(u), Undisturbed'
  PROVE  Serving(u)'
<1>0. u \in Actor /\ u # Whisk /\ ControlOK(u) /\ Shape
  BY ActorsApart DEF Actor, TypeInv, Control
<1>l. life[u] = "present" => job[u] = "idle"
  BY DEF Serving
<1>c. UNCHANGED conf
  BY <1>0, OnlyIts
<1>b. todo[u] # << >> => Head(todo[u]) \in UserBlocks
  BY <1>0, BlockMine DEF BlocksOf
<1>i. Idle(u) /\ life' = life => Serving(u)' \/ life[u] = "present"
  <2> SUFFICES ASSUME Idle(u), life' = life, life[u] # "present" PROVE Serving(u)'
    OBVIOUS
  <2>1. job'[u] = "idle"
    BY <1>0 DEF Idle, Shape
  <2> QED BY <2>1 DEF Serving
<1>1. CASE Start(u)
  <2>1. /\ life'[u] = life[u] /\ calls'[u] = << >> /\ life[u] # "present"
        /\ \/ job'[u] = "create" /\ todo'[u] = UserCreateBlocks /\ urls'[u] = {}
           \/ job'[u] = "delete"
    BY <1>0, <1>1 DEF Start, Begin, Shape, ControlOK
  <2>2. Smooth(<< >>)
    BY Empty
  <2> QED BY <2>1, <2>2 DEF Serving, Making
<1>2. CASE Enter(u)
  <2> DEFINE b == Head(todo[u])
             h == HostOf(u)
             url == << b, h >>
  <2>1. /\ calls[u] = << >> /\ todo[u] # << >> /\ UNCHANGED << life, job, objects >>
        /\ todo'[u] = Tail(todo[u]) /\ calls'[u] = Calls(u, b)
        /\ urls'[u] = IF AsksUserHost(b) THEN urls[u] \cup { url } ELSE urls[u]
    BY <1>0, <1>2 DEF Enter, Shape, cluster
  <2>2. CASE job[u] # "create"
    <3>1. life[u] # "present"
      BY <1>0, <1>l, <2>1 DEF ControlOK
    <3> QED BY <2>1, <2>2, <3>1 DEF Serving
  <2>3. CASE job[u] = "create"
    <3>1. Making(u) /\ life[u] # "none" /\ life[u] # "present"
      BY <1>0, <2>3 DEF Serving, ControlOK
    <3>2. cfgd # Emptied /\ cfgd.kube = conf.kube /\ StaticOn
      BY <3>1 DEF Configured, StaticOn
    <3>3. /\ ApiName(cfgd, u, "apihost-my") = ApiName(conf, u, "apihost-my")
          /\ StaticName(cfgd, u) = StaticName(conf, u)
      BY <3>2, SameNames
    <3>u. url[1] = b /\ url[2] = h
      OBVIOUS
    <3>4. CASE todo[u] = UserCreateBlocks
      <4>1. b = "user-api" /\ Tail(todo[u]) = << "user-static" >>
        BY <3>4 DEF UserCreateBlocks
      <4>2. urls[u] = {}
        BY <3>1, <3>4 DEF Making, UserCreateBlocks
      <4>3. urls'[u] = { url } /\ calls'[u] = ApiCalls(cfgd, u, h, FALSE)
        BY <2>1, <4>1, <4>2 DEF AsksUserHost, Calls
      <4>4. Smooth(calls'[u]) /\ Delivers(calls'[u], objects', IdOf(conf, u, url), u, h)
        <5>1. "apihost-my" \in UserParts /\ "apihost-my" \in Parts(FALSE)
          BY DEF UserParts, Parts
        <5>2. ApiName(cfgd, u, "apihost-my") \in ApiGroup(cfgd, u, Parts(FALSE))
          BY <5>1 DEF ApiGroup
        <5>3. LET s == ApiCalls(cfgd, u, h, FALSE) IN
              /\ Ids(s) = ApiGroup(cfgd, u, Parts(FALSE)) /\ Smooth(s)
              /\ \A part \in UserParts : Fits(s, ApiName(cfgd, u, part), u, h)
          BY ApiMakes
        <5>4. LET s == ApiCalls(cfgd, u, h, FALSE) IN
              /\ Smooth(s) /\ ApiName(cfgd, u, "apihost-my") \in Ids(s)
              /\ Fits(s, ApiName(cfgd, u, "apihost-my"), u, h)
          BY <5>1, <5>2, <5>3
        <5> QED BY <3>3, <3>u, <4>1, <4>3, <5>4 DEF IdOf, Delivers
      <4>5. \E x : { url } = { << "user-api", x >> }
        BY <4>1
      <4> HIDE DEF url, h, b
      <4>6. Making(u)'
        BY <1>c, <2>1, <3>u, <4>1, <4>3, <4>4, <4>5 DEF Making
      <4> QED BY <2>1, <3>1, <4>6 DEF Serving
    <3>5. CASE todo[u] = << "user-static" >>
      <4>1. b = "user-static" /\ Tail(todo[u]) = << >> /\ todo[u] # UserCreateBlocks
        BY <3>5 DEF UserCreateBlocks
      <4>2. PICK x : urls[u] = { << "user-api", x >> }
        BY <3>1, <3>5, <4>1, <2>1 DEF Making
      <4> DEFINE old == << "user-api", x >>
      <4>3. urls'[u] = { old, url } /\ calls'[u] = StaticCalls(cfgd, u, u, h)
        BY <2>1, <3>2, <4>1, <4>2 DEF AsksUserHost, Calls, When
      <4>4. LET s == StaticCalls(cfgd, u, u, h) IN
            /\ Smooth(s) /\ Ids(s) = StaticGroup(cfgd, {u})
            /\ Fits(s, StaticName(cfgd, u), u, h)
        BY StaticMakes
      <4>5. StaticName(cfgd, u) \in StaticGroup(cfgd, {u})
            /\ ApiName(cfgd, u, "apihost-my") \notin StaticGroup(cfgd, {u})
        BY NamesApart DEF StaticGroup
      <4>6. Delivers(calls'[u], objects', IdOf(conf, u, url), u, h)
        BY <3>3, <3>u, <4>1, <4>3, <4>4, <4>5 DEF IdOf, Delivers
      <4>7. old[1] = "user-api" /\ old[2] = x
        OBVIOUS
      <4>8. Delivers(calls'[u], objects', IdOf(conf, u, old), u, x)
        <5>1. Exposed(objects, IdOf(conf, u, old), u, x)
          BY <2>1, <3>1, <4>2, <4>7, NothingLeft DEF Making
        <5>2. IdOf(conf, u, old) = ApiName(cfgd, u, "apihost-my")
          BY <3>3, <4>7 DEF IdOf
        <5>3. Fits(calls'[u], IdOf(conf, u, old), u, x)
          BY <4>3, <4>4, <4>5, <5>2, Untouched
        <5> QED BY <2>1, <5>1, <5>3 DEF Delivers
      <4>9. Both({ old, url })
        BY <4>1 DEF Both
      <4> HIDE DEF url, h, b, old
      <4>10. Making(u)'
        BY <1>c, <2>1, <3>u, <4>1, <4>3, <4>4, <4>6, <4>7, <4>8, <4>9 DEF Making
      <4> QED BY <2>1, <3>1, <4>10 DEF Serving
    <3> QED BY <2>1, <3>1, <3>4, <3>5 DEF Making
  <2> QED BY <2>2, <2>3
<1>3. CASE EnterFails(u)
  <2>1. Idle(u) /\ life' = life
    BY <1>3, <1>b DEF EnterFails, UserBlocks
  <2>2. life[u] # "present"
    BY <1>0, <1>3, <1>l DEF EnterFails, ControlOK
  <2> QED BY <1>i, <2>1, <2>2
<1>4. CASE Call(u)
  <2>1. /\ calls[u] # << >> /\ Listed(calls[u]) /\ calls'[u] = Tail(calls[u])
        /\ After(Head(calls[u]), objects, objects', notes, notes')
        /\ UNCHANGED << life, job, todo, urls, saved >>
    BY <1>0, <1>4, CallDoes DEF stored
  <2>2. life[u] # "present"
    BY <1>0, <1>l, <2>1 DEF ControlOK
  <2>3. ASSUME job[u] = "create" PROVE Making(u)'
    <3>1. Making(u)
      BY <2>3 DEF Serving
    <3>2. /\ Smooth(calls[u]) => Smooth(calls'[u])
          /\ \A id, of, host : Delivers(calls[u], objects, id, of, host)
                                 => Delivers(calls'[u], objects', id, of, host)
      BY <2>1, Sent
    <3> QED BY <1>c, <2>1, <3>1, <3>2 DEF Making
  <2> QED BY <2>1, <2>2, <2>3 DEF Serving
<1>5. CASE CallFails(u)
  <2>1. /\ calls[u] # << >> /\ UNCHANGED life /\ Impossible(Current(u))
        /\ Idle(u) \/ UNCHANGED job
    BY <1>0, <1>5, Undisturbing DEF CallFails, stored
  <2>2. life[u] # "present"
    BY <1>0, <1>l, <2>1 DEF ControlOK
  <2>3. job[u] # "create"
    <3> SUFFICES ASSUME job[u] = "create" PROVE FALSE
      OBVIOUS
    <3>1. Smooth(calls[u])
      BY DEF Serving, Making
    <3>2. Listed(calls[u])
      BY <1>0 DEF ControlOK, AllMine
    <3>3. Current(u) \in Members(calls[u])
      BY <2>1, <3>2, Rest DEF Current
    <3> QED BY <2>1, <3>1, <3>3 DEF Smooth, Impossible
  <2> QED BY <1>i, <2>1, <2>2, <2>3 DEF Serving
<1>6. CASE Return(u)
  <2>1. /\ calls[u] = << >> /\ todo[u] = << >> /\ UNCHANGED << objects, conf >>
        /\ job[u] # "idle"
        /\ saved'[u] = IF job[u] = "create" THEN urls[u] ELSE {}
    <3>1. ~Fault
      BY <1>0, <1>6, Undisturbing DEF Handler
    <3> QED BY <1>0, <1>6, <3>1 DEF Return, Shape, cluster
  <2>2. job'[u] = "idle"
    BY <1>0, <1>6, Living
  <2>3. CASE job[u] = "create"
    <3>1. Making(u)
      BY <2>3 DEF Serving
    <3>2. Both(urls[u])
      BY <2>1, <3>1 DEF Making, UserCreateBlocks
    <3>3. \A url \in urls[u] : Exposed(objects, IdOf(conf, u, url), u, url[2])
      BY <2>1, <3>1, NothingLeft DEF Making
    <3> QED BY <2>1, <2>2, <2>3, <3>2, <3>3 DEF Serving
  <2>4. CASE job[u] # "create"
    <3>1. job[u] = "delete"
      BY <1>0, <2>1, <2>4 DEF Shape
    <3>2. life'[u] # "present"
      BY <1>0, <1>6, <3>1, Living
    <3> QED BY <2>2, <3>2 DEF Serving
  <2> QED BY <2>3, <2>4
<1> QED
  BY <1>1, <1>2, <1>3, <1>4, <1>5, <1>6 DEF Handler

\* And nor does what happens around.
LEMMA ServingAround ==
  ASSUME TypeInv, NEW u \in Users, Serving(u), Environment, Undisturbed'
  PROVE  Serving(u)'
<1>0. u \in Actor /\ ControlOK(u) /\ Shape
  BY DEF Actor, TypeInv, Control
<1>1. ~Crash
  <2>1. crashes \in Nat /\ crashes' = 0
    BY <1>0 DEF Undisturbed, Shape
  <2>2. Crash => crashes' = crashes + 1
    BY DEF Crash
  <2> QED BY <2>1, <2>2
<1>2. UNCHANGED << objects, job, todo, calls, urls, saved >>
  BY <1>1 DEF Environment, Install, Move, Resume, AddUser, Discard, cluster, running, stored
<1>3. conf'.kube = conf.kube
  BY <1>1 DEF Environment, Install, Move, Resume, AddUser, Discard
<1>4. life'[u] = life[u] \/ life'[u] # "present"
  <2>1. \/ UNCHANGED life
        \/ \E a \in Actor : \E l \in {"creating", "deleting"} : life' = [life EXCEPT ![a] = l]
    BY <1>1, ActorsApart DEF Environment, Install, Move, Resume, AddUser, Discard, Actor
  <2> QED BY <1>0, <2>1 DEF Shape
<1> QED
  BY <1>2, <1>3, <1>4, ServingKept

ServedInv == Undisturbed => Configured /\ \A u \in Users : Serving(u)

LEMMA ServedKept == TypeInv /\ ServedInv /\ [Next]_vars => ServedInv'
<1> SUFFICES ASSUME TypeInv, ServedInv, [Next]_vars, Undisturbed'
             PROVE  Configured' /\ \A u \in Users : Serving(u)'
  BY DEF ServedInv
<1>1. CASE UNCHANGED vars
  <2>1. /\ UNCHANGED << objects, notes, conf, cfgd, life, job, todo, calls, urls, saved >>
        /\ UNCHANGED << faults, crashes >>
    BY <1>1 DEF vars, cluster, running, stored, budget
  <2>2. Configured /\ \A u \in Users : Serving(u)
    BY <2>1 DEF ServedInv, Undisturbed
  <2> QED BY <2>1, <2>2, ServingKept DEF Configured
<1>2. CASE Next
  <2>1. Undisturbed
    <3>1. CASE Environment
      <4>1. crashes \in Nat /\ crashes' = 0 /\ faults' = 0
        BY DEF Undisturbed, TypeInv, Shape
      <4>2. Crash => crashes' = crashes + 1
        BY DEF Crash
      <4>3. ~Crash
        BY <4>1, <4>2
      <4>4. UNCHANGED << faults, crashes >>
        BY <3>1, <4>3 DEF Environment, Install, Move, Resume, AddUser, Discard, budget
      <4> QED BY <4>1, <4>4 DEF Undisturbed
    <3>2. ASSUME NEW a \in Actor, Handler(a) PROVE Undisturbed
      BY <3>2, Undisturbing
    <3> QED BY <1>2, <3>1, <3>2 DEF Next
  <2>2. Configured /\ \A u \in Users : Serving(u)
    BY <2>1 DEF ServedInv
  <2>3. Configured'
    BY <1>2, <2>2, ConfiguredKept
  <2>4. ASSUME NEW u \in Users PROVE Serving(u)'
    <3>0. u \in Actor
      BY DEF Actor
    <3>1. CASE Environment
      BY <2>2, <3>1, ServingAround
    <3>2. CASE Handler(u)
      BY <2>2, <3>2, ServingMade
    <3>3. ASSUME NEW a \in Actor, a # u, Handler(a) PROVE Serving(u)'
      <4>1. \A i : IdOwner(i) = u =>
              /\ i \in DOMAIN objects <=> i \in DOMAIN objects'
              /\ i \in DOMAIN objects => objects'[i] = objects[i]
        BY <3>3, ObjectsOwn
      <4>2. /\ life'[u] = life[u] /\ job'[u] = job[u] /\ todo'[u] = todo[u]
            /\ calls'[u] = calls[u] /\ urls'[u] = urls[u] /\ saved'[u] = saved[u]
            /\ conf' = conf
        BY <3>0, <3>3, OnlyIts DEF TypeInv
      <4> QED BY <2>2, <4>1, <4>2, ServingKept
    <3> QED BY <1>2, <3>1, <3>2, <3>3 DEF Next
  <2> QED BY <2>3, <2>4
<1> QED
  BY <1>1, <1>2

\* The two URLs stored for a user are served by that user's own objects for as
\* long as the user exists, whatever becomes of the Whisk object, of its
\* configuration, of the address and of the other users, unless a call failed or
\* the operator restarted (whisk_user_create, save_user_metadata).
THEOREM ServedCorrect == Spec => []UserServed
<1>1. Init => ServedInv
  <2> SUFFICES ASSUME Init PROVE Configured /\ \A u \in Users : Serving(u)
    BY DEF ServedInv
  <2>1. /\ cfgd = Emptied /\ \A a \in Actor : life[a] = "none" /\ job[a] = "idle"
    BY DEF Init
  <2>2. Users \subseteq Actor /\ Whisk \in Actor
    BY DEF Actor
  <2> QED BY <2>1, <2>2 DEF Configured, Serving
<1>2. ServedInv => UserServed
  <2> SUFFICES ASSUME ServedInv, NEW u \in Users, Undisturbed, life[u] = "present"
               PROVE  Cardinality(saved[u]) = 2 /\ \A url \in saved[u] : ServedBy(u, url)
    BY DEF UserServed
  <2>1. /\ Both(saved[u])
        /\ \A url \in saved[u] : Exposed(objects, IdOf(conf, u, url), u, url[2])
    BY DEF ServedInv, Serving
  <2>2. Cardinality(saved[u]) = 2
    <3>1. PICK x, y : saved[u] = { << "user-api", x >>, << "user-static", y >> }
      BY <2>1 DEF Both
    <3>2. << "user-api", x >> # << "user-static", y >>
      OBVIOUS
    <3> DEFINE a == << "user-api", x >>
               b == << "user-static", y >>
    <3>3. IsFiniteSet({a}) /\ Cardinality({a}) = 1
      BY FS_Singleton
    <3>4. a # b /\ saved[u] = {a} \cup {b}
      BY <3>1, <3>2
    <3> HIDE DEF a, b
    <3>5. b \notin {a}
      BY <3>4
    <3>6. Cardinality({a} \cup {b}) = Cardinality({a}) + 1
      BY <3>3, <3>5, FS_AddElement
    <3> QED BY <3>3, <3>4, <3>6
  <2> QED BY <2>1, <2>2 DEF Exposed, IdOf, ServedBy
<1> QED
  BY <1>1, <1>2, TypesAtFirst, TypesKept, ServedKept, PTL DEF Spec
--------------------------------------------------------------------------------
(***************************************************************************)
(* The blocks that remove.                                                 *)
(***************************************************************************)
Deletes(s) == \A c \in Members(s) : c.do = "delete"

LEMMA DeletesSome ==
  /\ \A s, t : Listed(s) /\ Listed(t) /\ Deletes(s) /\ Deletes(t) => Deletes(s \o t)
  /\ \A condition \in BOOLEAN : \A s : Deletes(s) => Deletes(When(condition, s))
  /\ \A id : Deletes(Delete(id))
  /\ \A ids : Listed(ids) => Deletes(DeleteAll(ids))
<1>1. \A s, t : Listed(s) /\ Listed(t) /\ Deletes(s) /\ Deletes(t) => Deletes(s \o t)
  BY CatMembers DEF Deletes
<1>2. \A condition \in BOOLEAN : \A s : Deletes(s) => Deletes(When(condition, s))
  BY NoMembers DEF Deletes, When, Nothing
<1>3. ASSUME NEW id PROVE Deletes(Delete(id))
  BY OneMember DEF Deletes, Delete
<1>4. ASSUME NEW ids PROVE Deletes(DeleteAll(ids))
  <2> DEFINE m == [i \in DOMAIN ids |-> [do |-> "delete", id |-> ids[i]]]
  <2>1. \A i \in DOMAIN m : m[i].do = "delete"
    OBVIOUS
  <2> HIDE DEF m
  <2>2. Deletes(m)
    BY <2>1 DEF Deletes, Members
  <2> QED BY <2>2 DEF m, DeleteAll
<1> QED
  BY <1>1, <1>2, <1>3, <1>4

\* delete_ow_api_endpoint, delete_ow_static_endpoint and delete_minio_ingress
LEMMA RemovalMakes ==
  ASSUME NEW c, NEW ns, NEW parts, Listed(parts)
  PROVE  /\ LET s == EndpointRemoval(c, ns, parts) IN
            Listed(s) /\ Deletes(s) /\ Ids(s) = ApiGroup(c, ns, Members(parts))
         /\ LET s == StaticRemoval(c, parts) IN
            Listed(s) /\ Deletes(s) /\ Ids(s) = StaticGroup(c, Members(parts))
         /\ \A part : LET s == MinioRemoval(c, part) IN
            Listed(s) /\ Deletes(s) /\ Ids(s) = ApiGroup(c, Whisk, {part})
<1>0. Traefik(c) \in BOOLEAN
  BY DEF Traefik
<1> HIDE DEF Traefik
<1>c. ASSUME NEW s, NEW t, Listed(s), Listed(t), Deletes(s), Deletes(t)
      PROVE  LET w == When(Traefik(c), s) \o t IN
             /\ Listed(w) /\ Deletes(w)
             /\ Ids(w) = (IF Traefik(c) THEN Ids(s) ELSE {}) \cup Ids(t)
  BY <1>c, <1>0, Whenever, Cat, DeletesSome
<1>r. ASSUME NEW s, NEW t, Listed(s), Listed(t), Deletes(s), Deletes(t)
      PROVE  LET w == t \o When(Traefik(c), s) IN
             /\ Listed(w) /\ Deletes(w)
             /\ Ids(w) = (IF Traefik(c) THEN Ids(s) ELSE {}) \cup Ids(t)
  BY <1>r, <1>0, Whenever, Cat, DeletesSome
<1>1. LET s == EndpointRemoval(c, ns, parts) IN
      Listed(s) /\ Deletes(s) /\ Ids(s) = ApiGroup(c, ns, Members(parts))
  <2> DEFINE mws == [i \in DOMAIN parts |-> ApiMiddleware(ns, parts[i])]
             ids == [i \in DOMAIN parts |-> ApiName(c, ns, parts[i])]
  <2>1. /\ Listed(mws) /\ Members(mws) = { ApiMiddleware(ns, p) : p \in Members(parts) }
        /\ Listed(ids) /\ Members(ids) = { ApiName(c, ns, p) : p \in Members(parts) }
    <3>1. Listed(mws) /\ Listed(ids)
      BY Mapped
    <3> QED BY <3>1 DEF Members
  <2> HIDE DEF mws, ids
  <2>2. /\ Listed(DeleteAll(mws)) /\ Ids(DeleteAll(mws)) = Members(mws)
        /\ Listed(DeleteAll(ids)) /\ Ids(DeleteAll(ids)) = Members(ids)
        /\ Deletes(DeleteAll(mws)) /\ Deletes(DeleteAll(ids))
    BY <2>1, AllDeleted, DeletesSome
  <2>3. EndpointRemoval(c, ns, parts) = When(Traefik(c), DeleteAll(mws)) \o DeleteAll(ids)
    BY DEF EndpointRemoval, mws, ids
  <2>4. ApiGroup(c, ns, Members(parts)) = (IF Traefik(c) THEN Members(mws) ELSE {})
                                            \cup Members(ids)
    BY <2>1 DEF ApiGroup
  <2> HIDE DEF ApiGroup
  <2> QED BY <1>c, <2>2, <2>3, <2>4
<1>2. LET s == StaticRemoval(c, parts) IN
      Listed(s) /\ Deletes(s) /\ Ids(s) = StaticGroup(c, Members(parts))
  <2> DEFINE mws == [i \in DOMAIN parts |-> StaticMiddleware(parts[i])]
             ids == [i \in DOMAIN parts |-> StaticName(c, parts[i])]
  <2>1. /\ Listed(mws) /\ Members(mws) = { StaticMiddleware(n) : n \in Members(parts) }
        /\ Listed(ids) /\ Members(ids) = { StaticName(c, n) : n \in Members(parts) }
    <3>1. Listed(mws) /\ Listed(ids)
      BY Mapped
    <3> QED BY <3>1 DEF Members
  <2> HIDE DEF mws, ids
  <2>2. /\ Listed(DeleteAll(mws)) /\ Ids(DeleteAll(mws)) = Members(mws)
        /\ Listed(DeleteAll(ids)) /\ Ids(DeleteAll(ids)) = Members(ids)
        /\ Deletes(DeleteAll(mws)) /\ Deletes(DeleteAll(ids))
    BY <2>1, AllDeleted, DeletesSome
  <2>3. StaticRemoval(c, parts) = When(Traefik(c), DeleteAll(mws)) \o DeleteAll(ids)
    BY DEF StaticRemoval, mws, ids
  <2>4. StaticGroup(c, Members(parts)) = (IF Traefik(c) THEN Members(mws) ELSE {})
                                           \cup Members(ids)
    BY <2>1 DEF StaticGroup
  <2> HIDE DEF StaticGroup
  <2> QED BY <1>c, <2>2, <2>3, <2>4
<1>3. ASSUME NEW part
      PROVE  LET s == MinioRemoval(c, part) IN
             Listed(s) /\ Deletes(s) /\ Ids(s) = ApiGroup(c, Whisk, {part})
  <2> DEFINE A == ApiName(c, Whisk, part)
             M == ApiMiddleware(Whisk, part)
  <2> HIDE DEF A, M
  <2>1. /\ Listed(Delete(A)) /\ Ids(Delete(A)) = {A} /\ Deletes(Delete(A))
        /\ Listed(Delete(M)) /\ Ids(Delete(M)) = {M} /\ Deletes(Delete(M))
    BY Deleted, DeletesSome
  <2>2. MinioRemoval(c, part) = Delete(A) \o When(Traefik(c), Delete(M))
    BY DEF MinioRemoval, Whisk, A, M
  <2>3. ApiGroup(c, Whisk, {part}) = (IF Traefik(c) THEN {M} ELSE {}) \cup {A}
    BY DEF ApiGroup, A, M
  <2> DEFINE d == Delete(A)
             e == Delete(M)
  <2> HIDE DEF d, e
  <2>4. LET w == d \o When(Traefik(c), e) IN
        /\ Listed(w) /\ Deletes(w)
        /\ Ids(w) = (IF Traefik(c) THEN Ids(e) ELSE {}) \cup Ids(d)
    BY <1>r, <2>1 DEF d, e
  <2> QED BY <2>1, <2>2, <2>3, <2>4 DEF d, e
<1> QED
  BY <1>1, <1>2, <1>3

LEMMA PartsListed ==
  /\ Listed(NuvParts) /\ Members(NuvParts) = MoreParts(NeedsWww(cfgd, Host))
  /\ Listed(NuvStatics) /\ Members(NuvStatics) = Statics(NeedsWww(cfgd, Host))
  /\ Listed(<< "apihost", "apihost-my" >>)
  /\ Members(<< "apihost", "apihost-my" >>) = UserParts
<1> DEFINE www == NeedsWww(cfgd, Host)
<1>0. www \in BOOLEAN
  BY DEF NeedsWww
<1> HIDE DEF www
<1>1. \A x : Listed(<< x >>) /\ Members(<< x >>) = {x}
  BY OneMember
<1>2. \A x, y : Listed(<< x, y >>) /\ Members(<< x, y >>) = {x, y}
  <2> SUFFICES ASSUME NEW x, NEW y
               PROVE  Listed(<< x, y >>) /\ Members(<< x, y >>) = {x, y}
    OBVIOUS
  <2> DEFINE t == << x, y >>
  <2>1. t \in Seq({x, y}) /\ DOMAIN t = 1 .. 2 /\ t[1] = x /\ t[2] = y
    OBVIOUS
  <2> HIDE DEF t
  <2>2. Listed(t) /\ Members(t) = {x, y}
    BY <2>1, Listing DEF Members
  <2> QED BY <2>2 DEF t
<1>3. \A x, y, z : Listed(<< x, y, z >>) /\ Members(<< x, y, z >>) = {x, y, z}
  <2> SUFFICES ASSUME NEW x, NEW y, NEW z
               PROVE  Listed(<< x, y, z >>) /\ Members(<< x, y, z >>) = {x, y, z}
    OBVIOUS
  <2> DEFINE t == << x, y, z >>
  <2>1. t \in Seq({x, y, z}) /\ DOMAIN t = 1 .. 3 /\ t[1] = x /\ t[2] = y /\ t[3] = z
    OBVIOUS
  <2> HIDE DEF t
  <2>2. Listed(t) /\ Members(t) = {x, y, z}
    BY <2>1, Listing DEF Members
  <2> QED BY <2>2 DEF t
<1>4. \A x : /\ Listed(When(www, << x >>))
             /\ Members(When(www, << x >>)) = IF www THEN {x} ELSE {}
  BY <1>0, <1>1, NoMembers DEF When, Nothing
<1>5. Listed(NuvParts) /\ Members(NuvParts) = MoreParts(www)
  <2> DEFINE p == << "apihost", "apihost-my", "apihost-info" >>
             q == When(www, << "apihost-www-my" >>)
  <2>1. NuvParts = p \o q
    BY DEF NuvParts, www
  <2>2. /\ Listed(p) /\ Members(p) = {"apihost", "apihost-my", "apihost-info"}
        /\ Listed(q) /\ Members(q) = IF www THEN {"apihost-www-my"} ELSE {}
    BY <1>3, <1>4
  <2> HIDE DEF p, q
  <2>3. /\ Listed(NuvParts)
        /\ Members(NuvParts) = {"apihost", "apihost-my", "apihost-info"}
             \cup (IF www THEN {"apihost-www-my"} ELSE {})
    BY <2>1, <2>2, CatMembers
  <2> QED BY <2>3 DEF MoreParts, Parts, UserParts
<1>6. Listed(NuvStatics) /\ Members(NuvStatics) = Statics(www)
  <2> DEFINE p == << Whisk >>
             q == When(www, << "www-nuvolaris" >>)
  <2>1. NuvStatics = p \o q
    BY DEF NuvStatics, www
  <2>2. /\ Listed(p) /\ Members(p) = {Whisk}
        /\ Listed(q) /\ Members(q) = IF www THEN {"www-nuvolaris"} ELSE {}
    BY <1>1, <1>4
  <2> HIDE DEF p, q
  <2>3. /\ Listed(NuvStatics)
        /\ Members(NuvStatics) = {Whisk} \cup (IF www THEN {"www-nuvolaris"} ELSE {})
    BY <2>1, <2>2, CatMembers
  <2> QED BY <2>3 DEF Statics
<1> QED
  BY <1>2, <1>5, <1>6 DEF www, UserParts

\* What each block of whisk_delete removes.
LEMMA WhiskRemoves ==
  LET www == NeedsWww(cfgd, Host) IN
  /\ LET s == Calls(Whisk, "endpoint-removal") IN
       Listed(s) /\ Deletes(s) /\ Ids(s) = ApiGroup(cfgd, Whisk, MoreParts(www))
  /\ LET s == Calls(Whisk, "static-removal") IN
       Listed(s) /\ Deletes(s) /\ Ids(s) = StaticGroup(cfgd, Statics(www))
  /\ LET s == Calls(Whisk, "upload-removal") IN
       Listed(s) /\ Deletes(s) /\ Ids(s) = ApiGroup(cfgd, Whisk, {"minio-upload"})
  /\ LET s == Calls(Whisk, "s3-removal") IN
       /\ Listed(s) /\ Deletes(s)
       /\ Ids(s) = IF Extra THEN ApiGroup(cfgd, Whisk, {"minio-s3"}) ELSE {}
  /\ LET s == Calls(Whisk, "console-removal") IN
       /\ Listed(s) /\ Deletes(s)
       /\ Ids(s) = IF Extra THEN ApiGroup(cfgd, Whisk, {"minio-console"}) ELSE {}
<1> DEFINE www == NeedsWww(cfgd, Host)
<1>0. Extra \in BOOLEAN
  BY DEF Extra
<1>1. LET s == EndpointRemoval(cfgd, Whisk, NuvParts) IN
      Listed(s) /\ Deletes(s) /\ Ids(s) = ApiGroup(cfgd, Whisk, MoreParts(www))
  BY PartsListed, RemovalMakes
<1>2. LET s == StaticRemoval(cfgd, NuvStatics) IN
      Listed(s) /\ Deletes(s) /\ Ids(s) = StaticGroup(cfgd, Statics(www))
  BY PartsListed, RemovalMakes
<1>3. \A part : LET s == MinioRemoval(cfgd, part) IN
      Listed(s) /\ Deletes(s) /\ Ids(s) = ApiGroup(cfgd, Whisk, {part})
  BY PartsListed, RemovalMakes
<1>4. \A part : LET s == When(Extra, MinioRemoval(cfgd, part)) IN
      /\ Listed(s) /\ Deletes(s)
      /\ Ids(s) = IF Extra THEN ApiGroup(cfgd, Whisk, {part}) ELSE {}
  BY <1>0, <1>3, Whenever, DeletesSome
<1>5. /\ Calls(Whisk, "endpoint-removal") = EndpointRemoval(cfgd, Whisk, NuvParts)
      /\ Calls(Whisk, "static-removal") = StaticRemoval(cfgd, NuvStatics)
      /\ Calls(Whisk, "upload-removal") = MinioRemoval(cfgd, "minio-upload")
      /\ Calls(Whisk, "s3-removal") = When(Extra, MinioRemoval(cfgd, "minio-s3"))
      /\ Calls(Whisk, "console-removal") = When(Extra, MinioRemoval(cfgd, "minio-console"))
  BY DEF Calls
<1> HIDE DEF Calls, www, Extra
<1> QED
  BY <1>1, <1>2, <1>3, <1>4, <1>5 DEF www
--------------------------------------------------------------------------------
(***************************************************************************)
(* What cm/config says of the installation.                                *)
(***************************************************************************)
WId(part) == ApiName(conf, Whisk, part)

\* A note and the host of a part are the same, or will be after the calls to come.
Put(part, key) ==
  \E h : /\ Tells(calls[Whisk], notes, key, h)
         /\ Delivers(calls[Whisk], objects, WId(part), Whisk, h)

Extras == conf.extra = "auto" /\ conf.kube # "kind" =>
            Put("minio-s3", "s3") /\ Put("minio-console", "console")
Ended == moves = 0 => Put("apihost", "apihost")
Answering == moves = 0 => Host # NoHost

\* Of what is there, from this creation or an earlier one.
Agreed ==
  \/ Smooth(calls[Whisk]) /\ Put("apihost", "apihost")
  \/ /\ "apihost" \notin Keys(calls[Whisk])
     /\ \A c \in Members(calls[Whisk]) : c.do = "apply" => c.id # WId("apihost")
     /\ WId("apihost") \in DOMAIN objects =>
          objects[WId("apihost")].host = notes["apihost"]

RemovalBlocks == {"endpoint-removal", "static-removal", "upload-removal", "s3-removal",
                  "console-removal", "raise"}

\* Of what has to be there.
Noting ==
  /\ job[Whisk] = "delete" => todo[Whisk] \in Seq(RemovalBlocks)
  /\ life[Whisk] = "present" => job[Whisk] = "idle" /\ Extras /\ Ended
  /\ job[Whisk] = "create" =>
       \/ todo[Whisk] = CreateBlocks /\ calls[Whisk] = << >>
       \/ /\ todo[Whisk] = << "static", "endpoint" >> /\ block[Whisk] = "minio"
          /\ Extras /\ Answering
       \/ /\ todo[Whisk] = << "endpoint" >> /\ Smooth(calls[Whisk])
          /\ Extras /\ Answering
       \/ todo[Whisk] = << >> /\ Smooth(calls[Whisk]) /\ Extras /\ Ended

LEMMA WhiskOwned ==
  \A part : IdOwner(WId(part)) = Whisk
BY NamesOwned DEF WId, Actor

\* What others do leaves the notes true.
LEMMA NotingKept ==
  ASSUME Shape, Agreed, Noting, conf'.kube = conf.kube,
         \A i : IdOwner(i) = Whisk =>
           /\ i \in DOMAIN objects <=> i \in DOMAIN objects'
           /\ i \in DOMAIN objects => objects'[i] = objects[i],
         notes' = notes, calls'[Whisk] = calls[Whisk], todo'[Whisk] = todo[Whisk],
         block'[Whisk] = block[Whisk], job'[Whisk] = job[Whisk],
         \/ life'[Whisk] = life[Whisk] \/ life'[Whisk] # "present",
         job[Whisk] = "create" \/ life'[Whisk] = "present" => conf' = conf,
         moves' = 0 => moves = 0 /\ addr' = addr /\ cfgd' = cfgd
  PROVE  Agreed' /\ Noting'
<1>1. \A part : WId(part)' = WId(part)
  BY SameNames DEF WId
<1>2. \A part, of, h : Exposed(objects, WId(part), of, h)
                         => Exposed(objects', WId(part), of, h)
  BY WhiskOwned DEF Exposed
<1>3. \A s, part, of, h : Delivers(s, objects, WId(part), of, h)
                            => Delivers(s, objects', WId(part), of, h)
  BY <1>2 DEF Delivers
<1>4. ASSUME NEW part, NEW key, Put(part, key) PROVE Put(part, key)'
  BY <1>1, <1>3, <1>4 DEF Put
<1>5. Agreed'
  <2>1. CASE Smooth(calls[Whisk]) /\ Put("apihost", "apihost")
    BY <1>4, <2>1 DEF Agreed
  <2>2. CASE ~(Smooth(calls[Whisk]) /\ Put("apihost", "apihost"))
    BY <1>1, <2>2, WhiskOwned DEF Agreed
  <2> QED BY <2>1, <2>2
<1>6. conf' = conf /\ Extras => Extras'
  BY <1>4 DEF Extras
<1>7. Ended => Ended'
  BY <1>4 DEF Ended
<1>8. Answering => Answering'
  BY DEF Answering, Host
<1>9. Noting'
  BY <1>6, <1>7, <1>8 DEF Noting
<1> QED
  BY <1>5, <1>9

LEMMA NotesApart ==
  /\ WId("apihost") # WId("minio-s3") /\ WId("apihost") # WId("minio-console")
  /\ \A c : c.kube = conf.kube =>
       /\ \A www : \A part \in {"apihost", "minio-s3", "minio-console"} :
            WId(part) \notin StaticGroup(c, Statics(www))
       /\ \A www : \A part \in {"minio-s3", "minio-console"} :
            WId(part) \notin ApiGroup(c, Whisk, MoreParts(www))
       /\ WId("apihost") \notin ApiGroup(c, Whisk, {"minio-upload"})
<1>1. WId("apihost") # WId("minio-s3") /\ WId("apihost") # WId("minio-console")
  BY NamesApart DEF WId
<1>2. ASSUME NEW c, c.kube = conf.kube
      PROVE  /\ \A www : \A part \in {"apihost", "minio-s3", "minio-console"} :
                  WId(part) \notin StaticGroup(c, Statics(www))
             /\ \A www : \A part \in {"minio-s3", "minio-console"} :
                  WId(part) \notin ApiGroup(c, Whisk, MoreParts(www))
             /\ WId("apihost") \notin ApiGroup(c, Whisk, {"minio-upload"})
  <2>1. \A part : WId(part) = ApiName(c, Whisk, part)
    BY <1>2, SameNames DEF WId
  <2>2. \A part, ns : WId(part) # StaticName(c, ns) /\ WId(part) # StaticMiddleware(ns)
    BY <2>1, NamesApart
  <2>3. \A part, q : /\ WId(part) # ApiMiddleware(Whisk, q)
                     /\ WId(part) = ApiName(c, Whisk, q) => part = q
    BY <2>1, NamesApart
  <2> HIDE DEF WId
  <2>4. \A www, part : WId(part) \notin StaticGroup(c, Statics(www))
    BY <2>2 DEF StaticGroup
  <2>5. \A parts, part : part \notin parts => WId(part) \notin ApiGroup(c, Whisk, parts)
    BY <2>3 DEF ApiGroup
  <2>6. \A www : \A part \in {"minio-s3", "minio-console"} : part \notin MoreParts(www)
    BY DEF MoreParts, Parts, UserParts
  <2> QED BY <2>4, <2>5, <2>6
<1> QED
  BY <1>1, <1>2

\* The blocks of a creation.
LEMMA WhiskMakes ==
  ASSUME cfgd = conf
  PROVE  /\ LET s == Calls(Whisk, "minio") IN
            /\ Listed(s) /\ "apihost" \notin Keys(s)
            /\ Ids(s) = ApiGroup(conf, Whisk, {"minio-upload"})
                 \cup (IF conf.extra = "auto" THEN {WId("minio-s3"), WId("minio-console")}
                                              ELSE {})
            /\ conf.extra # "named" => Smooth(s)
            /\ conf.extra = "auto" /\ conf.kube # "kind" =>
                 \E h, k : /\ Says(s, "s3", h) /\ Says(s, "console", k)
                           /\ Fits(s, WId("minio-s3"), Whisk, h)
                           /\ Fits(s, WId("minio-console"), Whisk, k)
                           /\ {"s3", "console"} \subseteq Keys(s)
         /\ LET s == Calls(Whisk, "static") IN
            /\ Listed(s) /\ Keys(s) = {} /\ Smooth(s)
            /\ Ids(s) = StaticGroup(conf, Statics(NeedsWww(conf, Host)))
         /\ LET s == Calls(Whisk, "endpoint") IN
            /\ Listed(s) /\ Keys(s) = {"apihost"} /\ Smooth(s)
            /\ Ids(s) = ApiGroup(conf, Whisk, MoreParts(NeedsWww(conf, Host)))
            /\ Says(s, "apihost", Host) /\ Fits(s, WId("apihost"), Whisk, Host)
            /\ WId("apihost") \in Ids(s)
<1> DEFINE H == Host
<1>0. /\ Calls(Whisk, "minio") = MinioCalls(conf, H)
      /\ Calls(Whisk, "static") = NuvStaticCalls(conf, H)
      /\ Calls(Whisk, "endpoint") = EndpointCalls(conf, H)
  BY DEF Calls
<1> HIDE DEF H
<1>1. LET s == MinioCalls(conf, H) IN
      /\ Listed(s) /\ "apihost" \notin Keys(s)
      /\ Ids(s) = ApiGroup(conf, Whisk, {"minio-upload"})
           \cup (IF conf.extra = "auto" THEN {WId("minio-s3"), WId("minio-console")} ELSE {})
      /\ conf.extra # "named" => Smooth(s)
      /\ conf.extra = "auto" /\ conf.kube # "kind" =>
           \E h, k : /\ Says(s, "s3", h) /\ Says(s, "console", k)
                     /\ Fits(s, WId("minio-s3"), Whisk, h)
                     /\ Fits(s, WId("minio-console"), Whisk, k)
                     /\ {"s3", "console"} \subseteq Keys(s)
  BY MinioMakes DEF WId
<1>2. LET s == NuvStaticCalls(conf, H) IN
      /\ Listed(s) /\ Keys(s) = {} /\ Smooth(s)
      /\ Ids(s) = StaticGroup(conf, Statics(NeedsWww(conf, H)))
  BY NuvStaticMakes
<1>3. LET s == EndpointCalls(conf, H) IN
      /\ Listed(s) /\ Keys(s) = {"apihost"} /\ Smooth(s)
      /\ Ids(s) = ApiGroup(conf, Whisk, MoreParts(NeedsWww(conf, H)))
      /\ Says(s, "apihost", H) /\ Fits(s, WId("apihost"), Whisk, H)
  BY EndpointMakes DEF WId
<1>4. \A www : WId("apihost") \in ApiGroup(conf, Whisk, MoreParts(www))
  <2>1. \A www : "apihost" \in MoreParts(www)
    BY DEF MoreParts, Parts, UserParts
  <2> QED BY <2>1 DEF ApiGroup, WId
<1> HIDE DEF Calls
<1> QED
  BY <1>0, <1>1, <1>2, <1>3, <1>4 DEF H

\* What the handlers of the Whisk object do themselves.
LEMMA NotingEntered ==
  ASSUME TypeInv, Configured, Agreed, Noting, Enter(Whisk)
  PROVE  Agreed' /\ Noting'
<1> DEFINE b == Head(todo[Whisk])
           s == Calls(Whisk, b)
<1>0. Whisk \in Actor /\ Shape /\ ControlOK(Whisk) /\ Whisk \notin Users
  BY ActorsApart DEF Actor, TypeInv, Control
<1>1. /\ calls[Whisk] = << >> /\ todo[Whisk] # << >> /\ Answered(Whisk, b)
      /\ todo'[Whisk] = Tail(todo[Whisk]) /\ calls'[Whisk] = s /\ block'[Whisk] = b
      /\ UNCHANGED << objects, notes, addr, conf, cfgd, life, job, moves >>
  BY <1>0 DEF Enter, Shape, cluster, budget
<1>2. job[Whisk] \in {"create", "delete"} /\ life[Whisk] \in {"creating", "deleting"}
      /\ b # "raise"
  BY <1>0, <1>1 DEF Answered, ControlOK, Shape
<1>3. AsksHost(b) => Host # NoHost
  BY <1>1 DEF Answered
<1>4. WId("apihost") \in DOMAIN objects =>
        objects[WId("apihost")].host = notes["apihost"]
  BY <1>1, NothingLeft DEF Agreed, Put, Exposed
<1>5. /\ \A part : WId(part)' = WId(part)
      /\ Answering' = (moves = 0 => Host # NoHost)
  BY <1>1 DEF WId, Answering, Host
<1> HIDE DEF s, b
<1>6. ASSUME "apihost" \notin Keys(s),
             \A c \in Members(s) : c.do = "apply" => c.id # WId("apihost")
      PROVE  Agreed'
  BY <1>1, <1>4, <1>5, <1>6 DEF Agreed
<1>d. CASE job[Whisk] = "delete"
  <2>1. todo[Whisk] \in Seq(RemovalBlocks)
    BY <1>d DEF Noting
  <2>2. Tail(todo[Whisk]) \in Seq(RemovalBlocks) /\ b \in RemovalBlocks \ {"raise"}
    BY <1>1, <1>2, <2>1, HeadTailProperties DEF b
  <2>3. Noting'
    BY <1>1, <1>2, <1>d, <2>2 DEF Noting
  <2>4. Deletes(s)
    BY <2>2, WhiskRemoves DEF RemovalBlocks, s
  <2>5. Agreed'
    BY <1>6, <2>4 DEF Deletes, Keys
  <2> QED BY <2>3, <2>5
<1>c. CASE job[Whisk] = "create"
  <2>0. cfgd = conf /\ \A i : i \notin Ids(s) =>
                         \A c \in Members(s) : c.do = "apply" => c.id # i
    BY <1>c DEF Configured, Ids
  <2>s. ASSUME NEW part, NEW key, Put(part, key), key \notin Keys(s), WId(part) \notin Ids(s)
        PROVE  Put(part, key)'
    <3>1. PICK h : Tells(calls[Whisk], notes, key, h)
                   /\ Delivers(calls[Whisk], objects, WId(part), Whisk, h)
      BY <2>s DEF Put
    <3>2. notes[key] = h /\ Exposed(objects, WId(part), Whisk, h)
      BY <1>1, <3>1, NothingLeft
    <3>3. Says(s, key, h) /\ Fits(s, WId(part), Whisk, h)
      BY <2>s, Untouched
    <3>4. Tells(s, notes, key, h) /\ Delivers(s, objects, WId(part), Whisk, h)
      BY <3>2, <3>3 DEF Tells, Delivers
    <3> QED BY <1>1, <1>5, <3>4 DEF Put
  <2>1. CASE todo[Whisk] = CreateBlocks
    <3>1. b = "minio" /\ Tail(todo[Whisk]) = << "static", "endpoint" >>
      BY <2>1 DEF CreateBlocks, b
    <3>2. /\ "apihost" \notin Keys(s)
          /\ Ids(s) = ApiGroup(conf, Whisk, {"minio-upload"})
               \cup (IF conf.extra = "auto" THEN {WId("minio-s3"), WId("minio-console")}
                                            ELSE {})
      BY <2>0, <3>1, WhiskMakes DEF s
    <3>3. WId("apihost") \notin Ids(s)
      BY <3>2, NotesApart
    <3>4. Agreed'
      BY <1>6, <2>0, <3>2, <3>3
    <3>5. Extras'
      <4> SUFFICES ASSUME conf.extra = "auto", conf.kube # "kind"
                   PROVE  Put("minio-s3", "s3")' /\ Put("minio-console", "console")'
        BY <1>1 DEF Extras
      <4>1. PICK h, k : /\ Says(s, "s3", h) /\ Says(s, "console", k)
                        /\ Fits(s, WId("minio-s3"), Whisk, h)
                        /\ Fits(s, WId("minio-console"), Whisk, k)
                        /\ {"s3", "console"} \subseteq Keys(s)
        BY <2>0, <3>1, WhiskMakes DEF s
      <4>2. WId("minio-s3") \in Ids(s) /\ WId("minio-console") \in Ids(s)
        BY <3>2
      <4>3. /\ Tells(s, notes, "s3", h) /\ Tells(s, notes, "console", k)
            /\ Delivers(s, objects, WId("minio-s3"), Whisk, h)
            /\ Delivers(s, objects, WId("minio-console"), Whisk, k)
        BY <4>1, <4>2 DEF Tells, Delivers
      <4> QED BY <1>1, <1>5, <4>3 DEF Put
    <3>6. Answering'
      BY <1>3, <1>5, <3>1 DEF AsksHost
    <3> QED BY <1>1, <1>2, <1>c, <3>1, <3>4, <3>5, <3>6 DEF Noting
  <2>2. CASE todo[Whisk] = << "static", "endpoint" >>
    <3>1. b = "static" /\ Tail(todo[Whisk]) = << "endpoint" >>
          /\ todo[Whisk] # CreateBlocks /\ todo[Whisk] # << "endpoint" >>
      BY <2>2 DEF b, CreateBlocks
    <3>2. /\ Keys(s) = {} /\ Smooth(s)
          /\ \A part \in {"apihost", "minio-s3", "minio-console"} : WId(part) \notin Ids(s)
      BY <2>0, <3>1, WhiskMakes, NotesApart DEF s
    <3>3. Agreed'
      BY <1>6, <2>0, <3>2
    <3>4. Extras /\ Answering
      BY <1>1, <1>c, <3>1 DEF Noting
    <3>5. Extras'
      BY <1>1, <2>s, <3>2, <3>4 DEF Extras
    <3>6. Answering'
      BY <1>5, <3>4 DEF Answering
    <3> QED BY <1>1, <1>2, <1>c, <3>1, <3>2, <3>3, <3>5, <3>6 DEF Noting
  <2>3. CASE todo[Whisk] = << "endpoint" >>
    <3>1. b = "endpoint" /\ Tail(todo[Whisk]) = << >>
          /\ todo[Whisk] # CreateBlocks /\ todo[Whisk] # << "static", "endpoint" >>
      BY <2>3 DEF b, CreateBlocks
    <3>2. /\ Keys(s) = {"apihost"} /\ Smooth(s)
          /\ \A part \in {"minio-s3", "minio-console"} : WId(part) \notin Ids(s)
          /\ Says(s, "apihost", Host) /\ Fits(s, WId("apihost"), Whisk, Host)
          /\ WId("apihost") \in Ids(s)
      BY <2>0, <3>1, WhiskMakes, NotesApart DEF s
    <3>3. Put("apihost", "apihost")'
      <4>1. /\ Tells(s, notes, "apihost", Host)
            /\ Delivers(s, objects, WId("apihost"), Whisk, Host)
        BY <3>2 DEF Tells, Delivers
      <4> QED BY <1>1, <1>5, <4>1 DEF Put
    <3>4. Agreed' /\ Ended'
      BY <1>1, <3>2, <3>3 DEF Agreed, Ended
    <3>5. Extras
      BY <1>1, <1>c, <3>1 DEF Noting
    <3>6. Extras'
      BY <1>1, <2>s, <3>2, <3>5 DEF Extras
    <3> QED BY <1>1, <1>2, <1>c, <3>1, <3>2, <3>4, <3>6 DEF Noting
  <2> QED BY <1>1, <1>c, <2>1, <2>2, <2>3 DEF Noting
<1> QED
  BY <1>2, <1>c, <1>d

LEMMA NotingMade ==
  ASSUME TypeInv, Keyed, Configured, Agreed, Noting, Handler(Whisk), Undisturbed'
  PROVE  Agreed' /\ Noting'
<1>0. Whisk \in Actor /\ Shape /\ ControlOK(Whisk) /\ Whisk \notin Users
  BY ActorsApart DEF Actor, TypeInv, Control
<1>c. UNCHANGED << addr, conf, moves >>
  BY DEF Handler, Start, Enter, EnterFails, Call, CallFails, Return, cluster, budget
<1>d. DOMAIN todo = Actor /\ DOMAIN calls = Actor /\ DOMAIN job = Actor /\ DOMAIN life = Actor
      /\ DOMAIN block = Actor
  BY <1>0 DEF Shape
<1>l. job[Whisk] # "idle" => job[Whisk] \in {"create", "delete"} /\ life[Whisk] # "present"
  BY <1>0 DEF ControlOK, Shape
<1>w. \A part : WId(part)' = WId(part)
  BY <1>c DEF WId
<1>q. ASSUME UNCHANGED << objects, notes >>, calls'[Whisk] = << >>,
             calls[Whisk] = << >> \/ ~Smooth(calls[Whisk])
      PROVE  Agreed'
  <2>1. WId("apihost") \in DOMAIN objects => objects[WId("apihost")].host = notes["apihost"]
    BY <1>q, NothingLeft DEF Agreed, Put, Exposed
  <2>2. Members(<< >>) = {} /\ Keys(<< >>) = {}
    BY NoMembers, Empty
  <2> QED BY <1>q, <1>w, <2>1, <2>2 DEF Agreed
<1>i. ASSUME Idle(Whisk), life' = life, life[Whisk] # "present"
      PROVE  calls'[Whisk] = << >> /\ Noting'
  <2>1. job'[Whisk] = "idle" /\ calls'[Whisk] = << >>
    BY <1>d, <1>0, <1>i DEF Idle
  <2> QED BY <1>i, <2>1 DEF Noting
<1>u. ASSUME UNCHANGED << objects, notes >>, calls'[Whisk] = calls[Whisk]
      PROVE  (Extras => Extras') /\ (Ended => Ended')
  <2>1. \A part, key : Put(part, key) => Put(part, key)'
    BY <1>u, <1>w DEF Put
  <2> QED BY <1>c, <2>1 DEF Extras, Ended
<1>1. CASE Start(Whisk)
  <2>1. /\ calls[Whisk] = << >> /\ calls'[Whisk] = << >> /\ life'[Whisk] = life[Whisk]
        /\ UNCHANGED << objects, notes >>
        /\ \/ life[Whisk] = "creating" /\ job'[Whisk] = "create" /\ todo'[Whisk] = CreateBlocks
           \/ /\ life[Whisk] = "deleting" /\ job'[Whisk] = "delete"
              /\ todo'[Whisk] = IF cfgd = Emptied THEN << >> ELSE DeleteBlocks
    BY <1>0, <1>1, <1>d DEF Start, Begin, ControlOK, cluster
  <2>2. << >> \in Seq(RemovalBlocks) /\ DeleteBlocks \in Seq(RemovalBlocks)
    BY DEF DeleteBlocks, RemovalBlocks
  <2>3. Agreed'
    BY <1>q, <2>1
  <2> QED BY <2>1, <2>2, <2>3 DEF Noting
<1>2. CASE Enter(Whisk)
  BY <1>2, NotingEntered
<1>3. CASE EnterFails(Whisk)
  <2> DEFINE b == Head(todo[Whisk])
  <2>1. /\ calls[Whisk] = << >> /\ todo[Whisk] # << >> /\ ~Answered(Whisk, b)
        /\ UNCHANGED << objects, notes, life, cfgd >>
        /\ \/ Idle(Whisk)
           \/ /\ b = "endpoint" /\ todo'[Whisk] = Tail(todo[Whisk])
              /\ UNCHANGED << job, block, calls >>
    BY <1>0, <1>3, <1>d, Undisturbing DEF EnterFails, cluster
  <2>2. job[Whisk] # "idle"
    BY <1>0, <2>1 DEF ControlOK
  <2>3. CASE Idle(Whisk)
    BY <1>i, <1>l, <1>q, <2>1, <2>2, <2>3
  <2>4. CASE ~Idle(Whisk)
    <3>1. job[Whisk] = "create"
      <4>1. job[Whisk] = "delete" => b \in RemovalBlocks
        BY <2>1, HeadTailProperties DEF Noting
      <4> QED BY <1>l, <2>1, <2>2, <2>4, <4>1 DEF RemovalBlocks
    <3>2. /\ CreateBlocks # << >> /\ Head(CreateBlocks) = "minio"
          /\ Head(<< "static", "endpoint" >>) = "static"
          /\ Tail(<< "endpoint" >>) = << >>
      BY DEF CreateBlocks
    <3>3. todo[Whisk] = << "endpoint" >> /\ Extras /\ Answering
      BY <2>1, <2>4, <3>1, <3>2 DEF Noting
    <3>4. Host = NoHost
      BY <2>1, <2>4 DEF Answered, AsksHost, AsksUserHost
    <3>5. Ended'
      BY <1>c, <3>3, <3>4 DEF Ended, Answering
    <3>6. calls'[Whisk] = << >> /\ todo'[Whisk] = << >> /\ job' = job /\ life' = life
      BY <2>1, <2>4, <3>2, <3>3
    <3>7. Smooth(<< >>) /\ Extras' /\ Agreed'
      BY <1>q, <1>u, <2>1, <3>3, <3>6, Empty
    <3> QED BY <1>l, <3>1, <3>5, <3>6, <3>7 DEF Noting
  <2> QED BY <2>3, <2>4
<1>4. CASE Call(Whisk)
  <2>1. /\ calls[Whisk] # << >> /\ Listed(calls[Whisk]) /\ calls'[Whisk] = Tail(calls[Whisk])
        /\ After(Head(calls[Whisk]), objects, objects', notes, notes')
        /\ UNCHANGED << addr, conf, cfgd, life, job, todo, block >>
    BY <1>0, <1>4, CallDoes
  <2>2. /\ Smooth(calls[Whisk]) => Smooth(calls'[Whisk])
        /\ Keys(calls'[Whisk]) \subseteq Keys(calls[Whisk])
        /\ \A id, of, host : Delivers(calls[Whisk], objects, id, of, host)
                               => Delivers(calls'[Whisk], objects', id, of, host)
        /\ \A key \in DOMAIN notes : \A host :
             Tells(calls[Whisk], notes, key, host) => Tells(calls'[Whisk], notes', key, host)
    BY <2>1, Sent
  <2>3. \A part : \A key \in DOMAIN notes : Put(part, key) => Put(part, key)'
    BY <1>w, <2>2 DEF Put
  <2>4. (Extras => Extras') /\ (Ended => Ended') /\ (Answering => Answering')
    <3>1. {"apihost", "s3", "console"} \subseteq DOMAIN notes
      BY DEF Keyed
    <3>2. Answering => Answering'
      BY <1>c, <2>1 DEF Answering, Host
    <3> QED BY <1>c, <2>3, <3>1, <3>2 DEF Extras, Ended
  <2>5. Agreed'
    <3>1. CASE Smooth(calls[Whisk]) /\ Put("apihost", "apihost")
      BY <2>2, <2>3, <3>1 DEF Agreed, Keyed
    <3>2. CASE ~(Smooth(calls[Whisk]) /\ Put("apihost", "apihost"))
      <4> DEFINE c == Head(calls[Whisk])
                 id == WId("apihost")
      <4>1. /\ "apihost" \notin Keys(calls[Whisk])
            /\ \A d \in Members(calls[Whisk]) : d.do = "apply" => d.id # id
            /\ id \in DOMAIN objects => objects[id].host = notes["apihost"]
        BY <3>2 DEF Agreed
      <4>2. c \in Members(calls[Whisk])
            /\ Members(calls[Whisk]) = Members(calls'[Whisk]) \cup {c}
        BY <2>1, Rest
      <4>3. (c.do = "apply" => c.id # id) /\ (c.do = "annotate" => c.key # "apihost")
        BY <4>1, <4>2 DEF Keys
      <4> HIDE DEF c, id
      <4>4. After(c, objects, objects', notes, notes') /\ "apihost" \in DOMAIN notes
        BY <2>1 DEF c, Keyed
      <4>5. id \in DOMAIN objects' => objects'[id].host = notes'["apihost"]
        BY <4>1, <4>3, <4>4 DEF After
      <4>6. "apihost" \notin Keys(calls'[Whisk])
            /\ \A d \in Members(calls'[Whisk]) : d.do = "apply" => d.id # id
        BY <2>2, <4>1, <4>2
      <4> QED BY <1>w, <4>5, <4>6 DEF Agreed, id
    <3> QED BY <3>1, <3>2
  <2>6. job[Whisk] # "idle" /\ life[Whisk] # "present"
    BY <1>0, <1>l, <2>1 DEF ControlOK
  <2>7. Noting'
    BY <2>1, <2>2, <2>4, <2>6 DEF Noting
  <2> QED BY <2>5, <2>7
<1>5. CASE CallFails(Whisk)
  <2>1. /\ calls[Whisk] # << >> /\ Impossible(Current(Whisk)) /\ life' = life
        /\ UNCHANGED << objects, notes >>
        /\ Idle(Whisk) \/ ~EndsHandler(block[Whisk])
        /\ \/ Idle(Whisk)
           \/ /\ calls'[Whisk] = << >> /\ job' = job
              /\ todo'[Whisk] = todo[Whisk] \/ todo'[Whisk] = << "s3-removal", "raise" >>
    BY <1>0, <1>5, <1>d, Undisturbing DEF CallFails
  <2>2. ~Smooth(calls[Whisk])
    <3>1. Listed(calls[Whisk])
      BY <1>0 DEF ControlOK, AllMine
    <3>2. Current(Whisk) \in Members(calls[Whisk])
      BY <2>1, <3>1, Rest DEF Current
    <3> QED BY <2>1, <3>2 DEF Smooth, Impossible
  <2>3. job[Whisk] # "idle" /\ life[Whisk] # "present"
    BY <1>0, <1>l, <2>1 DEF ControlOK
  <2>4. CASE Idle(Whisk)
    BY <1>i, <1>q, <2>1, <2>2, <2>3, <2>4
  <2>5. CASE ~Idle(Whisk)
    <3>1. block[Whisk] # "minio"
      BY <2>1, <2>5 DEF EndsHandler
    <3>2. job[Whisk] = "delete"
      BY <1>l, <2>1, <2>2, <2>3, <3>1 DEF Noting
    <3>3. << "s3-removal", "raise" >> \in Seq(RemovalBlocks)
      BY DEF RemovalBlocks
    <3>4. todo'[Whisk] \in Seq(RemovalBlocks)
      BY <2>1, <2>5, <3>2, <3>3 DEF Noting
    <3>5. Agreed'
      BY <1>q, <2>1, <2>2, <2>5
    <3> QED BY <2>1, <2>3, <2>5, <3>2, <3>4, <3>5 DEF Noting
  <2> QED BY <2>4, <2>5
<1>6. CASE Return(Whisk)
  <2>1. calls[Whisk] = << >> /\ todo[Whisk] = << >> /\ UNCHANGED << objects, notes >>
    BY <1>6 DEF Return, cluster
  <2>2. /\ Idle(Whisk) /\ job'[Whisk] = "idle" /\ job[Whisk] # "idle"
        /\ life'[Whisk] = IF job[Whisk] = "delete" THEN "none"
                          ELSE IF life[Whisk] = "creating" THEN "present" ELSE life[Whisk]
    BY <1>0, <1>6, Living
  <2>3. calls'[Whisk] = << >>
    BY <1>d, <1>0, <2>2 DEF Idle
  <2>4. job[Whisk] = "create" => Extras /\ Ended
    BY <2>1 DEF Noting, CreateBlocks
  <2>5. life'[Whisk] = "present" => Extras' /\ Ended'
    BY <1>l, <1>u, <2>1, <2>2, <2>3, <2>4
  <2>6. Agreed'
    BY <1>q, <2>1, <2>3
  <2> QED BY <2>2, <2>5, <2>6 DEF Noting
<1> QED
  BY <1>1, <1>2, <1>3, <1>4, <1>5, <1>6 DEF Handler

NotedInv == Undisturbed => Configured /\ Agreed /\ Noting

LEMMA NotedKept == TypeInv /\ Keyed /\ NotedInv /\ [Next]_vars => NotedInv'
<1> SUFFICES ASSUME TypeInv, Keyed, NotedInv, [Next]_vars, Undisturbed'
             PROVE  Configured' /\ Agreed' /\ Noting'
  BY DEF NotedInv
<1>0. Shape /\ Whisk \in Actor /\ Whisk \notin Users /\ ControlOK(Whisk)
  BY ActorsApart DEF TypeInv, Actor, Control
<1>1. CASE UNCHANGED vars
  <2>1. /\ UNCHANGED << objects, notes, addr, conf, cfgd, life, job, todo, block, calls >>
        /\ UNCHANGED << faults, crashes, moves >>
    BY <1>1 DEF vars, cluster, running, budget
  <2>2. Configured /\ Agreed /\ Noting
    BY <2>1 DEF NotedInv, Undisturbed
  <2> QED BY <1>0, <2>1, <2>2, NotingKept DEF Configured
<1>2. CASE Next
  <2>e. ~Crash
    <3>1. crashes \in Nat /\ crashes' = 0
      BY <1>0 DEF Undisturbed, Shape
    <3>2. Crash => crashes' = crashes + 1
      BY DEF Crash
    <3> QED BY <3>1, <3>2
  <2>1. Undisturbed
    <3>1. CASE Environment
      <4>1. UNCHANGED << faults, crashes >>
        BY <2>e, <3>1 DEF Environment, Install, Move, Resume, AddUser, Discard, budget
      <4> QED BY <4>1 DEF Undisturbed
    <3>2. ASSUME NEW a \in Actor, Handler(a) PROVE Undisturbed
      BY <3>2, Undisturbing
    <3> QED BY <1>2, <3>1, <3>2 DEF Next
  <2>2. Configured /\ Agreed /\ Noting
    BY <2>1 DEF NotedInv
  <2>3. Configured'
    BY <1>2, <2>2, ConfiguredKept
  <2>4. CASE Handler(Whisk)
    BY <2>2, <2>3, <2>4, NotingMade
  <2>5. ASSUME NEW a \in Actor, a # Whisk, Handler(a) PROVE Agreed' /\ Noting'
    <3>1. \A i : IdOwner(i) = Whisk =>
            /\ i \in DOMAIN objects <=> i \in DOMAIN objects'
            /\ i \in DOMAIN objects => objects'[i] = objects[i]
      BY <2>5, ObjectsOwn
    <3>2. /\ life'[Whisk] = life[Whisk] /\ job'[Whisk] = job[Whisk]
          /\ todo'[Whisk] = todo[Whisk] /\ calls'[Whisk] = calls[Whisk]
          /\ block'[Whisk] = block[Whisk] /\ conf' = conf
      BY <1>0, <2>5, OnlyIts
    <3>3. cfgd' = cfgd
      BY <2>5, Living
    <3>4. addr' = addr /\ moves' = moves
      BY <2>5 DEF Handler, Start, Enter, EnterFails, Call, CallFails, Return, cluster, budget
    <3>5. notes' = notes
      <4>1. \/ notes' = notes
            \/ calls[a] # << >> /\ Effect(Current(a)) /\ ~Impossible(Current(a))
        BY <2>5 DEF Handler, Start, Enter, EnterFails, Call, CallFails, Return, cluster
      <4>2. calls[a] # << >> => Mine(a, Current(a))
        BY <2>5, CallMine
      <4>3. calls[a] # << >> /\ Effect(Current(a)) /\ ~Impossible(Current(a))
              => notes' = notes
        BY <2>5, <4>2 DEF Mine, Effect, Impossible
      <4> QED BY <4>1, <4>3
    <3> QED BY <1>0, <2>2, <3>1, <3>2, <3>3, <3>4, <3>5, NotingKept
  <2>6. CASE Environment
    <3>1. UNCHANGED << objects, notes, job, todo, calls, block >>
      BY <2>e, <2>6 DEF Environment, Install, Move, Resume, AddUser, Discard, cluster, running
    <3>2. ~Resume
      BY <1>0, <2>2, ConfsAssumption DEF Resume, Configured, Shape
    <3>3. conf'.kube = conf.kube
      BY <2>e, <2>6 DEF Environment, Install, Move, Resume, AddUser, Discard
    <3>4. life'[Whisk] = life[Whisk] \/ life'[Whisk] # "present"
      <4>1. \/ UNCHANGED life
            \/ \E a \in Actor : \E l \in {"creating", "deleting"} :
                 life' = [life EXCEPT ![a] = l]
        BY <2>e, <2>6, ActorsApart
           DEF Environment, Install, Move, Resume, AddUser, Discard, Actor
      <4> QED BY <1>0, <4>1 DEF Shape
    <3>5. job[Whisk] = "create" \/ life'[Whisk] = "present" => conf' = conf
      <4>1. CASE Install
        <5>1. life[Whisk] = "none" /\ life' = [life EXCEPT ![Whisk] = "creating"]
          BY <4>1 DEF Install
        <5> QED BY <1>0, <5>1 DEF Shape, ControlOK
      <4>2. CASE ~Install
        BY <2>e, <2>6, <4>2 DEF Environment, Move, Resume, AddUser, Discard
      <4> QED BY <4>1, <4>2
    <3>6. moves' = 0 => moves = 0 /\ addr' = addr /\ cfgd' = cfgd
      <4>1. CASE Move
        BY <1>0, <4>1 DEF Move, Shape
      <4>2. CASE ~Move
        BY <2>e, <2>6, <3>2, <4>2 DEF Environment, Install, AddUser, Discard, cluster, budget
      <4> QED BY <4>1, <4>2
    <3>7. /\ notes' = notes /\ calls'[Whisk] = calls[Whisk] /\ todo'[Whisk] = todo[Whisk]
          /\ block'[Whisk] = block[Whisk] /\ job'[Whisk] = job[Whisk]
      BY <3>1
    <3>8. \A i : IdOwner(i) = Whisk =>
               /\ i \in DOMAIN objects <=> i \in DOMAIN objects'
               /\ i \in DOMAIN objects => objects'[i] = objects[i]
      BY <3>1
    <3> QED BY <1>0, <2>2, <2>3, <3>3, <3>4, <3>5, <3>6, <3>7, <3>8, NotingKept
  <2> QED BY <1>2, <2>3, <2>4, <2>5, <2>6 DEF Next
<1> QED
  BY <1>1, <1>2

\* What cm/config says of the apihost and, where they exist, of the S3 and the
\* console URL is what the ingresses of the installation answer to, once it is
\* there and unless a call failed or the operator restarted; an apihost that no
\* ingress answers to is there only after the address moved (endpoint.create,
\* create_minio_ingresses).
THEOREM NotesCorrect == Spec => []NotesTrue
<1>1. Init => Keyed /\ NotedInv
  <2> SUFFICES ASSUME Init PROVE Keyed /\ Configured /\ Agreed /\ Noting
    BY DEF NotedInv
  <2>1. /\ cfgd = Emptied /\ \A a \in Actor : life[a] = "none" /\ job[a] = "idle"
    BY DEF Init
  <2>2. calls[Whisk] = << >> /\ objects = << >>
    BY DEF Init, Actor
  <2>3. Users \subseteq Actor /\ Whisk \in Actor
    BY DEF Actor
  <2>4. Keyed
    BY DEF Init, Keyed
  <2>5. Agreed
    <3>1. DOMAIN objects = {}
      BY <2>2
    <3> QED BY <2>2, <3>1, NoMembers, Empty DEF Agreed
  <2> QED BY <2>1, <2>3, <2>4, <2>5 DEF Configured, Noting
<1>2. TypeInv /\ NotedInv => NotesTrue
  <2> SUFFICES ASSUME TypeInv, NotedInv, Undisturbed, life[Whisk] = "present"
               PROVE  /\ Noted("apihost", "apihost")
                      /\ conf.extra = "auto" /\ conf.kube # "kind" =>
                           Noted("minio-s3", "s3") /\ Noted("minio-console", "console")
    BY DEF NotesTrue
  <2>1. Agreed /\ Extras /\ Ended /\ job[Whisk] = "idle"
    BY DEF NotedInv, Noting
  <2>2. calls[Whisk] = << >> /\ moves \in Nat
    BY <2>1, ActorsApart DEF TypeInv, Shape, Control, ControlOK, Actor
  <2>3. ASSUME NEW part, NEW key, Put(part, key)
        PROVE  WId(part) \in DOMAIN objects /\ objects[WId(part)].host = notes[key]
    BY <2>2, <2>3, NothingLeft DEF Put, Exposed
  <2>4. Noted("apihost", "apihost")
    <3>1. WId("apihost") \in DOMAIN objects =>
            objects[WId("apihost")].host = notes["apihost"]
      BY <2>1, <2>3 DEF Agreed
    <3>2. WId("apihost") \notin DOMAIN objects => moves > 0
      BY <2>1, <2>2, <2>3 DEF Ended
    <3> QED BY <3>1, <3>2 DEF Noted, WId
  <2>5. conf.extra = "auto" /\ conf.kube # "kind" =>
          Noted("minio-s3", "s3") /\ Noted("minio-console", "console")
    BY <2>1, <2>3 DEF Extras, Noted, WId
  <2> QED BY <2>4, <2>5
<1>3. TypeInv /\ Keyed /\ [Next]_vars => Keyed'
  <2>1. Keyed /\ UNCHANGED vars => Keyed'
    BY DEF vars, cluster, Keyed
  <2> QED BY <2>1, KeyedKept
<1> QED
  BY <1>1, <1>2, <1>3, TypesAtFirst, TypesKept, NotedKept, PTL DEF Spec
--------------------------------------------------------------------------------
(***************************************************************************)
(* Removing what was made.  No deletion comes twice in a sequence, and     *)
(* nothing is made after an exception.                                     *)
(***************************************************************************)
Distinct(s) == \A m, n \in DOMAIN s : s[m].id = s[n].id => m = n
Unequal(s) == \A m, n \in DOMAIN s : s[m] = s[n] => m = n
Orderly(s) ==
  \A m, n \in DOMAIN s : s[m].do = "raise" /\ s[n].do \in {"apply", "delete"} => n < m

LEMMA Places ==
  ASSUME NEW s, NEW t, Listed(s), Listed(t)
  PROVE  /\ Len(s) \in Nat /\ DOMAIN s = 1 .. Len(s)
         /\ DOMAIN (s \o t) = 1 .. Len(s) + Len(t) /\ Len(t) \in Nat
         /\ \A i \in DOMAIN (s \o t) :
              \/ i \in DOMAIN s /\ i =< Len(s) /\ (s \o t)[i] = s[i]
              \/ i - Len(s) \in DOMAIN t /\ i > Len(s) /\ (s \o t)[i] = t[i - Len(s)]
<1> DEFINE S == Members(s) \cup Members(t)
           c == s \o t
<1>1. s \in Seq(S) /\ t \in Seq(S)
  BY SeqMonotonic DEF Listed
<1> HIDE DEF S
<1>2. /\ c \in Seq(S) /\ Len(c) = Len(s) + Len(t) /\ Len(s) \in Nat /\ Len(t) \in Nat
      /\ \A i \in 1 .. Len(c) : c[i] = IF i =< Len(s) THEN s[i] ELSE t[i - Len(s)]
      /\ DOMAIN s = 1 .. Len(s) /\ DOMAIN t = 1 .. Len(t) /\ DOMAIN c = 1 .. Len(c)
  BY <1>1, ConcatProperties
<1> HIDE DEF c
<1>3. ASSUME NEW i \in DOMAIN c
      PROVE  \/ i \in DOMAIN s /\ i =< Len(s) /\ c[i] = s[i]
             \/ i - Len(s) \in DOMAIN t /\ i > Len(s) /\ c[i] = t[i - Len(s)]
  BY <1>2
<1> QED
  BY <1>2, <1>3 DEF c

LEMMA DistinctCat ==
  ASSUME NEW s, NEW t, Listed(s), Listed(t)
  PROVE  /\ Distinct(s) /\ Distinct(t) /\ Deletes(s) /\ Deletes(t) /\ Ids(s) \cap Ids(t) = {}
              => Distinct(s \o t)
         /\ Unequal(s) /\ Unequal(t) /\ Members(s) \cap Members(t) = {} => Unequal(s \o t)
         /\ Orderly(s) /\ Orderly(t)
              /\ ((\A c \in Members(s) : c.do # "raise") \/ Ids(t) = {})
              => Orderly(s \o t)
<1> DEFINE c == s \o t
<1>1. /\ Len(s) \in Nat /\ DOMAIN s = 1 .. Len(s) /\ Len(t) \in Nat
      /\ DOMAIN c = 1 .. Len(s) + Len(t)
      /\ \A i \in DOMAIN c :
              \/ i \in DOMAIN s /\ i =< Len(s) /\ c[i] = s[i]
              \/ i - Len(s) \in DOMAIN t /\ i > Len(s) /\ c[i] = t[i - Len(s)]
  BY Places
<1>2. /\ \A i \in DOMAIN s : s[i] \in Members(s)
      /\ \A i \in DOMAIN t : t[i] \in Members(t)
  BY DEF Members
<1> HIDE DEF c
<1>3. ASSUME Distinct(s), Distinct(t), Deletes(s), Deletes(t), Ids(s) \cap Ids(t) = {}
      PROVE  Distinct(c)
  <2>1. /\ \A i \in DOMAIN s : s[i].id \in Ids(s)
        /\ \A i \in DOMAIN t : t[i].id \in Ids(t)
    BY <1>2, <1>3 DEF Deletes, Ids
  <2> SUFFICES ASSUME NEW m \in DOMAIN c, NEW n \in DOMAIN c, c[m].id = c[n].id PROVE m = n
    BY DEF Distinct
  <2>2. m \in Int /\ n \in Int
    BY <1>1
  <2>3. CASE m \in DOMAIN s /\ m =< Len(s) /\ c[m] = s[m]
    BY <1>1, <1>3, <2>1, <2>2, <2>3 DEF Distinct
  <2>4. CASE m - Len(s) \in DOMAIN t /\ m > Len(s) /\ c[m] = t[m - Len(s)]
    <3>1. n - Len(s) \in DOMAIN t /\ c[n] = t[n - Len(s)]
      BY <1>1, <1>3, <2>1, <2>4
    <3>2. m - Len(s) = n - Len(s)
      BY <1>3, <2>4, <3>1 DEF Distinct
    <3> QED BY <1>1, <2>2, <3>2
  <2> QED BY <1>1, <2>3, <2>4
<1>4. ASSUME Unequal(s), Unequal(t), Members(s) \cap Members(t) = {} PROVE Unequal(c)
  <2> SUFFICES ASSUME NEW m \in DOMAIN c, NEW n \in DOMAIN c, c[m] = c[n] PROVE m = n
    BY DEF Unequal
  <2>2. m \in Int /\ n \in Int
    BY <1>1
  <2>3. CASE m \in DOMAIN s /\ m =< Len(s) /\ c[m] = s[m]
    BY <1>1, <1>2, <1>4, <2>2, <2>3 DEF Unequal
  <2>4. CASE m - Len(s) \in DOMAIN t /\ m > Len(s) /\ c[m] = t[m - Len(s)]
    <3>1. n - Len(s) \in DOMAIN t /\ c[n] = t[n - Len(s)]
      BY <1>1, <1>2, <1>4, <2>4
    <3>2. m - Len(s) = n - Len(s)
      BY <1>4, <2>4, <3>1 DEF Unequal
    <3> QED BY <1>1, <2>2, <3>2
  <2> QED BY <1>1, <2>3, <2>4
<1>5. ASSUME Orderly(s), Orderly(t), (\A d \in Members(s) : d.do # "raise") \/ Ids(t) = {}
      PROVE  Orderly(c)
  <2> SUFFICES ASSUME NEW m \in DOMAIN c, NEW n \in DOMAIN c,
                      c[m].do = "raise", c[n].do \in {"apply", "delete"}
               PROVE  n < m
    BY DEF Orderly
  <2>1. m \in Int /\ n \in Int
    BY <1>1
  <2>2. CASE m \in DOMAIN s /\ m =< Len(s) /\ c[m] = s[m]
    <3>1. Ids(t) = {}
      BY <1>2, <1>5, <2>2
    <3>2. \A i \in DOMAIN t : t[i].do \notin {"apply", "delete"}
      BY <1>2, <3>1 DEF Ids
    <3>3. n \in DOMAIN s /\ c[n] = s[n]
      BY <1>1, <3>2
    <3> QED BY <1>5, <2>2, <3>3 DEF Orderly
  <2>3. CASE m - Len(s) \in DOMAIN t /\ m > Len(s) /\ c[m] = t[m - Len(s)]
    <3>1. CASE n =< Len(s)
      BY <1>1, <2>1, <2>3, <3>1
    <3>2. CASE n > Len(s)
      <4>1. n - Len(s) \in DOMAIN t /\ c[n] = t[n - Len(s)]
        BY <1>1, <2>1, <3>2
      <4>2. n - Len(s) < m - Len(s)
        BY <1>5, <2>3, <4>1 DEF Orderly
      <4> QED BY <1>1, <2>1, <4>2
    <3> QED BY <1>1, <2>1, <3>1, <3>2
  <2> QED BY <1>1, <2>2, <2>3
<1> QED
  BY <1>3, <1>4, <1>5 DEF c

LEMMA DistinctOne ==
  /\ Distinct(<< >>) /\ Unequal(<< >>) /\ Orderly(<< >>)
  /\ \A x : Distinct(<< x >>) /\ Unequal(<< x >>) /\ Orderly(<< x >>)
<1>1. DOMAIN << >> = {} /\ \A x : DOMAIN << x >> = {1} /\ << x >>[1] = x
  OBVIOUS
<1> QED
  BY <1>1 DEF Distinct, Unequal, Orderly

LEMMA DistinctRest ==
  ASSUME NEW s, Listed(s), s # << >>
  PROVE  /\ Orderly(s) => Orderly(Tail(s))
         /\ Orderly(s) /\ Head(s).do = "raise" => Ids(s) = {}
         /\ Distinct(s) => Distinct(Tail(s))
         /\ Distinct(s) /\ Deletes(s) => /\ Head(s).id \in Ids(s)
                                         /\ Ids(Tail(s)) = Ids(s) \ {Head(s).id}
<1> DEFINE S == Members(s)
           r == Tail(s)
<1>1. s \in Seq(S)
  BY DEF Listed
<1> HIDE DEF S
<1>2. /\ r \in Seq(S) /\ Len(s) \in Nat /\ Len(s) > 0 /\ Len(r) = Len(s) - 1
      /\ \A i \in 1 .. Len(r) : r[i] = s[i + 1]
      /\ Head(s) = s[1] /\ DOMAIN s = 1 .. Len(s) /\ DOMAIN r = 1 .. Len(r)
  BY <1>1, HeadTailProperties
<1>m. /\ \A i \in DOMAIN s : s[i] \in Members(s)
      /\ \A c \in Members(r) : \E i \in DOMAIN r : c = r[i]
      /\ \A c \in Members(s) : \E i \in DOMAIN s : c = s[i]
  BY DEF Members
<1>h. Members(s) = Members(r) \cup {s[1]} /\ s[1] \in Members(s)
  BY <1>2, Rest
<1> HIDE DEF r
<1>3. \A i \in DOMAIN r : i + 1 \in DOMAIN s /\ r[i] = s[i + 1] /\ i \in Int
  BY <1>2
<1>4. Orderly(s) => Orderly(r)
  <2> SUFFICES ASSUME Orderly(s), NEW m \in DOMAIN r, NEW n \in DOMAIN r,
                      r[m].do = "raise", r[n].do \in {"apply", "delete"}
               PROVE  n < m
    BY DEF Orderly
  <2>1. n + 1 < m + 1
    BY <1>3 DEF Orderly
  <2> QED BY <1>3, <2>1
<1>5. Orderly(s) /\ s[1].do = "raise" => Ids(s) = {}
  <2> SUFFICES ASSUME Orderly(s), s[1].do = "raise", NEW c \in Members(s),
                      c.do \in {"apply", "delete"}
               PROVE  FALSE
    BY DEF Ids
  <2>1. PICK i \in DOMAIN s : c = s[i]
    BY <1>m
  <2>2. 1 \in DOMAIN s /\ ~(i < 1)
    BY <1>2
  <2> QED BY <2>1, <2>2 DEF Orderly
<1>6. Distinct(s) => Distinct(r)
  <2> SUFFICES ASSUME Distinct(s), NEW m \in DOMAIN r, NEW n \in DOMAIN r, r[m].id = r[n].id
               PROVE  m = n
    BY DEF Distinct
  <2>1. m + 1 = n + 1
    BY <1>3 DEF Distinct
  <2> QED BY <1>3, <2>1
<1>7. Distinct(s) /\ Deletes(s) => /\ s[1].id \in Ids(s)
                                   /\ Ids(r) = Ids(s) \ {s[1].id}
  <2> SUFFICES ASSUME Distinct(s), Deletes(s)
               PROVE  s[1].id \in Ids(s) /\ Ids(r) = Ids(s) \ {s[1].id}
    OBVIOUS
  <2>1. /\ Ids(s) = { c.id : c \in Members(s) } /\ Ids(r) = { c.id : c \in Members(r) }
    BY <1>h DEF Deletes, Ids
  <2>2. \A c \in Members(r) : c.id # s[1].id
    <3> SUFFICES ASSUME NEW c \in Members(r), c.id = s[1].id PROVE FALSE
      OBVIOUS
    <3>1. PICK i \in DOMAIN r : c = r[i]
      BY <1>m
    <3>2. 1 \in DOMAIN s /\ i + 1 # 1 /\ i + 1 \in DOMAIN s /\ s[i + 1] = c
      BY <1>2, <1>3, <3>1
    <3> QED BY <3>2 DEF Distinct
  <2> QED BY <1>h, <2>1, <2>2
<1> QED
  BY <1>2, <1>4, <1>5, <1>6, <1>7 DEF r

LEMMA SmoothOrderly == \A s : Smooth(s) => Orderly(s)
<1>1. \A s : \A i \in DOMAIN s : s[i] \in Members(s)
  BY DEF Members
<1> QED
  BY <1>1 DEF Smooth, Orderly

LEMMA DistinctMany ==
  /\ \A condition \in BOOLEAN : \A s : /\ Distinct(s) => Distinct(When(condition, s))
                                       /\ Unequal(s) => Unequal(When(condition, s))
                                       /\ Orderly(s) => Orderly(When(condition, s))
  /\ \A id : Distinct(Delete(id))
  /\ \A ids : Unequal(ids) => Distinct(DeleteAll(ids))
<1>1. ASSUME NEW ids, Unequal(ids) PROVE Distinct(DeleteAll(ids))
  <2> DEFINE m == [i \in DOMAIN ids |-> [do |-> "delete", id |-> ids[i]]]
  <2>1. DOMAIN m = DOMAIN ids /\ \A i \in DOMAIN m : m[i].id = ids[i]
    OBVIOUS
  <2> HIDE DEF m
  <2>2. Distinct(m)
    BY <1>1, <2>1 DEF Distinct, Unequal
  <2> QED BY <2>2 DEF m, DeleteAll
<1> QED
  BY <1>1, DistinctOne DEF When, Nothing, Delete

\* No removal deletes anything twice.
LEMMA RemovalOnce ==
  ASSUME NEW c, NEW ns, NEW parts, Listed(parts), Unequal(parts)
  PROVE  /\ Distinct(EndpointRemoval(c, ns, parts))
         /\ "apihost" \notin Members(parts) => Distinct(StaticRemoval(c, parts))
         /\ \A part : Distinct(MinioRemoval(c, part))
<1>0. Traefik(c) \in BOOLEAN
  BY DEF Traefik
<1> HIDE DEF Traefik
<1>c. ASSUME NEW d, NEW e, Listed(d), Listed(e), Deletes(d), Deletes(e), Distinct(d), Distinct(e),
             Ids(d) \cap Ids(e) = {}
      PROVE  Distinct(When(Traefik(c), d) \o e)
  <2> DEFINE w == When(Traefik(c), d)
  <2>1. Listed(w) /\ Deletes(w) /\ Distinct(w) /\ Ids(w) \subseteq Ids(d)
    BY <1>c, <1>0, Whenever, DeletesSome, DistinctMany
  <2> HIDE DEF w
  <2>2. Distinct(w \o e)
    BY <1>c, <2>1, DistinctCat
  <2> QED BY <2>2 DEF w
<1>1. Distinct(EndpointRemoval(c, ns, parts))
  <2> DEFINE mws == [i \in DOMAIN parts |-> ApiMiddleware(ns, parts[i])]
             ids == [i \in DOMAIN parts |-> ApiName(c, ns, parts[i])]
  <2>1. Listed(mws) /\ Listed(ids)
    BY Mapped
  <2>2. Unequal(mws) /\ Unequal(ids)
    <3>1. \A p, q : /\ ApiMiddleware(ns, p) = ApiMiddleware(ns, q) => p = q
                    /\ ApiName(c, ns, p) = ApiName(c, ns, q) => p = q
      BY NamesApart
    <3> HIDE DEF ApiMiddleware, ApiName
    <3> QED BY <3>1 DEF Unequal
  <2>3. Members(mws) \cap Members(ids) = {}
    <3>1. \A p, q : ApiName(c, ns, p) # ApiMiddleware(ns, q)
      BY NamesApart
    <3> HIDE DEF ApiMiddleware, ApiName
    <3> QED BY <3>1 DEF Members
  <2> HIDE DEF mws, ids
  <2>4. /\ Listed(DeleteAll(mws)) /\ Ids(DeleteAll(mws)) = Members(mws)
        /\ Listed(DeleteAll(ids)) /\ Ids(DeleteAll(ids)) = Members(ids)
        /\ Deletes(DeleteAll(mws)) /\ Deletes(DeleteAll(ids))
        /\ Distinct(DeleteAll(mws)) /\ Distinct(DeleteAll(ids))
    BY <2>1, <2>2, AllDeleted, DeletesSome, DistinctMany
  <2>5. EndpointRemoval(c, ns, parts) = When(Traefik(c), DeleteAll(mws)) \o DeleteAll(ids)
    BY DEF EndpointRemoval, mws, ids
  <2> QED BY <1>c, <2>3, <2>4, <2>5
<1>2. ASSUME "apihost" \notin Members(parts) PROVE Distinct(StaticRemoval(c, parts))
  <2> DEFINE mws == [i \in DOMAIN parts |-> StaticMiddleware(parts[i])]
             ids == [i \in DOMAIN parts |-> StaticName(c, parts[i])]
  <2>1. Listed(mws) /\ Listed(ids)
    BY Mapped
  <2>m. \A i \in DOMAIN parts : parts[i] # "apihost"
    BY <1>2 DEF Members
  <2>2. Unequal(mws) /\ Unequal(ids)
    <3>1. /\ \A x, y, z : << x, y, z >>[2] = y
          /\ \A x, y, z, w : << x, y, z, w >>[2] = y
      OBVIOUS
    <3>2. \A p, q : StaticMiddleware(p) = StaticMiddleware(q) => p = q
      BY <3>1 DEF StaticMiddleware
    <3>3. \A p, q : p # "apihost" /\ q # "apihost" /\ StaticName(c, p) = StaticName(c, q)
                     => p = q
      BY <3>1 DEF StaticName
    <3> HIDE DEF StaticMiddleware, StaticName
    <3> QED BY <2>m, <3>2, <3>3 DEF Unequal
  <2>3. Members(mws) \cap Members(ids) = {}
    <3>1. \A p, q : StaticName(c, p) # StaticMiddleware(q)
      BY NamesApart
    <3> HIDE DEF StaticMiddleware, StaticName
    <3> QED BY <3>1 DEF Members
  <2> HIDE DEF mws, ids
  <2>4. /\ Listed(DeleteAll(mws)) /\ Ids(DeleteAll(mws)) = Members(mws)
        /\ Listed(DeleteAll(ids)) /\ Ids(DeleteAll(ids)) = Members(ids)
        /\ Deletes(DeleteAll(mws)) /\ Deletes(DeleteAll(ids))
        /\ Distinct(DeleteAll(mws)) /\ Distinct(DeleteAll(ids))
    BY <2>1, <2>2, AllDeleted, DeletesSome, DistinctMany
  <2>5. StaticRemoval(c, parts) = When(Traefik(c), DeleteAll(mws)) \o DeleteAll(ids)
    BY DEF StaticRemoval, mws, ids
  <2> QED BY <1>c, <2>3, <2>4, <2>5
<1>3. ASSUME NEW part PROVE Distinct(MinioRemoval(c, part))
  <2> DEFINE A == ApiName(c, Whisk, part)
             M == ApiMiddleware(Whisk, part)
  <2>1. A # M
    BY NamesApart
  <2> HIDE DEF A, M
  <2>2. /\ Listed(Delete(A)) /\ Ids(Delete(A)) = {A} /\ Deletes(Delete(A)) /\ Distinct(Delete(A))
        /\ Listed(Delete(M)) /\ Ids(Delete(M)) = {M} /\ Deletes(Delete(M)) /\ Distinct(Delete(M))
    BY Deleted, DeletesSome, DistinctMany
  <2>3. MinioRemoval(c, part) = Delete(A) \o When(Traefik(c), Delete(M))
    BY DEF MinioRemoval, Whisk, A, M
  <2> DEFINE d == Delete(A)
             e == Delete(M)
             w == When(Traefik(c), e)
  <2> HIDE DEF d, e
  <2>4. Listed(w) /\ Deletes(w) /\ Distinct(w) /\ Ids(w) \subseteq Ids(e)
    BY <1>0, <2>2, Whenever, DeletesSome, DistinctMany DEF e
  <2> HIDE DEF w
  <2>5. Distinct(d \o w)
    BY <2>1, <2>2, <2>4, DistinctCat DEF d, e
  <2> QED BY <2>3, <2>5 DEF w, d, e
<1> QED
  BY <1>1, <1>2, <1>3

\* What each block of a removal is to remove.  With the S3 and the console
\* ingress there is no middleware, although one is deleted.
GroupOf(a, r) ==
  CASE r = "endpoint-removal"    -> ApiGroup(cfgd, Whisk, MoreParts(NeedsWww(cfgd, Host)))
    [] r = "static-removal"      -> StaticGroup(cfgd, Statics(NeedsWww(cfgd, Host)))
    [] r = "upload-removal"      -> ApiGroup(cfgd, Whisk, {"minio-upload"})
    [] r = "s3-removal"          ->
         IF cfgd.extra = "auto" THEN {ApiName(cfgd, Whisk, "minio-s3")} ELSE {}
    [] r = "console-removal"     ->
         IF cfgd.extra = "auto" THEN {ApiName(cfgd, Whisk, "minio-console")} ELSE {}
    [] r = "user-api-removal"    -> ApiGroup(conf, a, UserParts)
    [] r = "user-static-removal" -> StaticGroup(conf, {a})

Strict == {"s3-removal", "console-removal"}
Lenient(a) == IF a = Whisk THEN {"endpoint-removal", "static-removal", "upload-removal"}
                           ELSE {"user-api-removal", "user-static-removal"}
Removers(a) == IF a = Whisk THEN Lenient(a) \cup Strict ELSE Lenient(a)
AllOf(a) == UNION { GroupOf(a, r) : r \in Removers(a) }

LEMMA GroupOwned ==
  ASSUME NEW a \in Actor
  PROVE  \A r \in Removers(a) : \A i \in GroupOf(a, r) : IdOwner(i) = a
<1>0. /\ Whisk \in Actor /\ OwnerOf(a) = a /\ OwnerOf(Whisk) = Whisk
      /\ OwnerOf("www-nuvolaris") = Whisk
  BY ActorsApart DEF Actor, OwnerOf, Whisk
<1>1. ASSUME NEW c, NEW ns \in Actor, OwnerOf(ns) = ns, NEW parts, NEW i \in ApiGroup(c, ns, parts)
      PROVE  IdOwner(i) = ns
  <2>1. \A part : IdOwner(ApiName(c, ns, part)) = ns /\ IdOwner(ApiMiddleware(ns, part)) = ns
    BY <1>1, NamesOwned
  <2> HIDE DEF ApiName, ApiMiddleware, IdOwner
  <2> QED BY <1>1, <2>1 DEF ApiGroup
<1>2. ASSUME NEW c, NEW nss, \A n \in nss : n \in Actor \cup {"www-nuvolaris"} /\ OwnerOf(n) = a,
             NEW i \in StaticGroup(c, nss)
      PROVE  IdOwner(i) = a
  <2>1. \A n \in nss : IdOwner(StaticName(c, n)) = a /\ IdOwner(StaticMiddleware(n)) = a
    BY <1>2, NamesOwned
  <2> HIDE DEF StaticName, StaticMiddleware, IdOwner
  <2> QED BY <1>2, <2>1 DEF StaticGroup
<1>3. CASE a = Whisk
  <2>1. \A www : \A n \in Statics(www) : n \in Actor \cup {"www-nuvolaris"} /\ OwnerOf(n) = a
    BY <1>0, <1>3 DEF Statics
  <2>2. \A c, part : IdOwner(ApiName(c, Whisk, part)) = a
    BY <1>0, <1>3, NamesOwned
  <2> QED BY <1>0, <1>1, <1>2, <1>3, <2>1, <2>2 DEF GroupOf, Removers, Lenient, Strict
<1>4. CASE a # Whisk
  <2>1. \A n \in {a} : n \in Actor \cup {"www-nuvolaris"} /\ OwnerOf(n) = a
    BY <1>0
  <2> QED BY <1>0, <1>1, <1>2, <1>4, <2>1 DEF GroupOf, Removers, Lenient
<1> QED
  BY <1>3, <1>4

\* The objects of one block are not those of another.
LEMMA GroupsApart ==
  ASSUME NEW a \in Actor, NEW r \in Lenient(a), NEW q \in Lenient(a), r # q
  PROVE  GroupOf(a, r) \cap GroupOf(a, q) = {}
<1>1. \A c, ns, parts, nss : "static" \notin parts =>
        ApiGroup(c, ns, parts) \cap StaticGroup(c, nss) = {}
  <2>1. ASSUME NEW c, NEW ns, NEW part, part # "static"
        PROVE  \A n : /\ ApiName(c, ns, part) # StaticName(c, n)
                      /\ ApiName(c, ns, part) # StaticMiddleware(n)
                      /\ ApiMiddleware(ns, part) # StaticName(c, n)
                      /\ ApiMiddleware(ns, part) # StaticMiddleware(n)
    BY <2>1, NamesApart
  <2> HIDE DEF ApiName, ApiMiddleware, StaticName, StaticMiddleware
  <2> QED BY <2>1 DEF ApiGroup, StaticGroup
<1>2. \A c, ns, parts, more : parts \cap more = {} =>
        ApiGroup(c, ns, parts) \cap ApiGroup(c, ns, more) = {}
  <2>1. ASSUME NEW c, NEW ns, NEW p, NEW q1, p # q1
        PROVE  /\ ApiName(c, ns, p) # ApiName(c, ns, q1)
               /\ ApiMiddleware(ns, p) # ApiMiddleware(ns, q1)
    BY <2>1, NamesApart
  <2>2. \A c, ns, p, q1 : ApiName(c, ns, p) # ApiMiddleware(ns, q1)
    BY NamesApart
  <2> HIDE DEF ApiName, ApiMiddleware
  <2> QED BY <2>1, <2>2 DEF ApiGroup
<1>3. \A www : /\ "static" \notin MoreParts(www) /\ "static" \notin {"minio-upload"}
               /\ "static" \notin UserParts
               /\ MoreParts(www) \cap {"minio-upload"} = {}
  BY DEF MoreParts, Parts, UserParts
<1> HIDE DEF ApiGroup, StaticGroup, MoreParts, UserParts
<1> QED
  BY <1>1, <1>2, <1>3 DEF GroupOf, Lenient

Builds(s) == \A c \in Members(s) : c.do # "delete"

\* After the exception of create_minio_ingresses at most a note is made.
LEMMA MinioOrderly ==
  ASSUME NEW c, NEW h PROVE Orderly(MinioCalls(c, h)) /\ Builds(MinioCalls(c, h))
<1> DEFINE h3 == WithPrefix("s3", h)
           hc == WithPrefix("minio", h)
           u == Expose(c, "nuvolaris", "minio-upload", h)
           i3 == ApiIngress(c, "nuvolaris", "minio-s3", h3)
           n3 == Annotate("s3", h3)
           ic == ApiIngress(c, "nuvolaris", "minio-console", hc)
           nc == Annotate("console", hc)
           r == << [do |-> "raise"] >>
           k == Annotate("s3", << "localhost" >>)
           auto == c.extra = "auto"
           named == c.extra = "named"
           kind == c.kube = "kind"
<1>0. auto \in BOOLEAN /\ named \in BOOLEAN /\ kind \in BOOLEAN
  OBVIOUS
<1>1. /\ Listed(u) /\ Smooth(u) /\ Listed(i3) /\ Smooth(i3) /\ Listed(n3) /\ Smooth(n3)
      /\ Listed(ic) /\ Smooth(ic) /\ Listed(nc) /\ Smooth(nc)
  BY ExposeMakes, IngressMakes, Annotated
<1>2. Listed(k) /\ Smooth(k) /\ Ids(k) = {}
  BY Annotated
<1>3. Listed(r) /\ Ids(r) = {} /\ Orderly(r) /\ Builds(r)
  <2>1. Members(r) = { [do |-> "raise"] }
    BY OneMember
  <2>2. [do |-> "raise"].do # "delete"
    OBVIOUS
  <2>3. Builds(r)
    BY <2>1, <2>2 DEF Builds
  <2> QED BY <2>3, Raised, DistinctOne
<1> HIDE DEF h3, hc, u, i3, n3, ic, nc, r, k, auto, named, kind
<1> DEFINE t1 == i3 \o n3
           t2 == t1 \o ic
           t == t2 \o nc
<1>4. Listed(t1) /\ Smooth(t1)
  BY <1>1, Cat
<1> HIDE DEF t1
<1>5. Listed(t2) /\ Smooth(t2)
  BY <1>1, <1>4, Cat
<1> HIDE DEF t2
<1>6. Listed(t) /\ Smooth(t)
  BY <1>1, <1>5, Cat
<1> HIDE DEF t
<1> DEFINE w1 == When(auto, t)
           w2 == When(named, r)
           w3 == When(kind, k)
<1>7. /\ Listed(w1) /\ Smooth(w1) /\ Listed(w2) /\ Ids(w2) = {} /\ Orderly(w2) /\ Builds(w2)
      /\ Listed(w3) /\ Smooth(w3) /\ Ids(w3) = {}
  <2>1. Builds(<< >>)
    BY NoMembers DEF Builds
  <2>2. Builds(w2)
    BY <1>3, <2>1 DEF When, Nothing
  <2> QED BY <1>0, <1>2, <1>3, <1>6, <2>2, Whenever, DistinctMany
<1> HIDE DEF w1, w2, w3
<1> DEFINE s1 == u \o w1
           s2 == s1 \o w2
           s == s2 \o w3
<1>s. \A x : Smooth(x) => Orderly(x) /\ Builds(x) /\ \A d \in Members(x) : d.do # "raise"
  BY SmoothOrderly DEF Smooth, Builds
<1>8. Listed(s1) /\ Smooth(s1)
  BY <1>1, <1>7, Cat
<1> HIDE DEF s1
<1>9. Listed(s2) /\ Orderly(s2) /\ Builds(s2)
  <2>1. Listed(s2) /\ Members(s2) = Members(s1) \cup Members(w2)
    BY <1>7, <1>8, CatMembers
  <2>2. Orderly(s2)
    BY <1>7, <1>8, <1>s, DistinctCat
  <2> QED BY <1>7, <1>8, <1>s, <2>1, <2>2 DEF Builds
<1> HIDE DEF s2
<1>10. Orderly(s) /\ Builds(s)
  <2>1. Members(s) = Members(s2) \cup Members(w3)
    BY <1>7, <1>9, CatMembers
  <2>2. Orderly(s)
    BY <1>7, <1>9, <1>s, DistinctCat
  <2> QED BY <1>7, <1>9, <1>s, <2>1, <2>2 DEF Builds
<1>11. MinioCalls(c, h) = s
  BY DEF MinioCalls, u, t, t1, t2, i3, n3, ic, nc, r, k, auto, named, kind, h3, hc,
         s, s1, s2, w1, w2, w3
<1> QED
  BY <1>10, <1>11

Whole(S, D) == S \subseteq D \/ S \cap D = {}

\* What the blocks of a creation make, and those of a removal take away.
LEMMA BlockMakes ==
  ASSUME TypeInv, Configured, OneClass, NEW a \in Actor, job[a] = "create",
         NEW b \in {"minio", "static", "endpoint", "user-api", "user-static"} \cap BlocksOf(a)
  PROVE  LET s == Calls(a, b) IN
         /\ Listed(s) /\ Builds(s) /\ Orderly(s) /\ Ids(s) \subseteq AllOf(a)
         /\ \A r \in Removers(a) : Whole(GroupOf(a, r), Ids(s))
<1>0. Shape /\ ControlOK(a)
  BY DEF TypeInv, Control
<1>m. \A s : Smooth(s) => Orderly(s) /\ Builds(s)
  BY SmoothOrderly DEF Smooth, Builds
<1>g. ASSUME NEW s, NEW q \in Lenient(a), Ids(s) = GroupOf(a, q)
      PROVE  /\ Ids(s) \subseteq AllOf(a)
             /\ \A r \in Removers(a) : Whole(GroupOf(a, r), Ids(s))
  <2>1. \A r \in Lenient(a) : r = q \/ GroupOf(a, r) \cap GroupOf(a, q) = {}
    BY GroupsApart
  <2>2. \A r \in Strict : \A S : Whole(GroupOf(a, r), S)
    <3>1. \A x, S : Whole({x}, S) /\ Whole({}, S)
      BY DEF Whole
    <3> QED BY <3>1 DEF Strict, GroupOf
  <2>3. q \in Removers(a) /\ Removers(a) \subseteq Lenient(a) \cup Strict
    BY DEF Removers
  <2> QED BY <1>g, <2>1, <2>2, <2>3 DEF Whole, AllOf
<1>1. CASE a = Whisk
  <2>0. cfgd = conf
    BY <1>1 DEF Configured
  <2>1. CASE b = "minio"
    <3> DEFINE s == Calls(a, b)
               X == IF conf.extra = "auto" THEN {WId("minio-s3"), WId("minio-console")} ELSE {}
    <3>1. Listed(s) /\ Ids(s) = GroupOf(a, "upload-removal") \cup X
      BY <1>1, <2>0, <2>1, WhiskMakes DEF GroupOf
    <3>2. Orderly(s) /\ Builds(s)
      <4>1. s = MinioCalls(cfgd, Host)
        BY <1>1, <2>1 DEF Calls
      <4> QED BY <4>1, MinioOrderly
    <3> HIDE DEF s
    <3>3. /\ X = GroupOf(a, "s3-removal") \cup GroupOf(a, "console-removal")
      BY <1>1, <2>0 DEF GroupOf, WId
    <3>4. /\ X \cap GroupOf(a, "endpoint-removal") = {}
          /\ X \cap GroupOf(a, "static-removal") = {}
      BY <2>0, NotesApart DEF GroupOf
    <3>5. \A r \in Strict : \A S : Whole(GroupOf(a, r), S)
      <4>1. \A x, S : Whole({x}, S) /\ Whole({}, S)
        BY DEF Whole
      <4> QED BY <4>1 DEF Strict, GroupOf
    <3>6. /\ GroupOf(a, "endpoint-removal") \cap GroupOf(a, "upload-removal") = {}
          /\ GroupOf(a, "static-removal") \cap GroupOf(a, "upload-removal") = {}
      BY <1>1, GroupsApart DEF Lenient
    <3>7. Ids(s) \subseteq AllOf(a)
      BY <1>1, <3>1, <3>3 DEF AllOf, Removers, Lenient, Strict
    <3>8. \A r \in Lenient(a) : Whole(GroupOf(a, r), Ids(s))
      <4> HIDE DEF X
      <4> QED BY <1>1, <3>1, <3>4, <3>6 DEF Lenient, Whole
    <3>9. \A r \in Removers(a) : Whole(GroupOf(a, r), Ids(s))
      BY <3>5, <3>8 DEF Removers
    <3> QED BY <3>1, <3>2, <3>7, <3>9 DEF s
  <2>2. CASE b = "static"
    <3>1. LET s == Calls(a, b) IN Listed(s) /\ Smooth(s) /\ Ids(s) = GroupOf(a, "static-removal")
      BY <1>1, <2>0, <2>2, WhiskMakes DEF GroupOf
    <3> HIDE DEF Calls, GroupOf
    <3> QED BY <1>1, <1>m, <1>g, <3>1 DEF Lenient
  <2>3. CASE b = "endpoint"
    <3>1. LET s == Calls(a, b) IN
          Listed(s) /\ Smooth(s) /\ Ids(s) = GroupOf(a, "endpoint-removal")
      BY <1>1, <2>0, <2>3, WhiskMakes DEF GroupOf
    <3> HIDE DEF Calls, GroupOf
    <3> QED BY <1>1, <1>m, <1>g, <3>1 DEF Lenient
  <2> QED BY <1>1, <2>1, <2>2, <2>3 DEF BlocksOf, WhiskBlocks
<1>2. CASE a # Whisk
  <2>0. a \in Users /\ life[a] # "none"
    BY <1>0, <1>2 DEF Actor, ControlOK
  <2>c. StaticOn /\ cfgd \in Confs /\ conf \in Confs /\ cfgd.kube = conf.kube
    BY <1>0, <2>0 DEF Configured, StaticOn, Shape
  <2>d. ApiGroup(cfgd, a, UserParts) = GroupOf(a, "user-api-removal")
        /\ StaticGroup(cfgd, {a}) = GroupOf(a, "user-static-removal")
    BY <2>c, SameNames DEF OneClass, GroupOf, ApiGroup, StaticGroup
  <2>1. CASE b = "user-api"
    <3>1. Calls(a, b) = ApiCalls(cfgd, a, HostOf(a), FALSE)
      BY <2>1 DEF Calls
    <3>2. Parts(FALSE) = UserParts
      BY DEF Parts
    <3>3. LET s == Calls(a, b) IN
          Listed(s) /\ Smooth(s) /\ Ids(s) = GroupOf(a, "user-api-removal")
      BY <2>d, <3>1, <3>2, ApiMakes
    <3> HIDE DEF Calls, GroupOf
    <3> QED BY <1>2, <1>m, <1>g, <3>3 DEF Lenient
  <2>2. CASE b = "user-static"
    <3>1. Calls(a, b) = StaticCalls(cfgd, a, a, HostOf(a))
      BY <2>c, <2>2 DEF Calls, When
    <3>2. LET s == Calls(a, b) IN
          Listed(s) /\ Smooth(s) /\ Ids(s) = GroupOf(a, "user-static-removal")
      BY <2>d, <3>1, StaticMakes
    <3> HIDE DEF Calls, GroupOf
    <3> QED BY <1>2, <1>m, <1>g, <3>2 DEF Lenient
  <2> QED BY <1>2, <2>1, <2>2 DEF BlocksOf, UserBlocks
<1> QED
  BY <1>1, <1>2

LEMMA BlockClears ==
  ASSUME TypeInv, Configured, OneClass, NEW a \in Actor, job[a] = "delete",
         NEW b \in Removers(a)
  PROVE  LET s == Calls(a, b) IN
         /\ Listed(s) /\ Deletes(s) /\ Distinct(s) /\ GroupOf(a, b) \subseteq Ids(s)
         /\ b \in Lenient(a) => Ids(s) = GroupOf(a, b)
<1>0. Shape /\ ControlOK(a)
  BY DEF TypeInv, Control
<1>1. CASE a = Whisk
  <2>1. Unequal(NuvParts) /\ Unequal(NuvStatics)
    <3> DEFINE www == NeedsWww(cfgd, Host)
               p == << "apihost", "apihost-my", "apihost-info" >>
               q == When(www, << "apihost-www-my" >>)
               o == << Whisk >>
               w == When(www, << "www-nuvolaris" >>)
    <3>1. www \in BOOLEAN
      BY DEF NeedsWww
    <3> HIDE DEF www
    <3>2. /\ \A x : Listed(<< x >>) /\ Members(<< x >>) = {x} /\ Unequal(<< x >>)
          /\ Listed(<< >>) /\ Members(<< >>) = {} /\ Unequal(<< >>)
      BY OneMember, NoMembers, DistinctOne
    <3>3. /\ Listed(q) /\ Members(q) \subseteq {"apihost-www-my"} /\ Unequal(q)
          /\ Listed(w) /\ Members(w) \subseteq {"www-nuvolaris"} /\ Unequal(w)
          /\ Listed(o) /\ Members(o) = {Whisk} /\ Unequal(o)
      BY <3>1, <3>2 DEF When, Nothing
    <3>4. Listed(p) /\ Members(p) = {"apihost", "apihost-my", "apihost-info"} /\ Unequal(p)
      <4>1. p \in Seq({"apihost", "apihost-my", "apihost-info"})
            /\ DOMAIN p = 1 .. 3 /\ p[1] = "apihost" /\ p[2] = "apihost-my"
            /\ p[3] = "apihost-info"
        OBVIOUS
      <4> HIDE DEF p
      <4>2. Listed(p) /\ Members(p) = {"apihost", "apihost-my", "apihost-info"}
        BY <4>1, Listing DEF Members
      <4>3. \A i \in 1 .. 3 : i = 1 \/ i = 2 \/ i = 3
        OBVIOUS
      <4>4. Unequal(p)
        BY <4>1, <4>3 DEF Unequal
      <4> QED BY <4>2, <4>4
    <3>5. NuvParts = p \o q /\ NuvStatics = o \o w
      BY DEF NuvParts, NuvStatics, www
    <3>6. Members(p) \cap Members(q) = {} /\ Members(o) \cap Members(w) = {}
      BY <3>3, <3>4 DEF Whisk
    <3> HIDE DEF p, q, o, w
    <3> QED BY <3>3, <3>4, <3>5, <3>6, DistinctCat
  <2>2. "apihost" \notin Members(NuvStatics)
    BY PartsListed DEF Statics, Whisk
  <2>3. /\ Distinct(EndpointRemoval(cfgd, Whisk, NuvParts))
        /\ Distinct(StaticRemoval(cfgd, NuvStatics))
        /\ \A part : Distinct(MinioRemoval(cfgd, part))
    BY <2>1, <2>2, PartsListed, RemovalOnce
  <2>4. Extra \in BOOLEAN /\ (cfgd.extra = "auto" => Extra)
    BY DEF Extra
  <2>5. \A part : Distinct(When(Extra, MinioRemoval(cfgd, part)))
    BY <2>3, <2>4, DistinctMany
  <2>6. \A part : ApiName(cfgd, Whisk, part) \in ApiGroup(cfgd, Whisk, {part})
    BY DEF ApiGroup
  <2>7. CASE b = "endpoint-removal"
    <3>1. Calls(a, b) = EndpointRemoval(cfgd, Whisk, NuvParts)
      BY <1>1, <2>7 DEF Calls
    <3> QED BY <1>1, <2>3, <2>7, <3>1, WhiskRemoves DEF GroupOf
  <2>8. CASE b = "static-removal"
    <3>1. Calls(a, b) = StaticRemoval(cfgd, NuvStatics)
      BY <1>1, <2>8 DEF Calls
    <3> QED BY <1>1, <2>3, <2>8, <3>1, WhiskRemoves DEF GroupOf
  <2>9. CASE b = "upload-removal"
    <3>1. Calls(a, b) = MinioRemoval(cfgd, "minio-upload")
      BY <1>1, <2>9 DEF Calls
    <3> QED BY <1>1, <2>3, <2>9, <3>1, WhiskRemoves DEF GroupOf
  <2>10. CASE b = "s3-removal"
    <3>1. Calls(a, b) = When(Extra, MinioRemoval(cfgd, "minio-s3"))
      BY <1>1, <2>10 DEF Calls
    <3>2. b \notin Lenient(a)
      BY <1>1, <2>10 DEF Lenient
    <3>3. LET s == Calls(a, b) IN
          /\ Listed(s) /\ Deletes(s) /\ Distinct(s)
          /\ Ids(s) = IF Extra THEN ApiGroup(cfgd, Whisk, {"minio-s3"}) ELSE {}
      BY <1>1, <2>5, <2>10, <3>1, WhiskRemoves
    <3>4. GroupOf(a, b) = IF cfgd.extra = "auto" THEN {ApiName(cfgd, Whisk, "minio-s3")} ELSE {}
      BY <2>10 DEF GroupOf
    <3> HIDE DEF Calls
    <3> QED BY <2>4, <2>6, <3>2, <3>3, <3>4
  <2>11. CASE b = "console-removal"
    <3>1. Calls(a, b) = When(Extra, MinioRemoval(cfgd, "minio-console"))
      BY <1>1, <2>11 DEF Calls
    <3>2. b \notin Lenient(a)
      BY <1>1, <2>11 DEF Lenient
    <3>3. LET s == Calls(a, b) IN
          /\ Listed(s) /\ Deletes(s) /\ Distinct(s)
          /\ Ids(s) = IF Extra THEN ApiGroup(cfgd, Whisk, {"minio-console"}) ELSE {}
      BY <1>1, <2>5, <2>11, <3>1, WhiskRemoves
    <3>4. GroupOf(a, b) = IF cfgd.extra = "auto" THEN {ApiName(cfgd, Whisk, "minio-console")}
                                                 ELSE {}
      BY <2>11 DEF GroupOf
    <3> HIDE DEF Calls
    <3> QED BY <2>4, <2>6, <3>2, <3>3, <3>4
  <2> QED BY <1>1, <2>7, <2>8, <2>9, <2>10, <2>11 DEF Removers, Lenient, Strict
<1>2. CASE a # Whisk
  <2>0. a \in Users /\ life[a] # "none" /\ a # "apihost"
    BY <1>0, <1>2, ActorsApart DEF Actor, ControlOK
  <2>c. StaticOn /\ cfgd \in Confs /\ conf \in Confs /\ cfgd.kube = conf.kube
    BY <1>0, <2>0 DEF Configured, StaticOn, Shape
  <2>d. ApiGroup(cfgd, a, UserParts) = GroupOf(a, "user-api-removal")
        /\ StaticGroup(cfgd, {a}) = GroupOf(a, "user-static-removal")
    BY <2>c, SameNames DEF OneClass, GroupOf, ApiGroup, StaticGroup
  <2>1. CASE b = "user-api-removal"
    <3> DEFINE p == << "apihost", "apihost-my" >>
    <3>1. Calls(a, b) = EndpointRemoval(cfgd, a, p)
      BY <2>1 DEF Calls
    <3>2. Listed(p) /\ Members(p) = UserParts
      BY PartsListed
    <3>3. Unequal(p)
      <4>1. DOMAIN p = 1 .. 2 /\ p[1] = "apihost" /\ p[2] = "apihost-my"
        OBVIOUS
      <4> HIDE DEF p
      <4>2. \A i \in 1 .. 2 : i = 1 \/ i = 2
        OBVIOUS
      <4> QED BY <4>1, <4>2 DEF Unequal
    <3> HIDE DEF p
    <3> QED BY <2>1, <2>d, <3>1, <3>2, <3>3, RemovalMakes, RemovalOnce
  <2>2. CASE b = "user-static-removal"
    <3>1. Calls(a, b) = StaticRemoval(cfgd, << a >>)
      BY <2>c, <2>2 DEF Calls, When
    <3>2. Listed(<< a >>) /\ Members(<< a >>) = {a} /\ Unequal(<< a >>)
      BY OneMember, DistinctOne
    <3> QED BY <2>0, <2>2, <2>d, <3>1, <3>2, RemovalMakes, RemovalOnce
  <2> QED BY <1>2, <2>1, <2>2 DEF Removers, Lenient
<1> QED
  BY <1>1, <1>2

There(a) == { i \in DOMAIN objects : IdOwner(i) = a }

\* What is there is of the blocks, and, of the Whisk object, as configured.
Contained(a) ==
  /\ life[a] = "none" => There(a) = {}
  /\ There(a) \subseteq AllOf(a)
  /\ a = Whisk /\ There(a) # {} => cfgd = conf

\* A creation makes what a block makes, all of it or nothing.
Makers == {"minio", "static", "endpoint", "user-api", "user-static"}
Made(a) ==
  job[a] # "delete" =>
    /\ todo[a] \in Seq(Makers) /\ (calls[a] # << >> => block[a] \in Makers)
    /\ Builds(calls[a]) /\ Orderly(calls[a]) /\ Ids(calls[a]) \subseteq AllOf(a)
    /\ \A r \in Removers(a) : Whole(GroupOf(a, r), DOMAIN objects \cup Ids(calls[a]))

\* The blocks that a removal has before it: after a failure to remove the upload
\* ingress, that of the S3 one and an exception.
Plans(a) ==
  IF a = Whisk
  THEN { DeleteBlocks,
         << "static-removal", "upload-removal", "s3-removal", "console-removal" >>,
         << "upload-removal", "s3-removal", "console-removal" >>,
         << "s3-removal", "console-removal" >>, << "console-removal" >>,
         << "s3-removal", "raise" >>, << "raise" >>, << >> }
  ELSE { UserDeleteBlocks, << "user-static-removal" >>, << >> }
Waiting(a) ==
  Members(todo[a]) \cup (IF "raise" \in Members(todo[a]) THEN {"console-removal"} ELSE {})

\* What is still before it is there whole or not at all; of what it is at, as
\* much is there as it has calls for; of what it has done, nothing.
Cleared(a) ==
  job[a] = "delete" =>
    /\ todo[a] \in Plans(a)
    /\ calls[a] # << >> =>
         /\ Deletes(calls[a]) /\ Distinct(calls[a]) /\ block[a] \in Removers(a)
         /\ block[a] = "upload-removal" => todo[a] = << "s3-removal", "console-removal" >>
         /\ block[a] \in Lenient(a) => Whole(Ids(calls[a]), DOMAIN objects)
    /\ \A r \in Removers(a) :
         IF r \in Waiting(a)
         THEN /\ Whole(GroupOf(a, r), DOMAIN objects)
              /\ r \in Lenient(a) => GroupOf(a, r) \cap Ids(calls[a]) = {}
         ELSE GroupOf(a, r) \cap DOMAIN objects
                \subseteq (IF block[a] = r THEN Ids(calls[a]) ELSE {})

Tidy(a) == Contained(a) /\ Made(a) /\ Cleared(a)

\* What others do, and another configuration of the same class, leave it tidy.
LEMMA TidyKept ==
  ASSUME NEW a \in Actor, ControlOK(a), Tidy(a),
         \A i : IdOwner(i) = a => (i \in DOMAIN objects <=> i \in DOMAIN objects'),
         calls'[a] = calls[a], todo'[a] = todo[a], block'[a] = block[a], job'[a] = job[a],
         life'[a] = "none" => life[a] = "none",
         a = Whisk /\ There(a) # {} /\ cfgd = conf => cfgd' = conf',
         \A r \in Removers(a) : GroupOf(a, r)' = GroupOf(a, r)
  PROVE  Tidy(a)'
<1>1. There(a)' = There(a) /\ AllOf(a)' = AllOf(a)
  BY DEF There, AllOf
<1>2. \A i \in Ids(calls[a]) : IdOwner(i) = a
  BY DEF ControlOK, AllMine, Mine, Ids
<1>3. \A r \in Removers(a) : \A i \in GroupOf(a, r) : IdOwner(i) = a
  BY GroupOwned
<1>4. Contained(a)'
  BY <1>1 DEF Tidy, Contained
<1>5. Made(a)'
  <2>1. \A r \in Removers(a) :
          Whole(GroupOf(a, r), DOMAIN objects \cup Ids(calls[a]))
            => Whole(GroupOf(a, r)', DOMAIN objects' \cup Ids(calls[a]))
    BY <1>3 DEF Whole
  <2> QED BY <1>1, <2>1 DEF Tidy, Made
<1>6. Cleared(a)'
  <2>1. \A r \in Removers(a) :
          /\ Whole(GroupOf(a, r), DOMAIN objects) => Whole(GroupOf(a, r)', DOMAIN objects')
          /\ GroupOf(a, r)' \cap DOMAIN objects' = GroupOf(a, r) \cap DOMAIN objects
          /\ GroupOf(a, r)' = GroupOf(a, r)
    BY <1>3 DEF Whole
  <2>2. Whole(Ids(calls[a]), DOMAIN objects) => Whole(Ids(calls[a]), DOMAIN objects')
    BY <1>2 DEF Whole
  <2>3. Waiting(a)' = Waiting(a)
    BY DEF Waiting
  <2> HIDE DEF Waiting, GroupOf
  <2> QED BY <2>1, <2>2, <2>3 DEF Tidy, Cleared
<1> QED
  BY <1>4, <1>5, <1>6 DEF Tidy

LEMMA TuplesListed ==
  /\ \A x, y : Members(<< x, y >>) = {x, y}
  /\ \A x, y, z : Members(<< x, y, z >>) = {x, y, z}
  /\ \A x, y, z, v : Members(<< x, y, z, v >>) = {x, y, z, v}
  /\ \A x, y, z, v, w : Members(<< x, y, z, v, w >>) = {x, y, z, v, w}
<1>2. ASSUME NEW x, NEW y PROVE Members(<< x, y >>) = {x, y}
  <2> DEFINE t == << x, y >>
  <2>1. DOMAIN t = {1, 2} /\ t[1] = x /\ t[2] = y
    OBVIOUS
  <2> HIDE DEF t
  <2>2. Members(t) = {x, y}
    BY <2>1 DEF Members
  <2> QED BY <2>2 DEF t
<1>3. ASSUME NEW x, NEW y, NEW z PROVE Members(<< x, y, z >>) = {x, y, z}
  <2> DEFINE t == << x, y, z >>
  <2>1. DOMAIN t = {1, 2, 3} /\ t[1] = x /\ t[2] = y /\ t[3] = z
    OBVIOUS
  <2> HIDE DEF t
  <2>2. Members(t) = {x, y, z}
    BY <2>1 DEF Members
  <2> QED BY <2>2 DEF t
<1>4. ASSUME NEW x, NEW y, NEW z, NEW v PROVE Members(<< x, y, z, v >>) = {x, y, z, v}
  <2> DEFINE t == << x, y, z, v >>
  <2>1. DOMAIN t = {1, 2, 3, 4} /\ t[1] = x /\ t[2] = y /\ t[3] = z /\ t[4] = v
    OBVIOUS
  <2> HIDE DEF t
  <2>2. Members(t) = {x, y, z, v}
    BY <2>1 DEF Members
  <2> QED BY <2>2 DEF t
<1>5. ASSUME NEW x, NEW y, NEW z, NEW v, NEW w
      PROVE  Members(<< x, y, z, v, w >>) = {x, y, z, v, w}
  <2> DEFINE t == << x, y, z, v, w >>
  <2>1. /\ DOMAIN t = {1, 2, 3, 4, 5} /\ t[1] = x /\ t[2] = y /\ t[3] = z /\ t[4] = v
        /\ t[5] = w
    OBVIOUS
  <2> HIDE DEF t
  <2>2. Members(t) = {x, y, z, v, w}
    BY <2>1 DEF Members
  <2> QED BY <2>2 DEF t
<1> QED
  BY <1>2, <1>3, <1>4, <1>5

\* How a plan goes on.
LEMMA PlanSteps ==
  ASSUME NEW a \in Actor, NEW t \in Plans(a), t # << >>, Head(t) # "raise"
  PROVE  /\ Tail(t) \in Plans(a) /\ Head(t) \in Removers(a)
         /\ Members(t) = Members(Tail(t)) \cup {Head(t)} /\ Head(t) \notin Members(Tail(t))
         /\ Head(t) = "upload-removal" => Tail(t) = << "s3-removal", "console-removal" >>
         /\ Head(t) \in Strict => Members(Tail(t)) \cap Lenient(a) = {}
         /\ "raise" \in Members(Tail(t)) => Head(t) = "s3-removal"
<1> DEFINE d == DeleteBlocks
           s == << "static-removal", "upload-removal", "s3-removal", "console-removal" >>
           u == << "upload-removal", "s3-removal", "console-removal" >>
           m == << "s3-removal", "console-removal" >>
           c == << "console-removal" >>
           x == << "s3-removal", "raise" >>
           y == << "raise" >>
           v == UserDeleteBlocks
           w == << "user-static-removal" >>
           e == << >>
<1>1. /\ Members(e) = {} /\ Members(c) = {"console-removal"} /\ Members(y) = {"raise"}
      /\ Members(m) = {"s3-removal", "console-removal"}
      /\ Members(x) = {"s3-removal", "raise"}
      /\ Members(u) = {"upload-removal", "s3-removal", "console-removal"}
      /\ Members(s) = {"static-removal", "upload-removal", "s3-removal", "console-removal"}
      /\ Members(d) = {"endpoint-removal", "static-removal", "upload-removal", "s3-removal",
                       "console-removal"}
      /\ Members(w) = {"user-static-removal"}
      /\ Members(v) = {"user-api-removal", "user-static-removal"}
  BY TuplesListed, OneMember, NoMembers DEF DeleteBlocks, UserDeleteBlocks
<1>2. /\ Head(d) = "endpoint-removal" /\ Tail(d) = s /\ Head(s) = "static-removal" /\ Tail(s) = u
      /\ Head(u) = "upload-removal" /\ Tail(u) = m /\ Head(m) = "s3-removal" /\ Tail(m) = c
      /\ Head(c) = "console-removal" /\ Tail(c) = e /\ Head(x) = "s3-removal" /\ Tail(x) = y
      /\ Head(y) = "raise" /\ Head(v) = "user-api-removal" /\ Tail(v) = w
      /\ Head(w) = "user-static-removal" /\ Tail(w) = e
  BY DEF DeleteBlocks, UserDeleteBlocks
<1>p. /\ Members(d) = Members(s) \cup {"endpoint-removal"} /\ "endpoint-removal" \notin Members(s)
      /\ Members(s) = Members(u) \cup {"static-removal"} /\ "static-removal" \notin Members(u)
      /\ Members(u) = Members(m) \cup {"upload-removal"} /\ "upload-removal" \notin Members(m)
      /\ Members(m) = Members(c) \cup {"s3-removal"} /\ "s3-removal" \notin Members(c)
      /\ Members(c) = Members(e) \cup {"console-removal"} /\ "console-removal" \notin Members(e)
      /\ Members(x) = Members(y) \cup {"s3-removal"} /\ "s3-removal" \notin Members(y)
      /\ Members(v) = Members(w) \cup {"user-api-removal"} /\ "user-api-removal" \notin Members(w)
      /\ Members(w) = Members(e) \cup {"user-static-removal"}
      /\ "user-static-removal" \notin Members(e)
  <2> HIDE DEF d, s, u, m, c, x, y, v, w, e
  <2> QED BY <1>1
<1>q. /\ "raise" \notin Members(s) /\ "raise" \notin Members(u) /\ "raise" \notin Members(m)
      /\ "raise" \notin Members(c) /\ "raise" \notin Members(e) /\ "raise" \notin Members(w)
      /\ Members(c) \cap {"endpoint-removal", "static-removal", "upload-removal"} = {}
      /\ Members(e) = {}
      /\ Members(y) \cap {"endpoint-removal", "static-removal", "upload-removal"} = {}
  <2> HIDE DEF d, s, u, m, c, x, y, v, w, e
  <2> QED BY <1>1
<1>3. /\ a = Whisk => Plans(a) = {d, s, u, m, c, x, y, e}
      /\ a # Whisk => Plans(a) = {v, w, e}
  BY DEF Plans
<1>4. e = << >> /\ m = << "s3-removal", "console-removal" >>
  OBVIOUS
<1> HIDE DEF d, s, u, m, c, x, y, v, w, e
<1>5. CASE a = Whisk
  <2>1. t \in {d, s, u, m, c, x}
    BY <1>2, <1>3, <1>4, <1>5
  <2>2. Tail(t) \in {s, u, m, c, y, e}
    BY <1>2, <2>1
  <2>3. /\ t = d => Tail(t) = s /\ Head(t) = "endpoint-removal"
        /\ t = s => Tail(t) = u /\ Head(t) = "static-removal"
        /\ t = u => Tail(t) = m /\ Head(t) = "upload-removal"
        /\ t = m => Tail(t) = c /\ Head(t) = "s3-removal"
        /\ t = c => Tail(t) = e /\ Head(t) = "console-removal"
        /\ t = x => Tail(t) = y /\ Head(t) = "s3-removal"
    BY <1>2
  <2> HIDE DEF Removers, Lenient
  <2>4. /\ Removers(a) = {"endpoint-removal", "static-removal", "upload-removal", "s3-removal",
                          "console-removal"}
        /\ Lenient(a) = {"endpoint-removal", "static-removal", "upload-removal"}
        /\ Strict = {"s3-removal", "console-removal"}
    BY <1>5 DEF Removers, Lenient, Strict
  <2>m. Tail(t) \in Plans(a) /\ Head(t) \in Removers(a)
    BY <1>3, <1>5, <2>1, <2>3, <2>4
  <2>r. "raise" \in Members(Tail(t)) => Head(t) = "s3-removal"
    BY <1>q, <2>1, <2>3
  <2>l. Head(t) \in Strict => Members(Tail(t)) \cap Lenient(a) = {}
    <3>1. Head(t) \in Strict => t \in {m, c, x}
      BY <2>1, <2>3, <2>4
    <3>2. t \in {m, c, x} => Members(Tail(t)) \in {Members(c), Members(e), Members(y)}
      BY <2>3
    <3>3. \A M \in {Members(c), Members(e), Members(y)} : M \cap Lenient(a) = {}
      BY <1>q, <2>4
    <3> QED BY <3>1, <3>2, <3>3
  <2>u. Head(t) = "upload-removal" => Tail(t) = << "s3-removal", "console-removal" >>
    BY <1>4, <2>1, <2>3
  <2>c. Members(t) = Members(Tail(t)) \cup {Head(t)} /\ Head(t) \notin Members(Tail(t))
    BY <1>p, <2>1, <2>3
  <2> QED BY <2>m, <2>r, <2>l, <2>u, <2>c
<1>6. CASE a # Whisk
  <2>1. t = v \/ t = w
    BY <1>3, <1>4, <1>6
  <2>2. /\ t = v => Tail(t) = w /\ Head(t) = "user-api-removal"
        /\ t = w => Tail(t) = e /\ Head(t) = "user-static-removal"
    BY <1>2
  <2>3. Removers(a) = {"user-api-removal", "user-static-removal"}
        /\ Strict = {"s3-removal", "console-removal"}
    BY <1>6 DEF Removers, Lenient, Strict
  <2>4. Tail(t) \in Plans(a) /\ Head(t) \in Removers(a) /\ Head(t) \notin Strict
        /\ Head(t) # "upload-removal"
    BY <1>3, <1>6, <2>1, <2>2, <2>3
  <2>5. "raise" \notin Members(Tail(t))
    BY <1>q, <2>1, <2>2
  <2>6. Members(t) = Members(Tail(t)) \cup {Head(t)} /\ Head(t) \notin Members(Tail(t))
    BY <1>p, <2>1, <2>2
  <2> QED BY <2>4, <2>5, <2>6
<1> QED
  BY <1>5, <1>6

\* The handlers of its own.
LEMMA GroupsSame ==
  ASSUME UNCHANGED << addr, conf, cfgd >>
  PROVE  \A a, r : GroupOf(a, r)' = GroupOf(a, r)
BY DEF GroupOf, Host

AllOwned == \A a \in Actor : \A r \in Removers(a) : \A i \in GroupOf(a, r) : IdOwner(i) = a

LEMMA EverOwned == AllOwned
BY GroupOwned DEF AllOwned

LEMMA IdsRest ==
  ASSUME NEW s, Listed(s), s # << >>
  PROVE  Ids(s) = Ids(Tail(s)) \cup (IF Head(s).do \in {"apply", "delete"} THEN {Head(s).id}
                                     ELSE {})
<1>1. Members(s) = Members(Tail(s)) \cup {Head(s)}
  BY Rest
<1> QED BY <1>1 DEF Ids

\* At the end of a handler.
LEMMA TidyIdle ==
  ASSUME TypeInv, NEW a \in Actor, Idle(a), UNCHANGED << objects, addr, conf, cfgd >>,
         There(a) \subseteq AllOf(a), a = Whisk /\ There(a) # {} => cfgd = conf,
         life'[a] = "none" => There(a) = {},
         \A r \in Removers(a) : Whole(GroupOf(a, r), DOMAIN objects)
  PROVE  Tidy(a)'
<1>1. job'[a] = "idle" /\ todo'[a] = << >> /\ calls'[a] = << >>
  BY DEF Idle, TypeInv, Shape
<1>2. \A r : GroupOf(a, r)' = GroupOf(a, r)
  BY GroupsSame
<1>3. There(a)' = There(a) /\ AllOf(a)' = AllOf(a)
  BY <1>2 DEF There, AllOf
<1>4. Contained(a)'
  BY <1>3 DEF Contained
<1>5. /\ Ids(<< >>) = {} /\ Members(<< >>) = {} /\ Orderly(<< >>) /\ Builds(<< >>)
      /\ << >> \in Seq(Makers)
  BY NoMembers, Empty, DistinctOne DEF Builds
<1>6. Made(a)'
  <2>1. \A r \in Removers(a) : Whole(GroupOf(a, r)', DOMAIN objects' \cup {})
    BY <1>2 DEF Whole
  <2> HIDE DEF GroupOf
  <2> QED BY <1>1, <1>5, <2>1 DEF Made
<1>7. Cleared(a)'
  BY <1>1 DEF Cleared
<1> QED
  BY <1>4, <1>6, <1>7 DEF Tidy

\* Between two blocks every group is there whole or not at all.
LEMMA TidyBetween ==
  ASSUME TypeInv, NEW a \in Actor, Tidy(a), calls[a] = << >>
  PROVE  \A r \in Removers(a) :
           /\ Whole(GroupOf(a, r), DOMAIN objects)
           /\ job[a] = "delete" /\ r \notin Waiting(a) => GroupOf(a, r) \cap DOMAIN objects = {}
<1>1. Ids(<< >>) = {}
  BY Empty
<1>2. CASE job[a] = "delete"
  <2>1. \A r \in Removers(a) :
         IF r \in Waiting(a) THEN Whole(GroupOf(a, r), DOMAIN objects)
         ELSE GroupOf(a, r) \cap DOMAIN objects = {}
    BY <1>1, <1>2 DEF Tidy, Cleared
  <2> HIDE DEF GroupOf
  <2> QED BY <2>1 DEF Whole
<1>3. CASE job[a] # "delete"
  <2>1. \A r \in Removers(a) : Whole(GroupOf(a, r), DOMAIN objects \cup {})
    BY <1>1, <1>3 DEF Tidy, Made
  <2> HIDE DEF GroupOf
  <2> QED BY <1>3, <2>1 DEF Whole
<1> QED BY <1>2, <1>3

LEMMA TidyStarted ==
  ASSUME TypeInv, Configured, NEW a \in Actor, Tidy(a), Start(a)
  PROVE  Tidy(a)'
<1>0. Shape /\ ControlOK(a)
  BY DEF TypeInv, Control
<1>1. /\ job[a] = "idle" /\ calls[a] = << >> /\ calls'[a] = << >> /\ life'[a] = life[a]
      /\ UNCHANGED << objects, addr, conf >> /\ block'[a] = block[a]
      /\ \/ /\ life[a] = "creating" /\ job'[a] = "create"
            /\ todo'[a] = IF a = Whisk THEN CreateBlocks ELSE UserCreateBlocks
            /\ cfgd' = IF a = Whisk THEN conf ELSE cfgd
         \/ /\ life[a] = "deleting" /\ job'[a] = "delete" /\ cfgd' = cfgd
            /\ todo'[a] = IF a # Whisk THEN UserDeleteBlocks
                          ELSE IF cfgd = Emptied THEN << >> ELSE DeleteBlocks
  BY <1>0 DEF Start, Begin, Shape, ControlOK, cluster
<1>2. /\ \A r \in Removers(a) : Whole(GroupOf(a, r), DOMAIN objects)
      /\ There(a)' = There(a) /\ Contained(a)
  BY <1>1, TidyBetween DEF There, Tidy
<1>3. \A r \in Removers(a) : /\ \A i \in GroupOf(a, r) : IdOwner(i) = a
                             /\ \A i \in GroupOf(a, r)' : IdOwner(i) = a
  <2>1. AllOwned'
    BY EverOwned, PTL
  <2> HIDE DEF GroupOf
  <2> QED BY <2>1, EverOwned DEF AllOwned
<1>4. There(a) = {} => \A r \in Removers(a) : /\ GroupOf(a, r) \cap DOMAIN objects = {}
                                              /\ GroupOf(a, r)' \cap DOMAIN objects' = {}
  BY <1>1, <1>3 DEF There
<1>5. cfgd' = cfgd => \A r \in Removers(a) : GroupOf(a, r)' = GroupOf(a, r)
  BY <1>1, GroupsSame
<1>6. There(a) # {} => cfgd' = cfgd
  BY <1>1, <1>2 DEF Contained
<1>7. \A r \in Removers(a) : Whole(GroupOf(a, r)', DOMAIN objects')
  BY <1>1, <1>2, <1>4, <1>5, <1>6 DEF Whole
<1>8. Contained(a)'
  <2>1. CASE There(a) = {}
    BY <1>2, <2>1 DEF Contained
  <2>2. CASE There(a) # {}
    <3>1. AllOf(a)' = AllOf(a)
      BY <1>5, <1>6, <2>2 DEF AllOf
    <3>2. a = Whisk => cfgd' = conf'
      BY <1>1, <1>2, <1>6, <2>2 DEF Contained
    <3> QED BY <1>1, <1>2, <2>2, <3>1, <3>2 DEF Contained
  <2> QED BY <2>1, <2>2
<1> HIDE DEF GroupOf
<1>e. /\ Ids(<< >>) = {} /\ Members(<< >>) = {} /\ Orderly(<< >>) /\ Builds(<< >>)
  BY NoMembers, Empty, DistinctOne DEF Builds
<1>9. CASE job'[a] = "create"
  <2>1. CreateBlocks \in Seq(Makers) /\ UserCreateBlocks \in Seq(Makers)
    BY DEF CreateBlocks, UserCreateBlocks, Makers
  <2>2. todo'[a] \in Seq(Makers)
    BY <1>1, <1>9, <2>1
  <2>3. \A r \in Removers(a) : Whole(GroupOf(a, r)', DOMAIN objects' \cup {})
    BY <1>7
  <2>4. Made(a)'
    BY <1>1, <1>e, <2>2, <2>3 DEF Made
  <2>5. Cleared(a)'
    BY <1>9 DEF Cleared
  <2> QED BY <1>8, <2>4, <2>5 DEF Tidy
<1>10. CASE job'[a] = "delete"
  <2>1. /\ DeleteBlocks \in Plans(Whisk) /\ << >> \in Plans(Whisk)
        /\ a # Whisk => UserDeleteBlocks \in Plans(a)
    BY DEF Plans
  <2>2. todo'[a] \in Plans(a)
    BY <1>1, <1>10, <2>1
  <2>3. /\ Members(DeleteBlocks) = Removers(Whisk)
        /\ a # Whisk => Members(UserDeleteBlocks) = Removers(a)
    BY TuplesListed DEF DeleteBlocks, UserDeleteBlocks, Removers, Lenient, Strict
  <2>4. CASE todo'[a] = << >> /\ a = Whisk /\ cfgd = Emptied
    <3>1. conf # Emptied
      BY <1>0, ConfsAssumption DEF Shape
    <3>2. There(a) = {}
      BY <1>2, <2>4, <3>1 DEF Contained
    <3>3. \A r \in Removers(a) : /\ GroupOf(a, r)' \cap DOMAIN objects' = {}
      BY <1>4, <3>2
    <3>4. Waiting(a)' = {}
      BY <2>4, <1>e DEF Waiting
    <3>5. Cleared(a)'
      BY <1>1, <2>2, <3>3, <3>4 DEF Cleared
    <3>6. Made(a)'
      BY <1>10 DEF Made
    <3> QED BY <1>8, <3>5, <3>6 DEF Tidy
  <2>5. CASE Members(todo'[a]) = Removers(a)
    <3>1. Removers(a) \subseteq Waiting(a)'
      BY <2>5 DEF Waiting
    <3>2. \A r \in Removers(a) : GroupOf(a, r)' \cap Ids(calls'[a]) = {}
      BY <1>1, <1>e
    <3>3. Cleared(a)'
      BY <1>1, <1>7, <2>2, <3>1, <3>2 DEF Cleared
    <3>4. Made(a)'
      BY <1>10 DEF Made
    <3> QED BY <1>8, <3>3, <3>4 DEF Tidy
  <2> QED BY <1>1, <1>10, <2>3, <2>4, <2>5
<1> QED
  BY <1>1, <1>9, <1>10

LEMMA TidyEntered ==
  ASSUME TypeInv, Configured, OneClass, NEW a \in Actor, Tidy(a), Enter(a)
  PROVE  Tidy(a)'
<1> DEFINE b == Head(todo[a])
           s == Calls(a, b)
           D == DOMAIN objects
<1>0. Shape /\ ControlOK(a)
  BY DEF TypeInv, Control
<1>1. /\ calls[a] = << >> /\ todo[a] # << >> /\ b # "raise" /\ block'[a] = b
      /\ calls'[a] = s /\ todo'[a] = Tail(todo[a]) /\ job'[a] = job[a] /\ life'[a] = life[a]
      /\ UNCHANGED << objects, addr, conf, cfgd >>
  BY <1>0 DEF Enter, Answered, Shape, cluster
<1>2. job[a] \in {"create", "delete"}
  BY <1>0, <1>1 DEF Shape, ControlOK
<1>3. \A r \in Removers(a) :
        /\ Whole(GroupOf(a, r), D)
        /\ job[a] = "delete" /\ r \notin Waiting(a) => GroupOf(a, r) \cap D = {}
  BY <1>1, TidyBetween
<1>4. \A r : GroupOf(a, r)' = GroupOf(a, r)
  BY <1>1, GroupsSame
<1>5. Contained(a)'
  <2>1. There(a)' = There(a) /\ AllOf(a)' = AllOf(a)
    BY <1>1, <1>4 DEF There, AllOf
  <2> QED BY <1>1, <2>1 DEF Tidy, Contained
<1>6. AllOf(a)' = AllOf(a)
  BY <1>4 DEF AllOf
<1>7. CASE job[a] = "create"
  <2>1. todo[a] \in Seq(Makers)
    BY <1>7 DEF Tidy, Made
  <2>2. b \in Makers \cap BlocksOf(a) /\ Tail(todo[a]) \in Seq(Makers)
    BY <1>1, <2>1, BlockMine, HeadTailProperties
  <2>3. /\ Builds(s) /\ Orderly(s) /\ Ids(s) \subseteq AllOf(a)
        /\ \A r \in Removers(a) : Whole(GroupOf(a, r), Ids(s))
    BY <1>7, <2>2, BlockMakes DEF Makers
  <2> HIDE DEF s, b, GroupOf
  <2>4. \A r \in Removers(a) : Whole(GroupOf(a, r)', D' \cup Ids(s))
    BY <1>1, <1>3, <1>4, <2>3 DEF Whole
  <2> HIDE DEF D
  <2>5. Made(a)'
    BY <1>1, <1>6, <2>2, <2>3, <2>4 DEF Made, D
  <2>6. Cleared(a)'
    BY <1>1, <1>7 DEF Cleared
  <2> QED BY <1>5, <2>5, <2>6 DEF Tidy
<1>8. CASE job[a] = "delete"
  <2> DEFINE t == todo[a]
  <2>1. t \in Plans(a)
    BY <1>8 DEF Tidy, Cleared
  <2>2. /\ Tail(t) \in Plans(a) /\ b \in Removers(a)
        /\ Members(t) = Members(Tail(t)) \cup {b} /\ b \notin Members(Tail(t))
        /\ b = "upload-removal" => Tail(t) = << "s3-removal", "console-removal" >>
        /\ b \in Strict => Members(Tail(t)) \cap Lenient(a) = {}
    BY <1>1, <2>1, PlanSteps
  <2>3. /\ Deletes(s) /\ Distinct(s) /\ GroupOf(a, b) \subseteq Ids(s)
        /\ b \in Lenient(a) => Ids(s) = GroupOf(a, b)
    BY <1>8, <2>2, BlockClears
  <2>4. b \in Lenient(a) \/ b \in Strict
    BY <2>2 DEF Removers
  <2>5. Waiting(a) \subseteq Waiting(a)' \cup {b}
    BY <1>1, <2>2 DEF Waiting
  <2>6. Waiting(a)' \subseteq Members(Tail(t)) \cup {"console-removal"}
    BY <1>1 DEF Waiting
  <2>7. "console-removal" \notin Lenient(a)
    BY DEF Lenient
  <2>8. ASSUME NEW r \in Removers(a), r \in Waiting(a)', r \in Lenient(a)
        PROVE  GroupOf(a, r) \cap Ids(s) = {}
    <3>1. r \in Members(Tail(t))
      BY <2>6, <2>7, <2>8
    <3>2. b \in Lenient(a) /\ r # b
      BY <2>2, <2>4, <2>8, <3>1
    <3> QED BY <2>3, <2>8, <3>2, GroupsApart
  <2>9. ASSUME NEW r \in Removers(a), r \notin Waiting(a)', r # b
        PROVE  GroupOf(a, r) \cap D = {}
    BY <1>3, <1>8, <2>5, <2>9
  <2>10. b \in Lenient(a) => Whole(Ids(s), D)
    BY <1>3, <2>2, <2>3
  <2> HIDE DEF s, b, GroupOf, t, Waiting
  <2>11. \A r \in Removers(a) :
          IF r \in Waiting(a)'
          THEN /\ Whole(GroupOf(a, r)', D')
               /\ r \in Lenient(a) => GroupOf(a, r)' \cap Ids(s) = {}
          ELSE GroupOf(a, r)' \cap D' \subseteq (IF b = r THEN Ids(s) ELSE {})
    BY <1>1, <1>3, <1>4, <2>3, <2>8, <2>9
  <2>12. /\ todo'[a] \in Plans(a)
         /\ todo'[a] = Tail(t)
    BY <1>1, <2>2 DEF t
  <2> HIDE DEF D, Plans, Removers, Lenient, Whole
  <2>13. Cleared(a)'
    BY <1>1, <2>2, <2>3, <2>10, <2>11, <2>12 DEF Cleared, D
  <2>14. Made(a)'
    BY <1>1, <1>8 DEF Made
  <2> QED BY <1>5, <2>13, <2>14 DEF Tidy
<1> QED
  BY <1>2, <1>7, <1>8

LEMMA TidyCalled ==
  ASSUME TypeInv, Configured, NEW a \in Actor, Tidy(a), Call(a)
  PROVE  Tidy(a)'
<1> DEFINE s == calls[a]
           c == Head(s)
           D == DOMAIN objects
<1>0. Shape /\ ControlOK(a)
  BY DEF TypeInv, Control
<1>1. /\ s # << >> /\ Listed(s) /\ calls'[a] = Tail(s) /\ todo'[a] = todo[a]
      /\ block'[a] = block[a] /\ job'[a] = job[a] /\ life'[a] = life[a]
      /\ UNCHANGED << addr, conf, cfgd >>
  BY CallDoes
<1>2. After(c, objects, objects', notes, notes')
  BY CallDoes
<1>3. c.do = "delete" => c.id \in D
  BY DEF Call, Impossible, Current
<1>4. /\ c \in Members(s) /\ Members(Tail(s)) \subseteq Members(s)
      /\ Ids(s) = Ids(Tail(s)) \cup (IF c.do \in {"apply", "delete"} THEN {c.id} ELSE {})
  BY <1>1, Rest, IdsRest
<1>5. /\ Orderly(s) => Orderly(Tail(s))
      /\ Distinct(s) => Distinct(Tail(s))
      /\ Distinct(s) /\ Deletes(s) => /\ c.id \in Ids(s)
                                      /\ Ids(Tail(s)) = Ids(s) \ {c.id}
  BY <1>1, DistinctRest
<1>6. job[a] \in {"create", "delete"} /\ life[a] # "none"
  BY <1>0, <1>1 DEF Shape, ControlOK
<1>7. \A r : GroupOf(a, r)' = GroupOf(a, r)
  BY <1>1, GroupsSame
<1>8. AllOf(a)' = AllOf(a)
  BY <1>7 DEF AllOf
<1> HIDE DEF GroupOf
<1>9. CASE job[a] = "create"
  <2>1. /\ todo[a] \in Seq(Makers) /\ block[a] \in Makers
        /\ Builds(s) /\ Orderly(s) /\ Ids(s) \subseteq AllOf(a)
        /\ \A r \in Removers(a) : Whole(GroupOf(a, r), D \cup Ids(s))
    BY <1>1, <1>9 DEF Tidy, Made
  <2>2. c.do # "delete" /\ Builds(Tail(s))
    BY <1>4, <2>1 DEF Builds
  <2>3. /\ D' \subseteq D \cup Ids(s) /\ D' \cup Ids(Tail(s)) = D \cup Ids(s)
        /\ Ids(Tail(s)) \subseteq Ids(s)
    BY <1>2, <1>4, <2>2 DEF After
  <2>4. Contained(a)'
    <3>1. There(a)' \subseteq There(a) \cup Ids(s)
      BY <2>3 DEF There
    <3>2. There(a) \subseteq AllOf(a)
      BY DEF Tidy, Contained
    <3>3. a = Whisk => cfgd = conf
      BY <1>9 DEF Configured
    <3> QED BY <1>1, <1>6, <1>8, <2>1, <3>1, <3>2, <3>3 DEF Contained
  <2> HIDE DEF s, c
  <2>5. \A r \in Removers(a) : Whole(GroupOf(a, r)', D' \cup Ids(Tail(s)))
    BY <1>7, <2>1, <2>3
  <2>6. Made(a)'
    BY <1>1, <1>5, <1>8, <2>1, <2>2, <2>3, <2>5 DEF Made
  <2>7. Cleared(a)'
    BY <1>1, <1>9 DEF Cleared
  <2> QED BY <2>4, <2>6, <2>7 DEF Tidy
<1>10. CASE job[a] = "delete"
  <2>1. /\ todo[a] \in Plans(a)
        /\ Deletes(s) /\ Distinct(s) /\ block[a] \in Removers(a)
        /\ block[a] = "upload-removal" => todo[a] = << "s3-removal", "console-removal" >>
        /\ block[a] \in Lenient(a) => Whole(Ids(s), D)
        /\ \A r \in Removers(a) :
             IF r \in Waiting(a)
             THEN /\ Whole(GroupOf(a, r), D)
                  /\ r \in Lenient(a) => GroupOf(a, r) \cap Ids(s) = {}
             ELSE GroupOf(a, r) \cap D \subseteq (IF block[a] = r THEN Ids(s) ELSE {})
    BY <1>1, <1>10 DEF Tidy, Cleared
  <2>2. c.do = "delete"
    BY <1>4, <2>1 DEF Deletes
  <2>3. /\ D' = D \ {c.id} /\ c.id \in D /\ c.id \in Ids(s) /\ Ids(Tail(s)) = Ids(s) \ {c.id}
        /\ Deletes(Tail(s)) /\ Distinct(Tail(s))
    <3>1. D' = D \ {c.id}
      BY <1>2, <2>2 DEF After
    <3>2. Deletes(Tail(s))
      BY <1>4, <2>1 DEF Deletes
    <3> QED BY <1>3, <1>5, <2>1, <2>2, <3>1, <3>2
  <2>4. Contained(a)'
    <3>1. There(a)' \subseteq There(a)
      BY <2>3 DEF There
    <3>2. There(a) \subseteq AllOf(a) /\ (a = Whisk /\ There(a) # {} => cfgd = conf)
      BY DEF Tidy, Contained
    <3> QED BY <1>1, <1>6, <1>8, <3>1, <3>2 DEF Contained
  <2>5. \A r \in Strict : \E x : GroupOf(a, r) \subseteq {x}
    BY DEF GroupOf, Strict
  <2> HIDE DEF s, c, D
  <2>6. block[a] \in Lenient(a) => Whole(Ids(Tail(s)), D')
    BY <2>1, <2>3 DEF Whole
  <2>7. ASSUME NEW r \in Removers(a)
        PROVE  IF r \in Waiting(a)
               THEN /\ Whole(GroupOf(a, r), D')
                    /\ r \in Lenient(a) => GroupOf(a, r) \cap Ids(Tail(s)) = {}
               ELSE GroupOf(a, r) \cap D' \subseteq (IF block[a] = r THEN Ids(Tail(s)) ELSE {})
    <3>1. r \in Lenient(a) \/ r \in Strict
      BY DEF Removers
    <3>2. CASE r \in Waiting(a)
      <4>1. CASE r \in Lenient(a)
        <5>1. Whole(GroupOf(a, r), D) /\ GroupOf(a, r) \cap Ids(s) = {}
          BY <2>1, <3>2, <4>1
        <5> QED BY <2>3, <3>2, <5>1 DEF Whole
      <4>2. CASE r \in Strict /\ r \notin Lenient(a)
        <5>1. PICK x : GroupOf(a, r) \subseteq {x}
          BY <2>5, <4>2
        <5>2. Whole(GroupOf(a, r), D')
          BY <5>1 DEF Whole
        <5> QED BY <3>2, <4>2, <5>2
      <4> QED BY <3>1, <4>1, <4>2
    <3>3. CASE r \notin Waiting(a)
      <4>1. GroupOf(a, r) \cap D \subseteq (IF block[a] = r THEN Ids(s) ELSE {})
        BY <2>1, <3>3
      <4> HIDE DEF Waiting
      <4> QED BY <2>3, <3>3, <4>1
    <3> QED BY <3>2, <3>3
  <2>8. Waiting(a)' = Waiting(a)
    BY <1>1 DEF Waiting
  <2>9. DOMAIN objects' = D'
    BY DEF D
  <2> HIDE DEF Waiting, Plans, Removers, Lenient, Whole
  <2>12. \A r \in Removers(a) :
           IF r \in Waiting(a)'
           THEN /\ Whole(GroupOf(a, r)', DOMAIN objects')
                /\ r \in Lenient(a) => GroupOf(a, r)' \cap Ids(calls'[a]) = {}
           ELSE GroupOf(a, r)' \cap DOMAIN objects'
                  \subseteq (IF block'[a] = r THEN Ids(calls'[a]) ELSE {})
    BY <1>1, <1>7, <2>7, <2>8, <2>9
  <2>13. /\ Deletes(calls'[a]) /\ Distinct(calls'[a]) /\ block'[a] \in Removers(a)
         /\ block'[a] = "upload-removal" => todo'[a] = << "s3-removal", "console-removal" >>
         /\ block'[a] \in Lenient(a) => Whole(Ids(calls'[a]), DOMAIN objects')
         /\ todo'[a] \in Plans(a)
    BY <1>1, <2>1, <2>3, <2>6, <2>9
  <2>10. Cleared(a)'
    BY <2>12, <2>13 DEF Cleared
  <2>11. Made(a)'
    BY <1>1, <1>10 DEF Made
  <2> QED BY <2>4, <2>10, <2>11 DEF Tidy
<1> QED
  BY <1>6, <1>9, <1>10

\* Where there is nothing to delete, nothing of the group is there.
LEMMA TidyFailed ==
  ASSUME TypeInv, NEW a \in Actor, Tidy(a), CallFails(a), Undisturbed'
  PROVE  Tidy(a)'
<1> DEFINE s == calls[a]
           c == Head(s)
           D == DOMAIN objects
<1>0. Shape /\ ControlOK(a) /\ Handler(a)
  BY DEF TypeInv, Control, Handler
<1>1. /\ s # << >> /\ Listed(s) /\ life'[a] = life[a] /\ UNCHANGED << addr, conf, cfgd >>
  BY <1>0 DEF CallFails, ControlOK, AllMine
<1>2. Impossible(c) /\ UNCHANGED objects
  BY <1>0, Undisturbing DEF Current
<1>3. IF EndsHandler(block[a]) THEN Idle(a)
      ELSE /\ calls'[a] = << >> /\ block'[a] = block[a] /\ job'[a] = job[a]
           /\ todo'[a] = IF block[a] = "upload-removal" /\ Extra
                         THEN << "s3-removal", "raise" >> ELSE todo[a]
  BY <1>0 DEF CallFails, Shape
<1>4. c \in Members(s)
  BY <1>1, Rest
<1>5. /\ Orderly(s) /\ c.do = "raise" => Ids(s) = {}
      /\ Distinct(s) /\ Deletes(s) => c.id \in Ids(s)
  BY <1>1, DistinctRest
<1>6. job[a] \in {"create", "delete"} /\ life[a] # "none"
  BY <1>0, <1>1 DEF Shape, ControlOK
<1>7. \A r : GroupOf(a, r)' = GroupOf(a, r)
  BY <1>1, GroupsSame
<1>8. AllOf(a)' = AllOf(a) /\ There(a)' = There(a)
  BY <1>2, <1>7 DEF AllOf, There
<1>9. /\ There(a) \subseteq AllOf(a) /\ (a = Whisk /\ There(a) # {} => cfgd = conf)
      /\ Contained(a)'
  BY <1>1, <1>8 DEF Tidy, Contained
<1>e. /\ Ids(<< >>) = {} /\ Members(<< >>) = {} /\ Orderly(<< >>) /\ Builds(<< >>)
  BY NoMembers, Empty, DistinctOne DEF Builds
<1>10. CASE job[a] = "create"
  <2>1. /\ todo[a] \in Seq(Makers) /\ block[a] \in Makers
        /\ Builds(s) /\ Orderly(s)
        /\ \A r \in Removers(a) : Whole(GroupOf(a, r), D \cup Ids(s))
    BY <1>1, <1>10 DEF Tidy, Made
  <2>2. Ids(s) = {}
    BY <1>2, <1>4, <1>5, <2>1 DEF Builds, Impossible
  <2> HIDE DEF GroupOf
  <2>3. \A r \in Removers(a) : Whole(GroupOf(a, r), D)
    BY <2>1, <2>2 DEF Whole
  <2>4. CASE EndsHandler(block[a])
    BY <1>1, <1>2, <1>3, <1>6, <1>9, <2>3, <2>4, TidyIdle
  <2>5. CASE ~EndsHandler(block[a])
    <3>1. block[a] # "upload-removal"
      BY <2>1 DEF Makers
    <3>2. \A r \in Removers(a) : Whole(GroupOf(a, r)', D' \cup {})
      BY <1>2, <1>7, <2>3 DEF Whole
    <3>3. Made(a)'
      BY <1>3, <1>e, <1>10, <2>1, <2>5, <3>1, <3>2 DEF Made
    <3>4. Cleared(a)'
      BY <1>3, <1>10, <2>5 DEF Cleared
    <3> QED BY <1>9, <3>3, <3>4 DEF Tidy
  <2> QED BY <2>4, <2>5
<1>11. CASE job[a] = "delete"
  <2>1. /\ todo[a] \in Plans(a)
        /\ Deletes(s) /\ Distinct(s) /\ block[a] \in Removers(a)
        /\ block[a] = "upload-removal" => todo[a] = << "s3-removal", "console-removal" >>
        /\ block[a] \in Lenient(a) => Whole(Ids(s), D)
        /\ \A r \in Removers(a) :
             IF r \in Waiting(a) THEN Whole(GroupOf(a, r), D)
             ELSE GroupOf(a, r) \cap D \subseteq (IF block[a] = r THEN Ids(s) ELSE {})
    BY <1>1, <1>11 DEF Tidy, Cleared
  <2>2. c.id \notin D /\ c.id \in Ids(s)
    BY <1>2, <1>4, <1>5, <2>1 DEF Deletes, Impossible
  <2>3. block[a] \in Lenient(a) => Ids(s) \cap D = {}
    BY <2>1, <2>2 DEF Whole
  <2>4. \A r \in Strict : \E x : GroupOf(a, r) \subseteq {x}
    BY DEF GroupOf, Strict
  <2>5. /\ EndsHandler(block[a]) => block[a] \in Strict
        /\ ~EndsHandler(block[a]) => block[a] \in Lenient(a)
    BY <2>1 DEF EndsHandler, Strict, Removers, Lenient
  <2> HIDE DEF s, c, D, GroupOf
  <2>6. CASE EndsHandler(block[a])
    <3>1. ASSUME NEW r \in Removers(a) PROVE Whole(GroupOf(a, r), D)
      <4>1. CASE r \in Waiting(a)
        BY <2>1, <4>1
      <4>2. CASE r \notin Waiting(a) /\ r # block[a]
        BY <2>1, <4>2 DEF Whole
      <4>3. CASE r = block[a]
        <5>1. PICK x : GroupOf(a, r) \subseteq {x}
          BY <2>4, <2>5, <2>6, <4>3
        <5> QED BY <5>1 DEF Whole
      <4> QED BY <4>1, <4>2, <4>3
    <3> QED BY <1>1, <1>2, <1>3, <1>6, <1>9, <2>6, <3>1, TidyIdle DEF D
  <2>7. CASE ~EndsHandler(block[a])
    <3>1. Ids(s) \cap D = {}
      BY <2>3, <2>5, <2>7
    <3>2. todo'[a] \in Plans(a)
      <4>1. block[a] = "upload-removal" => a = Whisk
        BY <2>1 DEF Removers, Lenient
      <4>2. << "s3-removal", "raise" >> \in Plans(Whisk)
        BY DEF Plans
      <4> QED BY <1>3, <2>1, <2>7, <4>1, <4>2
    <3>3. \A r \in Removers(a) : r \in Waiting(a)' <=> r \in Waiting(a)
      <4>1. CASE todo'[a] = todo[a]
        BY <4>1 DEF Waiting
      <4>2. CASE todo'[a] = << "s3-removal", "raise" >>
                 /\ todo[a] = << "s3-removal", "console-removal" >>
        <5>1. Members(todo'[a]) = {"s3-removal", "raise"}
              /\ Members(todo[a]) = {"s3-removal", "console-removal"}
          BY <4>2, TuplesListed
        <5>2. "raise" \notin Removers(a)
          BY DEF Removers, Lenient, Strict
        <5> QED BY <5>1, <5>2 DEF Waiting
      <4> QED BY <1>3, <2>1, <2>7, <4>1, <4>2
    <3>4. ASSUME NEW r \in Removers(a)
          PROVE  IF r \in Waiting(a)'
                 THEN /\ Whole(GroupOf(a, r)', DOMAIN objects')
                      /\ r \in Lenient(a) => GroupOf(a, r)' \cap {} = {}
                 ELSE GroupOf(a, r)' \cap DOMAIN objects' \subseteq {}
      <4> HIDE DEF Waiting, Removers, Lenient
      <4>0. DOMAIN objects' = D /\ GroupOf(a, r)' = GroupOf(a, r)
        BY <1>2, <1>7 DEF D
      <4>1. CASE r \in Waiting(a)'
        BY <2>1, <3>3, <4>0, <4>1
      <4>2. CASE r \notin Waiting(a)'
        <5>1. GroupOf(a, r) \cap D \subseteq (IF block[a] = r THEN Ids(s) ELSE {})
          BY <2>1, <3>3, <4>2
        <5> QED BY <3>1, <4>0, <4>2, <5>1
      <4> QED BY <4>1, <4>2
    <3>5. \A r \in Removers(a) :
            IF r \in Waiting(a)'
            THEN /\ Whole(GroupOf(a, r)', DOMAIN objects')
                 /\ r \in Lenient(a) => GroupOf(a, r)' \cap Ids(calls'[a]) = {}
            ELSE GroupOf(a, r)' \cap DOMAIN objects'
                   \subseteq (IF block'[a] = r THEN Ids(calls'[a]) ELSE {})
      BY <1>3, <1>e, <2>7, <3>4
    <3> HIDE DEF Waiting, Removers, Lenient, Plans
    <3>6. Cleared(a)'
      BY <1>3, <2>7, <3>2, <3>5 DEF Cleared
    <3>7. Made(a)'
      BY <1>3, <1>11, <2>7 DEF Made
    <3> QED BY <1>9, <3>6, <3>7 DEF Tidy
  <2> QED BY <2>6, <2>7
<1> QED
  BY <1>6, <1>10, <1>11

LEMMA TidyEnterFailed ==
  ASSUME TypeInv, NEW a \in Actor, Tidy(a), EnterFails(a)
  PROVE  Tidy(a)'
<1> DEFINE b == Head(todo[a])
           D == DOMAIN objects
<1>0. Shape /\ ControlOK(a)
  BY DEF TypeInv, Control
<1>1. /\ calls[a] = << >> /\ todo[a] # << >> /\ life'[a] = life[a]
      /\ UNCHANGED << objects, addr, conf, cfgd >>
      /\ IF b = "endpoint"
         THEN /\ todo'[a] = Tail(todo[a]) /\ job'[a] = job[a] /\ block'[a] = block[a]
              /\ calls'[a] = calls[a]
         ELSE Idle(a)
  BY <1>0 DEF EnterFails, Shape, cluster
<1>2. job[a] \in {"create", "delete"} /\ life[a] # "none"
  BY <1>0, <1>1 DEF Shape, ControlOK
<1>3. \A r \in Removers(a) : Whole(GroupOf(a, r), D)
  BY <1>1, TidyBetween
<1>4. There(a) \subseteq AllOf(a) /\ (a = Whisk /\ There(a) # {} => cfgd = conf)
  BY DEF Tidy, Contained
<1>5. CASE b # "endpoint"
  BY <1>1, <1>2, <1>3, <1>4, <1>5, TidyIdle
<1>6. CASE b = "endpoint"
  <2>1. job[a] = "create"
    <3>1. job[a] = "delete" => todo[a] \in Plans(a)
      BY DEF Tidy, Cleared
    <3>2. job[a] = "delete" => b \in Removers(a)
      BY <1>1, <1>6, <3>1, PlanSteps
    <3> QED BY <1>2, <1>6, <3>2 DEF Removers, Lenient, Strict
  <2>2. todo[a] \in Seq(Makers)
    BY <2>1 DEF Tidy, Made
  <2>3. Tail(todo[a]) \in Seq(Makers)
    BY <1>1, <2>2, HeadTailProperties
  <2>4. \A r : GroupOf(a, r)' = GroupOf(a, r)
    BY <1>1, GroupsSame
  <2>5. AllOf(a)' = AllOf(a) /\ There(a)' = There(a)
    BY <1>1, <2>4 DEF AllOf, There
  <2>6. Contained(a)'
    BY <1>1, <1>2, <1>4, <2>5 DEF Contained
  <2>7. /\ Ids(<< >>) = {} /\ Orderly(<< >>) /\ Builds(<< >>)
    BY NoMembers, Empty, DistinctOne DEF Builds
  <2> HIDE DEF GroupOf
  <2>8. \A r \in Removers(a) : Whole(GroupOf(a, r)', DOMAIN objects' \cup {})
    BY <1>1, <1>3, <2>4 DEF Whole
  <2>9. Made(a)'
    BY <1>1, <1>6, <2>3, <2>7, <2>8 DEF Made
  <2>10. Cleared(a)'
    BY <1>1, <1>6, <2>1 DEF Cleared
  <2> QED BY <2>6, <2>9, <2>10 DEF Tidy
<1> QED
  BY <1>5, <1>6

LEMMA TidyReturned ==
  ASSUME TypeInv, NEW a \in Actor, Tidy(a), Return(a)
  PROVE  Tidy(a)'
<1>0. Shape /\ ControlOK(a) /\ Handler(a)
  BY DEF TypeInv, Control, Handler
<1>1. /\ calls[a] = << >> /\ todo[a] = << >> /\ UNCHANGED << objects, addr, conf, cfgd >>
  BY DEF Return, cluster
<1>2. /\ Idle(a) /\ job[a] # "idle"
      /\ life'[a] = IF job[a] = "delete" THEN "none"
                    ELSE IF life[a] = "creating" THEN "present" ELSE life[a]
      /\ life[a] # "none"
  BY <1>0, Living
<1>3. \A r \in Removers(a) :
        /\ Whole(GroupOf(a, r), DOMAIN objects)
        /\ job[a] = "delete" /\ r \notin Waiting(a) => GroupOf(a, r) \cap DOMAIN objects = {}
  BY <1>1, TidyBetween
<1>4. There(a) \subseteq AllOf(a) /\ (a = Whisk /\ There(a) # {} => cfgd = conf)
  BY DEF Tidy, Contained
<1>5. life'[a] = "none" => There(a) = {}
  <2>1. life'[a] = "none" => job[a] = "delete"
    BY <1>2
  <2>2. Waiting(a) = {}
    BY <1>1, NoMembers DEF Waiting
  <2> HIDE DEF GroupOf, Waiting
  <2>3. job[a] = "delete" => AllOf(a) \cap DOMAIN objects = {}
    BY <1>3, <2>2 DEF AllOf
  <2> QED BY <1>4, <2>1, <2>3 DEF There
<1> QED
  BY <1>1, <1>2, <1>3, <1>4, <1>5, TidyIdle

\* The handlers of the others, and another configuration of the same kind.
LEMMA TidyBeside ==
  ASSUME TypeInv, TypeInv', OneClass, NEW x \in Actor, Tidy(x),
         \A i : IdOwner(i) = x => (i \in DOMAIN objects <=> i \in DOMAIN objects'),
         calls'[x] = calls[x], todo'[x] = todo[x], block'[x] = block[x], job'[x] = job[x],
         life'[x] = "none" => life[x] = "none",
         conf'.kube = conf.kube,
         x = Whisk => addr' = addr /\ cfgd' = cfgd,
         x = Whisk /\ There(x) # {} => conf' = conf
  PROVE  Tidy(x)'
<1>0. ControlOK(x) /\ conf \in Confs /\ conf' \in Confs
  BY DEF TypeInv, Shape, Control
<1>1. ASSUME NEW r \in Removers(x) PROVE GroupOf(x, r)' = GroupOf(x, r)
  <2>1. CASE x = Whisk
    <3>1. /\ NeedsWww(cfgd', GetApihost(cfgd', addr')) = NeedsWww(cfgd, GetApihost(cfgd, addr))
          /\ cfgd' = cfgd
      BY <2>1
    <3>2. r \in Lenient(Whisk) \cup Strict
      BY <2>1 DEF Removers
    <3> QED BY <3>1, <3>2 DEF GroupOf, Host, Lenient, Strict
  <2>2. CASE x # Whisk
    <3>1. Traefik(conf') = Traefik(conf)
      BY <1>0 DEF OneClass
    <3>2. \A ns, part : /\ ApiName(conf', ns, part) = ApiName(conf, ns, part)
                        /\ StaticName(conf', ns) = StaticName(conf, ns)
      BY SameNames
    <3>3. \A ns, parts : ApiGroup(conf', ns, parts) = ApiGroup(conf, ns, parts)
      <4> HIDE DEF ApiName, ApiMiddleware, Traefik
      <4> QED BY <3>1, <3>2 DEF ApiGroup
    <3>4. \A nss : StaticGroup(conf', nss) = StaticGroup(conf, nss)
      <4> HIDE DEF StaticName, StaticMiddleware, Traefik
      <4> QED BY <3>1, <3>2 DEF StaticGroup
    <3>5. r \in {"user-api-removal", "user-static-removal"}
      BY <2>2 DEF Removers, Lenient
    <3> QED BY <3>3, <3>4, <3>5 DEF GroupOf
  <2> QED BY <2>1, <2>2
<1> HIDE DEF GroupOf
<1>2. x = Whisk /\ There(x) # {} /\ cfgd = conf => cfgd' = conf'
  OBVIOUS
<1> QED
  BY <1>0, <1>1, <1>2, TidyKept

LEMMA TidyHandled ==
  ASSUME TypeInv, Configured, OneClass, NEW a \in Actor, Tidy(a), Handler(a), Undisturbed'
  PROVE  Tidy(a)'
BY TidyStarted, TidyEntered, TidyEnterFailed, TidyCalled, TidyFailed, TidyReturned DEF Handler

TidyInv == Undisturbed /\ moves = 0 => Configured /\ \A a \in Actor : Tidy(a)

LEMMA TidyEver == OneClass /\ TypeInv /\ TidyInv /\ [Next]_vars => TidyInv'
<1> SUFFICES ASSUME OneClass, TypeInv, TidyInv, [Next]_vars, Undisturbed', moves' = 0
             PROVE  Configured' /\ \A a \in Actor : Tidy(a)'
  BY DEF TidyInv
<1>0. /\ Shape /\ Whisk \in Actor /\ Whisk \notin Users /\ \A a \in Actor : ControlOK(a)
      /\ TypeInv'
  BY ActorsApart, TypesKept DEF TypeInv, Actor, Control
<1>1. CASE UNCHANGED vars
  <2>1. /\ UNCHANGED << objects, addr, conf, cfgd, life, job, todo, block, calls >>
        /\ UNCHANGED << faults, crashes, moves >>
    BY <1>1 DEF vars, cluster, running, budget
  <2>2. Configured /\ \A a \in Actor : Tidy(a)
    BY <2>1 DEF TidyInv, Undisturbed
  <2>3. Configured'
    BY <2>1, <2>2 DEF Configured
  <2>4. ASSUME NEW a \in Actor PROVE Tidy(a)'
    BY <1>0, <2>1, <2>2, TidyBeside
  <2> QED BY <2>3, <2>4
<1>2. CASE Next
  <2>e. ~Crash /\ ~Move
    <3>1. crashes \in Nat /\ crashes' = 0 /\ moves \in Nat /\ moves' = 0
      BY <1>0 DEF Undisturbed, Shape
    <3>2. /\ Crash => crashes' = crashes + 1
          /\ Move => moves' = moves + 1
      BY DEF Crash, Move
    <3> QED BY <3>1, <3>2
  <2>1. Undisturbed /\ moves = 0
    <3>1. CASE Environment
      <4>1. UNCHANGED << faults, crashes, moves >>
        BY <2>e, <3>1 DEF Environment, Install, Resume, AddUser, Discard, budget
      <4> QED BY <4>1 DEF Undisturbed
    <3>2. ASSUME NEW a \in Actor, Handler(a) PROVE Undisturbed /\ moves = 0
      <4>1. moves' = moves
        BY <3>2 DEF Handler, Start, Enter, EnterFails, Call, CallFails, Return, budget
      <4> QED BY <3>2, <4>1, Undisturbing
    <3> QED BY <1>2, <3>1, <3>2 DEF Next
  <2>2. Configured /\ \A a \in Actor : Tidy(a)
    BY <2>1 DEF TidyInv
  <2>3. Configured'
    BY <1>2, <2>2, ConfiguredKept
  <2>4. ASSUME NEW a \in Actor, Handler(a), NEW x \in Actor PROVE Tidy(x)'
    <3>1. CASE x = a
      BY <2>2, <2>4, <3>1, TidyHandled
    <3>2. CASE x # a
      <4>1. \A i : IdOwner(i) = x => (i \in DOMAIN objects <=> i \in DOMAIN objects')
        BY <2>4, <3>2, ObjectsOwn
      <4>2. /\ life'[x] = life[x] /\ job'[x] = job[x] /\ todo'[x] = todo[x]
            /\ calls'[x] = calls[x] /\ block'[x] = block[x] /\ conf' = conf
        BY <1>0, <2>4, <3>2, OnlyIts
      <4>3. addr' = addr
        BY <2>4 DEF Handler, Start, Enter, EnterFails, Call, CallFails, Return, cluster
      <4>4. x = Whisk => cfgd' = cfgd
        BY <2>4, <3>2, Living
      <4> QED BY <1>0, <2>2, <4>1, <4>2, <4>3, <4>4, TidyBeside
    <3> QED BY <3>1, <3>2
  <2>5. ASSUME Environment, NEW x \in Actor PROVE Tidy(x)'
    <3>1. /\ UNCHANGED << objects, addr, job, todo, calls, block >>
          /\ UNCHANGED cfgd \/ Resume
      BY <2>e, <2>5 DEF Environment, Install, Resume, AddUser, Discard, cluster, running
    <3>2. ~Resume
      BY <1>0, <2>2, ConfsAssumption DEF Resume, Configured, Shape
    <3>3. conf'.kube = conf.kube
      BY <2>e, <2>5 DEF Environment, Install, Resume, AddUser, Discard
    <3>4. life'[x] = "none" => life[x] = "none"
      <4>1. \/ UNCHANGED life
            \/ \E a \in Actor : \E l \in {"creating", "deleting"} :
                 life' = [life EXCEPT ![a] = l]
        BY <2>e, <2>5, ActorsApart DEF Environment, Install, Resume, AddUser, Discard, Actor
      <4> QED BY <1>0, <4>1 DEF Shape
    <3>5. x = Whisk /\ There(x) # {} => conf' = conf
      <4>1. Install => life[Whisk] = "none"
        BY DEF Install
      <4>2. Install /\ x = Whisk => There(x) = {}
        BY <2>2, <4>1 DEF Tidy, Contained
      <4>3. ~Install => conf' = conf
        BY <2>e, <2>5 DEF Environment, Resume, AddUser, Discard
      <4> QED BY <4>2, <4>3
    <3>6. \A i : IdOwner(i) = x => (i \in DOMAIN objects <=> i \in DOMAIN objects')
      BY <3>1
    <3> QED BY <1>0, <2>2, <3>1, <3>2, <3>3, <3>4, <3>5, <3>6, TidyBeside
  <2> QED BY <1>2, <2>3, <2>4, <2>5 DEF Next
<1> QED
  BY <1>1, <1>2

\* What a removal leaves is nothing, of an installation as of a user, whatever
\* the others do meanwhile, unless a call failed, the operator restarted or the
\* address moved, and as long as an installation is created anew with ingresses
\* of the same class: which of the middlewares there are, a removal infers from
\* the configuration of now (whisk_delete, whisk_user_delete).
THEOREM RemovedCorrect == OneClass => (Spec => []RemovedClean)
<1> SUFFICES ASSUME OneClass PROVE Spec => []RemovedClean
  OBVIOUS
<1>1. Init => TidyInv
  <2> SUFFICES ASSUME Init PROVE Configured /\ \A a \in Actor : Tidy(a)
    BY DEF TidyInv
  <2>1. /\ cfgd = Emptied /\ \A b \in Actor : life[b] = "none" /\ job[b] = "idle"
    BY DEF Init
  <2>2. Users \subseteq Actor /\ Whisk \in Actor
    BY DEF Actor
  <2>3. Configured
    BY <2>1, <2>2 DEF Configured
  <2>4. ASSUME NEW a \in Actor PROVE Tidy(a)
    <3>1. calls[a] = << >> /\ todo[a] = << >> /\ objects = << >>
      BY DEF Init
    <3>2. DOMAIN objects = {} /\ << >> \in Seq(Makers)
      BY <3>1
    <3>3. Contained(a)
      BY <3>2 DEF There, Contained
    <3>4. /\ Ids(<< >>) = {} /\ Orderly(<< >>) /\ Builds(<< >>)
      BY NoMembers, Empty, DistinctOne DEF Builds
    <3>5. Made(a)
      BY <3>1, <3>2, <3>4 DEF Made, Whole
    <3>6. Cleared(a)
      BY <2>1 DEF Cleared
    <3> QED BY <3>3, <3>5, <3>6 DEF Tidy
  <2> QED BY <2>3, <2>4
<1>2. TypeInv /\ TidyInv => RemovedClean
  <2> SUFFICES ASSUME TypeInv, TidyInv, Undisturbed, moves = 0, NEW a \in Actor,
                      life[a] = "none", NEW i \in DOMAIN objects
               PROVE  OwnerOf(objects[i].of) # a
    BY DEF RemovedClean
  <2>1. There(a) = {}
    BY DEF TidyInv, Tidy, Contained
  <2>2. OwnerOf(objects[i].of) = IdOwner(i)
    BY DEF TypeInv, Owned
  <2> QED BY <2>1, <2>2 DEF There
<1>3. TypeInv /\ TidyInv /\ [Next]_vars => TidyInv'
  BY TidyEver
<1> QED
  BY <1>1, <1>2, <1>3, TypesAtFirst, TypesKept, PTL DEF Spec
================================================================================
