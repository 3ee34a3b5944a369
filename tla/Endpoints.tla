--------------------------------- MODULE Endpoints ---------------------------------
(***************************************************************************)
(* What exposes an installation: the ingresses (routes on OpenShift) and   *)
(* Traefik middlewares of the Whisk object and of the users, as the        *)
(* handlers of both apply and remove them, kubectl call by kubectl call,   *)
(* each in a thread of its own, with MinIO, static and OpenWhisk on.       *)
(*                                                                         *)
(* A handler is a sequence of blocks.  A block computes its host names and *)
(* with them its calls (ApiHost), and a call that fails ends the block or  *)
(* the handler, which kopf then runs again.  The address of the cluster,   *)
(* that of its load balancer or its public one, is not the operator's.     *)
(***************************************************************************)
EXTENDS ApiHost, Integers, FiniteSets

CONSTANTS
  Users,        \* the namespaces of the users
  UserApihost,  \* spec.apihost of each: AutoHost or a host of its own
  Confs,        \* configurations of the Whisk object
  Addrs,        \* addresses the cluster may have, NoHost while there is none
  MaxTroubles,  \* bound: calls that fail, restarts of the operator and changes
                \* of the address, in all
  MaxInstalls   \* bound: times the Whisk object is created

\* Nothing in the code refuses these names to a user.
Reserved == {"nuvolaris", "www-nuvolaris", "apihost", "www", "minio", "s3"}
ASSUME UsersAssumption == Users \cap Reserved = {}
ASSUME ConfsAssumption == \A c \in Confs : c.kube # Emptied.kube
ASSUME UserApihostAssumption == UserApihost \in [Users -> Seq(STRING)]
ASSUME BoundAssumption == MaxTroubles \in Nat /\ MaxInstalls \in Nat

VARIABLES
  objects,  \* the objects in the cluster: from identities to rules
  notes,    \* apihost, s3_api_url and s3_console_url annotated to cm/config
  addr,     \* the address of the cluster
  conf,     \* the spec of the Whisk object
  cfgd,     \* cfg: the configuration in the operator's memory
  life,     \* of the Whisk object and of each user's
  job,      \* the handler that runs for it
  todo,     \* the blocks before it
  block,    \* the block it is in
  calls,    \* the calls before it in that block
  urls,     \* the URLs in the UserMetadata of a creation
  saved,    \* and as stored for the user
  faults, crashes, moves, installs

cluster == << objects, notes, addr >>
running == << job, todo, block, calls >>
stored  == << urls, saved >>
budget  == << faults, crashes, moves, installs >>
vars == << cluster, conf, cfgd, life, running, stored, budget >>

Whisk == "nuvolaris"
Actor == Users \cup {Whisk}

CreateBlocks == << "minio", "static", "endpoint" >>
DeleteBlocks == << "endpoint-removal", "static-removal", "upload-removal",
                   "s3-removal", "console-removal" >>
UserCreateBlocks == << "user-api", "user-static" >>
UserDeleteBlocks == << "user-api-removal", "user-static-removal" >>

Init ==
  /\ objects = << >> /\ notes = [k \in {"apihost", "s3", "console"} |-> NoHost]
  /\ addr \in Addrs /\ conf \in Confs /\ cfgd = Emptied
  /\ life = [a \in Actor |-> "none"] /\ job = [a \in Actor |-> "idle"]
  /\ todo = [a \in Actor |-> << >>] /\ calls = [a \in Actor |-> << >>]
  /\ block = [a \in Actor |-> ""]
  /\ urls = [u \in Users |-> {}] /\ saved = [u \in Users |-> {}]
  /\ faults = 0 /\ crashes = 0 /\ moves = 0 /\ installs = 0

Trouble == faults + crashes + moves < MaxTroubles
Fault == Trouble /\ faults' = faults + 1
--------------------------------------------------------------------------------
(***************************************************************************)
(* The cluster and those who use it.                                       *)
(***************************************************************************)
Install ==
  /\ life[Whisk] = "none" /\ installs < MaxInstalls /\ installs' = installs + 1
  /\ conf' \in { c \in Confs : c.kube = conf.kube }
  /\ life' = [life EXCEPT ![Whisk] = "creating"]
  /\ UNCHANGED << cluster, cfgd, running, stored, faults, crashes, moves >>

\* Users come to an operator that has its configuration.
AddUser(u) ==
  /\ life[u] = "none" /\ cfgd # Emptied
  /\ life' = [life EXCEPT ![u] = "creating"]
  /\ UNCHANGED << cluster, conf, cfgd, running, stored, budget >>

Discard(a) ==
  /\ life[a] \in {"creating", "present"}
  /\ life' = [life EXCEPT ![a] = "deleting"]
  /\ UNCHANGED << cluster, conf, cfgd, running, stored, budget >>

Move ==
  /\ Trouble /\ moves' = moves + 1
  /\ addr' \in Addrs \ {addr}
  /\ UNCHANGED << objects, notes, conf, cfgd, life, running, stored,
                  faults, crashes, installs >>

Crash ==
  /\ Trouble /\ crashes' = crashes + 1
  /\ cfgd' = Emptied
  /\ job' = [a \in Actor |-> "idle"]
  /\ todo' = [a \in Actor |-> << >>] /\ calls' = [a \in Actor |-> << >>]
  /\ block' = [a \in Actor |-> ""]
  /\ UNCHANGED << cluster, conf, life, stored, faults, moves, installs >>

\* whisk_resume, once the object is created, has cfg filled again.
Resume ==
  /\ life[Whisk] = "present" /\ cfgd = Emptied
  /\ cfgd' = conf
  /\ UNCHANGED << cluster, conf, life, running, stored, budget >>
--------------------------------------------------------------------------------
(***************************************************************************)
(* The blocks.                                                             *)
(***************************************************************************)
Host == GetApihost(cfgd, addr)
HostOf(u) == UserHost(cfgd, u, UserApihost[u], notes["apihost"])

\* (Mutation: the info ingress is forgotten.)
NuvPartsNoInfo == << "apihost", "apihost-my" >>
                    \o When(NeedsWww(cfgd, Host), << "apihost-www-my" >>)

\* The www ingress is looked for by the apihost of now.
NuvParts == << "apihost", "apihost-my", "apihost-info" >>
              \o When(NeedsWww(cfgd, Host), << "apihost-www-my" >>)
NuvStatics == << Whisk >> \o When(NeedsWww(cfgd, Host), << "www-nuvolaris" >>)

Extra == cfgd.extra # "off"

\* static is not among the components of an emptied configuration.
StaticOn == cfgd # Emptied

Calls(a, b) ==
  CASE b = "minio"            -> MinioCalls(cfgd, Host)
    [] b = "static"           -> NuvStaticCalls(cfgd, Host)
    [] b = "endpoint"         -> EndpointCalls(cfgd, Host)
    [] b = "endpoint-removal" -> EndpointRemoval(cfgd, Whisk, NuvParts)
    [] b = "static-removal"   -> StaticRemoval(cfgd, NuvStatics)
    [] b = "upload-removal"   -> MinioRemoval(cfgd, "minio-upload")
    [] b = "s3-removal"       -> When(Extra, MinioRemoval(cfgd, "minio-s3"))
    [] b = "console-removal"  -> When(Extra, MinioRemoval(cfgd, "minio-console"))
    [] b = "user-api"         -> ApiCalls(cfgd, a, HostOf(a), FALSE)
    [] b = "user-api-removal" -> EndpointRemoval(cfgd, a, << "apihost", "apihost-my" >>)
    [] b = "user-static"      -> When(StaticOn, StaticCalls(cfgd, a, a, HostOf(a)))
    [] b = "user-static-removal" -> When(StaticOn, StaticRemoval(cfgd, << a >>))

\* What a block asks before its first call, outside of its try block.
AsksHost(b) == b \in {"minio", "static", "endpoint", "endpoint-removal", "static-removal"}
AsksUserHost(b) == b = "user-api" \/ (b = "user-static" /\ StaticOn)
Answered(a, b) == /\ b # "raise"
                  /\ AsksHost(b) => Host # NoHost
                  /\ AsksUserHost(b) => HostOf(a) # NoHost

\* (Mutation: removing the endpoint is not lenient any more.)
EndsHandlerStrict(b) ==
  b \in {"minio", "static", "s3-removal", "console-removal", "endpoint-removal"}

\* Where a failing call leaves the handler; elsewhere it only ends the block.
\* delete_minio_ingress then answers None, to which nothing can be added.
EndsHandler(b) == b \in {"minio", "static", "s3-removal", "console-removal"}

Idle(a) ==
  /\ job' = [job EXCEPT ![a] = "idle"] /\ todo' = [todo EXCEPT ![a] = << >>]
  /\ calls' = [calls EXCEPT ![a] = << >>] /\ block' = [block EXCEPT ![a] = ""]

Begin(a, j, blocks) ==
  /\ job[a] = "idle" /\ job' = [job EXCEPT ![a] = j]
  /\ todo' = [todo EXCEPT ![a] = blocks]
  /\ UNCHANGED << block, calls >>

Start(a) ==
  /\ \/ /\ life[a] = "creating"
        /\ Begin(a, "create", IF a = Whisk THEN CreateBlocks ELSE UserCreateBlocks)
        /\ IF a = Whisk THEN cfgd' = conf /\ UNCHANGED urls
                        ELSE urls' = [urls EXCEPT ![a] = {}] /\ UNCHANGED cfgd
     \/ /\ life[a] = "deleting"
        /\ Begin(a, "delete", IF a # Whisk THEN UserDeleteBlocks
                              ELSE IF cfgd = Emptied THEN << >> ELSE DeleteBlocks)
        /\ UNCHANGED << cfgd, urls >>
  /\ UNCHANGED << cluster, conf, life, saved, budget >>

\* Its URLs are in a user's metadata before there is anything behind them.
Enter(a) ==
  /\ calls[a] = << >> /\ todo[a] # << >>
  /\ LET b == Head(todo[a]) IN
       /\ Answered(a, b)
       /\ block' = [block EXCEPT ![a] = b]
       /\ calls' = [calls EXCEPT ![a] = Calls(a, b)]
       /\ urls' = IF AsksUserHost(b)
                  THEN [urls EXCEPT ![a] = @ \cup { << b, HostOf(a) >> }] ELSE urls
  /\ todo' = [todo EXCEPT ![a] = Tail(@)]
  /\ UNCHANGED << cluster, conf, cfgd, life, job, saved, budget >>

\* There is no host, or asking fails.  whisk_create takes it for OpenWhisk's.
EnterFails(a) ==
  /\ calls[a] = << >> /\ todo[a] # << >>
  /\ LET b == Head(todo[a]) IN
       /\ \/ ~Answered(a, b) /\ UNCHANGED faults
          \/ Fault /\ (AsksHost(b) \/ AsksUserHost(b))
       /\ IF b = "endpoint"
          THEN todo' = [todo EXCEPT ![a] = Tail(@)] /\ UNCHANGED << job, block, calls >>
          ELSE Idle(a)
  /\ UNCHANGED << cluster, conf, cfgd, life, stored, crashes, moves, installs >>

Current(a) == Head(calls[a])

Effect(c) ==
  CASE c.do = "apply"    -> /\ objects' = [i \in DOMAIN objects \cup {c.id} |->
                                          IF i = c.id THEN c.rule ELSE objects[i]]
                            /\ UNCHANGED notes
    [] c.do = "delete"   -> /\ objects' = [i \in DOMAIN objects \ {c.id} |-> objects[i]]
                            /\ UNCHANGED notes
    [] c.do = "annotate" -> notes' = [notes EXCEPT ![c.key] = c.host]
                            /\ UNCHANGED objects

Impossible(c) == \/ c.do = "raise"
                 \/ c.do = "delete" /\ c.id \notin DOMAIN objects

Call(a) ==
  /\ calls[a] # << >> /\ ~Impossible(Current(a)) /\ Effect(Current(a))
  /\ calls' = [calls EXCEPT ![a] = Tail(@)]
  /\ UNCHANGED << addr, conf, cfgd, life, job, todo, block, stored, budget >>

\* kubectl fails, with or without the effect, or has nothing to delete.  A
\* failed removal of the upload ingress is noticed after that of the S3 one.
CallFails(a) ==
  /\ calls[a] # << >>
  /\ \/ Impossible(Current(a)) /\ UNCHANGED << objects, notes, faults >>
     \/ ~Impossible(Current(a)) /\ Fault
        /\ (Effect(Current(a)) \/ UNCHANGED << objects, notes >>)
  /\ IF EndsHandler(block[a]) THEN Idle(a)
     ELSE /\ calls' = [calls EXCEPT ![a] = << >>]
          /\ todo' = IF block[a] = "upload-removal" /\ Extra
                     THEN [todo EXCEPT ![a] = << "s3-removal", "raise" >>] ELSE todo
          /\ UNCHANGED << job, block >>
  /\ UNCHANGED << addr, conf, cfgd, life, stored, crashes, moves, installs >>

\* (Mutation: the metadata of a removed user stay.)
ReturnKeeps(a) ==
  /\ job[a] # "idle" /\ calls[a] = << >> /\ todo[a] = << >>
  /\ Idle(a)
  /\ life' = CASE job[a] = "create" /\ life[a] = "creating" -> [life EXCEPT ![a] = "present"]
               [] job[a] = "delete" -> [life EXCEPT ![a] = "none"]
               [] OTHER -> life
  /\ saved' = IF a # Whisk /\ job[a] = "create" THEN [saved EXCEPT ![a] = urls[a]]
              ELSE saved
  /\ UNCHANGED << cluster, conf, cfgd, urls, budget >>

\* A user's metadata are stored, or removed, last; a failure is swallowed.
Return(a) ==
  /\ job[a] # "idle" /\ calls[a] = << >> /\ todo[a] = << >>
  /\ Idle(a)
  /\ life' = CASE job[a] = "create" /\ life[a] = "creating" -> [life EXCEPT ![a] = "present"]
               [] job[a] = "delete" -> [life EXCEPT ![a] = "none"]
               [] OTHER -> life
  /\ \/ /\ saved' = IF a = Whisk THEN saved
                     ELSE [saved EXCEPT ![a] = IF job[a] = "create" THEN urls[a] ELSE {}]
        /\ UNCHANGED faults
     \/ a # Whisk /\ Fault /\ UNCHANGED saved
  /\ urls' = IF a = Whisk THEN urls ELSE [urls EXCEPT ![a] = {}]
  /\ UNCHANGED << cluster, conf, cfgd, crashes, moves, installs >>
--------------------------------------------------------------------------------
Handler(a) == \/ Start(a) \/ Enter(a) \/ EnterFails(a)
              \/ Call(a) \/ CallFails(a) \/ Return(a)

Environment == \/ Install \/ Move \/ Crash \/ Resume
               \/ \E u \in Users : AddUser(u)
               \/ \E a \in Actor : Discard(a)

Next == (\E a \in Actor : Handler(a)) \/ Environment

\* kopf runs the handlers, each in a thread, and again one that raised.
Fairness == \A a \in Actor : WF_vars(Handler(a))
Spec == Init /\ [][Next]_vars /\ Fairness
--------------------------------------------------------------------------------
TypeOK ==
  /\ life \in [Actor -> {"none", "creating", "present", "deleting"}]
  /\ job \in [Actor -> {"idle", "create", "delete"}]
  /\ \A a \in Actor : job[a] = "idle" => todo[a] = << >> /\ calls[a] = << >>
  /\ \A u \in Users : saved[u] # {} => life[u] # "none" \/ faults > 0
  /\ conf \in Confs /\ cfgd \in Confs \cup {Emptied}

\* The one whose handlers made it.
OwnerOf(ns) == IF ns = "www-nuvolaris" THEN Whisk ELSE ns
Undisturbed == faults = 0 /\ crashes = 0

\* No two rules send the same host and path to different places: which one
\* answers would be up to the ingress controller.
Unambiguous ==
  \A i, j \in DOMAIN objects :
    /\ objects[i].host # NoHost
    /\ objects[i].host = objects[j].host /\ objects[i].path = objects[j].path
    => objects[i].to = objects[j].to

\* Objects are the business of the handlers of one namespace: no other handler
\* replaces or removes them, although all live in the operator's namespace.
OwnOnly ==
  [][ \A i \in DOMAIN objects :
        \/ i \in DOMAIN objects' /\ objects'[i] = objects[i]
        \/ calls'[OwnerOf(objects[i].of)] # calls[OwnerOf(objects[i].of)] ]_vars

\* The URLs stored for a user are served for as long as the user exists,
\* whatever becomes of the Whisk object and of the other users meanwhile.
ServedBy(u, url) ==
  LET id == IF url[1] = "user-api" THEN ApiName(conf, u, "apihost-my")
                                   ELSE StaticName(conf, u) IN
  id \in DOMAIN objects /\ objects[id].of = u /\ objects[id].host = url[2]

UserServed ==
  \A u \in Users : Undisturbed /\ life[u] = "present" =>
    Cardinality(saved[u]) = 2 /\ \A url \in saved[u] : ServedBy(u, url)

\* What cm/config says of the installation is so: the login action, the users'
\* hosts and their metadata are taken from there.
Noted(part, key) ==
  LET id == ApiName(conf, Whisk, part) IN
  IF id \in DOMAIN objects THEN objects[id].host = notes[key] ELSE moves > 0

NotesTrue ==
  Undisturbed /\ life[Whisk] = "present" =>
    /\ Noted("apihost", "apihost")
    /\ conf.extra = "auto" /\ conf.kube # "kind" =>
         Noted("minio-s3", "s3") /\ Noted("minio-console", "console")

\* An installation is created anew with ingresses of the same class.
OneClass == \A c, d \in Confs : c.kube = d.kube => Traefik(c) = Traefik(d)

\* What is removed undisturbed, at an address that stayed, is gone: with
\* ingresses of one class, by which the removals know of the middlewares.
RemovedClean ==
  Undisturbed /\ moves = 0 =>
    \A a \in Actor : life[a] = "none" =>
      \A i \in DOMAIN objects : OwnerOf(objects[i].of) # a

\* A removal ends, once there is a host to ask for: that nothing is left to
\* delete, after a failure or a restart, does not keep it from ending.  With the
\* S3 and console ingresses it does, and on Traefik always: they have no
\* middleware, which the removal takes for a failure.
RemovalEnds ==
  (life[Whisk] = "deleting")
    ~> \/ life[Whisk] # "deleting" \/ addr = NoHost
       \/ conf.extra # "off" /\ (Traefik(conf) \/ ~Undisturbed \/ conf.extra = "named")
================================================================================
