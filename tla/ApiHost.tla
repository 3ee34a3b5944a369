---------------------------------- MODULE ApiHost ----------------------------------
(***************************************************************************)
(* The host names of an installation (apihost_util.py) and the objects     *)
(* that expose a service on one: the Ingresses, Routes and Traefik         *)
(* middlewares that endpoint.py, minio_static.py and minio_ingress.py      *)
(* render with IngressData and RouteData.                                  *)
(*                                                                         *)
(* A host is the sequence of its labels.  An object's identity is its kind *)
(* followed by the parts its name is put together from.  A configuration   *)
(* has the kind of cluster, the apihost ("auto" or a host), the class of   *)
(* ingress, and whether MinIO's S3 and console are exposed; "none" is the  *)
(* kind of an emptied one.                                                 *)
(***************************************************************************)
EXTENDS Sequences

CONSTANT Inside  \* pairs of a prefix and a label that has it within

AutoHost == << "auto" >>
NoHost == << >>
Pending == << "pending" >>

Emptied == [kube |-> "none", apihost |-> AutoHost, class |-> "auto", extra |-> "off"]

IngressClass(c) ==
  IF c.class # "auto" THEN c.class
  ELSE CASE c.kube = "microk8s" -> "public"
         [] c.kube = "k3s"      -> "traefik"
         [] OTHER               -> "nginx"

\* The public address serves where no load balancer does.
OwnAddress(c) == c.kube \in {"k3s", "microk8s"} /\ c.apihost = AutoHost

\* calculate_apihost, with what the cluster or the world says the address is.
GetApihost(c, addr) ==
  IF c.apihost # AutoHost THEN c.apihost
  ELSE IF c.kube = "openshift" \/ (addr = NoHost /\ ~OwnAddress(c)) THEN Pending
  ELSE addr

\* append_prefix_to_url and the test for www look anywhere in the host name.
Within(prefix, host) ==
  \E i \in DOMAIN host : host[i] = prefix \/ << prefix, host[i] >> \in Inside

WithPrefix(prefix, host) ==
  IF Within(prefix, host) THEN host ELSE << prefix >> \o host

NeedsWww(c, host) == ~Within("www", host) /\ c.kube # "kind"

\* (Mutation: all users share the host of the installation.)
UserHostShared(c, user, apihost, annotated) ==
  IF c.kube = "kind" THEN << "localhost" >>
  ELSE IF apihost # AutoHost THEN apihost
  ELSE IF annotated = NoHost THEN NoHost
  ELSE annotated

\* get_user_static_hostname: NoHost stands for the exception.
UserHost(c, user, apihost, annotated) ==
  IF c.kube = "kind" THEN << user, "localhost" >>
  ELSE IF apihost # AutoHost THEN apihost
  ELSE IF annotated = NoHost THEN NoHost
  ELSE << user >> \o annotated
--------------------------------------------------------------------------------
(***************************************************************************)
(* Names.                                                                  *)
(***************************************************************************)
Kind(c) == IF c.kube = "openshift" THEN "route" ELSE "ingress"

ApiName(c, ns, part) ==
  IF ns = "nuvolaris" THEN << Kind(c), part >> ELSE << Kind(c), ns, part, "api" >>

\* (Mutation: the namespace is left out.)
StaticNameFlat(c, ns) == << Kind(c), "apihost", "static" >>

StaticName(c, ns) ==
  << Kind(c), IF ns = "nuvolaris" /\ Kind(c) = "ingress" THEN "apihost" ELSE ns,
     "static" >>

ApiMiddleware(ns, part) == << "middleware", ns, part, "prefix" >>
StaticMiddleware(ns) == << "middleware", ns, "static", "prefix" >>

Traefik(c) == c.kube # "openshift" /\ IngressClass(c) = "traefik"
--------------------------------------------------------------------------------
(***************************************************************************)
(* The calls of kubectl that make and remove them, in their order.         *)
(***************************************************************************)
None == << >>

Apply(id, rule) == << [do |-> "apply", id |-> id, rule |-> rule] >>
Delete(id) == << [do |-> "delete", id |-> id] >>
Annotate(key, host) == << [do |-> "annotate", key |-> key, host |-> host] >>
Nothing == << >>
When(condition, calls) == IF condition THEN calls ELSE Nothing

\* An ingress and, where Traefik rewrites its paths, the middleware it names.
Rule(c, ns, host, path, to, via) ==
  [of |-> ns, host |-> host, path |-> path, to |-> to,
   via |-> IF Traefik(c) THEN via ELSE None]

Middle(c, ns, mw, to) ==
  When(Traefik(c), Apply(mw, [of |-> ns, host |-> NoHost, path |-> "",
                              to |-> to, via |-> None]))

Path(part) == CASE part = "apihost"      -> "/api/v1"
                [] part = "apihost-info" -> "/api/info"
                [] part = "minio-upload" -> "/api/upload"
                [] part \in {"minio-s3", "minio-console"} -> "/"
                [] OTHER                 -> "/api/my"

Service(ns, part) == CASE part = "apihost"      -> << "controller", "api" >>
                       [] part = "apihost-info" -> << "controller", "info" >>
                       [] part \in {"minio-upload", "minio-s3"} -> << "minio", "s3" >>
                       [] part = "minio-console" -> << "minio", "console" >>
                       [] OTHER -> << "controller", "web", ns >>

ApiMiddle(c, ns, part) ==
  Middle(c, ns, ApiMiddleware(ns, part), Service(ns, part))

\* The S3 and the console ingress rewrite nothing.
ApiIngress(c, ns, part, host) ==
  Apply(ApiName(c, ns, part),
        Rule(c, ns, host, Path(part), Service(ns, part),
             IF part \in {"minio-s3", "minio-console"} THEN None
                                                      ELSE ApiMiddleware(ns, part)))

Expose(c, ns, part, host) == ApiMiddle(c, ns, part) \o ApiIngress(c, ns, part, host)

\* deploy_api_ingresses, deploy_api_routes
ApiCalls(c, ns, host, www) ==
  ApiMiddle(c, ns, "apihost") \o ApiMiddle(c, ns, "apihost-my")
    \o ApiIngress(c, ns, "apihost", host) \o ApiIngress(c, ns, "apihost-my", host)
    \o When(www, Expose(c, ns, "apihost-www-my", WithPrefix("www", host)))

\* endpoint.create
EndpointCalls(c, host) ==
  Annotate("apihost", host) \o Expose(c, "nuvolaris", "apihost-info", host)
    \o ApiCalls(c, "nuvolaris", host, NeedsWww(c, host))

\* deploy_content_ingress_template, deploy_content_route_template
StaticCalls(c, ns, bucket, host) ==
  Middle(c, ns, StaticMiddleware(ns), << "static", bucket >>)
    \o Apply(StaticName(c, ns),
             Rule(c, ns, host, "/", << "static", bucket >>, StaticMiddleware(ns)))

NuvStaticCalls(c, host) ==
  StaticCalls(c, "nuvolaris", "nuvolaris-web", host)
    \o When(NeedsWww(c, host),
            StaticCalls(c, "www-nuvolaris", "nuvolaris-web", WithPrefix("www", host)))

\* (Mutation: the console's prefix is used for S3 as well.)
MinioCallsSwapped(c, host) ==
  Expose(c, "nuvolaris", "minio-upload", host)
    \o When(c.extra = "auto",
            ApiIngress(c, "nuvolaris", "minio-s3", WithPrefix("s3", host))
              \o Annotate("s3", WithPrefix("minio", host))
              \o ApiIngress(c, "nuvolaris", "minio-console", WithPrefix("minio", host))
              \o Annotate("console", WithPrefix("minio", host)))
    \o When(c.extra = "named", << [do |-> "raise"] >>)
    \o When(c.kube = "kind", Annotate("s3", << "localhost" >>))

\* create_minio_ingresses: a host of their own for S3 and the console calls a
\* function that apihost_util does not have.
MinioCalls(c, host) ==
  Expose(c, "nuvolaris", "minio-upload", host)
    \o When(c.extra = "auto",
            ApiIngress(c, "nuvolaris", "minio-s3", WithPrefix("s3", host))
              \o Annotate("s3", WithPrefix("s3", host))
              \o ApiIngress(c, "nuvolaris", "minio-console", WithPrefix("minio", host))
              \o Annotate("console", WithPrefix("minio", host)))
    \o When(c.extra = "named", << [do |-> "raise"] >>)
    \o When(c.kube = "kind", Annotate("s3", << "localhost" >>))

DeleteAll(ids) == [i \in DOMAIN ids |-> [do |-> "delete", id |-> ids[i]]]

\* Endpoints and middlewares are removed by their names.
EndpointRemoval(c, ns, parts) ==
  When(Traefik(c), DeleteAll([i \in DOMAIN parts |-> ApiMiddleware(ns, parts[i])]))
    \o DeleteAll([i \in DOMAIN parts |-> ApiName(c, ns, parts[i])])

StaticRemoval(c, nss) ==
  When(Traefik(c), DeleteAll([i \in DOMAIN nss |-> StaticMiddleware(nss[i])]))
    \o DeleteAll([i \in DOMAIN nss |-> StaticName(c, nss[i])])

\* The middleware is removed whether or not this part has one.
MinioRemoval(c, part) ==
  Delete(ApiName(c, "nuvolaris", part))
    \o When(Traefik(c), Delete(ApiMiddleware("nuvolaris", part)))
================================================================================
