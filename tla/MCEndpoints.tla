------------------------------ MODULE MCEndpoints ------------------------------
(* Instances of Endpoints for TLC. *)
EXTENDS Endpoints

Conf(kube, apihost, extra) ==
  [kube |-> kube, apihost |-> apihost, class |-> "auto", extra |-> extra]

AllUsers == {"alice"}
TheirApihost == [u \in AllUsers |-> AutoHost]

Example == << "example", "com" >>
Numbered == << "ten", "nip", "io" >>

\* A cluster with a load balancer, with the S3 and console ingresses, under
\* the apihost or a host of their own; K3s by its public address; OpenShift.
TheConfs == { Conf("generic", AutoHost, "auto"), Conf("generic", Example, "named"),
              Conf("k3s", AutoHost, "off"), Conf("openshift", << "www" >> \o Example, "off") }
TheAddrs == { NoHost, Numbered }

\* The theorem about RemovedClean assumes it.
ASSUME OneClass
================================================================================
