---------------------------- MODULE MCWhiskOperator ----------------------------
(* Instances of WhiskOperator for TLC. *)
EXTENDS WhiskOperator

\* Every component; all but Redis, the default installation, databases alone,
\* Redis alone.
Everything == {Component}
Mixed == { Component \ {"redis"}, {"openwhisk", "couchdb", "redis", "tls"},
           {"mongodb", "static"}, {"redis"} }

\* With OpenWhisk the apihost annotation is written, with tls a ClusterIssuer;
\* and databases and Redis without either.
Retried == { {"openwhisk", "redis", "tls", "postgres"}, {"mongodb", "redis"},
             {"openwhisk", "minio", "static"} }
================================================================================
