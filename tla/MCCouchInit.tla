------------------------------ MODULE MCCouchInit ------------------------------
(* The instance of CouchInit for TLC: the Job of templates/couchdb-init.yaml. *)
EXTENDS CouchInit

Limit == 3
================================================================================
