------------------------------- MODULE MCRollout -------------------------------
(* Instances of Rollout for TLC. *)
EXTENDS Rollout

Everything == {"redis", "minio", "postgres", "mongodb"}
Instance(cs, v, n) ==
  [comps |-> cs, versions |-> v, troubles |-> n]

\* A full installation with an edit or with a trouble, a small one with both,
\* and one whose map is edited twice: before there is an object, and after.
TheInstances ==
  {Instance(Everything, 2, 0), Instance(Everything, 1, 1), Instance({}, 2, 1),
   Instance({}, 3, 0)}

\* Redis, CouchDB, the controller, FerretDB and the instances of Kubegres are
\* StatefulSets, whose Pods keep their names; Postgres has no failover.
Deployments == {"minio", "kubegres"}

\* Nothing or the first of two spellings is there; the second is not read.
FirstOnly == {0, 1}
SecondSpelling == {"S3_BUCKET_DATA"}
================================================================================
