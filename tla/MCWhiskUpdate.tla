----------------------------- MODULE MCWhiskUpdate -----------------------------
(* Instances of WhiskUpdate for TLC: a family of specs, and the edits of them. *)
EXTENDS WhiskUpdate

Base == {"openwhisk", "couchdb"}

\* Components and the configs of OpenWhisk, switched on; of those that can be
\* switched off again, two; and the exceptions: the address of static changes,
\* Postgres goes under FerretDB.
Grow == { Base \cup s : s \in SUBSET {"redis", "static", "configs"} }
           \cup { Base \cup {"cron"}, Base \cup {"cron", "postgres", "mongodb"} }
Toggle == { Base \cup s : s \in SUBSET {"redis", "postgres"} }
AnyEdits == { e \in Grow \X Grow : e[1] # e[2] /\ e[1] \subseteq e[2] }
              \cup { e \in Toggle \X Toggle : e[1] # e[2] }
              \cup { << Base \cup {"static", "hostname"}, Base \cup {"static"} >>,
                     << Base \cup {"cron", "postgres", "mongodb"},
                        Base \cup {"cron", "mongodb"} >> }

\* What is installed before the edits.
Installed == { Base, Base \cup {"redis"}, Base \cup {"static", "hostname"} }

\* What GrownComplete is proved from holds of these edits.
ASSUME EditsGrow

\* Redis alone, off and on again.
RedisSpecs == { Base, Base \cup {"redis"} }
RedisEdits == { e \in RedisSpecs \X RedisSpecs : e[1] # e[2] }
================================================================================
