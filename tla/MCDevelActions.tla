----------------------------- MODULE MCDevelActions -----------------------------
(* Two activations, of one user and of one who does not own his buckets. *)
EXTENDS DevelActions, TLC

CONSTANTS c1, c2, ann, bob, ka, kb, o1, o2

MCCalls == {c1, c2}
MCUsers == {ann, bob}
MCKeys  == {ka, kb}
MCSubjects == (ka :> ann) @@ (kb :> bob)
MCEnv   == (ann :> {"minio", "psql", "redis", "ferretdb"}) @@ (bob :> {"minio"})
Data == << "data" >>
Web  == << ann, "web" >>
MCLeaving == {ann}
MCOwned == (ann :> {Data, Web}) @@ (bob :> {})

X == << "x" >>
Y == << "y" >>
MCStored == (<< Data, X >> :> o1) @@ (<< Data, Y >> :> o2)

Row(a, k, op) == [action |-> a, key |-> k, body |-> TRUE, op |-> op,
                  path |-> << "data", "/", "x" >>, from |-> << Data, X >>, to |-> << Data, Y >>,
                  dry |-> FALSE]

MCRequests ==
  { Row("psql", ka, op) : op \in {"rows", "norows", "script", "wrong"} }
  \union { Row("redis", ka, op) : op \in {"text", "number", "wrong"} }
  \union { Row("ferretdb", ka, op) : op \in {"command", "wrong"} }
  \union { Row("psql", kb, "rows") }
  \union { Row("minio", ka, op) : op \in {"ls", "rm", "cp", "mv", "clean", "other"} }
  \union { Row("minio", kb, op) : op \in {"rm", "clean"} }
  \union { [Row("minio", ka, op) EXCEPT !.from = << Data, Y >>, !.to = t] :
             op \in {"mv"}, t \in {<< Data, X >>, << Data, << "z" >> >>} }
  \union { [Row("minio", ka, "mv") EXCEPT !.to = << Data, X >>],
           [Row("minio", ka, "clean") EXCEPT !.dry = TRUE],
           [Row("minio", NoKey, "rm") EXCEPT !.body = FALSE],
           [Row("minio", ka, "rm") EXCEPT !.body = FALSE] }
  \union { Row("upload", ka, op) : op \in {"put", "delete", "get"} }
  \union { [Row("download", ka, "get") EXCEPT !.path = << "data", "/", n >>] : n \in {"x", "z"} }
  \union { [Row("content", ka, op) EXCEPT !.path = << ann, "/", "x" >>] :
             op \in {"put", "delete", "get"} }
  \union { [Row("content", ka, "put") EXCEPT !.path = << bob, "/", "x" >>] }

NamesOf == { X, Y, << "z" >> }
MCPlaces == { Data } \X NamesOf \union { Web } \X { X } \union { << << bob, "web" >>, X >> }
================================================================================
