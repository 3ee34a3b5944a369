------------------------------- MODULE MCSubjects -------------------------------
(* Two subjects and the limits of one namespace, and three processes. *)
EXTENDS Subjects, TLC

CONSTANTS s1, s2, l1, n1, n2, k1, k2, calls, fires, c1, c2, c3

MCDocs   == {s1, s2, l1}
MCLimit  == {l1}
MCNames  == {n1, n2}
MCKeys   == {k1, k2}
MCLimits == {calls, fires}
MCValues == {0, 1}
MCClients == {c1, c2, c3}

On(op, ts) == [op |-> op, targets |-> ts]
Given(f) == On("setLimits", << l1 >>) @@ [given |-> f]

MCCommands ==
  { On("create", << s1 >>) @@ [name |-> n1, key |-> k2, revoke |-> TRUE],
    On("create", << s1 >>) @@ [name |-> n2, key |-> k2, revoke |-> FALSE],
    On("delete", << s1 >>) }
  \union { On("deleteNs", << s1 >>) @@ [name |-> n1] }
  \union { On(op, << s1, s2 >>) : op \in {"block", "unblock"} }
  \union { On("addSubject", << s1 >>) @@ [name |-> n1, key |-> k1] }
  \union { On("get", << s1 >>) @@ [name |-> n1] }
  \union { On(op, << l1 >>) : op \in {"getLimits", "deleteLimits"} }
  \union { Given((calls :> 1) @@ (fires :> Unset)), Given((calls :> Unset) @@ (fires :> 0)) }

First == [blocked |-> FALSE, namespaces |-> {[name |-> n1, key |-> k1]}]

\* The documents there may be: the subject of the operator, and limits.
MCStores ==
  { (s1 :> a) @@ (s2 :> First) @@ (l1 :> b) :
      a \in {Absent, First}, b \in {Absent, (calls :> 0) @@ (fires :> Unset)} }

Symmetric == Permutations(MCClients)
================================================================================
