------------------------------ MODULE SubjectStore ------------------------------
(***************************************************************************)
(* What the database of subjects promises to those who administer it: a    *)
(* command is applied to each of its documents as that document is at one  *)
(* instant, or counts a failure.  A command that is not told of a failure  *)
(* has been applied, once; one that is told may have been applied (its     *)
(* answer was lost).  Nothing else ever changes a document.                *)
(***************************************************************************)
EXTENDS SubjectCommands

CONSTANT Clients, InitialStores

VARIABLES
  store,  \* the documents
  phase,  \* of each client: "new", "busy" or "done"
  cmd,    \* the command it was started with
  todo,   \* the documents it has not gone through yet
  failed  \* how often it has counted a failure: its exit code

vars == << store, phase, cmd, todo, failed >>

Init ==
  /\ store \in InitialStores
  /\ phase  = [c \in Clients |-> "new"]
  /\ cmd   \in [Clients -> Commands]
  /\ todo   = [c \in Clients |-> cmd[c].targets]
  /\ failed = [c \in Clients |-> 0]

Begin(c) ==
  /\ phase[c] = "new"
  /\ phase' = [phase EXCEPT ![c] = "busy"]
  /\ UNCHANGED << store, cmd, todo, failed >>

\* One document more, with or without a failure.
Advance(c, n) ==
  /\ phase[c] = "busy"
  /\ todo' = [todo EXCEPT ![c] = Tail(@)]
  /\ phase' = [phase EXCEPT ![c] = IF Tail(todo[c]) = << >> THEN "done" ELSE "busy"]
  /\ failed' = [failed EXCEPT ![c] = @ + n]
  /\ UNCHANGED cmd

Commit(c) ==
  /\ phase[c] = "busy"
  /\ LET d == Head(todo[c]) IN
      /\ ~Refuses(cmd[c], store[d])
      /\ store' = [store EXCEPT ![d] = Edited(cmd[c], store[d])]
      /\ \E n \in {0, 1} : Advance(c, n)

Fail(c) ==
  /\ Advance(c, 1)
  /\ UNCHANGED store

\* A command that only reads.
Answer(c) ==
  /\ cmd[c].op \in Reads
  /\ Advance(c, 0)
  /\ UNCHANGED store

Next == \E c \in Clients : Begin(c) \/ Commit(c) \/ Fail(c) \/ Answer(c)

Spec == Init /\ [][Next]_vars
================================================================================
