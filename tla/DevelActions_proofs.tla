-------------------------- MODULE DevelActions_proofs --------------------------
(***************************************************************************)
(* What the web actions answer is true, and a move loses nothing by itself,*)
(* for any number of activations, whatever they are asked, whatever is lost*)
(* on the way and whichever users leave meanwhile.  What an activation has *)
(* had done follows from where it is (Progress), which its own steps keep  *)
(* and the others leave alone; only the objects are shared, and a move that*)
(* nobody disturbed still has its copy (Copied).                           *)
(***************************************************************************)
EXTENDS DevelActions, TLAPS

\* Progress and the two answers, of one activation.
Told(c) ==
  /\ pc[c] # "done" => answer[c] = "none"
  /\ pc[c] \in {"new", "subject", "user", "run"} => changes[c] = 0 /\ ~silent[c]
  /\ pc[c] = "remove" =>
       req[c].action = "minio" /\ req[c].op = "mv" /\ changes[c] = 1
  /\ pc[c] = "clean" => req[c].action = "minio" /\ req[c].op = "clean"
  /\ answer[c] = "200" /\ Written(req[c]) =>
       IF req[c].op = "mv" THEN changes[c] \in {1, 2} ELSE changes[c] = 1
  /\ answer[c] \in {"400", "null", "raised"} /\ ~silent[c] =>
       changes[c] = 0 \/ req[c].op = "number"

CopiedOf(c) ==
  pc[c] = "remove" /\ ~disturbed[c] =>
    /\ req[c].from \in Places /\ req[c].to \in Places /\ req[c].from # req[c].to
    /\ objects[req[c].to] = objects[req[c].from]

LEMMA InductiveParts ==
  Inductive <=> Form /\ \A c \in Calls : Told(c) /\ CopiedOf(c)
BY DEF Inductive, Progress, Copied, SuccessTruthful, ErrorHarmless, Told, CopiedOf

\* What a service is asked changes only the activation that asks, and the
\* objects, of which moves take notice.
Touches(c) ==
  /\ req' = req
  /\ changes' = changes \/ changes' = [changes EXCEPT ![c] = @ + 1]
  /\ silent' = silent \/ silent' = [silent EXCEPT ![c] = TRUE]
  /\ \/ pc' = pc /\ answer' = answer
     \/ \E w \in {"subject", "user", "run", "remove", "clean"} :
          pc' = [pc EXCEPT ![c] = w] /\ answer' = answer
     \/ \E a \in {"200", "400", "null", "raised"} :
          pc' = [pc EXCEPT ![c] = "done"] /\ answer' = [answer EXCEPT ![c] = a]
  /\ \/ objects' = objects /\ disturbed' = disturbed
     \/ /\ objects = [p \in Places |-> objects[p]] =>
             objects' = [p \in Places |-> objects'[p]]
        /\ disturbed' = [m \in Calls |->
             disturbed[m] \/ /\ m # c /\ pc[m] = "remove"
                             /\ \E p \in {From(req[m]), req[m].to} : objects'[p] # objects[p]]

Answered == {"200", "400", "null", "raised"}

\* Every step of an activation is of that form.
LEMMA StepTouches ==
  ASSUME NEW c \in Calls, Runs(c)
  PROVE  Touches(c)
<1> DEFINE Quiet == changes' = changes /\ silent' = silent /\ req' = req
                    /\ objects' = objects /\ disturbed' = disturbed
           Moves == (\E a \in Answered : Answers(c, a))
                    \/ \E w \in {"subject", "user", "run", "remove", "clean"} : Goes(c, w)
<1>1. ASSUME Quiet, Moves  PROVE Touches(c)
  BY <1>1, Zenon DEF Touches, Answers, Goes, Answered
<1>2. ASSUME NEW new, Does(c, new), Moves,
             silent' = silent \/ silent' = [silent EXCEPT ![c] = TRUE],
             objects = [p \in Places |-> objects[p]] => new = [p \in Places |-> new[p]]
      PROVE  Touches(c)
  BY <1>2, Zenon DEF Touches, Answers, Goes, Answered, Does
<1>3. ASSUME NEW new, NEW ok, NEW failure, Asks(c, new, ok, failure),
             ok => Moves, failure => Moves,
             objects = [p \in Places |-> objects[p]] => new = [p \in Places |-> new[p]]
      PROVE  Touches(c)
  <2>1. CASE Does(c, new) /\ ok /\ UNCHANGED << faults, silent >>
    BY <2>1, <1>2, <1>3
  <2>2. CASE Does(c, new) /\ failure /\ silent' = [silent EXCEPT ![c] = TRUE]
    BY <2>2, <1>2, <1>3
  <2>3. CASE Untouched(c) /\ failure /\ UNCHANGED silent
    BY <2>3, <1>1, <1>3 DEF Untouched, shared
  <2> QED
    BY <1>3, <2>1, <2>2, <2>3 DEF Asks
<1>4. ASSUME NEW failure, Refused(c, failure), failure => Moves  PROVE Touches(c)
  BY <1>1, <1>4 DEF Refused, Untouched, shared
<1>5. \A p, o : objects = [q \in Places |-> objects[q]] =>
                  With(p, o) = [q \in Places |-> With(p, o)[q]]
  BY DEF With
<1>6. \A a \in Answered : Answers(c, a) => Moves
  OBVIOUS
<1>7. Raises(c) => Moves
  BY DEF Raises, Answered
<1>8. "200" \in Answered /\ "400" \in Answered /\ "null" \in Answered
  BY DEF Answered
<1>9. CASE Begin(c)
  BY <1>1, <1>6, <1>8, <1>9 DEF Begin, ghosts, shared
<1>10. CASE FetchSubject(c)
  BY <1>1, <1>7, <1>10 DEF FetchSubject, ghosts, shared
<1>11. CASE FetchUser(c)
  BY <1>1, <1>7, <1>11 DEF FetchUser, ghosts, shared
<1>12. CASE Psql(c)
  BY <1>3, <1>4, <1>6, <1>8, <1>12 DEF Psql, NoRows
<1>13. CASE Redis(c)
  BY <1>3, <1>4, <1>6, <1>8, <1>13 DEF Redis
<1>14. CASE FerretDB(c)
  BY <1>3, <1>4, <1>6, <1>8, <1>14 DEF FerretDB
<1>15. ASSUME NEW p, Upload(c, p)  PROVE Touches(c)
  BY <1>3, <1>4, <1>5, <1>6, <1>8, <1>15 DEF Upload
<1>16. ASSUME NEW p, Delete(c, p)  PROVE Touches(c)
  BY <1>3, <1>4, <1>5, <1>6, <1>8, <1>16 DEF Delete
<1>17. CASE File(c)
  <2>1. ASSUME Untouched(c), Answers(c, "400"), UNCHANGED silent  PROVE Touches(c)
    BY <2>1, <1>1, <1>6, <1>8 DEF Untouched, shared
  <2> QED
    BY <1>4, <1>6, <1>8, <1>15, <1>16, <1>17, <2>1 DEF File
<1>18. CASE Download(c)
  BY <1>1, <1>6, <1>7, <1>8, <1>18 DEF Download, Untouched, shared
<1>19. CASE Minio(c)
  <2>1. ASSUME Answers(c, "200") \/ Answers(c, "400"), Untouched(c), UNCHANGED silent
        PROVE  Touches(c)
    BY <2>1, <1>1, <1>6, <1>8 DEF Untouched, shared
  <2> QED
    BY <1>4, <1>6, <1>8, <1>16, <1>19, <2>1 DEF Minio
<1>20. CASE Copy(c)
  <2> DEFINE ok == IF req[c].op = "mv" THEN Goes(c, "remove") ELSE Answers(c, "200")
  <2>1. ok => Moves
    BY <1>8
  <2>2. Answers(c, "400") => Moves
    BY <1>8
  <2>3. CASE Asks(c, With(req[c].to, objects[req[c].from]), ok, Answers(c, "400"))
    <3> HIDE DEF ok
    <3> QED
      BY <2>1, <2>2, <2>3, <1>3, <1>5
  <2>4. CASE Refused(c, Answers(c, "400"))
    BY <2>2, <2>4, <1>4
  <2> QED
    BY <1>20, <2>3, <2>4 DEF Copy, AfterFailedCopy
<1>21. CASE MoveRemoves(c)
  BY <1>3, <1>5, <1>6, <1>8, <1>21 DEF MoveRemoves
<1>22. CASE CleanLists(c)
  BY <1>1, <1>6, <1>8, <1>22 DEF CleanLists, Untouched, shared
<1>23. CASE CleanRemoves(c)
  <2>1. Goes(c, "clean") => Moves
    OBVIOUS
  <2>2. ASSUME NEW p, Asks(c, With(p, Nothing), Goes(c, "clean"), Goes(c, "clean"))
        PROVE  Touches(c)
    BY <1>3, <1>5, <2>1, <2>2
  <2>3. CASE Refused(c, Answers(c, "200"))
    BY <1>4, <1>6, <1>8, <2>3
  <2> QED
    BY <1>23, <2>2, <2>3 DEF CleanRemoves
<1> QED
  BY <1>9, <1>10, <1>11, <1>12, <1>13, <1>14, <1>17, <1>18, <1>19, <1>20, <1>21,
     <1>22, <1>23 DEF Runs
--------------------------------------------------------------------------------
LEMMA FormKept ==
  ASSUME Form, NEW c \in Calls, Touches(c)
  PROVE  Form'
<1>1. /\ req' \in [Calls -> Requests] /\ silent' \in [Calls -> BOOLEAN]
      /\ changes' \in [Calls -> Nat]
  <2>1. changes \in [Calls -> Nat]
        /\ (changes' = changes \/ changes' = [changes EXCEPT ![c] = @ + 1])
    BY DEF Form, Touches
  <2>2. changes' \in [Calls -> Nat]
    BY <2>1
  <2>3. req \in [Calls -> Requests] /\ req' = req
    BY DEF Form, Touches
  <2>4. silent \in [Calls -> BOOLEAN]
        /\ (silent' = silent \/ silent' = [silent EXCEPT ![c] = TRUE])
    BY DEF Form, Touches
  <2>5. silent' \in [Calls -> BOOLEAN]
    BY <2>4
  <2> QED
    BY <2>2, <2>3, <2>5
<1>2. pc' \in [Calls -> {"new", "subject", "user", "run", "remove", "clean", "done"}]
      /\ answer' \in [Calls -> {"none", "200", "400", "null", "raised"}]
  BY DEF Form, Touches
<1>3. disturbed' \in [Calls -> BOOLEAN]
  <2>1. CASE disturbed' = disturbed
    BY <2>1 DEF Form
  <2>2. CASE disturbed' = [m \in Calls |->
             disturbed[m] \/ /\ m # c /\ pc[m] = "remove"
                             /\ \E p \in {From(req[m]), req[m].to} : objects'[p] # objects[p]]
    BY <2>2, Zenon
  <2> QED
    BY <2>1, <2>2 DEF Touches
<1>4. objects' = [p \in Places |-> objects'[p]]
  BY DEF Form, Touches
<1> QED
  BY <1>1, <1>2, <1>3, <1>4 DEF Form

\* An activation does not touch what another one has had done.
LEMMA OthersTold ==
  ASSUME Form, NEW c \in Calls, Touches(c), NEW d \in Calls, d # c, Told(d)
  PROVE  Told(d)'
<1>1. pc'[d] = pc[d] /\ answer'[d] = answer[d] /\ changes'[d] = changes[d]
      /\ silent'[d] = silent[d] /\ req'[d] = req[d]
  BY DEF Form, Touches
<1> QED
  BY <1>1 DEF Told, Written

\* A move nobody disturbs keeps what it has copied, for the objects at its two
\* places stay.
LEMMA OthersCopied ==
  ASSUME Form, NEW c \in Calls, Touches(c), NEW d \in Calls, d # c, Told(d), CopiedOf(d)
  PROVE  CopiedOf(d)'
<1> SUFFICES ASSUME pc'[d] = "remove", ~disturbed'[d]
             PROVE  /\ req[d].from \in Places /\ req[d].to \in Places
                    /\ req[d].from # req[d].to
                    /\ objects'[req[d].to] = objects'[req[d].from]
  BY DEF CopiedOf, Touches
<1>1. pc[d] = "remove"
  BY DEF Form, Touches
<1>2. From(req[d]) = req[d].from
  BY <1>1 DEF Told, From, Files
<1>3. /\ ~disturbed[d] /\ objects'[req[d].to] = objects[req[d].to]
      /\ objects'[req[d].from] = objects[req[d].from]
  <2>1. CASE objects' = objects /\ disturbed' = disturbed
    BY <2>1
  <2>2. CASE disturbed' = [m \in Calls |->
             disturbed[m] \/ /\ m # c /\ pc[m] = "remove"
                             /\ \E p \in {From(req[m]), req[m].to} : objects'[p] # objects[p]]
    BY <1>1, <1>2, <2>2
  <2> QED
    BY <2>1, <2>2 DEF Touches
<1> QED
  BY <1>1, <1>3 DEF CopiedOf
--------------------------------------------------------------------------------
\* What an answer, or a way on, leaves of an activation.
LEMMA OwnAnswer ==
  ASSUME Form, NEW c \in Calls, NEW a \in Answered, Answers(c, a)
  PROVE  pc'[c] = "done" /\ answer'[c] = a
BY DEF Form, Answers

LEMMA OwnGoes ==
  ASSUME Form, NEW c \in Calls, NEW w, Goes(c, w)
  PROVE  pc'[c] = w /\ answer'[c] = answer[c]
BY DEF Form, Goes

\* Nothing asked of a service: an error, or a way on, is true.
LEMMA QuietTold ==
  ASSUME Form, NEW c \in Calls, Told(c), pc[c] \in {"new", "subject", "user", "run"},
         changes' = changes, silent' = silent, req' = req,
         \/ \E w \in {"subject", "user", "run"} : Goes(c, w)
         \/ \E a \in {"400", "null", "raised"} : Answers(c, a)
         \/ Answers(c, "200") /\ ~Written(req[c])
         \/ Goes(c, "clean") /\ req[c].action = "minio" /\ req[c].op = "clean"
  PROVE  Told(c)'
<1>1. CASE \E w \in {"subject", "user", "run"} : Goes(c, w)
  BY <1>1, OwnGoes DEF Told, Written
<1>2. CASE \E a \in {"400", "null", "raised"} : Answers(c, a)
  BY <1>2, OwnAnswer DEF Told, Written, Answered
<1>3. CASE Answers(c, "200") /\ ~Written(req[c])
  BY <1>3, OwnAnswer DEF Told, Written, Answered
<1>4. CASE Goes(c, "clean") /\ req[c].action = "minio" /\ req[c].op = "clean"
  BY <1>4, OwnGoes DEF Told, Written
<1> QED
  BY <1>1, <1>2, <1>3, <1>4

\* One request, and a failure is told: true, as nothing was asked before.
LEMMA AskedTold ==
  ASSUME Form, NEW c \in Calls, Told(c), pc[c] = "run", req[c].op # "mv", NEW new,
         Asks(c, new, Answers(c, "200"), Answers(c, "400"))
  PROVE  Told(c)'
<1>1. changes[c] = 0 /\ ~silent[c]
  BY DEF Told
<1>2. /\ req' = req
      /\ \/ Answers(c, "200") /\ changes'[c] = changes[c] + 1 /\ silent'[c] = silent[c]
         \/ Answers(c, "400") /\ (silent'[c] = TRUE \/ changes'[c] = changes[c])
  BY DEF Form, Asks, Does, Untouched
<1>3. CASE Answers(c, "200") /\ changes'[c] = changes[c] + 1 /\ silent'[c] = silent[c]
  <2>1. pc'[c] = "done" /\ answer'[c] = "200" /\ changes'[c] = 1 /\ req'[c] = req[c]
    BY <1>1, <1>2, <1>3, OwnAnswer DEF Answered
  <2> QED
    BY <2>1 DEF Told, Written
<1>4. CASE Answers(c, "400") /\ (silent'[c] = TRUE \/ changes'[c] = changes[c])
  <2>1. /\ pc'[c] = "done" /\ answer'[c] = "400" /\ req'[c] = req[c]
        /\ silent'[c] = TRUE \/ changes'[c] = 0
    BY <1>1, <1>2, <1>4, OwnAnswer DEF Answered
  <2> QED
    BY <2>1 DEF Told, Written
<1> QED
  BY <1>2, <1>3, <1>4

LEMMA RefusedTold ==
  ASSUME Form, NEW c \in Calls, Told(c), pc[c] = "run",
         NEW a \in {"400", "null"}, Refused(c, Answers(c, a))
  PROVE  Told(c)'
BY QuietTold DEF Refused, Untouched

LEMMA UploadTold ==
  ASSUME Form, NEW c \in Calls, Told(c), pc[c] = "run", req[c].op # "mv", NEW p,
         Upload(c, p) \/ Delete(c, p)
  PROVE  Told(c)'
BY AskedTold, RefusedTold DEF Upload, Delete

LEMMA RedisTold ==
  ASSUME Form, NEW c \in Calls, Told(c), Redis(c)
  PROVE  Told(c)'
<1>1. CASE req[c].op = "number" /\ Asks(c, objects, Answers(c, "400"), Answers(c, "400"))
  <2>1. pc'[c] = "done" /\ answer'[c] = "400" /\ req'[c] = req[c]
    <3>1. Answers(c, "400") /\ req' = req
      BY <1>1 DEF Asks, Does, Untouched
    <3> QED
      BY <3>1, OwnAnswer DEF Answered
  <2> QED
    BY <1>1, <2>1 DEF Told, Written
<1> QED
  BY <1>1, AskedTold, RefusedTold DEF Redis

LEMMA FileTold ==
  ASSUME Form, NEW c \in Calls, Told(c), File(c)
  PROVE  Told(c)'
<1>1. pc[c] = "run"
  BY DEF File
<1>2. ASSUME Untouched(c), Answers(c, "400"), UNCHANGED silent  PROVE Told(c)'
  BY <1>1, <1>2, QuietTold DEF Untouched
<1> QED
  BY <1>1, <1>2, UploadTold, RefusedTold DEF File

LEMMA MinioTold ==
  ASSUME Form, NEW c \in Calls, Told(c), Minio(c)
  PROVE  Told(c)'
<1>1. pc[c] = "run" /\ req[c].action = "minio"
  BY DEF Minio
<1>2. ASSUME req[c].op = "ls", Answers(c, "200") \/ Answers(c, "400"), Untouched(c),
             UNCHANGED silent
      PROVE  Told(c)'
  <2>1. ~Written(req[c])
    BY <1>1, <1>2 DEF Written
  <2> QED
    BY <1>1, <1>2, <2>1, QuietTold DEF Untouched
<1> QED
  BY <1>1, <1>2, UploadTold, RefusedTold DEF Minio

LEMMA DownloadTold ==
  ASSUME Form, NEW c \in Calls, Told(c), Download(c)
  PROVE  Told(c)'
<1>1. ~Written(req[c]) /\ pc[c] = "run"
  BY DEF Download, Written
<1>2. changes' = changes /\ silent' = silent /\ req' = req
  BY DEF Download, Untouched
<1>3. Answers(c, "200") \/ Answers(c, "400") \/ Answers(c, "raised")
  BY DEF Download, Raises
<1> QED
  BY <1>1, <1>2, <1>3, QuietTold

\* A copy of cp is the command, that of mv its first half.
LEMMA CopyTold ==
  ASSUME Form, NEW c \in Calls, Told(c), Copy(c)
  PROVE  Told(c)'
<1> DEFINE new == With(req[c].to, objects[req[c].from])
<1>1. pc[c] = "run" /\ req[c].action = "minio" /\ req[c].op \in {"cp", "mv"}
  BY DEF Copy
<1>2. CASE Refused(c, Answers(c, "400"))
  BY <1>1, <1>2, RefusedTold
<1>3. CASE req[c].op # "mv" /\ Asks(c, new, Answers(c, "200"), Answers(c, "400"))
  <2> HIDE DEF new
  <2> QED
    BY <1>1, <1>3, AskedTold
<1>4. CASE req[c].op = "mv" /\ Asks(c, new, Goes(c, "remove"), Answers(c, "400"))
  <2> HIDE DEF new
  <2>1. changes[c] = 0 /\ ~silent[c] /\ answer[c] = "none"
    BY <1>1 DEF Told
  <2>2. /\ req' = req
        /\ \/ Goes(c, "remove") /\ changes'[c] = changes[c] + 1
           \/ Answers(c, "400") /\ (silent'[c] = TRUE \/ changes'[c] = changes[c])
    BY <1>4 DEF Form, Asks, Does, Untouched
  <2>3. CASE Goes(c, "remove") /\ changes'[c] = changes[c] + 1
    <3>1. pc'[c] = "remove" /\ answer'[c] = "none" /\ changes'[c] = 1
      BY <2>1, <2>3, OwnGoes
    <3> QED
      BY <1>1, <1>4, <2>2, <3>1 DEF Told, Written
  <2>4. CASE Answers(c, "400") /\ (silent'[c] = TRUE \/ changes'[c] = changes[c])
    <3>1. pc'[c] = "done" /\ answer'[c] = "400" /\ (silent'[c] = TRUE \/ changes'[c] = 0)
      BY <2>1, <2>4, OwnAnswer DEF Answered
    <3> QED
      BY <2>2, <3>1 DEF Told, Written
  <2> QED
    BY <2>2, <2>3, <2>4
<1> QED
  BY <1>1, <1>2, <1>3, <1>4 DEF Copy, AfterFailedCopy

\* The end of a move: its copy was made, its removal is made at most once.
LEMMA MoveTold ==
  ASSUME Form, NEW c \in Calls, Told(c), MoveRemoves(c)
  PROVE  Told(c)'
<1> DEFINE new == With(req[c].from, Nothing)
<1>1. Asks(c, new, Answers(c, "200"), Answers(c, "200"))
  BY DEF MoveRemoves
<1> HIDE DEF new
<1>2. req[c].op = "mv" /\ changes[c] = 1
  BY DEF MoveRemoves, Told
<1>3. Answers(c, "200") /\ req' = req /\ changes'[c] \in {1, 2}
  BY <1>1, <1>2 DEF Form, Asks, Does, Untouched
<1>4. pc'[c] = "done" /\ answer'[c] = "200"
  BY <1>3, OwnAnswer DEF Answered
<1> QED
  BY <1>2, <1>3, <1>4 DEF Told, Written

LEMMA CleanTold ==
  ASSUME Form, NEW c \in Calls, Told(c), CleanRemoves(c)
  PROVE  Told(c)'
<1>1. req[c].action = "minio" /\ req[c].op = "clean" /\ pc[c] = "clean" /\ answer[c] = "none"
  BY DEF CleanRemoves, Told
<1>2. req'[c] = req[c]
      /\ \/ pc'[c] = "clean" /\ answer'[c] = "none"
         \/ pc'[c] = "done" /\ answer'[c] = "200"
  <2>1. ASSUME NEW p, Asks(c, With(p, Nothing), Goes(c, "clean"), Goes(c, "clean"))
        PROVE  req'[c] = req[c] /\ pc'[c] = "clean" /\ answer'[c] = "none"
    <3>1. Goes(c, "clean") /\ req' = req
      BY <2>1 DEF Asks, Does, Untouched
    <3> QED
      BY <1>1, <3>1, OwnGoes
  <2>2. ASSUME Refused(c, Answers(c, "200"))
        PROVE  req'[c] = req[c] /\ pc'[c] = "done" /\ answer'[c] = "200"
    BY <2>2, OwnAnswer DEF Refused, Untouched, Answered
  <2> QED
    BY <2>1, <2>2 DEF CleanRemoves
<1> QED
  BY <1>1, <1>2 DEF Told, Written

\* Every step of an activation keeps what it has had done in line with where
\* it is and with what it answers.
LEMMA OwnTold ==
  ASSUME Form, NEW c \in Calls, Told(c), Runs(c)
  PROVE  Told(c)'
<1>1. CASE Begin(c)
  BY <1>1, QuietTold DEF Begin, ghosts
<1>2. CASE FetchSubject(c)
  BY <1>2, QuietTold DEF FetchSubject, ghosts, Raises
<1>3. CASE FetchUser(c)
  BY <1>3, QuietTold DEF FetchUser, ghosts, Raises
<1>4. CASE Psql(c)
  BY <1>4, AskedTold, RefusedTold DEF Psql, NoRows
<1>5. CASE FerretDB(c)
  BY <1>5, AskedTold, RefusedTold DEF FerretDB
<1>6. CASE CleanLists(c)
  <2>1. /\ pc[c] = "run" /\ req[c].action = "minio" /\ req[c].op = "clean"
        /\ changes' = changes /\ silent' = silent /\ req' = req
    BY <1>6 DEF CleanLists, Untouched
  <2>2. ~Written(req[c])
    BY <2>1 DEF Written
  <2>3. Answers(c, "200") \/ Answers(c, "400") \/ Goes(c, "clean")
    BY <1>6 DEF CleanLists
  <2> QED
    BY <2>1, <2>2, <2>3, QuietTold
<1> QED
  BY <1>1, <1>2, <1>3, <1>4, <1>5, <1>6, RedisTold, FileTold, MinioTold, DownloadTold,
     CopyTold, MoveTold, CleanTold DEF Runs
--------------------------------------------------------------------------------
\* Only a copy leads to the removal of its origin.
LEMMA OnlyCopyRemoves ==
  ASSUME Form, NEW c \in Calls, Runs(c), pc'[c] = "remove"
  PROVE  Copy(c)
<1> DEFINE Other == \/ \E a \in Answered : Answers(c, a)
                    \/ \E w \in {"subject", "user", "run", "clean"} : Goes(c, w)
<1>1. ~Other
  <2>1. \A a \in Answered : ~Answers(c, a)
    BY OwnAnswer
  <2>2. \A w \in {"subject", "user", "run", "clean"} : ~Goes(c, w)
    BY OwnGoes
  <2> QED
    BY <2>1, <2>2
<1>2. /\ ~Answers(c, "200") /\ ~Answers(c, "400") /\ ~Answers(c, "null")
      /\ ~Answers(c, "raised") /\ ~Goes(c, "subject") /\ ~Goes(c, "user")
      /\ ~Goes(c, "run") /\ ~Goes(c, "clean")
  BY <1>1 DEF Answered
<1>3. ~Raises(c)
  BY <1>2 DEF Raises
<1>4. ASSUME NEW new, NEW ok, NEW failure, ~ok, ~failure
      PROVE  ~Asks(c, new, ok, failure) /\ ~Refused(c, failure)
  BY <1>4 DEF Asks, Refused
<1>5. \A p : ~Upload(c, p) /\ ~Delete(c, p)
  BY <1>2, <1>4 DEF Upload, Delete
<1>6. ~Begin(c) /\ ~FetchSubject(c) /\ ~FetchUser(c)
  BY <1>2, <1>3 DEF Begin, FetchSubject, FetchUser
<1>7. ~Psql(c) /\ ~Redis(c) /\ ~FerretDB(c)
  BY <1>2, <1>4 DEF Psql, NoRows, Redis, FerretDB
<1>8. ~File(c) /\ ~Download(c) /\ ~Minio(c)
  BY <1>2, <1>3, <1>4, <1>5 DEF File, Download, Minio
<1>9. ~MoveRemoves(c) /\ ~CleanLists(c) /\ ~CleanRemoves(c)
  BY <1>2, <1>4 DEF MoveRemoves, CleanLists, CleanRemoves
<1> QED
  BY <1>6, <1>7, <1>8, <1>9 DEF Runs

\* A copy that was made is at its destination, and not its own origin.
LEMMA OwnCopied ==
  ASSUME Form, NEW c \in Calls, Runs(c)
  PROVE  CopiedOf(c)'
<1> SUFFICES ASSUME pc'[c] = "remove"
             PROVE  /\ req'[c].from \in Places /\ req'[c].to \in Places
                    /\ req'[c].from # req'[c].to
                    /\ objects'[req'[c].to] = objects'[req'[c].from]
  BY DEF CopiedOf
<1>1. Copy(c)
  BY OnlyCopyRemoves
<1>2. ~Answers(c, "400") /\ ~Answers(c, "200")
  BY OwnAnswer DEF Answered
<1>3. /\ req[c].op = "mv" /\ There(req[c].from) /\ req[c].from # req[c].to
      /\ Does(c, With(req[c].to, objects[req[c].from]))
  BY <1>1, <1>2 DEF Copy, Asks, Refused, AfterFailedCopy
<1>4. req[c].from \in Places /\ req[c].to \in Places /\ req' = req
  BY <1>3, PlaceAssumption DEF There, Does, Form
<1>5. objects' = [objects EXCEPT ![req[c].to] = objects[req[c].from]]
  BY <1>3 DEF Does, With
<1> QED
  BY <1>3, <1>4, <1>5 DEF Form

LEMMA RunKeeps ==
  ASSUME Inductive, NEW c \in Calls, Runs(c)
  PROVE  Inductive'
<1>1. Form /\ (\A d \in Calls : Told(d) /\ CopiedOf(d))
  BY InductiveParts
<1>2. Touches(c)
  BY StepTouches
<1>3. Form'
  BY <1>1, <1>2, FormKept
<1>4. \A d \in Calls : Told(d)' /\ CopiedOf(d)'
  BY <1>1, <1>2, OthersTold, OthersCopied, OwnTold, OwnCopied
<1> QED
  BY <1>3, <1>4, InductiveParts DEF Inductive, Progress, Copied, SuccessTruthful,
     ErrorHarmless, Told, CopiedOf

LEMMA IdleKeeps ==
  ASSUME Inductive, UNCHANGED << objects, pc, answer, req, ghosts >>
  PROVE  Inductive'
BY DEF Inductive, Form, Progress, Copied, SuccessTruthful, ErrorHarmless, Written, ghosts

LEMMA Step ==
  ASSUME Inductive, [Next]_vars
  PROVE  Inductive'
<1>1. CASE UNCHANGED vars
  BY <1>1, IdleKeeps DEF vars, shared
<1>2. ASSUME NEW u \in Leaving, Remove(u)  PROVE Inductive'
  BY <1>2, IdleKeeps DEF Remove
<1> QED
  BY <1>1, <1>2, RunKeeps DEF Next

LEMMA Start == Init => Inductive
BY DEF Init, Inductive, Form, Progress, Copied, SuccessTruthful, ErrorHarmless

\* Where an activation is, what it has had done and whether a move still has
\* its copy (src/actions): an invariant of every behaviour.
THEOREM InductiveCorrect == Spec => []Inductive
<1>1. Inductive /\ [Next]_vars => Inductive'
  BY Step
<1> QED
  BY Start, <1>1, PTL DEF Spec

\* An activation that answers success has had its command carried out.
THEOREM SuccessCorrect == Spec => []SuccessTruthful
<1>1. Inductive => SuccessTruthful
  BY DEF Inductive
<1> QED
  BY <1>1, InductiveCorrect, PTL

\* An activation that answers an error, and lost no answer, changed nothing.
THEOREM ErrorCorrect == Spec => []ErrorHarmless
<1>1. Inductive => ErrorHarmless
  BY DEF Inductive
<1> QED
  BY <1>1, InductiveCorrect, PTL
--------------------------------------------------------------------------------
\* The removal that ends a move takes away one of two copies.
LEMMA RemovalConserves ==
  ASSUME Form, NEW c \in Calls, CopiedOf(c), ~disturbed[c], MoveRemoves(c)
  PROVE  Held' = Held
<1> DEFINE f == req[c].from
           t == req[c].to
<1>1. f \in Places /\ t \in Places /\ f # t /\ objects[t] = objects[f]
  BY DEF MoveRemoves, CopiedOf
<1>2. objects' = objects \/ objects' = [objects EXCEPT ![f] = Nothing]
  BY DEF MoveRemoves, Asks, Does, Untouched, With, shared
<1>3. CASE objects' = objects
  BY <1>3 DEF Held
<1>4. CASE objects' = [objects EXCEPT ![f] = Nothing]
  <2>1. objects'[f] = Nothing /\ objects'[t] = objects[f]
        /\ \A p \in Places \ {f} : objects'[p] = objects[p]
    BY <1>1, <1>4 DEF Form
  <2> HIDE DEF f, t
  <2>2. Held' \subseteq Held
    BY <1>1, <2>1 DEF Held
  <2>3. Held \subseteq Held'
    BY <1>1, <2>1 DEF Held
  <2> QED
    BY <2>2, <2>3
<1> QED
  BY <1>2, <1>3, <1>4

\* The removal of a moved object (minio_util.mv_file) loses nothing by itself.
THEOREM MovesConserve == Spec => MoveConserves
<1>1. ASSUME Inductive, [Next]_vars, NEW c \in Calls,
             pc[c] = "remove", pc'[c] = "done", ~disturbed[c]
      PROVE  Held' = Held
  <2>1. Form /\ CopiedOf(c)
    BY <1>1, InductiveParts
  <2>2. pc' # pc
    BY <1>1
  <2>3. PICK d \in Calls : Runs(d)
    BY <1>1, <2>2 DEF Next, Remove, vars
  <2>4. d = c
    BY <1>1, <2>1, <2>3, StepTouches DEF Touches, Form
  <2>5. MoveRemoves(c)
    BY <1>1, <2>3, <2>4 DEF Runs, Begin, FetchSubject, FetchUser, Psql, Redis, FerretDB,
       File, Download, Minio, Copy, CleanLists, CleanRemoves
  <2> QED
    BY <1>1, <2>1, <2>5, RemovalConserves
<1>2. Inductive /\ [Next]_vars =>
        [\A c \in Calls :
           pc[c] = "remove" /\ pc'[c] = "done" /\ ~disturbed[c] => Held' = Held]_vars
  BY <1>1
<1> QED
  BY <1>2, InductiveCorrect, PTL DEF Spec, MoveConserves
================================================================================
