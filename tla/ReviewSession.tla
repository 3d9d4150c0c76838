--------------------------- MODULE ReviewSession ---------------------------
(***************************************************************************)
(* What one study session promises its user: the notes it fetched are      *)
(* graded one after the other, each exactly once and in the fetched order, *)
(* and it is finished when, and only when, none is left.  Leaving the app  *)
(* or the end of the process may abandon it at any point.                  *)
(***************************************************************************)
EXTENDS Sequences, Grading

CONSTANT Lists   \* what a fetch may yield

VARIABLES status, todo, graded

session == <<status, todo, graded>>

Init == status = "closed" /\ todo = <<>> /\ graded = <<>>

Open == status = "closed" /\ status' = "fetching" /\ UNCHANGED <<todo, graded>>

Fetch ==
  /\ status = "fetching"
  /\ status' = "reviewing"
  /\ todo' \in Lists
  /\ UNCHANGED graded

Grade(ease) ==
  /\ status = "reviewing"
  /\ todo # <<>>
  /\ graded' = Append(graded, [note |-> Head(todo), ease |-> ease])
  /\ todo' = Tail(todo)
  /\ UNCHANGED status

Finish ==
  /\ status = "reviewing"
  /\ todo = <<>>
  /\ status' = "finished"
  /\ UNCHANGED <<todo, graded>>

Abandon ==
  /\ status \in {"fetching", "reviewing"}
  /\ status' = "abandoned"
  /\ UNCHANGED <<todo, graded>>

Progress == Fetch \/ (\E ease \in EaseValue : Grade(ease)) \/ Finish

Next == Open \/ Progress \/ Abandon

Spec == Init /\ [][Next]_session /\ WF_session(Progress)

=============================================================================
