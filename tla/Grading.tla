------------------------------ MODULE Grading ------------------------------
(***************************************************************************)
(* How PodcastAgentViewModel turns what Whisper heard into an AnkiDroid    *)
(* ease (PodcastAgentViewModel.kt:151-159).  A transcription is abstracted *)
(* to the set of command words its lower-cased text contains: the `when`   *)
(* asks nothing else of it.                                                *)
(***************************************************************************)
EXTENDS Integers

\* The fragments the `when` looks for.
Command == {"easy", "good", "fine", "hard", "again", "don't know"}

\* AnkiDroid's Ease enumeration, again (1) to easy (4).
EaseValue == 1 .. 4

\* Mutant: nothing recognised is no ease at all.
EaseUnrecognisedIsZero(text) ==
  IF "easy" \in text THEN 4
  ELSE IF text \cap {"good", "fine"} # {} THEN 3
  ELSE IF "hard" \in text THEN 2
  ELSE IF text \cap {"again", "don't know"} # {} THEN 1
  ELSE 0

\* The branches of the `when`, first match wins; nothing recognised is Good.
Ease(text) ==
  IF "easy" \in text THEN 4
  ELSE IF text \cap {"good", "fine"} # {} THEN 3
  ELSE IF "hard" \in text THEN 2
  ELSE IF text \cap {"again", "don't know"} # {} THEN 1
  ELSE 3

=============================================================================
