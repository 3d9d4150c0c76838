--------------------------- MODULE MCStudySession ---------------------------
(***************************************************************************)
(* Small instances of StudySession for sessions that overlap: a deck that  *)
(* yields the two samples, or one of a single note.                        *)
(***************************************************************************)
EXTENDS StudySession, TLC

CONSTANTS n1, m1, m2, d1

MCNote == {n1, m1, m2}
MCSample == <<m1, m2>>
EmptyDeckCards == d1 :> <<>>
ShortDeckCards == d1 :> <<n1>>

\* The engines are up: configuring and the engines' start are checked beside
\* sessions that follow one another.
NextReady == Start \/ (\E s \in Session : SessionStep(s)) \/ OnCleared
SpecReady == InitWith(TRUE) /\ [][NextReady]_vars /\ Fairness

=============================================================================
