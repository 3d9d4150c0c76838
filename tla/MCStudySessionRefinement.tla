---------------------- MODULE MCStudySessionRefinement ----------------------
(***************************************************************************)
(* Sessions that follow one another on one deck of two notes.              *)
(***************************************************************************)
EXTENDS StudySessionRefinement, TLC

CONSTANTS n1, n2, d1

MCNote == {n1, n2}
MCSample == <<n2, n1>>
MCCards == d1 :> <<n1, n2>>

=============================================================================
