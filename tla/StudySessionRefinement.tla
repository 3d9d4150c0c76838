----------------------- MODULE StudySessionRefinement -----------------------
(***************************************************************************)
(* A session of a ViewModel whose sessions do not overlap implements       *)
(* ReviewSession.  Watched is any one of them.                             *)
(***************************************************************************)
EXTENDS StudySession

CONSTANT Watched

ASSUME WatchedAssumption == Watched \in Session

Answered == answers[Watched]

\* The state of the watched session as its user sees it.
Status ==
  CASE pc[Watched] = "idle" -> "closed"
    [] pc[Watched] = "done" -> "finished"
    [] pc[Watched] = "cancelled" -> "abandoned"
    [] Active(Watched) /\ phase \notin {"running", "cleared"} -> "abandoned"
    [] OTHER -> IF pc[Watched] \in {"launched", "assign"} THEN "fetching" ELSE "reviewing"

Graded ==
  [i \in DOMAIN Answered |-> [note |-> Answered[i].note, ease |-> Answered[i].ease]]

Todo == SubSeq(plan[Watched], Len(Answered) + 1, Len(plan[Watched]))

FetchedLists ==
  {Take(list, size) : list \in UNION {Fetchable(d) : d \in Deck},
                      size \in SessionSize \cup {DefaultSize}}

Review == INSTANCE ReviewSession WITH
  Lists <- FetchedLists, status <- Status, todo <- Todo, graded <- Graded

\* A session fetches once, grades what it fetched in order and exactly once,
\* finishes only when nothing is left and, unless abandoned, does finish
\* (PodcastAgentViewModel.kt:94-166).
ImplementsReviewSession == Review!Spec

=============================================================================
