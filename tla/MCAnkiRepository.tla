-------------------------- MODULE MCAnkiRepository --------------------------
(***************************************************************************)
(* Two decks for AnkiRepository: one longer than a session with a blank    *)
(* card in it, one of a single card.                                       *)
(***************************************************************************)
EXTENDS AnkiRepository, TLC

CONSTANTS d1, d2, c1, c2, c3, c4, c5, n1, n2, n3, n4, n5, m1, m2

MCDeck == {d1, d2}
MCCard == {c1, c2, c3, c4, c5}
MCRows == d1 :> <<c1, c2, c3, c4>> @@ d2 :> <<c5>>
MCBlank == {c2}
MCSample == <<m1, m2>>

\* Every note has one card.
OneCardNoteOf == c1 :> n1 @@ c2 :> n2 @@ c3 :> n3 @@ c4 :> n4 @@ c5 :> n5
OneCardOrdOf == [c \in MCCard |-> 0]

\* c1 and c3 are the two cards of one note, a basic note with its reverse.
ReversedNoteOf == c1 :> n1 @@ c2 :> n2 @@ c3 :> n1 @@ c4 :> n4 @@ c5 :> n5
ReversedOrdOf == [c \in MCCard |-> IF c = c3 THEN 1 ELSE 0]

=============================================================================
