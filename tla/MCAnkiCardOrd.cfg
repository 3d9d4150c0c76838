\* A note with two cards: the second card's grade goes to the first.
SPECIFICATION Spec
CONSTANTS
  d1 = d1
  d2 = d2
  NoDeck = NoDeck
  c1 = c1
  c2 = c2
  c3 = c3
  c4 = c4
  c5 = c5
  n1 = n1
  n2 = n2
  n3 = n3
  n4 = n4
  n5 = n5
  m1 = m1
  m2 = m2
  Deck <- MCDeck
  Card <- MCCard
  Rows <- MCRows
  NoteOf <- ReversedNoteOf
  OrdOf <- ReversedOrdOf
  Blank <- MCBlank
  Sample <- MCSample
  SessionSize = 2
INVARIANT
  ReviewsShownCard
