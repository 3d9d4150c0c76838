--------------------------- MODULE AnkiRepository ---------------------------
(***************************************************************************)
(* AnkiRepository between a study session and AnkiDroid's content provider.*)
(*                                                                         *)
(* getDueCards walks through the cards of one deck, answerCard reports a   *)
(* grade; both swallow every exception.  A card stands for the AnkiNote    *)
(* made of its row: the note's id with this card's question and answer.    *)
(* One session runs at a time (StudySession has those that overlap).       *)
(* AnkiDroid loses cards while a session runs, fails, or is not there, and *)
(* the app can be killed between any two steps.                            *)
(***************************************************************************)
EXTENDS Naturals, Sequences, FiniteSets

CONSTANTS
  Deck, NoDeck,
  Card,
  Rows,         \* Rows[d]: the cards of deck d in the provider's order
  NoteOf,       \* NoteOf[c]: the note card c belongs to
  OrdOf,        \* OrdOf[c]: its ordinal among the cards of that note
  Blank,        \* cards whose question is empty once its HTML is removed
  Sample,       \* the two notes that stand in for an empty result
  SessionSize   \* the number of cards configured

\* A deck lists each of its cards once; the samples are no cards of AnkiDroid's.
ASSUME RowsAssumption ==
  /\ Rows \in [Deck -> Seq(Card)]
  /\ \A d \in Deck : \A m, n \in DOMAIN Rows[d] : Rows[d][m] = Rows[d][n] => m = n
ASSUME SampleAssumption ==
  LET ids == {Sample[i] : i \in DOMAIN Sample}
  IN  Sample \in Seq(ids) /\ ids \cap Card = {}
ASSUME SizeAssumption == SessionSize \in Nat \ {0}

VARIABLES
  collection,   \* the cards AnkiDroid has
  pc,           \* where the session is
  deck,         \* the deck it studies
  rows,         \* the cursor: the places, in Rows[deck], of the rows not read yet
  notes,        \* getDueCards' list, then dueNotes
  index,        \* currentIndex
  reviewed,     \* history: per recorded review of this session, the card shown and the card reviewed
  failed        \* history: a provider call of this session failed

vars == <<collection, pc, deck, rows, notes, index, reviewed, failed>>

Init ==
  /\ collection = Card
  /\ pc = "closed" /\ deck = NoDeck
  /\ rows = {} /\ notes = <<>> /\ index = 0
  /\ reviewed = <<>> /\ failed = FALSE

Goto(from, to) == pc = from /\ pc' = to

-----------------------------------------------------------------------------
(* getDueCards.                                                            *)

StartSession(d) ==
  /\ \E from \in {"closed", "finished"} : Goto(from, "query")
  /\ deck' = d
  /\ notes' = <<>> /\ index' = 0
  /\ reviewed' = <<>> /\ failed' = FALSE
  /\ UNCHANGED <<collection, rows>>

\* DECK_ID = ?: every card of the deck, due or not.
Query ==
  /\ Goto("query", "rows")
  /\ rows' = {n \in DOMAIN Rows[deck] : Rows[deck][n] \in collection}
  /\ UNCHANGED <<collection, deck, notes, index, reviewed, failed>>

\* The provider is absent, lacks a column, or throws, at once or between two rows.
QueryFails ==
  /\ \E from \in {"query", "rows"} : Goto(from, "fallback")
  /\ failed' = TRUE
  /\ rows' = {}
  /\ UNCHANGED <<collection, deck, notes, index, reviewed>>

\* moveToNext.
ReadRow(n) ==
  /\ n \in rows /\ \A m \in rows : n <= m
  /\ Goto("rows", "rows")
  /\ rows' = rows \ {n}
  /\ UNCHANGED <<collection, deck, index, reviewed, failed>>

AddRow(n) ==
  /\ ReadRow(n)
  /\ Rows[deck][n] \notin Blank
  /\ notes' = Append(notes, Rows[deck][n])

\* Mutant: a card without a question ends the list.
SkipRowEnds(n) ==
  /\ n \in rows /\ Rows[deck][n] \in Blank
  /\ Goto("rows", "fallback")
  /\ rows' = {}
  /\ UNCHANGED <<collection, deck, notes, index, reviewed, failed>>

SkipRow(n) ==
  /\ ReadRow(n)
  /\ Rows[deck][n] \in Blank
  /\ UNCHANGED notes

EndOfRows ==
  /\ rows = {}
  /\ Goto("rows", "fallback")
  /\ UNCHANGED <<collection, deck, rows, notes, index, reviewed, failed>>

\* An empty list becomes the samples; startSession takes sessionSize of it.
TakeNotes ==
  /\ Goto("fallback", "study")
  /\ LET fetched == IF notes = <<>> THEN Sample ELSE notes
     IN  notes' = SubSeq(fetched, 1, IF SessionSize < Len(fetched) THEN SessionSize ELSE Len(fetched))
  /\ UNCHANGED <<collection, deck, rows, index, reviewed, failed>>

-----------------------------------------------------------------------------
(* studyLoop and answerCard.                                               *)

Ask ==
  /\ index < Len(notes)
  /\ Goto("study", "asked")
  /\ UNCHANGED <<collection, deck, rows, notes, index, reviewed, failed>>

Shown == notes[index + 1]

\* The card AnkiDroid reviews is named by the note's id and CARD_ORD, always 0.
Reviews(c) == /\ Shown \in Card
              /\ c \in collection
              /\ NoteOf[c] = NoteOf[Shown] /\ OrdOf[c] = 0

\* Mutant: the loop stays at the card it has just answered.
AnswerCardStays ==
  /\ Goto("asked", "study")
  /\ \E c \in Card : Reviews(c) /\ reviewed' = Append(reviewed, [shown |-> Shown, card |-> c])
  /\ UNCHANGED <<collection, deck, rows, notes, index, failed>>

\* A note AnkiDroid does not have, a sample or a card removed meanwhile, is
\* refused, and the refusal is swallowed.
AnswerCard ==
  /\ Goto("asked", "study")
  /\ \/ \E c \in Card : Reviews(c) /\ reviewed' = Append(reviewed, [shown |-> Shown, card |-> c])
     \/ ~(\E c \in Card : Reviews(c)) /\ UNCHANGED reviewed
  /\ index' = index + 1
  /\ UNCHANGED <<collection, deck, rows, notes, failed>>

\* Mutant: a failed answer is tried again.
AnswerFailsRetries ==
  /\ Goto("asked", "study")
  /\ failed' = TRUE
  /\ UNCHANGED <<collection, deck, rows, notes, index, reviewed>>

\* The provider throws: the grade is lost, the loop moves on.
AnswerFails ==
  /\ Goto("asked", "study")
  /\ failed' = TRUE
  /\ index' = index + 1
  /\ UNCHANGED <<collection, deck, rows, notes, reviewed>>

Finish ==
  /\ index >= Len(notes)
  /\ Goto("study", "finished")
  /\ UNCHANGED <<collection, deck, rows, notes, index, reviewed, failed>>

-----------------------------------------------------------------------------
\* The user deletes a card in AnkiDroid.
DeleteCard(c) ==
  /\ c \in collection
  /\ collection' = collection \ {c}
  /\ UNCHANGED <<pc, deck, rows, notes, index, reviewed, failed>>

\* The app dies; what it knew of its session is gone.
Kill ==
  /\ pc \notin {"closed", "finished"}
  /\ pc' = "closed"
  /\ deck' = NoDeck /\ rows' = {} /\ notes' = <<>> /\ index' = 0
  /\ reviewed' = <<>> /\ failed' = FALSE
  /\ UNCHANGED collection

Fetching == Query \/ (\E n \in rows : AddRow(n) \/ SkipRow(n)) \/ EndOfRows \/ TakeNotes
Working == Fetching \/ Ask \/ AnswerCard \/ Finish
Failing == QueryFails \/ AnswerFails
Start == \E d \in Deck : StartSession(d)

Next == Start \/ Working \/ Failing \/ Kill \/ (\E c \in Card : DeleteCard(c))

\* Every call of the provider returns or throws.
Spec == Init /\ [][Next]_vars /\ WF_vars(Working \/ Failing)

-----------------------------------------------------------------------------
Question(n) == n \in DOMAIN Rows[deck] /\ Rows[deck][n] \notin Blank

\* Notes with one card each: only cards of the selected deck that have a question
\* are reviewed, none twice, whatever fails or is removed meanwhile
\* (AnkiRepository.kt:37-69, 86-94, PodcastAgentViewModel.kt:161-162).
ReviewsTheDeck ==
  /\ \A i \in DOMAIN reviewed :
       \E n \in DOMAIN Rows[deck] : Question(n) /\ Rows[deck][n] = reviewed[i].card
  /\ \A i, j \in DOMAIN reviewed : reviewed[i].card = reviewed[j].card => i = j

\* A session that finished without a failed call has reviewed the deck's first
\* SessionSize cards with a question, those deleted meanwhile excepted
\* (AnkiRepository.kt:50-70, PodcastAgentViewModel.kt:104, 116-165).
FinishedCoversDeck ==
  pc = "finished" /\ ~failed =>
    \A n \in DOMAIN Rows[deck] :
      /\ Question(n) /\ Rows[deck][n] \in collection
      /\ Cardinality({m \in 1 .. n : Question(m)}) <= SessionSize
      => \E i \in DOMAIN reviewed : reviewed[i].card = Rows[deck][n]

\* A session ends although every call of the provider may fail
\* (AnkiRepository.kt:71-73, 96-98).
FailuresDoNotHang == pc = "query" ~> pc \in {"finished", "closed"}

\* The card AnkiDroid reviews is the card whose question was put to the user
\* (FlashCardsContract.kt:741, AnkiRepository.kt:90).
ReviewsShownCard == \A i \in DOMAIN reviewed : reviewed[i].card = reviewed[i].shown

=============================================================================
