----------------------- MODULE AnkiRepositoryProofs -----------------------
(***************************************************************************)
(* Proofs about AnkiRepository, for any decks of any length and any session*)
(* size: a session reviews cards of its deck, none twice, and one that     *)
(* meets no failure reviews the first SessionSize of them.  They hold when *)
(* every note has one card (OneCardNotes), since answerCard names a card   *)
(* by its note; MCAnkiCardOrd shows what happens otherwise.                *)
(***************************************************************************)
EXTENDS AnkiRepository, FiniteSetTheorems, SequenceTheorems, TLAPS

OneCardNotes ==
  /\ \A c \in Card : OrdOf[c] = 0
  /\ \A c, e \in Card : NoteOf[c] = NoteOf[e] => c = e

SampleNote == {Sample[i] : i \in DOMAIN Sample}
AnkiNote == Card \cup SampleNote
Review == [shown : AnkiNote, card : Card]

TypeOK ==
  /\ collection \subseteq Card
  /\ pc \in {"closed", "query", "rows", "fallback", "study", "asked", "finished"}
  /\ pc # "closed" => deck \in Deck
  /\ pc = "rows" => rows \subseteq DOMAIN Rows[deck]
  /\ notes \in Seq(AnkiNote) /\ index \in Nat
  /\ reviewed \in Seq(Review)
  /\ failed \in BOOLEAN

-----------------------------------------------------------------------------
(* The inductive invariant: TypeOK and four parts.                         *)

\* The list holds cards of the deck with a question, in the deck's order, and the rows
\* to be read lie behind them.
InDeckOrder ==
  pc # "closed" =>
    /\ \A i \in DOMAIN notes : notes[i] \in Card =>
         \E n \in DOMAIN Rows[deck] : Question(n) /\ Rows[deck][n] = notes[i]
    /\ \A i, j \in DOMAIN notes : \A m, n \in DOMAIN Rows[deck] :
         notes[i] = Rows[deck][m] /\ notes[j] = Rows[deck][n] /\ i < j => m < n
    /\ pc = "rows" => \A i \in DOMAIN notes : \A m \in DOMAIN Rows[deck] : \A n \in rows :
         notes[i] = Rows[deck][m] => m < n

\* Before the list is complete nothing is reviewed.
Preparing ==
  /\ pc \in {"closed", "query"} => notes = <<>>
  /\ pc = "fallback" => rows = {}
  /\ pc \in {"closed", "query", "rows", "fallback"} =>
       notes \in Seq(Card) /\ reviewed = <<>> /\ index = 0

\* The place of a card with a question among those of its deck.
Rank(n) == Cardinality({m \in 1 .. n : Question(m)})

Listed(n) == \E i \in DOMAIN notes : notes[i] = Rows[deck][n]

\* No card is passed over: each is listed or still to be read, and the list that is
\* studied has all of the first SessionSize.
NothingMissed ==
  ~failed =>
    /\ pc \in {"rows", "fallback"} =>
         \A n \in DOMAIN Rows[deck] :
           Question(n) /\ Rows[deck][n] \in collection => n \in rows \/ Listed(n)
    /\ pc \in {"study", "asked", "finished"} =>
         \A n \in DOMAIN Rows[deck] :
           Question(n) /\ Rows[deck][n] \in collection /\ Rank(n) <= SessionSize => Listed(n)

\* What is reviewed are cards of the list up to the index, none twice, and all that
\* AnkiDroid still has unless a call failed.
ReviewsTheList ==
  /\ pc = "asked" => index < Len(notes)
  /\ pc = "finished" => index >= Len(notes)
  /\ \A k \in DOMAIN reviewed : \E i \in DOMAIN notes :
       i <= index /\ notes[i] = reviewed[k].card
  /\ \A k, l \in DOMAIN reviewed : reviewed[k].card = reviewed[l].card => k = l
  /\ ~failed => \A i \in DOMAIN notes :
       i <= index /\ notes[i] \in collection => \E k \in DOMAIN reviewed : reviewed[k].card = notes[i]

IInv == TypeOK /\ InDeckOrder /\ Preparing /\ NothingMissed /\ ReviewsTheList

-----------------------------------------------------------------------------
(* Facts about the list.                                                   *)

LEMMA SamplesAreNoCards == Card \cap SampleNote = {} /\ Sample \in Seq(SampleNote)
BY SampleAssumption DEF SampleNote

\* The rows of a deck are cards, and each has its own place.
LEMMA RowsOf ==
  ASSUME NEW d \in Deck
  PROVE  /\ Rows[d] \in Seq(Card)
         /\ \A m, n \in DOMAIN Rows[d] : Rows[d][m] = Rows[d][n] => m = n
BY RowsAssumption

\* A list in the deck's order has no more entries up to a card than the deck has cards
\* with a question: a card stands at its rank or before.
LEMMA ListedByRank ==
  ASSUME TypeOK, InDeckOrder, pc # "closed", notes \in Seq(Card),
         NEW i \in DOMAIN notes, NEW n \in DOMAIN Rows[deck], notes[i] = Rows[deck][n]
  PROVE  i <= Rank(n)
<1> DEFINE T == {m \in 1 .. n : Question(m)}
           place == [j \in 1 .. i |-> CHOOSE m \in DOMAIN Rows[deck] :
                                        Question(m) /\ Rows[deck][m] = notes[j]]
<1>1. /\ deck \in Deck /\ Rows[deck] \in Seq(Card)
      /\ i \in Nat /\ i \in 1 .. Len(notes) /\ n \in 1 .. Len(Rows[deck])
  BY RowsOf DEF TypeOK
<1>2. \A j \in 1 .. i : /\ place[j] \in DOMAIN Rows[deck] /\ Question(place[j])
                        /\ Rows[deck][place[j]] = notes[j]
  <2> SUFFICES ASSUME NEW j \in 1 .. i
               PROVE  \E m \in DOMAIN Rows[deck] : Question(m) /\ Rows[deck][m] = notes[j]
    OBVIOUS
  <2> QED
    BY <1>1 DEF InDeckOrder
<1> HIDE DEF place
<1>3. \A j, k \in 1 .. i : j < k => place[j] < place[k]
  <2> SUFFICES ASSUME NEW j \in 1 .. i, NEW k \in 1 .. i, j < k PROVE place[j] < place[k]
    OBVIOUS
  <2>1. j \in DOMAIN notes /\ k \in DOMAIN notes
    BY <1>1
  <2> QED
    BY <1>2, <2>1 DEF InDeckOrder
<1>4. place[i] = n
  BY <1>1, <1>2, RowsOf
<1>5. \A j \in 1 .. i : place[j] \in T
  <2> SUFFICES ASSUME NEW j \in 1 .. i PROVE place[j] \in 1 .. n
    BY <1>2
  <2>1. place[j] \in 1 .. Len(Rows[deck])
    BY <1>1, <1>2
  <2>2. j = i \/ place[j] < place[i]
    BY <1>1, <1>3
  <2> QED
    BY <1>1, <1>4, <2>1, <2>2
<1>6. /\ IsFiniteSet(1 .. i) /\ Cardinality(1 .. i) = i
      /\ IsFiniteSet(T) /\ Cardinality(T) \in Nat
  <2>1. IsFiniteSet(1 .. i) /\ Cardinality(1 .. i) = i /\ IsFiniteSet(1 .. n)
    BY <1>1, FS_Interval
  <2>2. IsFiniteSet(T)
    BY <2>1, FS_Subset
  <2> QED
    BY <2>1, <2>2, FS_CardinalityType
<1>7. place \in [1 .. i -> T]
  BY <1>5 DEF place
<1>8. ~(Cardinality(T) < i)
  <2> SUFFICES ASSUME Cardinality(T) < i PROVE FALSE
    OBVIOUS
  <2> HIDE DEF T
  <2>1. PICK j \in 1 .. i : \E k \in 1 .. i : j # k /\ place[j] = place[k]
    BY <1>6, <1>7, FS_PigeonHole
  <2> QED
    BY <1>2, <1>3, <2>1, <1>1
<1> QED
  BY <1>1, <1>6, <1>8 DEF Rank

\* Two entries of the list are two cards.
LEMMA ListedOnce ==
  ASSUME TypeOK, InDeckOrder, pc # "closed",
         NEW i \in DOMAIN notes, NEW j \in DOMAIN notes, notes[i] = notes[j], notes[i] \in Card
  PROVE  i = j
<1>1. PICK n \in DOMAIN Rows[deck] : Rows[deck][n] = notes[i]
  BY DEF InDeckOrder
<1>2. ~(i < j) /\ ~(j < i)
  BY <1>1, RowsOf DEF InDeckOrder, TypeOK
<1> QED
  BY <1>2 DEF TypeOK

-----------------------------------------------------------------------------
\* Every step of a collection whose notes have one card each keeps IInv.
LEMMA Invariance ==
  ASSUME OneCardNotes, IInv, [Next]_vars
  PROVE  IInv'
<1> USE DEF IInv
<1>1. ASSUME NEW d \in Deck, StartSession(d) PROVE IInv'
  <2>1. TypeOK'
    BY <1>1, EmptySeq DEF StartSession, Goto, TypeOK
  <2>2. InDeckOrder'
    BY <1>1 DEF StartSession, Goto, TypeOK, InDeckOrder, Question, Preparing
  <2>3. Preparing'
    BY <1>1 DEF StartSession, Goto, TypeOK, Preparing
  <2>4. NothingMissed'
    BY <1>1 DEF StartSession, Goto, TypeOK, NothingMissed, Listed, Rank, Question
  <2>5. ReviewsTheList'
    BY <1>1 DEF StartSession, Goto, TypeOK, Preparing, ReviewsTheList
  <2> QED
    BY <2>1, <2>2, <2>3, <2>4, <2>5
<1>2. CASE Query
  BY <1>2, RowsOf DEF Query, Goto, TypeOK, InDeckOrder, Preparing,
      NothingMissed, Listed, Rank, Question, ReviewsTheList
<1>3. CASE QueryFails
  BY <1>3, RowsOf DEF QueryFails, Goto, TypeOK, InDeckOrder, Preparing,
      NothingMissed, Listed, Rank, Question, ReviewsTheList
<1>4. ASSUME NEW n \in rows, AddRow(n) PROVE IInv'
  <2>1. /\ pc = "rows" /\ pc' = "rows" /\ deck \in Deck /\ n \in DOMAIN Rows[deck]
        /\ Rows[deck] \in Seq(Card) /\ Rows[deck][n] \in Card \ Blank
        /\ UNCHANGED <<collection, deck, index, reviewed, failed>>
        /\ notes \in Seq(Card) /\ notes' = Append(notes, Rows[deck][n])
        /\ rows' = rows \ {n} /\ \A m \in rows : n <= m
    BY <1>4, RowsOf DEF AddRow, ReadRow, Goto, TypeOK, Preparing
  <2>2. /\ notes' \in Seq(Card) /\ Len(notes') = Len(notes) + 1
        /\ notes'[Len(notes) + 1] = Rows[deck][n]
        /\ \A i \in 1 .. Len(notes) : notes'[i] = notes[i]
    BY <2>1, AppendProperties
  <2>3. TypeOK'
    BY <2>1, <2>2 DEF TypeOK, AnkiNote
  <2>4. InDeckOrder'
    BY <2>1, <2>2, RowsOf DEF InDeckOrder, Question, TypeOK
  <2>5. Preparing'
    BY <2>1, <2>2 DEF Preparing
  <2>6. NothingMissed'
    <3>1. \A m \in DOMAIN Rows[deck] : Listed(m) \/ m = n => Listed(m)'
      BY <2>1, <2>2 DEF Listed
    <3> QED
      BY <2>1, <3>1 DEF NothingMissed, Question
  <2>7. ReviewsTheList'
    BY <2>1, <2>2 DEF ReviewsTheList, Preparing
  <2> QED
    BY <2>3, <2>4, <2>5, <2>6, <2>7 DEF IInv
<1>5. ASSUME NEW n \in rows, SkipRow(n) PROVE IInv'
  BY <1>5, RowsOf DEF SkipRow, Goto, ReadRow, TypeOK, InDeckOrder, Preparing,
      NothingMissed, Listed, Rank, Question, ReviewsTheList
<1>6. CASE EndOfRows
  BY <1>6, RowsOf DEF EndOfRows, Goto, TypeOK, InDeckOrder, Preparing,
      NothingMissed, Listed, Rank, Question, ReviewsTheList
<1>7. CASE TakeNotes
  <2> DEFINE fetched == IF notes = <<>> THEN Sample ELSE notes
             k == IF SessionSize < Len(fetched) THEN SessionSize ELSE Len(fetched)
  <2>1. /\ pc = "fallback" /\ pc' = "study" /\ deck \in Deck /\ Rows[deck] \in Seq(Card)
        /\ UNCHANGED <<collection, deck, rows, index, reviewed, failed>>
        /\ notes \in Seq(Card) /\ rows = {} /\ index = 0 /\ reviewed = <<>>
    BY <1>7, RowsOf DEF TakeNotes, Goto, TypeOK, Preparing
  <2>2. notes' = SubSeq(fetched, 1, k)
    BY <1>7 DEF TakeNotes
  <2>3. /\ fetched \in Seq(AnkiNote) /\ k \in 0 .. Len(fetched)
        /\ k = SessionSize \/ k = Len(fetched)
    BY <2>1, SamplesAreNoCards, SizeAssumption DEF AnkiNote
  <2>4. /\ notes = <<>> => fetched \in Seq(SampleNote)
        /\ notes # <<>> => fetched = notes
    BY SamplesAreNoCards
  <2> HIDE DEF fetched, k
  <2>5. /\ notes' \in Seq(AnkiNote) /\ Len(notes') = k
        /\ \A i \in 1 .. k : notes'[i] = fetched[i] /\ i \in DOMAIN fetched
    BY <2>2, <2>3, SubSeqProperties
  <2>6. notes = <<>> => \A i \in 1 .. k : notes'[i] \notin Card
    BY <2>4, <2>5, SamplesAreNoCards
  <2>7. TypeOK'
    BY <2>1, <2>5 DEF TypeOK
  <2>8. InDeckOrder'
    <3>1. CASE notes = <<>>
      <4>1. \A m \in DOMAIN Rows[deck] : Rows[deck][m] \in Card
        BY <2>1
      <4> QED
        BY <3>1, <4>1, <2>1, <2>5, <2>6 DEF InDeckOrder
    <3>2. CASE notes # <<>>
      BY <3>2, <2>1, <2>3, <2>4, <2>5, SMTT(30) DEF InDeckOrder, Question
    <3> QED
      BY <3>1, <3>2
  <2>9. Preparing'
    BY <2>1 DEF Preparing
  <2>10. NothingMissed'
    <3> SUFFICES ASSUME ~failed, NEW n \in DOMAIN Rows[deck], Question(n),
                        Rows[deck][n] \in collection, Rank(n) <= SessionSize
                 PROVE  \E i \in DOMAIN notes' : notes'[i] = Rows[deck][n]
      BY <2>1 DEF NothingMissed, Listed, Rank, Question
    <3>1. PICK i \in DOMAIN notes : notes[i] = Rows[deck][n]
      BY <2>1 DEF NothingMissed, Listed
    <3>2. i <= Rank(n)
      BY <2>1, <3>1, ListedByRank
    <3>3. notes # <<>> /\ fetched = notes /\ i \in 1 .. Len(notes)
      BY <2>1, <2>4, <3>1
    <3>4. i <= k
      <4>1. Rank(n) \in Nat
        <5>1. n \in Nat
          BY <2>1
        <5>2. IsFiniteSet(1 .. n)
          BY <5>1, FS_Interval
        <5>3. IsFiniteSet({m \in 1 .. n : Question(m)})
          BY <5>2, FS_Subset
        <5> QED
          BY <5>3, FS_CardinalityType DEF Rank
      <4> QED
        BY <2>3, <3>2, <3>3, <4>1, SizeAssumption
    <3> QED
      BY <2>5, <3>1, <3>3, <3>4
  <2>11. ReviewsTheList'
    BY <2>1, <2>5 DEF ReviewsTheList
  <2> QED
    BY <2>7, <2>8, <2>9, <2>10, <2>11 DEF IInv
<1>8. CASE Ask
  BY <1>8, RowsOf DEF Ask, Goto, TypeOK, InDeckOrder, Preparing,
      NothingMissed, Listed, Rank, Question, ReviewsTheList
<1>9. CASE AnswerCard
  <2>1. /\ pc = "asked" /\ pc' = "study" /\ deck \in Deck /\ index' = index + 1
        /\ UNCHANGED <<collection, deck, rows, notes, failed>>
        /\ index \in Nat /\ index + 1 \in DOMAIN notes
    BY <1>9 DEF AnswerCard, Goto, TypeOK, ReviewsTheList
  <2>2. \A c \in Card : Reviews(c) => c = notes[index + 1] /\ c \in collection
    BY DEF Reviews, Shown, OneCardNotes
  <2>3. notes[index + 1] \in collection => Reviews(notes[index + 1])
    BY <2>1 DEF Reviews, Shown, OneCardNotes, TypeOK
  <2>4. TypeOK' /\ ReviewsTheList'
    <3>1. CASE notes[index + 1] \notin collection
      <4>1. reviewed' = reviewed
        BY <1>9, <2>2, <3>1 DEF AnswerCard
      <4> QED
        BY <2>1, <3>1, <4>1 DEF TypeOK, ReviewsTheList
    <3>2. CASE notes[index + 1] \in collection
      <4> DEFINE review == [shown |-> notes[index + 1], card |-> notes[index + 1]]
      <4>1. review \in Review /\ review.card = notes[index + 1]
        BY <2>1, <3>2 DEF Review, TypeOK
      <4>2. reviewed' = Append(reviewed, review)
        BY <1>9, <2>2, <2>3, <3>2 DEF AnswerCard, Shown, TypeOK
      <4> HIDE DEF review
      <4>3. /\ reviewed' \in Seq(Review) /\ Len(reviewed') = Len(reviewed) + 1
            /\ \A k \in 1 .. Len(reviewed) : reviewed'[k] = reviewed[k]
            /\ reviewed'[Len(reviewed) + 1] = review
        BY <4>1, <4>2, AppendProperties DEF TypeOK
      <4>4. TypeOK'
        BY <2>1, <4>3 DEF TypeOK
      <4>5. \A k \in DOMAIN reviewed : reviewed[k].card # notes[index + 1]
        BY <2>1, <3>2, ListedOnce DEF ReviewsTheList, TypeOK
      <4>6. ReviewsTheList'
        <5>1. \A k \in DOMAIN reviewed' : \E i \in DOMAIN notes :
                i <= index' /\ notes[i] = reviewed'[k].card
          BY <2>1, <4>1, <4>3 DEF ReviewsTheList, TypeOK
        <5>2. \A k, l \in DOMAIN reviewed' : reviewed'[k].card = reviewed'[l].card => k = l
          <6>1. \A k \in DOMAIN reviewed' :
                  \/ k \in DOMAIN reviewed /\ reviewed'[k] = reviewed[k]
                  \/ k = Len(reviewed) + 1 /\ reviewed'[k] = review
            BY <4>3 DEF TypeOK
          <6> QED
            BY <4>1, <4>5, <6>1 DEF ReviewsTheList
        <5>3. ~failed => \A i \in DOMAIN notes : i <= index' /\ notes[i] \in collection =>
                           \E k \in DOMAIN reviewed' : reviewed'[k].card = notes[i]
          <6> SUFFICES ASSUME ~failed, NEW i \in DOMAIN notes, i <= index + 1,
                              notes[i] \in collection
                       PROVE  \E k \in DOMAIN reviewed' : reviewed'[k].card = notes[i]
            BY <2>1
          <6>1. CASE i = index + 1
            <7>1. Len(reviewed) + 1 \in DOMAIN reviewed'
              BY <4>3 DEF TypeOK
            <7> QED
              BY <4>1, <4>3, <6>1, <7>1
          <6>2. CASE i <= index
            <7>1. PICK k \in DOMAIN reviewed : reviewed[k].card = notes[i]
              BY <6>2 DEF ReviewsTheList
            <7> QED
              BY <4>3, <7>1 DEF TypeOK
          <6> QED
            BY <2>1, <6>1, <6>2 DEF TypeOK
        <5> QED
          BY <2>1, <5>1, <5>2, <5>3 DEF ReviewsTheList
      <4> QED
        BY <4>4, <4>6
    <3> QED
      BY <3>1, <3>2
  <2>5. InDeckOrder' /\ Preparing' /\ NothingMissed'
    BY <2>1 DEF InDeckOrder, Preparing, NothingMissed, Listed, Rank, Question
  <2> QED
    BY <2>4, <2>5 DEF IInv
<1>10. CASE AnswerFails
  BY <1>10, RowsOf DEF AnswerFails, Goto, TypeOK, InDeckOrder, Preparing,
      NothingMissed, Listed, Rank, Question, ReviewsTheList
<1>11. CASE Finish
  <2>1. TypeOK'
    BY <1>11 DEF Finish, Goto, TypeOK
  <2>2. InDeckOrder'
    BY <1>11 DEF Finish, Goto, TypeOK, InDeckOrder, Question, Preparing
  <2>3. Preparing'
    BY <1>11 DEF Finish, Goto, TypeOK, Preparing
  <2>4. NothingMissed'
    BY <1>11 DEF Finish, Goto, TypeOK, NothingMissed, Listed, Rank, Question
  <2>5. ReviewsTheList'
    BY <1>11 DEF Finish, Goto, TypeOK, Preparing, ReviewsTheList
  <2> QED
    BY <2>1, <2>2, <2>3, <2>4, <2>5
<1>12. CASE Kill
  <2>1. TypeOK'
    BY <1>12, EmptySeq DEF Kill, Goto, TypeOK
  <2>2. InDeckOrder'
    BY <1>12 DEF Kill, Goto, TypeOK, InDeckOrder, Question, Preparing
  <2>3. Preparing'
    BY <1>12 DEF Kill, Goto, TypeOK, Preparing
  <2>4. NothingMissed'
    BY <1>12 DEF Kill, Goto, TypeOK, NothingMissed, Listed, Rank, Question
  <2>5. ReviewsTheList'
    BY <1>12 DEF Kill, Goto, TypeOK, Preparing, ReviewsTheList
  <2> QED
    BY <2>1, <2>2, <2>3, <2>4, <2>5
<1>13. ASSUME NEW c \in Card, DeleteCard(c) PROVE IInv'
  <2>1. TypeOK'
    BY <1>13 DEF DeleteCard, Goto, TypeOK
  <2>2. InDeckOrder'
    BY <1>13 DEF DeleteCard, Goto, TypeOK, InDeckOrder, Question, Preparing
  <2>3. Preparing'
    BY <1>13 DEF DeleteCard, Goto, TypeOK, Preparing
  <2>4. NothingMissed'
    BY <1>13 DEF DeleteCard, Goto, TypeOK, NothingMissed, Listed, Rank, Question
  <2>5. ReviewsTheList'
    BY <1>13 DEF DeleteCard, Goto, TypeOK, Preparing, ReviewsTheList
  <2> QED
    BY <2>1, <2>2, <2>3, <2>4, <2>5
<1>14. CASE UNCHANGED vars
  <2>1. TypeOK'
    BY <1>14 DEF vars, TypeOK
  <2>2. InDeckOrder'
    BY <1>14 DEF vars, TypeOK, InDeckOrder, Question, Preparing
  <2>3. Preparing'
    BY <1>14 DEF vars, TypeOK, Preparing
  <2>4. NothingMissed'
    BY <1>14 DEF vars, TypeOK, NothingMissed, Listed, Rank, Question
  <2>5. ReviewsTheList'
    BY <1>14 DEF vars, TypeOK, Preparing, ReviewsTheList
  <2> QED
    BY <2>1, <2>2, <2>3, <2>4, <2>5
<1> QED
  BY <1>1, <1>2, <1>3, <1>4, <1>5, <1>6, <1>7, <1>8, <1>9, <1>10, <1>11, <1>12, <1>13, <1>14 DEF Next, Start, Working, Fetching, Failing

-----------------------------------------------------------------------------
\* The list, its place in the deck and the reviews stay in step whatever AnkiDroid does
\* (AnkiRepository.kt:33-99, PodcastAgentViewModel.kt:94-166).
THEOREM RepositoryInvariant ==
  ASSUME OneCardNotes
  PROVE  Spec => []IInv
<1>1. Init => IInv
  <2> SUFFICES ASSUME Init PROVE IInv
    OBVIOUS
  <2>1. TypeOK
    BY EmptySeq DEF Init, TypeOK
  <2>2. InDeckOrder /\ Preparing /\ NothingMissed
    BY EmptySeq DEF Init, InDeckOrder, Preparing, NothingMissed
  <2>3. ReviewsTheList
    BY DEF Init, ReviewsTheList
  <2> QED
    BY <2>1, <2>2, <2>3 DEF IInv
<1>2. IInv /\ [Next]_vars => IInv'
  BY Invariance
<1> QED
  BY <1>1, <1>2, PTL DEF Spec

\* Of decks of any length only cards of the selected one that have a question are
\* reviewed, and none twice (AnkiRepository.kt:37-69, 86-94,
\* PodcastAgentViewModel.kt:161-162).
THEOREM OnlyTheDeckIsReviewed ==
  ASSUME OneCardNotes
  PROVE  Spec => []ReviewsTheDeck
<1>1. IInv => ReviewsTheDeck
  <2> SUFFICES ASSUME IInv PROVE ReviewsTheDeck
    OBVIOUS
  <2>1. ASSUME NEW k \in DOMAIN reviewed
        PROVE  \E n \in DOMAIN Rows[deck] : Question(n) /\ Rows[deck][n] = reviewed[k].card
    <3>1. reviewed[k].card \in Card
      <4>1. reviewed[k] \in Review
        BY DEF IInv, TypeOK
      <4> QED
        BY <4>1 DEF Review
    <3>2. PICK i \in DOMAIN notes : notes[i] = reviewed[k].card
      BY DEF IInv, ReviewsTheList
    <3>3. pc # "closed"
      BY DEF IInv, Preparing
    <3> QED
      BY <3>1, <3>2, <3>3 DEF IInv, InDeckOrder
  <2>2. \A k, l \in DOMAIN reviewed : reviewed[k].card = reviewed[l].card => k = l
    BY DEF IInv, ReviewsTheList
  <2> QED
    BY <2>1, <2>2 DEF ReviewsTheDeck
<1> QED
  BY <1>1, RepositoryInvariant, PTL

\* A session of any length that met no failure has reviewed the first SessionSize cards
\* with a question, those deleted meanwhile excepted (AnkiRepository.kt:50-70,
\* PodcastAgentViewModel.kt:104, 116-165).
THEOREM TheDeckIsCovered ==
  ASSUME OneCardNotes
  PROVE  Spec => []FinishedCoversDeck
<1>1. IInv => FinishedCoversDeck
  <2> SUFFICES ASSUME IInv, pc = "finished", ~failed, NEW n \in DOMAIN Rows[deck],
                      Question(n), Rows[deck][n] \in collection, Rank(n) <= SessionSize
               PROVE  \E k \in DOMAIN reviewed : reviewed[k].card = Rows[deck][n]
    BY DEF FinishedCoversDeck, Rank
  <2>1. PICK i \in DOMAIN notes : notes[i] = Rows[deck][n]
    BY DEF IInv, NothingMissed, Listed
  <2>2. i <= index
    BY DEF IInv, TypeOK, ReviewsTheList
  <2> QED
    BY <2>1, <2>2 DEF IInv, ReviewsTheList
<1> QED
  BY <1>1, RepositoryInvariant, PTL

=============================================================================
