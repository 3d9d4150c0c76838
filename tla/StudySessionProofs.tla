------------------------- MODULE StudySessionProofs -------------------------
(***************************************************************************)
(* Theorems about StudySession for every set of sessions, decks and notes, *)
(* every content of the collection and every configured size.              *)
(***************************************************************************)
EXTENDS StudySessionRefinement, FiniteSetTheorems, SequenceTheorems, TLAPS

-----------------------------------------------------------------------------
(* The rule from words to ease.                                            *)

\* The grade each fragment stands for by itself.
GradeOf(fragment) ==
  IF fragment = "easy" THEN 4
  ELSE IF fragment \in {"good", "fine"} THEN 3
  ELSE IF fragment = "hard" THEN 2
  ELSE 1

\* What reaches AnkiDroid is one of its four eases (PodcastAgentViewModel.kt:153-161).
THEOREM EaseIsAnEase == ASSUME NEW text PROVE Ease(text) \in EaseValue
BY DEF Ease, EaseValue

\* Of all the commands a reply contains the most favourable one counts: a
\* correction such as "good, no, again" is recorded as Good
\* (PodcastAgentViewModel.kt:153-159).
THEOREM BestGradeWins ==
  ASSUME NEW text, text \cap Command # {}
  PROVE  /\ \A fragment \in text \cap Command : GradeOf(fragment) <= Ease(text)
         /\ \E fragment \in text \cap Command : GradeOf(fragment) = Ease(text)
<1>1. ASSUME NEW fragment \in text \cap Command
      PROVE  GradeOf(fragment) <= Ease(text)
  <2>1. CASE fragment = "easy"
    BY <1>1, <2>1 DEF GradeOf, Ease
  <2>2. CASE fragment \in {"good", "fine"}
    <3>1. text \cap {"good", "fine"} # {}
      BY <1>1, <2>2
    <3> QED
      BY <2>2, <3>1 DEF GradeOf, Ease
  <2>3. CASE fragment = "hard"
    BY <1>1, <2>3 DEF GradeOf, Ease
  <2>4. CASE fragment \in {"again", "don't know"}
    <3>1. Ease(text) \in EaseValue
      BY EaseIsAnEase
    <3>2. GradeOf(fragment) = 1
      BY <2>4 DEF GradeOf
    <3> QED
      BY <3>1, <3>2 DEF EaseValue
  <2> QED
    BY <1>1, <2>1, <2>2, <2>3, <2>4 DEF Command
<1>2. \E fragment \in text \cap Command : GradeOf(fragment) = Ease(text)
  <2>1. CASE "easy" \in text
    BY <2>1 DEF GradeOf, Ease, Command
  <2>2. CASE "easy" \notin text /\ text \cap {"good", "fine"} # {}
    BY <2>2 DEF GradeOf, Ease, Command
  <2>3. CASE "easy" \notin text /\ text \cap {"good", "fine"} = {} /\ "hard" \in text
    BY <2>3 DEF GradeOf, Ease, Command
  <2>4. CASE /\ "easy" \notin text /\ text \cap {"good", "fine"} = {} /\ "hard" \notin text
             /\ text \cap {"again", "don't know"} # {}
    BY <2>4 DEF GradeOf, Ease, Command
  <2>5. CASE /\ "easy" \notin text /\ text \cap {"good", "fine"} = {} /\ "hard" \notin text
             /\ text \cap {"again", "don't know"} = {}
    BY <2>5 DEF Command
  <2> QED
    BY <2>1, <2>2, <2>3, <2>4, <2>5
<1> QED
  BY <1>1, <1>2

\* A reply in which no command is heard is recorded as Good, never as Hard, Again
\* or Easy (PodcastAgentViewModel.kt:158).
THEOREM UnheardIsGood ==
  ASSUME NEW text, text \cap Command = {} PROVE Ease(text) = 3
BY DEF Ease, Command

-----------------------------------------------------------------------------
(* The operators of the session.                                           *)

\* take(n) of a list of notes is a list of notes, and empty only when the list is.
LEMMA TakeType ==
  ASSUME NEW list \in Seq(Note), NEW n \in Nat
  PROVE  Take(list, n) \in Seq(Note)
<1> DEFINE k == IF n < Len(list) THEN n ELSE Len(list)
<1>1. k \in Nat /\ k <= Len(list)
  OBVIOUS
<1>2. \A i \in 1 .. k : list[i] \in Note
  BY <1>1
<1>3. SubSeq(list, 1, k) \in Seq(Note)
  BY <1>1, <1>2, SubSeqProperties
<1> QED
  BY <1>3 DEF Take

\* Whatever a query returns is a list of notes.
LEMMA FetchableType ==
  ASSUME NEW d \in Deck
  PROVE  Fetchable(d) \subseteq Seq(Note)
<1>1. Cards[d] \in Seq(Note)
  BY CardsAssumption
<1>2. ASSUME NEW k \in 0 .. Len(Cards[d])
      PROVE  SubSeq(Cards[d], 1, k) \in Seq(Note)
  <2>1. \A i \in 1 .. k : Cards[d][i] \in Note
    BY <1>1
  <2> QED
    BY <1>1, <2>1, SubSeqProperties
<1> QED
  BY <1>2, SampleAssumption DEF Fetchable

-----------------------------------------------------------------------------
\* A new ViewModel satisfies the invariant (PodcastAgentViewModel.kt:25-39).
LEMMA InitIInv == Init => IInv
<1> SUFFICES ASSUME Init PROVE IInv
  OBVIOUS
<1> USE DEF Init, InitWith
<1>1. uiState \in UiState
  BY DEF UiState, UiKind, Ui
<1>2. /\ dueNotes \in Seq(Note)
      /\ answers \in [Session -> Seq(Answer)]
      /\ allNotes \in [Session -> Seq(Note)]
      /\ plan \in [Session -> Seq(Note)]
  OBVIOUS
<1>3. /\ pc \in [Session -> Control]
      /\ deck \in [Session -> Deck \cup {NoDeck}]
      /\ note \in [Session -> Note \cup {NoNote}]
      /\ asked \in [Session -> Note \cup {NoNote}]
      /\ heard \in [Session -> SUBSET Command]
      /\ readIndex \in [Session -> Nat]
      /\ currentIndex \in Nat
  BY DEF Control, Stopped
<1>4. /\ initPc \in [InitJob -> {"idle", "launched", "models", "whisper", "piper", "done"}]
      /\ wError \in [InitJob -> BOOLEAN]
      /\ whisperReady \in BOOLEAN
  OBVIOUS
<1>5. /\ sessionSize \in Nat \ {0}
      /\ phase \in {"running", "cleared", "indexFault", "recorderFault"}
  BY SizeAssumption
<1>6. NoteHeld
  BY DEF NoteHeld, Holding
<1> QED
  BY <1>1, <1>2, <1>3, <1>4, <1>5, <1>6 DEF IInv, TypeOK

\* startSession keeps the invariant (PodcastAgentViewModel.kt:94-101).
LEMMA StartIInv ==
  ASSUME IInv, NEW s \in Session, NEW d \in Deck, StartSession(s, d)
  PROVE  IInv'
BY DEF StartSession, IInv, TypeOK, NoteHeld, Holding, Control, InLoop, Stopped,
       initVars, historyVars

\* So do the other main-thread handlers (PodcastAgentViewModel.kt:74-78, 168-172).
LEMMA MainIInv ==
  ASSUME IInv,
         \/ \E size \in SessionSize : ConfigureSession(size)
         \/ \E j \in InitJob : RetryInit(j)
         \/ OnCleared
  PROVE  IInv'
<1>1. CASE \E size \in SessionSize : ConfigureSession(size)
  BY <1>1, SizeAssumption
  DEF ConfigureSession, IInv, TypeOK, NoteHeld, UiState, UiKind, Ui, sharedVars,
      localVars, initVars, historyVars
<1>2. CASE \E j \in InitJob : RetryInit(j)
  BY <1>2 DEF RetryInit, IInv, TypeOK, NoteHeld, sharedVars, localVars, historyVars
<1>3. CASE OnCleared
  BY <1>3 DEF OnCleared, IInv, TypeOK, NoteHeld, sharedVars, localVars, initVars,
              historyVars
<1> QED
  BY <1>1, <1>2, <1>3

\* So does every step of initializeEngines (PodcastAgentViewModel.kt:41-72).
LEMMA InitStepIInv ==
  ASSUME IInv, NEW j \in InitJob, InitStep(j)
  PROVE  IInv'
<1> USE DEF IInv, TypeOK, NoteHeld, InitGoto, sharedVars, localVars, historyVars
<1>1. CASE BeginInit(j)
  BY <1>1, AbsenceAssumption DEF BeginInit, UiState, UiKind, Ui
<1>2. CASE ModelsFound(j)
  BY <1>2, AbsenceAssumption DEF ModelsFound, UiState, UiKind, Ui
<1>3. CASE ModelsMissing(j)
  BY <1>3, AbsenceAssumption DEF ModelsMissing, UiState, UiKind, Ui
<1>4. CASE InitWhisper(j)
  BY <1>4, AbsenceAssumption DEF InitWhisper, UiState, UiKind, Ui
<1>5. CASE InitPiper(j)
  BY <1>5, AbsenceAssumption DEF InitPiper, UiState, UiKind, Ui
<1>6. CASE CancelInit(j)
  BY <1>6, AbsenceAssumption DEF CancelInit
<1> QED
  BY <1>1, <1>2, <1>3, <1>4, <1>5, <1>6 DEF InitStep

\* So does every step of a session (PodcastAgentViewModel.kt:101-166).
LEMMA SessionStepIInv ==
  ASSUME IInv, NEW s \in Session, SessionStep(s)
  PROVE  IInv'
<1> USE DEF IInv, TypeOK, NoteHeld, Goto, Control, InLoop, Stopped, Holding,
            sharedVars, localVars, initVars, historyVars
<1>1. CASE Fetch(s)
  BY <1>1, FetchableType DEF Fetch, UiState, UiKind, Ui
<1>2. CASE AssignNotes(s)
  BY <1>2, TakeType DEF AssignNotes
<1>3. CASE ResetIndex(s)
  BY <1>3 DEF ResetIndex
<1>4. CASE CheckNotEmpty(s)
  BY <1>4 DEF CheckNotEmpty
<1>5. CASE TestIndex(s)
  BY <1>5 DEF TestIndex
<1>6. CASE TakeNote(s)
  BY <1>6 DEF TakeNote
<1>7. CASE IndexFault(s)
  BY <1>7 DEF IndexFault
<1>8. CASE AskQuestion(s)
  BY <1>8 DEF AskQuestion, UiState, UiKind, Speaking
<1>9. CASE ListenForAnswer(s)
  BY <1>9 DEF ListenForAnswer, UiState, UiKind, Ui
<1>10. CASE StopListening(s)
  BY <1>10 DEF StopListening
<1>11. CASE RecorderFault(s)
  BY <1>11 DEF RecorderFault
<1>12. CASE Reveal(s)
  BY <1>12 DEF Reveal, UiState, UiKind, Ui
<1>13. CASE SpeakAnswer(s)
  BY <1>13 DEF SpeakAnswer, UiState, UiKind, Speaking
<1>14. CASE ListenForGrade(s)
  BY <1>14 DEF ListenForGrade, UiState, UiKind, Ui
<1>15. CASE HearGrade(s)
  BY <1>15, HeardAssumption DEF HearGrade, UiState, UiKind, Ui
<1>16. CASE AnswerCard(s)
  <2> DEFINE grade == [note |-> note[s], ease |-> Ease(heard[s]), late |-> phase = "cleared"]
  <2>1. grade \in Answer
    BY <1>16, EaseIsAnEase DEF AnswerCard, Answer
  <2>2. answers' = [answers EXCEPT ![s] = Append(@, grade)]
    BY <1>16 DEF AnswerCard
  <2>3. answers' \in [Session -> Seq(Answer)]
    <3> HIDE DEF grade
    <3> QED
      BY <2>1, <2>2
  <2> QED
    BY <1>16, <2>3 DEF AnswerCard
<1>17. CASE ReadIndex(s)
  BY <1>17 DEF ReadIndex
<1>18. CASE StoreIndex(s)
  BY <1>18 DEF StoreIndex
<1>19. CASE Finish(s)
  BY <1>19 DEF Finish, UiState, UiKind, Ui
<1>20. CASE Cancel(s)
  BY <1>20 DEF Cancel, SuspensionPoint
<1> QED
  BY <1>1, <1>2, <1>3, <1>4, <1>5, <1>6, <1>7, <1>8, <1>9, <1>10, <1>11,
     <1>12, <1>13, <1>14, <1>15, <1>16, <1>17, <1>18, <1>19, <1>20 DEF
     SessionStep, SessionProgress

\* And a step that changes nothing.
LEMMA StutterIInv == IInv /\ UNCHANGED vars => IInv'
BY DEF IInv, TypeOK, NoteHeld, vars, sharedVars, localVars, initVars, historyVars

\* Every handler and every coroutine step keeps the invariant, also when sessions
\* overlap (PodcastAgentViewModel.kt:41-172).
LEMMA NextIInv == IInv /\ [Next]_vars => IInv'
BY StartIInv, MainIInv, InitStepIInv, SessionStepIInv, StutterIInv
DEF Next, Start, Background

-----------------------------------------------------------------------------
\* The invariant holds in every behaviour, whatever the sessions do to each other
\* (PodcastAgentViewModel.kt:94-166).
THEOREM Invariance == Spec => []IInv
<1>1. Init => IInv
  BY InitIInv
<1>2. IInv /\ [Next]_vars => IInv'
  BY NextIInv
<1> QED
  BY <1>1, <1>2, PTL DEF Spec

\* Type correctness; every ease handed to AnkiDroid is one of 1 to 4
\* (PodcastAgentViewModel.kt:151-161).
THEOREM TypeCorrect == Spec => []TypeOK
<1>1. IInv => TypeOK
  BY DEF IInv
<1> QED
  BY <1>1, Invariance, PTL

\* A session that is about to record a grade, or at any point between the question
\* and the grade, holds the note it asked (PodcastAgentViewModel.kt:117-161).
THEOREM HeldNote == Spec => []NoteHeld
<1>1. IInv => NoteHeld
  BY DEF IInv
<1> QED
  BY <1>1, Invariance, PTL

\* The log of a session grows by its own AnswerCard only, one entry at a time
\* (PodcastAgentViewModel.kt:161).
LEMMA LogStep ==
  ASSUME IInv, [Next]_vars
  PROVE  \/ \E s \in Session : AnswerCard(s)
         \/ UNCHANGED answers
BY DEF Next, Start, StartSession, Background, ConfigureSession, RetryInit, OnCleared,
       InitStep, InitGoto, BeginInit, ModelsFound, ModelsMissing, InitWhisper,
       InitPiper, CancelInit, SessionStep, SessionProgress, Fetch, AssignNotes,
       ResetIndex, CheckNotEmpty, TestIndex, TakeNote, IndexFault, AskQuestion,
       ListenForAnswer, StopListening, RecorderFault, Reveal, SpeakAnswer,
       ListenForGrade, HearGrade, ReadIndex, StoreIndex, Finish, Cancel, vars, historyVars

\* However many sessions overlap, each grade goes to the note whose question the
\* session that records it put to the user (PodcastAgentViewModel.kt:117, 161).
THEOREM GradesAsked == Spec => GradesTheNoteAsked
<1> DEFINE Good == \A s \in Session : \A i \in DOMAIN answers'[s] \ DOMAIN answers[s] :
                     answers'[s][i].note = asked[s]
<1>1. ASSUME IInv, [Next]_vars PROVE Good
  <2>1. ASSUME NEW t \in Session, AnswerCard(t) PROVE Good
    <3>1. asked[t] = note[t]
      BY <1>1, <2>1 DEF AnswerCard, Goto, IInv, NoteHeld, Holding
    <3>2. answers \in [Session -> Seq(Answer)]
      BY <1>1 DEF IInv, TypeOK
    <3>3. \A i \in DOMAIN answers'[t] \ DOMAIN answers[t] : answers'[t][i].note = note[t]
      BY <2>1, <3>2 DEF AnswerCard
    <3>4. \A s \in Session \ {t} : answers'[s] = answers[s]
      BY <2>1, <3>2 DEF AnswerCard
    <3> QED
      BY <3>1, <3>3, <3>4
  <2>2. CASE UNCHANGED answers
    BY <2>2
  <2> QED
    BY <1>1, <2>1, <2>2, LogStep
<1>2. IInv /\ [Next]_vars => [Good]_vars
  BY <1>1
<1> QED
  BY <1>2, Invariance, PTL DEF Spec, GradesTheNoteAsked

-----------------------------------------------------------------------------
(* After onCleared.                                                        *)

\* A session that has recorded a late grade stands behind the grade and, the scope
\* being cancelled, does not get past the next delay (PodcastAgentViewModel.kt:161-163).
LEMMA LateStep == IInv /\ LateIsLast /\ [Next]_vars => LateIsLast'
<1> SUFFICES ASSUME IInv, LateIsLast, [Next]_vars PROVE LateIsLast'
  OBVIOUS
<1>1. ASSUME NEW t \in Session, AnswerCard(t) PROVE LateIsLast'
  <2> DEFINE grade == [note |-> note[t], ease |-> Ease(heard[t]), late |-> phase = "cleared"]
  <2>1. /\ answers \in [Session -> Seq(Answer)] /\ pc \in [Session -> Control]
        /\ answers' = [answers EXCEPT ![t] = Append(@, grade)]
        /\ pc[t] = "record" /\ pc' = [pc EXCEPT ![t] = "inc"] /\ phase' = phase
    BY <1>1 DEF AnswerCard, Goto, IInv, TypeOK
  <2>2. \A i \in DOMAIN answers[t] : ~answers[t][i].late
    BY <2>1 DEF LateIsLast, Stopped
  <2>3. grade.late <=> phase = "cleared"
    OBVIOUS
  <2>4. \A s \in Session \ {t} : answers'[s] = answers[s] /\ pc'[s] = pc[s]
    BY <2>1
  <2>5. /\ answers'[t] = Append(answers[t], grade) /\ pc'[t] = "inc"
        /\ answers[t] \in Seq(Answer)
    BY <2>1
  <2> HIDE DEF grade
  <2>6. /\ DOMAIN answers'[t] = DOMAIN answers[t] \cup {Len(answers[t]) + 1}
        /\ \A i \in DOMAIN answers[t] : answers'[t][i] = answers[t][i]
        /\ answers'[t][Len(answers[t]) + 1] = grade
    BY <2>5
  <2> QED
    BY <2>1, <2>2, <2>3, <2>4, <2>5, <2>6 DEF LateIsLast
<1>2. CASE UNCHANGED answers
  <2>1. phase # "running" => phase' # "running"
    BY DEF Next, Start, StartSession, Background, ConfigureSession, RetryInit, OnCleared,
       InitStep, InitGoto, BeginInit, ModelsFound, ModelsMissing, InitWhisper,
       InitPiper, CancelInit, SessionStep, SessionProgress, Fetch, AssignNotes,
       ResetIndex, CheckNotEmpty, TestIndex, TakeNote, IndexFault, AskQuestion,
       ListenForAnswer, StopListening, RecorderFault, Reveal, SpeakAnswer,
       ListenForGrade, HearGrade, AnswerCard, ReadIndex, StoreIndex, Finish, Cancel, vars
  <2>2. ASSUME NEW s \in Session, phase # "running", pc[s] \in {"inc", "store", "pause"} \cup Stopped
        PROVE  pc'[s] \in {"inc", "store", "pause"} \cup Stopped
    <3>1. ASSUME NEW t \in Session, SessionStep(t)
          PROVE  \/ pc'[s] = pc[s]
                 \/ pc[s] = "inc" /\ pc'[s] = "store"
                 \/ pc[s] = "store" /\ pc'[s] = "pause"
                 \/ pc[s] = "pause" /\ pc'[s] = "cancelled"
      BY <2>2, <3>1
      DEF IInv, TypeOK, Stopped, SuspensionPoint, Goto, MayRun, SessionStep, SessionProgress,
          Fetch, AssignNotes, ResetIndex, CheckNotEmpty, TestIndex, TakeNote, IndexFault,
          AskQuestion, ListenForAnswer, StopListening, RecorderFault, Reveal, SpeakAnswer,
          ListenForGrade, HearGrade, AnswerCard, ReadIndex, StoreIndex, Finish, Cancel
    <3>2. (\E t \in Session : SessionStep(t)) \/ UNCHANGED pc
      BY <2>2
      DEF Next, Start, StartSession, Background, ConfigureSession, RetryInit, OnCleared,
          InitStep, InitGoto, BeginInit, ModelsFound, ModelsMissing, InitWhisper,
          InitPiper, CancelInit, vars
    <3> QED
      BY <2>2, <3>1, <3>2 DEF Stopped
  <2> QED
    BY <1>2, <2>1, <2>2 DEF LateIsLast
<1> QED
  BY <1>1, <1>2, LogStep

\* Leaving the app costs each session at most one more grade
\* (PodcastAgentViewModel.kt:115-172).
THEOREM AtMostOneLate == Spec => []OneLateGrade
<1>1. Init => LateIsLast
  BY DEF Init, InitWith, LateIsLast
<1>2. LateIsLast => OneLateGrade
  <2> SUFFICES ASSUME LateIsLast, NEW s \in Session
               PROVE  Cardinality({i \in DOMAIN answers[s] : answers[s][i].late}) <= 1
    BY DEF OneLateGrade
  <2> DEFINE Late == {i \in DOMAIN answers[s] : answers[s][i].late}
  <2>1. CASE Late = {}
    BY <2>1, FS_EmptySet
  <2>2. CASE Late # {}
    <3>1. PICK i \in Late : Late = {i}
      BY <2>2 DEF LateIsLast
    <3>2. Cardinality(Late) = 1
      BY <3>1, FS_Singleton
    <3> QED
      BY <3>2
  <2> QED
    BY <2>1, <2>2
<1> QED
  BY <1>1, <1>2, LateStep, Invariance, PTL DEF Spec

-----------------------------------------------------------------------------
(* Sessions that follow one another.                                       *)

\* A step of the session under way keeps the list, the index and the log together:
\* the others have stopped and their logs stay (PodcastAgentViewModel.kt:101-166).
LEMMA SessionStepAlone ==
  ASSUME OneAtATimeInv, NEW s \in Session, SessionStep(s)
  PROVE  OneAtATimeInv'
<1>1. IInv'
  BY SessionStepIInv DEF OneAtATimeInv
<1>2. \A t \in Session \ {s} : pc[t] \in Stopped
  BY DEF OneAtATimeInv, Alone, Active, Stopped, SessionStep, SessionProgress, Goto, Fetch,
         AssignNotes, ResetIndex, CheckNotEmpty, TestIndex, TakeNote, IndexFault,
         AskQuestion, ListenForAnswer, StopListening, RecorderFault, Reveal, SpeakAnswer,
         ListenForGrade, HearGrade, AnswerCard, ReadIndex, StoreIndex, Finish, Cancel,
         SuspensionPoint
<1>3. /\ pc \in [Session -> Control] /\ answers \in [Session -> Seq(Answer)]
      /\ plan \in [Session -> Seq(Note)] /\ note \in [Session -> Note \cup {NoNote}]
      /\ readIndex \in [Session -> Nat] /\ allNotes \in [Session -> Seq(Note)]
      /\ dueNotes \in Seq(Note) /\ currentIndex \in Nat
      /\ pc[s] = "launched" => deck[s] \in Deck
      /\ IInv'
  BY <1>1 DEF OneAtATimeInv, IInv, TypeOK, NoteHeld
<1> DEFINE Rest == /\ Alone /\ ListIsPlan /\ IndexCounts /\ InOrder
                   /\ FinishedIsOver /\ NoIndexFault /\ FetchedFromDeck
<1>4. Rest
  BY DEF OneAtATimeInv
<1>5. SUFFICES Rest'
  BY <1>1 DEF OneAtATimeInv
<1> USE <1>2, <1>3, <1>4
    DEF Alone, Active, ListIsPlan, IndexCounts, InOrder, FinishedIsOver, NoIndexFault,
        FetchedFromDeck, Goto, Stopped, InLoop, Holding, sharedVars, localVars, initVars, historyVars
<1>6. CASE Fetch(s)
  BY <1>6 DEF Fetch, Ui, Speaking
<1>7. CASE AssignNotes(s)
  <2>1. Take(allNotes[s], sessionSize) \in Seq(Note)
    BY TakeType, SizeAssumption
  <2> DEFINE list == Take(allNotes[s], sessionSize)
  <2>2. list \in Seq(Note) /\ plan' = [plan EXCEPT ![s] = list] /\ dueNotes' = list
    BY <1>7, <2>1 DEF AssignNotes
  <2> HIDE DEF list
  <2>3. /\ pc[s] = "assign" /\ pc' = [pc EXCEPT ![s] = "reset"] /\ phase' = phase
        /\ UNCHANGED <<uiState, answers, sessionSize, allNotes>>
    BY <1>7 DEF AssignNotes
  <2>4. /\ plan'[s] = list /\ pc'[s] = "reset" /\ answers[s] = <<>>
        /\ \A t \in Session \ {s} : plan'[t] = plan[t] /\ pc'[t] = pc[t]
    BY <2>2, <2>3
  <2>6. Alone' /\ ListIsPlan'
    BY <2>2, <2>3, <2>4, ZenonT(30)
  <2>7. IndexCounts'
    BY <2>3, <2>4, SMTT(30)
  <2>8. InOrder'
    BY <2>2, <2>3, <2>4
  <2>5. (FinishedIsOver /\ NoIndexFault /\ FetchedFromDeck)'
    BY <2>2, <2>3
  <2> QED
    BY <2>5, <2>6, <2>7, <2>8
<1>8. CASE ResetIndex(s)
  BY <1>8, SMTT(30) DEF ResetIndex
<1>9. CASE CheckNotEmpty(s)
  BY <1>9 DEF CheckNotEmpty
<1>10. CASE TestIndex(s)
  BY <1>10 DEF TestIndex
<1>11. CASE TakeNote(s)
  BY <1>11 DEF TakeNote
<1>12. CASE IndexFault(s)
  BY <1>12 DEF IndexFault
<1>13. CASE AskQuestion(s)
  BY <1>13 DEF AskQuestion, Ui, Speaking
<1>14. CASE ListenForAnswer(s)
  BY <1>14 DEF ListenForAnswer, Ui, Speaking
<1>15. CASE StopListening(s)
  <2>1. CASE Goto(s, "recall", "recalled")
    BY <1>15, <2>1 DEF StopListening
  <2>2. CASE Goto(s, "grade", "graded")
    BY <1>15, <2>2 DEF StopListening
  <2> QED
    BY <1>15, <2>1, <2>2 DEF StopListening
<1>16. CASE RecorderFault(s)
  BY <1>16, SMTT(30) DEF RecorderFault
<1>17. CASE Reveal(s)
  BY <1>17 DEF Reveal, Ui, Speaking
<1>18. CASE SpeakAnswer(s)
  BY <1>18 DEF SpeakAnswer, Ui, Speaking
<1>19. CASE ListenForGrade(s)
  BY <1>19 DEF ListenForGrade, Ui, Speaking
<1>20. CASE HearGrade(s)
  BY <1>20 DEF HearGrade, Ui, Speaking
<1>21. CASE AnswerCard(s)
  <2> DEFINE grade == [note |-> note[s], ease |-> Ease(heard[s]), late |-> phase = "cleared"]
  <2>1. /\ answers' = [answers EXCEPT ![s] = Append(@, grade)]
        /\ pc[s] = "record" /\ pc' = [pc EXCEPT ![s] = "inc"]
    BY <1>21 DEF AnswerCard
  <2>2. grade.note = plan[s][Len(answers[s]) + 1]
    BY <2>1
  <2> HIDE DEF grade
  <2>3. /\ answers'[s] = Append(answers[s], grade)
        /\ \A t \in Session \ {s} : answers'[t] = answers[t]
    BY <2>1
  <2>4. /\ DOMAIN answers'[s] = DOMAIN answers[s] \cup {Len(answers[s]) + 1}
        /\ Len(answers'[s]) = Len(answers[s]) + 1
        /\ \A i \in DOMAIN answers[s] : answers'[s][i] = answers[s][i]
        /\ answers'[s][Len(answers[s]) + 1] = grade
    BY <2>3
  <2>5. InOrder'
    BY <1>21, <2>1, <2>2, <2>3, <2>4 DEF AnswerCard
  <2>6. (Alone /\ ListIsPlan /\ FinishedIsOver /\ NoIndexFault /\ FetchedFromDeck)'
    BY <1>21, <2>1, <2>3 DEF AnswerCard
  <2>7. IndexCounts'
    BY <1>21, <2>1, <2>3, <2>4 DEF AnswerCard
  <2> QED
    BY <2>5, <2>6, <2>7
<1>22. CASE ReadIndex(s)
  BY <1>22 DEF ReadIndex
<1>23. CASE StoreIndex(s)
  BY <1>23 DEF StoreIndex
<1>24. CASE Finish(s)
  BY <1>24 DEF Finish, Ui, Speaking
<1>25. CASE Cancel(s)
  BY <1>25 DEF Cancel
<1> QED
  BY <1>6, <1>7, <1>8, <1>9, <1>10, <1>11, <1>12, <1>13, <1>14, <1>15, <1>16, <1>17, <1>18, <1>19, <1>20, <1>21, <1>22, <1>23, <1>24, <1>25 DEF SessionStep, SessionProgress

\* So do the other handlers and coroutines: a session is started when none is
\* under way (PodcastAgentViewModel.kt:41-101, 168-172).
LEMMA OtherStepAlone ==
  ASSUME OneAtATimeInv,
         \/ StartWhenIdle
         \/ \E size \in SessionSize : ConfigureSession(size)
         \/ \E j \in InitJob : RetryInit(j) \/ InitStep(j)
         \/ OnCleared
         \/ UNCHANGED vars
  PROVE  OneAtATimeInv'
<1>1. IInv'
  BY StartIInv, MainIInv, InitStepIInv, StutterIInv DEF OneAtATimeInv, StartWhenIdle, Start
<1>2. IInv
  BY DEF OneAtATimeInv
<1> DEFINE Rest == /\ Alone /\ ListIsPlan /\ IndexCounts /\ InOrder
                   /\ FinishedIsOver /\ NoIndexFault /\ FetchedFromDeck
<1>3. Rest
  BY DEF OneAtATimeInv
<1>4. SUFFICES Rest'
  BY <1>1 DEF OneAtATimeInv
<1> USE DEF Alone, Active, ListIsPlan, IndexCounts, InOrder, FinishedIsOver, NoIndexFault,
            FetchedFromDeck, Stopped, InLoop, Holding, sharedVars, localVars, initVars,
            historyVars
<1>5. CASE StartWhenIdle
  <2> PICK s \in Session, d \in Deck : StartSession(s, d)
    BY <1>5 DEF StartWhenIdle, Start
  <2>1. /\ pc \in [Session -> Control] /\ \A t \in Session : pc[t] \in Stopped
        /\ pc[s] = "idle" /\ pc' = [pc EXCEPT ![s] = "launched"]
    BY <1>2, <1>5 DEF StartWhenIdle, StartSession, IInv, TypeOK
  <2> QED
    BY <1>3, <2>1 DEF StartSession
<1>6. CASE \E size \in SessionSize : ConfigureSession(size)
  BY <1>3, <1>6 DEF ConfigureSession, Ui
<1>7. ASSUME NEW j \in InitJob, RetryInit(j) PROVE Rest'
  BY <1>3, <1>7 DEF RetryInit
<1>8. ASSUME NEW j \in InitJob, InitStep(j) PROVE Rest'
  <2> USE DEF InitGoto, BeginInit, ModelsFound, ModelsMissing, InitWhisper, InitPiper, CancelInit
  <2>1. UNCHANGED <<sharedVars, sessionSize, phase, pc, localVars, historyVars>>
    BY <1>8 DEF InitStep
  <2>2. uiState' \in {uiState, Ui("Loading"), Ui("Error"), Ui("Ready")}
    BY <1>8 DEF InitStep
  <2>3. uiState'.kind = "Finished" => uiState.kind = "Finished"
    BY <2>2 DEF Ui
  <2> QED
    BY <1>3, <2>1, <2>3
<1>9. CASE OnCleared
  BY <1>3, <1>9 DEF OnCleared
<1>10. CASE UNCHANGED vars
  BY <1>3, <1>10 DEF vars
<1> QED
  BY <1>5, <1>6, <1>7, <1>8, <1>9, <1>10

\* The invariant of sessions that follow one another (PodcastAgentViewModel.kt:25-172).
LEMMA AloneInvariance == SpecOneAtATime => []OneAtATimeInv
<1>1. Init => OneAtATimeInv
  <2> SUFFICES ASSUME Init PROVE OneAtATimeInv
    OBVIOUS
  <2>1. IInv
    BY InitIInv
  <2>2. Alone /\ FinishedIsOver /\ NoIndexFault /\ FetchedFromDeck
    BY DEF Init, InitWith, Alone, Active, Stopped, FinishedIsOver, NoIndexFault,
           FetchedFromDeck, Ui
  <2>3. ListIsPlan /\ IndexCounts /\ InOrder
    BY DEF Init, InitWith, ListIsPlan, IndexCounts, InOrder, InLoop, Holding
  <2> QED
    BY <2>1, <2>2, <2>3 DEF OneAtATimeInv
<1>2. OneAtATimeInv /\ [NextOneAtATime]_vars => OneAtATimeInv'
  BY SessionStepAlone, OtherStepAlone DEF NextOneAtATime, Background
<1> QED
  BY <1>1, <1>2, PTL DEF SpecOneAtATime

\* Sessions that follow one another grade the notes they fetched in their order,
\* none twice and none skipped, whatever is heard, fails or is retried
\* (PodcastAgentViewModel.kt:115-166).
THEOREM GradesInOrder == SpecOneAtATime => []InOrder
<1>1. OneAtATimeInv => InOrder
  BY DEF OneAtATimeInv
<1> QED
  BY <1>1, AloneInvariance, PTL

\* They never read the list beyond its end (PodcastAgentViewModel.kt:116-117).
THEOREM NeverOutOfRange == SpecOneAtATime => []NoIndexFault
<1>1. OneAtATimeInv => NoIndexFault
  BY DEF OneAtATimeInv
<1> QED
  BY <1>1, AloneInvariance, PTL

\* And the Finished screen means that every card fetched has been graded
\* (PodcastAgentViewModel.kt:107-111, 165, PodcastPlayerScreen.kt:175).
THEOREM FinishedIsTrue == SpecOneAtATime => []FinishedMeansDone
<1>1. OneAtATimeInv => FinishedMeansDone
  BY DEF OneAtATimeInv, FinishedIsOver, FinishedMeansDone, IndexCounts, InLoop, Stopped
<1> QED
  BY <1>1, AloneInvariance, PTL

-----------------------------------------------------------------------------
(* A session implements ReviewSession, step by step.                       *)

\* The rest of a list, without its first element, and after its last.
LEMMA RestOfList ==
  ASSUME NEW list \in Seq(Note), NEW n \in Nat, n < Len(list)
  PROVE  LET rest == SubSeq(list, n + 1, Len(list))
         IN  /\ rest # <<>> /\ Head(rest) = list[n + 1]
             /\ Tail(rest) = SubSeq(list, n + 2, Len(list))
<1>1. /\ SubSeq(list, n + 1, Len(list)) \in Seq(Note)
      /\ Len(SubSeq(list, n + 1, Len(list))) = Len(list) - n
  <2>1. \A i \in n + 1 .. Len(list) : list[i] \in Note
    OBVIOUS
  <2> QED
    BY <2>1, SubSeqProperties
<1>2. n + 1 \in 1 .. Len(list) /\ Len(list) \in n + 1 .. Len(list)
  OBVIOUS
<1>3. /\ Head(SubSeq(list, n + 1, Len(list))) = list[n + 1]
      /\ Tail(SubSeq(list, n + 1, Len(list))) = SubSeq(list, n + 2, Len(list))
  <2>1. (n + 1) + 1 = n + 2
    OBVIOUS
  <2> QED
    BY <1>2, <2>1, HeadTailOfSubSeq
<1>4. SubSeq(list, n + 1, Len(list)) # <<>>
  <2> DEFINE rest == SubSeq(list, n + 1, Len(list))
  <2>1. Len(rest) # 0
    BY <1>1
  <2> HIDE DEF rest
  <2>2. rest # <<>>
    BY <2>1
  <2> QED
    BY <2>2 DEF rest
<1> QED
  BY <1>3, <1>4

\* A function on an initial segment is a sequence.
LEMMA FunctionIsSeq ==
  ASSUME NEW S, NEW n \in Nat, NEW f \in [1 .. n -> S]
  PROVE  f \in Seq(S) /\ Len(f) = n
OBVIOUS

\* A recorded grade lengthens what the user has graded by one.
LEMMA GradedGrows ==
  ASSUME NEW log \in Seq(Answer), NEW grade \in Answer
  PROVE  [i \in DOMAIN Append(log, grade) |->
            [note |-> Append(log, grade)[i].note, ease |-> Append(log, grade)[i].ease]]
         = Append([i \in DOMAIN log |-> [note |-> log[i].note, ease |-> log[i].ease]],
                  [note |-> grade.note, ease |-> grade.ease])
<1> DEFINE Pair(a) == [note |-> a.note, ease |-> a.ease]
           old == [i \in DOMAIN log |-> Pair(log[i])]
           more == Append(log, grade)
           new == [i \in DOMAIN more |-> Pair(more[i])]
<1>1. /\ more \in Seq(Answer) /\ Len(more) = Len(log) + 1
      /\ \A i \in 1 .. Len(log) : more[i] = log[i]
      /\ more[Len(log) + 1] = grade
  OBVIOUS
<1>2. \A a \in Answer : Pair(a) \in [note : Note, ease : EaseValue]
  BY DEF Answer
<1> HIDE DEF Pair, more
<1>3. /\ old \in Seq([note : Note, ease : EaseValue]) /\ Len(old) = Len(log)
      /\ \A i \in 1 .. Len(log) : old[i] = Pair(log[i])
  <2>1. old \in [1 .. Len(log) -> [note : Note, ease : EaseValue]]
    BY <1>2
  <2> QED
    BY <2>1, FunctionIsSeq
<1>4. /\ new \in Seq([note : Note, ease : EaseValue]) /\ Len(new) = Len(log) + 1
      /\ \A i \in 1 .. Len(log) + 1 : new[i] = Pair(more[i])
  <2>1. new \in [1 .. Len(log) + 1 -> [note : Note, ease : EaseValue]]
    BY <1>1, <1>2
  <2> QED
    BY <2>1, FunctionIsSeq
<1> HIDE DEF old, new
<1>5. /\ Append(old, Pair(grade)) \in Seq([note : Note, ease : EaseValue])
      /\ Len(Append(old, Pair(grade))) = Len(log) + 1
      /\ \A i \in 1 .. Len(log) : Append(old, Pair(grade))[i] = old[i]
      /\ Append(old, Pair(grade))[Len(log) + 1] = Pair(grade)
  BY <1>2, <1>3
<1>6. \A i \in 1 .. Len(log) + 1 : new[i] = Append(old, Pair(grade))[i]
  BY <1>1, <1>3, <1>4, <1>5
<1>7. new = Append(old, Pair(grade))
  BY <1>4, <1>5, <1>6, SeqEqual
<1> QED
  BY <1>7 DEF new, old, more, Pair

\* Steps that leave the place of the watched session, its log and its list alone, and
\* do not end the process, are not seen by its user.
LEMMA Unseen ==
  ASSUME TypeOK, UNCHANGED <<pc[Watched], answers[Watched], plan[Watched]>>, TypeOK',
         \/ pc[Watched] \in Stopped
         \/ phase' = phase
         \/ phase = "running" /\ phase' = "cleared"
  PROVE  UNCHANGED Review!session
<1>1. Answered' = Answered /\ Graded' = Graded /\ Todo' = Todo
  BY DEF Answered, Graded, Todo
<1>2. Status' = Status
  BY DEF Status, Active, Stopped
<1> QED
  BY <1>1, <1>2 DEF Review!session

\* A step of the watched session is a step of ReviewSession, or is not seen
\* (PodcastAgentViewModel.kt:101-166).
LEMMA WatchedStep ==
  ASSUME OneAtATimeInv, OneAtATimeInv', SessionStep(Watched)
  PROVE  Review!Next \/ UNCHANGED Review!session
<1> DEFINE s == Watched
<1> USE WatchedAssumption
<1>1. /\ TypeOK /\ TypeOK' /\ IInv
      /\ pc \in [Session -> Control] /\ answers \in [Session -> Seq(Answer)]
      /\ plan \in [Session -> Seq(Note)] /\ answers[s] \in Seq(Answer) /\ plan[s] \in Seq(Note)
  BY DEF OneAtATimeInv, IInv, TypeOK
<1>2. pc[s] \notin Stopped /\ phase \in {"running", "cleared"}
  BY DEF SessionStep, SessionProgress, Goto, MayRun, Fetch, AssignNotes,
         ResetIndex, CheckNotEmpty, TestIndex, TakeNote, IndexFault, AskQuestion,
         ListenForAnswer, StopListening, RecorderFault, Reveal, SpeakAnswer,
         ListenForGrade, HearGrade, AnswerCard, ReadIndex, StoreIndex, Finish, Cancel,
         SuspensionPoint, Stopped
<1>3. CASE Fetch(s)
  <2>1. Status = "fetching" /\ Status' = "fetching"
    BY <1>1, <1>2, <1>3 DEF Fetch, Goto, Status, Active, Stopped
  <2>2. UNCHANGED <<Todo, Graded>>
    BY <1>3 DEF Fetch, Todo, Graded, Answered, historyVars
  <2> QED
    BY <2>1, <2>2 DEF Review!session
<1>4. CASE AssignNotes(s)
  <2>1. Status = "fetching" /\ Status' = "reviewing"
    BY <1>1, <1>2, <1>4 DEF AssignNotes, Goto, Status, Active, Stopped
  <2>2. answers[s] = <<>> /\ answers' = answers
    BY <1>4 DEF AssignNotes, Goto, OneAtATimeInv, ListIsPlan
  <2>3. plan'[s] = Take(allNotes[s], sessionSize) /\ plan'[s] \in Seq(Note)
    BY <1>1, <1>4, TakeType, SizeAssumption
    DEF AssignNotes, OneAtATimeInv, FetchedFromDeck, IInv, TypeOK
  <2>4. Todo' = plan'[s]
    <3>1. Len(answers'[s]) + 1 = 1
      BY <2>2
    <3> QED
      BY <2>3, <3>1, SubSeqFull DEF Todo, Answered
  <2>5. Todo' \in FetchedLists
    BY <1>4, <2>3, <2>4 DEF FetchedLists, AssignNotes, Goto, OneAtATimeInv, FetchedFromDeck
  <2>6. UNCHANGED Graded
    BY <2>2 DEF Graded, Answered
  <2> QED
    BY <2>1, <2>5, <2>6 DEF Review!Next, Review!Progress, Review!Fetch
<1>5. CASE AnswerCard(s)
  <2> DEFINE grade == [note |-> note[s], ease |-> Ease(heard[s]), late |-> phase = "cleared"]
             n == Len(answers[s])
  <2>1. Status = "reviewing" /\ Status' = "reviewing"
    BY <1>1, <1>2, <1>5 DEF AnswerCard, Goto, Status, Active, Stopped
  <2>2. /\ n < Len(plan[s]) /\ n \in Nat
        /\ note[s] = plan[s][n + 1]
    BY <1>1, <1>5 DEF AnswerCard, Goto, OneAtATimeInv, IndexCounts, Holding
  <2>3. grade \in Answer
    BY <1>1, <1>5, EaseIsAnEase DEF AnswerCard, Goto, IInv, NoteHeld, Holding, Answer
  <2>4. answers'[s] = Append(answers[s], grade) /\ plan' = plan
    BY <1>1, <1>5 DEF AnswerCard
  <2>5. /\ Todo # <<>> /\ Head(Todo) = grade.note
        /\ Tail(Todo) = SubSeq(plan[s], n + 2, Len(plan[s]))
    BY <1>1, <2>2, RestOfList DEF Todo, Answered
  <2>6. /\ Graded' = Append(Graded, [note |-> grade.note, ease |-> grade.ease])
        /\ grade.ease \in EaseValue
    <3> HIDE DEF grade
    <3> QED
      BY <1>1, <2>3, <2>4, GradedGrows DEF Graded, Answered, Answer
  <2>7. Todo' = SubSeq(plan[s], n + 2, Len(plan[s]))
    <3> HIDE DEF grade
    <3>1. Len(answers'[s]) + 1 = n + 2
      BY <1>1, <2>3, <2>4
    <3> QED
      BY <2>4, <3>1 DEF Todo, Answered
  <2> HIDE DEF grade
  <2>8. Review!Grade(grade.ease)
    BY <2>1, <2>5, <2>6, <2>7 DEF Review!Grade
  <2> QED
    BY <2>6, <2>8 DEF Review!Next, Review!Progress, Review!EaseValue, EaseValue
<1>6. CASE Finish(s)
  <2>1. Status = "reviewing" /\ Status' = "finished"
    BY <1>1, <1>2, <1>6 DEF Finish, Goto, Status, Active, Stopped
  <2>2. Todo = <<>>
    <3>1. Len(answers[s]) = Len(plan[s])
      BY <1>6 DEF Finish, Goto, OneAtATimeInv, IndexCounts
    <3> QED
      BY <1>1, <3>1, SubSeqEmpty DEF Todo, Answered
  <2>3. UNCHANGED <<Todo, Graded>>
    BY <1>6 DEF Finish, Todo, Graded, Answered, historyVars
  <2> QED
    BY <2>1, <2>2, <2>3 DEF Review!Next, Review!Progress, Review!Finish
<1>7. CASE RecorderFault(s) \/ Cancel(s)
  <2>1. Status \in {"fetching", "reviewing"} /\ Status' = "abandoned"
    BY <1>1, <1>2, <1>7 DEF RecorderFault, Cancel, Goto, Status, Active, Stopped, SuspensionPoint
  <2>2. UNCHANGED <<Todo, Graded>>
    BY <1>7 DEF RecorderFault, Cancel, Todo, Graded, Answered, historyVars
  <2> QED
    BY <2>1, <2>2 DEF Review!Next, Review!Abandon
<1>8. CASE IndexFault(s)
  BY <1>1, <1>8 DEF IndexFault, Goto, OneAtATimeInv, IndexCounts, ListIsPlan, InLoop
<1>9. CASE \/ ResetIndex(s) \/ CheckNotEmpty(s) \/ TestIndex(s) \/ TakeNote(s) \/ AskQuestion(s)
           \/ ListenForAnswer(s) \/ StopListening(s) \/ Reveal(s) \/ SpeakAnswer(s)
           \/ ListenForGrade(s) \/ HearGrade(s) \/ ReadIndex(s) \/ StoreIndex(s)
  <2>1. /\ pc[s] \notin {"launched", "assign"} /\ pc'[s] \notin Stopped \cup {"launched", "assign"}
        /\ phase' = phase
        /\ UNCHANGED <<answers, plan>>
    BY <1>1, <1>9
    DEF Goto, ResetIndex, CheckNotEmpty, TestIndex, TakeNote, AskQuestion, ListenForAnswer,
        StopListening, Reveal, SpeakAnswer, ListenForGrade, HearGrade, ReadIndex, StoreIndex,
        Stopped, historyVars
  <2>2. Status = "reviewing" /\ Status' = "reviewing"
    BY <1>1, <1>2, <2>1 DEF Status, Active, Stopped
  <2>3. UNCHANGED <<Todo, Graded>>
    BY <2>1 DEF Todo, Graded, Answered
  <2> QED
    BY <2>2, <2>3 DEF Review!session
<1> QED
  BY <1>3, <1>4, <1>5, <1>6, <1>7, <1>8, <1>9 DEF SessionStep, SessionProgress

\* Every other step is the opening of the session or is not seen.
LEMMA UnwatchedStep ==
  ASSUME OneAtATimeInv, OneAtATimeInv', [NextOneAtATime]_vars, ~SessionStep(Watched)
  PROVE  Review!Next \/ UNCHANGED Review!session
<1> USE WatchedAssumption
<1>1. TypeOK /\ TypeOK'
  BY DEF OneAtATimeInv, IInv
<1>2. ASSUME NEW s \in Session, SessionStep(s) PROVE UNCHANGED Review!session
  <2>1. s # Watched
    BY <1>2
  <2>2. pc[s] \notin Stopped /\ UNCHANGED <<pc[Watched], answers[Watched], plan[Watched]>>
    BY <1>1, <1>2, <2>1,
    ZenonT(30) DEF TypeOK, Stopped, SuspensionPoint, Goto, SessionStep, SessionProgress, Fetch,
        AssignNotes, ResetIndex, CheckNotEmpty, TestIndex, TakeNote, IndexFault, AskQuestion,
        ListenForAnswer, StopListening, RecorderFault, Reveal, SpeakAnswer, ListenForGrade,
        HearGrade, AnswerCard, ReadIndex, StoreIndex, Finish, Cancel, historyVars
  <2>3. pc[Watched] \in Stopped
    BY <1>2, <2>1, <2>2 DEF OneAtATimeInv, Alone, Active
  <2> QED
    BY <1>1, <2>2, <2>3, Unseen
<1>3. ASSUME NEW s \in Session, NEW d \in Deck, StartSession(s, d), s # Watched
      PROVE  UNCHANGED Review!session
  BY <1>1, <1>3, Unseen DEF StartSession, TypeOK, historyVars
<1>4. ASSUME NEW d \in Deck, StartSession(Watched, d) PROVE Review!Next
  <2>1. Status = "closed" /\ Status' = "fetching"
    BY <1>1, <1>4 DEF StartSession, TypeOK, Status, Active, Stopped
  <2>2. UNCHANGED <<Todo, Graded>>
    BY <1>4 DEF StartSession, Todo, Graded, Answered, historyVars
  <2> QED
    BY <2>1, <2>2 DEF Review!Next, Review!Open
<1>5. CASE OnCleared
  BY <1>1, <1>5, Unseen DEF OnCleared, historyVars
<1>6. CASE \/ \E size \in SessionSize : ConfigureSession(size)
           \/ \E j \in InitJob : RetryInit(j) \/ InitStep(j)
           \/ UNCHANGED vars
  <2>1. UNCHANGED <<pc, answers, plan, phase>>
    BY <1>6
    DEF ConfigureSession, RetryInit, InitStep, InitGoto, BeginInit, ModelsFound,
        ModelsMissing, InitWhisper, InitPiper, CancelInit, vars, historyVars
  <2> QED
    BY <1>1, <2>1, Unseen
<1> QED
  BY <1>2, <1>3, <1>4, <1>5, <1>6 DEF NextOneAtATime, StartWhenIdle, Start, Background

\* Every session of a ViewModel whose sessions do not overlap does only what
\* ReviewSession allows: it fetches once, grades what it fetched in order and exactly
\* once, and finishes only when nothing is left (PodcastAgentViewModel.kt:94-166).
THEOREM ReviewsSafely == SpecOneAtATime => Review!Init /\ [][Review!Next]_(Review!session)
<1>1. Init => Review!Init
  <2> SUFFICES ASSUME Init PROVE Review!Init
    OBVIOUS
  <2>1. /\ pc[Watched] = "idle" /\ answers[Watched] = <<>> /\ plan[Watched] = <<>>
    BY WatchedAssumption DEF Init, InitWith
  <2>2. Status = "closed"
    BY <2>1, WatchedAssumption DEF Status, Active, Stopped
  <2>3. Graded = <<>> /\ Todo = <<>>
    BY <2>1, SubSeqEmpty DEF Graded, Todo, Answered
  <2> QED
    BY <2>2, <2>3 DEF Review!Init
<1>2. OneAtATimeInv /\ OneAtATimeInv' /\ [NextOneAtATime]_vars => [Review!Next]_(Review!session)
  BY WatchedStep, UnwatchedStep
<1> QED
  BY <1>1, <1>2, AloneInvariance, PTL DEF SpecOneAtATime

=============================================================================
