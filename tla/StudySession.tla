---------------------------- MODULE StudySession ----------------------------
(***************************************************************************)
(* PodcastAgentViewModel: the study sessions of one ViewModel lifetime.    *)
(*                                                                         *)
(* The handlers configureSession, startSession and onCleared run on the    *)
(* main thread.  Every startSession launches a coroutine on Dispatchers.IO *)
(* that fetches the cards and runs studyLoop; every initializeEngines      *)
(* launches another.  Nothing cancels a running session when a new one is  *)
(* started, and all of them share dueNotes, currentIndex, sessionSize and  *)
(* uiState.  A step of a coroutine is the code between two accesses of that*)
(* shared state or between two suspension points.                          *)
(***************************************************************************)
EXTENDS Integers, Sequences, FiniteSets, Grading

CONSTANTS
  Session,      \* identities of the coroutines startSession launches
  InitJob,      \* identities of the coroutines initializeEngines launches
  BootJob,      \* the one launched by the ViewModel's init block
  Deck,
  NoDeck,       \* no deck
  Note,
  NoNote,       \* no note
  Cards,        \* Cards[d]: the notes AnkiDroid returns for deck d
  Sample,       \* the two sample notes of AnkiRepository
  SessionSize,  \* the sizes DeckConfigScreen offers
  DefaultSize,  \* the size before any configuration
  Heard         \* what a transcription may contain

ASSUME BootJobAssumption == BootJob \in InitJob
ASSUME AbsenceAssumption == NoNote \notin Note /\ NoDeck \notin Deck
ASSUME CardsAssumption == Cards \in [Deck -> Seq(Note)]
ASSUME SampleAssumption == Sample \in Seq(Note) /\ Sample # <<>>
ASSUME SizeAssumption == SessionSize \subseteq Nat \ {0} /\ DefaultSize \in Nat \ {0}
ASSUME HeardAssumption == Heard \subseteq SUBSET Command

VARIABLES
  uiState, dueNotes, currentIndex, sessionSize,   \* fields of the ViewModel
  whisperReady,   \* whisperEngine.nativeContext != 0
  phase,          \* "running", "cleared", or the fault that ended the process
  pc,             \* where each session's coroutine is
  deck,           \* startSession's argument
  allNotes,       \* the coroutine's local of that name
  note,           \* studyLoop's local `note`
  heard,          \* studyLoop's local gradeText
  readIndex,      \* the value currentIndex++ has read and not yet written back
  initPc,         \* where each initializeEngines coroutine is
  wError,         \* its local wError is not null
  answers,        \* history: each session's calls of answerCard, in order
  asked,          \* history: the note each session last put to the user
  plan            \* history: the notes each session assigned to dueNotes

sharedVars == <<dueNotes, currentIndex>>
localVars == <<deck, allNotes, note, heard, readIndex>>
initVars == <<initPc, wError>>
historyVars == <<answers, asked, plan>>
vars == <<uiState, sharedVars, sessionSize, whisperReady, phase, pc, localVars,
          initVars, historyVars>>

-----------------------------------------------------------------------------
\* StudyUiState; only the two Speaking states carry text, the note's.
UiKind == {"Loading", "Ready", "SpeakingQuestion", "Listening", "Transcribing",
           "SpeakingAnswer", "Finished", "Error"}
UiState == [kind : UiKind, note : Note \cup {NoNote}]
Ui(kind) == [kind |-> kind, note |-> NoNote]
Speaking(kind, n) == [kind |-> kind, note |-> n]

\* Where a coroutine may be suspended in a delay or waiting to be dispatched:
\* only there does cancellation reach it.
SuspensionPoint == {"launched", "intro", "question", "recall", "reveal",
                    "answer", "grade", "pause"}
InLoop == {"test", "take", "intro", "question", "recall", "recalled", "reveal",
           "answer", "grade", "graded", "record", "inc", "store", "pause"}
Holding == {"intro", "question", "recall", "recalled", "reveal", "answer",
            "grade", "graded", "record"}
Stopped == {"idle", "done", "cancelled"}
Control == InLoop \cup Stopped \cup {"launched", "assign", "reset", "check", "finish"}

\* List.take(n).
Take(list, n) == SubSeq(list, 1, IF n < Len(list) THEN n ELSE Len(list))

\* What AnkiRepository.getDueCards may return: a query that fails after k rows
\* keeps the k notes read so far, and an empty result becomes the samples.
Fetchable(d) ==
  LET rows(k) == SubSeq(Cards[d], 1, k)
  IN  {IF k = 0 THEN Sample ELSE rows(k) : k \in 0 .. Len(Cards[d])}

\* Mutant: the loop runs on after cancellation.
MayRunUncancelled(at) == phase \in {"running", "cleared"}

\* A coroutine takes its next step while the process lives; at a suspension
\* point only while the viewModelScope has not been cancelled.
MayRun(at) == \/ phase = "running"
              \/ phase = "cleared" /\ at \notin SuspensionPoint

Goto(s, from, to) ==
  /\ pc[s] = from
  /\ MayRun(from)
  /\ pc' = [pc EXCEPT ![s] = to]

Active(s) == pc[s] \notin Stopped

\* A new ViewModel (up = FALSE), or one whose engines have come up meanwhile.
InitWith(up) ==
  /\ uiState = Ui(IF up THEN "Ready" ELSE "Loading")
  /\ dueNotes = <<>>
  /\ currentIndex = 0
  /\ sessionSize = DefaultSize
  /\ whisperReady = up
  /\ phase = "running"
  /\ pc = [s \in Session |-> "idle"]
  /\ deck = [s \in Session |-> NoDeck]
  /\ allNotes = [s \in Session |-> <<>>]
  /\ note = [s \in Session |-> NoNote]
  /\ heard = [s \in Session |-> {}]
  /\ readIndex = [s \in Session |-> 0]
  /\ initPc = [j \in InitJob |-> IF j # BootJob THEN "idle"
                               ELSE IF up THEN "done" ELSE "launched"]
  /\ wError = [j \in InitJob |-> FALSE]
  /\ answers = [s \in Session |-> <<>>]
  /\ asked = [s \in Session |-> NoNote]
  /\ plan = [s \in Session |-> <<>>]

Init == InitWith(FALSE)

-----------------------------------------------------------------------------
(* Main-thread handlers.                                                   *)

\* DeckConfigScreen's start button: the state becomes Ready whatever it was.
ConfigureSession(size) ==
  /\ phase = "running"
  /\ sessionSize' = size
  /\ uiState' = Ui("Ready")
  /\ UNCHANGED <<sharedVars, whisperReady, phase, pc, localVars, initVars, historyVars>>

\* PodcastPlayerScreen's LaunchedEffect: an Error blocks it, a running session
\* does not.
StartSession(s, d) ==
  /\ phase = "running"
  /\ uiState.kind # "Error"
  /\ pc[s] = "idle"
  /\ pc' = [pc EXCEPT ![s] = "launched"]
  /\ deck' = [deck EXCEPT ![s] = d]
  /\ dueNotes' = <<>>
  /\ currentIndex' = 0
  /\ UNCHANGED <<uiState, sessionSize, whisperReady, phase, allNotes, note, heard,
                 readIndex, initVars, historyVars>>

\* The Retry button, shown in the Error state only.
RetryInit(j) ==
  /\ phase = "running"
  /\ uiState.kind = "Error"
  /\ initPc[j] = "idle"
  /\ initPc' = [initPc EXCEPT ![j] = "launched"]
  /\ UNCHANGED <<uiState, sharedVars, sessionSize, whisperReady, phase, pc, localVars,
                 wError, historyVars>>

\* onCleared: the scope is cancelled and the engines are released.
OnCleared ==
  /\ phase = "running"
  /\ phase' = "cleared"
  /\ whisperReady' = FALSE
  /\ UNCHANGED <<uiState, sharedVars, sessionSize, pc, localVars, initVars, historyVars>>

-----------------------------------------------------------------------------
(* initializeEngines, on Dispatchers.IO: no suspension point after launch. *)

InitGoto(j, from, to) ==
  /\ initPc[j] = from
  /\ MayRun(from)
  /\ initPc' = [initPc EXCEPT ![j] = to]
  /\ UNCHANGED <<sharedVars, sessionSize, phase, pc, localVars, historyVars>>

BeginInit(j) ==
  /\ InitGoto(j, "launched", "models")
  /\ uiState' = Ui("Loading")
  /\ UNCHANGED <<whisperReady, wError>>

\* The bundled models are all listed.
ModelsFound(j) ==
  /\ InitGoto(j, "models", "whisper")
  /\ uiState' = Ui("Loading")
  /\ UNCHANGED <<whisperReady, wError>>

\* A model is missing, or listing the assets threw.
ModelsMissing(j) ==
  /\ InitGoto(j, "models", "done")
  /\ uiState' = Ui("Error")
  /\ UNCHANGED <<whisperReady, wError>>

\* whisperEngine.initialize: a native failure leaves context 0, a missing file
\* or an exception leaves the context as it was.
InitWhisper(j) ==
  /\ InitGoto(j, "whisper", "piper")
  /\ uiState' = Ui("Loading")
  /\ \/ whisperReady' = TRUE /\ wError' = [wError EXCEPT ![j] = FALSE]
     \/ whisperReady' \in {FALSE, whisperReady} /\ wError' = [wError EXCEPT ![j] = TRUE]

\* piperEngine.initialize, and the verdict on both engines.
InitPiper(j) ==
  /\ InitGoto(j, "piper", "done")
  /\ \E pError \in BOOLEAN :
       uiState' = IF wError[j] \/ pError THEN Ui("Error") ELSE Ui("Ready")
  /\ UNCHANGED <<whisperReady, wError>>

CancelInit(j) ==
  /\ phase = "cleared"
  /\ initPc[j] = "launched"
  /\ initPc' = [initPc EXCEPT ![j] = "done"]
  /\ UNCHANGED <<uiState, sharedVars, sessionSize, whisperReady, phase, pc, localVars,
                 wError, historyVars>>

InitStep(j) ==
  \/ BeginInit(j) \/ ModelsFound(j) \/ ModelsMissing(j)
  \/ InitWhisper(j) \/ InitPiper(j) \/ CancelInit(j)

-----------------------------------------------------------------------------
(* The coroutine of startSession.                                          *)

Fetch(s) ==
  /\ Goto(s, "launched", "assign")
  /\ uiState' = Ui("Loading")
  /\ \E list \in Fetchable(deck[s]) : allNotes' = [allNotes EXCEPT ![s] = list]
  /\ UNCHANGED <<sharedVars, sessionSize, whisperReady, phase, deck, note, heard,
                 readIndex, initVars, historyVars>>

AssignNotes(s) ==
  /\ Goto(s, "assign", "reset")
  /\ dueNotes' = Take(allNotes[s], sessionSize)
  /\ plan' = [plan EXCEPT ![s] = Take(allNotes[s], sessionSize)]
  /\ UNCHANGED <<uiState, currentIndex, sessionSize, whisperReady, phase, localVars,
                 initVars, answers, asked>>

ResetIndex(s) ==
  /\ Goto(s, "reset", "check")
  /\ currentIndex' = 0
  /\ UNCHANGED <<uiState, dueNotes, sessionSize, whisperReady, phase, localVars,
                 initVars, historyVars>>

\* dueNotes may have been cleared by a later startSession meanwhile.
CheckNotEmpty(s) ==
  /\ Goto(s, "check", IF dueNotes # <<>> THEN "test" ELSE "finish")
  /\ UNCHANGED <<uiState, sharedVars, sessionSize, whisperReady, phase, localVars,
                 initVars, historyVars>>

-----------------------------------------------------------------------------
(* studyLoop.                                                              *)

\* Mutant: the last note is left out.
TestIndexStopsEarly(s) ==
  /\ \E from \in {"test", "pause"} :
       Goto(s, from, IF currentIndex + 1 < Len(dueNotes) THEN "take" ELSE "finish")
  /\ UNCHANGED <<uiState, sharedVars, sessionSize, whisperReady, phase, localVars,
                 initVars, historyVars>>

\* Mutant: one past the end.
TestIndexInclusive(s) ==
  /\ \E from \in {"test", "pause"} :
       Goto(s, from, IF currentIndex <= Len(dueNotes) THEN "take" ELSE "finish")
  /\ UNCHANGED <<uiState, sharedVars, sessionSize, whisperReady, phase, localVars,
                 initVars, historyVars>>

TestIndex(s) ==
  /\ \E from \in {"test", "pause"} :
       Goto(s, from, IF currentIndex < Len(dueNotes) THEN "take" ELSE "finish")
  /\ UNCHANGED <<uiState, sharedVars, sessionSize, whisperReady, phase, localVars,
                 initVars, historyVars>>

TakeNote(s) ==
  /\ currentIndex < Len(dueNotes)
  /\ Goto(s, "take", "intro")
  /\ note' = [note EXCEPT ![s] = dueNotes[currentIndex + 1]]
  /\ UNCHANGED <<uiState, sharedVars, sessionSize, whisperReady, phase, deck, allNotes,
                 heard, readIndex, initVars, historyVars>>

\* The list shrank or the index grew since the test: dueNotes[currentIndex]
\* throws, nothing catches it and the process dies.
IndexFault(s) ==
  /\ currentIndex >= Len(dueNotes)
  /\ Goto(s, "take", "take")
  /\ phase' = "indexFault"
  /\ UNCHANGED <<uiState, sharedVars, sessionSize, whisperReady, localVars, initVars,
                 historyVars>>

\* Mutants: the loop reads the shared list again instead of its local note.
CurrentNote(s) ==
  IF currentIndex < Len(dueNotes) THEN dueNotes[currentIndex + 1] ELSE note[s]
AskQuestionRereads(s) ==
  /\ Goto(s, "intro", "question")
  /\ uiState' = Speaking("SpeakingQuestion", CurrentNote(s))
  /\ asked' = [asked EXCEPT ![s] = CurrentNote(s)]
  /\ UNCHANGED <<sharedVars, sessionSize, whisperReady, phase, localVars, initVars,
                 answers, plan>>
AnswerCardRereads(s) ==
  /\ Goto(s, "record", "inc")
  /\ answers' = [answers EXCEPT ![s] =
       Append(@, [note |-> CurrentNote(s), ease |-> Ease(heard[s]), late |-> phase = "cleared"])]
  /\ UNCHANGED <<uiState, sharedVars, sessionSize, whisperReady, phase, localVars,
                 initVars, asked, plan>>

AskQuestion(s) ==
  /\ Goto(s, "intro", "question")
  /\ uiState' = Speaking("SpeakingQuestion", note[s])
  /\ asked' = [asked EXCEPT ![s] = note[s]]
  /\ UNCHANGED <<sharedVars, sessionSize, whisperReady, phase, localVars, initVars,
                 answers, plan>>

ListenForAnswer(s) ==
  /\ Goto(s, "question", "recall")
  /\ uiState' = Ui("Listening")
  /\ UNCHANGED <<sharedVars, sessionSize, whisperReady, phase, localVars, initVars,
                 historyVars>>

\* Mutant: the recording only ends while the screen still shows Listening.
StopListeningWhenShown(s) ==
  /\ uiState.kind = "Listening"
  /\ \/ Goto(s, "recall", "recalled")
     \/ Goto(s, "grade", "graded")
  /\ UNCHANGED <<uiState, sharedVars, sessionSize, whisperReady, phase, localVars,
                 initVars, historyVars>>

\* listen's recording delay is over; the transcription that follows blocks
\* and is no suspension point.
StopListening(s) ==
  /\ \/ Goto(s, "recall", "recalled")
     \/ Goto(s, "grade", "graded")
  /\ UNCHANGED <<uiState, sharedVars, sessionSize, whisperReady, phase, localVars,
                 initVars, historyVars>>

\* AudioRecord.stop throws on a recorder that never initialised.
RecorderFault(s) ==
  /\ whisperReady
  /\ \E at \in {"recall", "grade"} : Goto(s, at, at)
  /\ phase' = "recorderFault"
  /\ UNCHANGED <<uiState, sharedVars, sessionSize, whisperReady, localVars, initVars,
                 historyVars>>

Reveal(s) ==
  /\ Goto(s, "recalled", "reveal")
  /\ uiState' = Ui("Transcribing")
  /\ UNCHANGED <<sharedVars, sessionSize, whisperReady, phase, localVars, initVars,
                 historyVars>>

SpeakAnswer(s) ==
  /\ Goto(s, "reveal", "answer")
  /\ uiState' = Speaking("SpeakingAnswer", note[s])
  /\ UNCHANGED <<sharedVars, sessionSize, whisperReady, phase, localVars, initVars,
                 historyVars>>

ListenForGrade(s) ==
  /\ Goto(s, "answer", "grade")
  /\ uiState' = Ui("Listening")
  /\ UNCHANGED <<sharedVars, sessionSize, whisperReady, phase, localVars, initVars,
                 historyVars>>

\* Without a native context, or when nothing was recorded, listen returns "".
HearGrade(s) ==
  /\ Goto(s, "graded", "record")
  /\ uiState' = Ui("Transcribing")
  /\ \E text \in {{}} \cup (IF whisperReady THEN Heard ELSE {}) :
       heard' = [heard EXCEPT ![s] = text]
  /\ UNCHANGED <<sharedVars, sessionSize, whisperReady, phase, deck, allNotes, note,
                 readIndex, initVars, historyVars>>

\* answerCard with the note captured at the top of the loop; it swallows errors.
AnswerCard(s) ==
  /\ Goto(s, "record", "inc")
  /\ answers' = [answers EXCEPT ![s] =
       Append(@, [note |-> note[s], ease |-> Ease(heard[s]), late |-> phase = "cleared"])]
  /\ UNCHANGED <<uiState, sharedVars, sessionSize, whisperReady, phase, localVars,
                 initVars, asked, plan>>

\* currentIndex++ on a plain field: a read and a write.
ReadIndex(s) ==
  /\ Goto(s, "inc", "store")
  /\ readIndex' = [readIndex EXCEPT ![s] = currentIndex]
  /\ UNCHANGED <<uiState, sharedVars, sessionSize, whisperReady, phase, deck, allNotes,
                 note, heard, initVars, historyVars>>

\* Mutant: the index stays where it is.
StoreIndexForgotten(s) ==
  /\ Goto(s, "store", "pause")
  /\ currentIndex' = readIndex[s]
  /\ UNCHANGED <<uiState, dueNotes, sessionSize, whisperReady, phase, localVars,
                 initVars, historyVars>>

StoreIndex(s) ==
  /\ Goto(s, "store", "pause")
  /\ currentIndex' = readIndex[s] + 1
  /\ UNCHANGED <<uiState, dueNotes, sessionSize, whisperReady, phase, localVars,
                 initVars, historyVars>>

Finish(s) ==
  /\ Goto(s, "finish", "done")
  /\ uiState' = Ui("Finished")
  /\ UNCHANGED <<sharedVars, sessionSize, whisperReady, phase, localVars, initVars,
                 historyVars>>

\* Cancellation of the scope reaches a coroutine where it is suspended.
Cancel(s) ==
  /\ phase = "cleared"
  /\ pc[s] \in SuspensionPoint
  /\ pc' = [pc EXCEPT ![s] = "cancelled"]
  /\ UNCHANGED <<uiState, sharedVars, sessionSize, whisperReady, phase, localVars,
                 initVars, historyVars>>

SessionProgress(s) ==
  \/ Fetch(s) \/ AssignNotes(s) \/ ResetIndex(s) \/ CheckNotEmpty(s)
  \/ TestIndex(s) \/ TakeNote(s) \/ IndexFault(s)
  \/ AskQuestion(s) \/ ListenForAnswer(s) \/ StopListening(s)
  \/ Reveal(s) \/ SpeakAnswer(s) \/ ListenForGrade(s) \/ HearGrade(s)
  \/ AnswerCard(s) \/ ReadIndex(s) \/ StoreIndex(s) \/ Finish(s) \/ Cancel(s)

SessionStep(s) == SessionProgress(s) \/ RecorderFault(s)

-----------------------------------------------------------------------------
Start == \E s \in Session, d \in Deck : StartSession(s, d)

\* The player is only opened again after its session ended.
StartWhenIdle == (\A s \in Session : ~Active(s)) /\ Start

Background ==
  \/ \E size \in SessionSize : ConfigureSession(size)
  \/ \E j \in InitJob : RetryInit(j) \/ InitStep(j)
  \/ \E s \in Session : SessionStep(s)
  \/ OnCleared

Next == Start \/ Background
NextOneAtATime == StartWhenIdle \/ Background

\* The IO dispatcher runs every coroutine that is ready, and speech, recording,
\* transcription and provider calls return; the recorder need not fail.
Fairness == /\ \A s \in Session : WF_vars(SessionProgress(s))
            /\ \A j \in InitJob : WF_vars(InitStep(j))

Spec == Init /\ [][Next]_vars /\ Fairness
SpecOneAtATime == Init /\ [][NextOneAtATime]_vars /\ Fairness

-----------------------------------------------------------------------------
Answer == [note : Note, ease : EaseValue, late : BOOLEAN]

\* Every variable has its type; the ease handed to AnkiDroid is one of its
\* Ease values (PodcastAgentViewModel.kt:151-161).
TypeOK ==
  /\ uiState \in UiState
  /\ dueNotes \in Seq(Note)
  /\ currentIndex \in Nat
  /\ sessionSize \in Nat \ {0}
  /\ whisperReady \in BOOLEAN
  /\ phase \in {"running", "cleared", "indexFault", "recorderFault"}
  /\ pc \in [Session -> Control]
  /\ deck \in [Session -> Deck \cup {NoDeck}]
  /\ allNotes \in [Session -> Seq(Note)]
  /\ note \in [Session -> Note \cup {NoNote}]
  /\ heard \in [Session -> SUBSET Command]
  /\ readIndex \in [Session -> Nat]
  /\ initPc \in [InitJob -> {"idle", "launched", "models", "whisper", "piper", "done"}]
  /\ wError \in [InitJob -> BOOLEAN]
  /\ answers \in [Session -> Seq(Answer)]
  /\ asked \in [Session -> Note \cup {NoNote}]
  /\ plan \in [Session -> Seq(Note)]

\* Between reading a note and recording its grade a session holds a note, and
\* from the question on it is the note the user was asked; a fetch is for a real
\* deck (PodcastAgentViewModel.kt:103, 117-161).
NoteHeld ==
  \A s \in Session :
    /\ pc[s] = "launched" => deck[s] \in Deck
    /\ pc[s] \in Holding => note[s] \in Note
    /\ pc[s] \in Holding \ {"intro"} => asked[s] = note[s]

\* The inductive invariant of the proofs.
IInv == TypeOK /\ NoteHeld

\* Whatever other sessions do to dueNotes and currentIndex meanwhile, a grade is
\* recorded for the note whose question that session put to the user: the loop
\* captures its note once (PodcastAgentViewModel.kt:117, 161).
GradesTheNoteAsked ==
  [][\A s \in Session : \A i \in DOMAIN answers'[s] \ DOMAIN answers[s] :
       answers'[s][i].note = asked[s]]_vars

\* After onCleared a session records at most the one grade whose transcription
\* was under way (suspension points of PodcastAgentViewModel.kt:115-166).
OneLateGrade ==
  \A s \in Session : Cardinality({i \in DOMAIN answers[s] : answers[s][i].late}) <= 1

\* A session comes to an end, even when sessions overlap and overwrite each
\* other's increments of currentIndex (PodcastAgentViewModel.kt:116, 162).
SessionEnds ==
  \A s \in Session :
    pc[s] = "launched" ~> (~Active(s) \/ phase \notin {"running", "cleared"})

\* Used one after the other, sessions answer the notes they fetched in their
\* order, none twice and none skipped (PodcastAgentViewModel.kt:115-166).
InOrder ==
  \A s \in Session :
    /\ Len(answers[s]) <= Len(plan[s])
    /\ \A i \in DOMAIN answers[s] : answers[s][i].note = plan[s][i]

\* The Finished screen is shown only while no session is at a card and no
\* fetched card is left (PodcastPlayerScreen.kt:175).
FinishedMeansDone ==
  uiState.kind = "Finished" =>
    \A s \in Session :
      /\ pc[s] \notin InLoop
      /\ pc[s] = "done" => Len(answers[s]) = Len(plan[s])

\* The index is never past the list when the note is read
\* (PodcastAgentViewModel.kt:116-117).
NoIndexFault == phase # "indexFault"

-----------------------------------------------------------------------------
(* Inductive invariants of the proofs.                                     *)

\* A grade recorded late is the session's last: there is no way back to a question
\* but through a suspension point (PodcastAgentViewModel.kt:161-163).
LateIsLast ==
  \A s \in Session : \A i \in DOMAIN answers[s] :
    answers[s][i].late =>
      /\ phase # "running"
      /\ pc[s] \in {"inc", "store", "pause"} \cup Stopped
      /\ \A j \in DOMAIN answers[s] : answers[s][j].late => i = j

\* Of sessions that follow one another at most one is under way.
Alone == \A s, t \in Session : Active(s) /\ Active(t) => s = t

\* The shared list is the one the session under way has put there.
ListIsPlan ==
  \A s \in Session :
    /\ pc[s] \in {"idle", "launched", "assign"} => plan[s] = <<>> /\ answers[s] = <<>>
    /\ pc[s] \in InLoop \cup {"reset", "check", "finish"} => dueNotes = plan[s]
    /\ pc[s] \in {"reset", "check"} => answers[s] = <<>>

\* The shared index counts the grades of the session under way, but for the
\* increment it still owes.
IndexCounts ==
  \A s \in Session :
    /\ pc[s] \in {"check", "test", "take", "pause"} \cup Holding =>
         currentIndex = Len(answers[s])
    /\ pc[s] \in {"inc", "store"} => currentIndex + 1 = Len(answers[s])
    /\ pc[s] = "store" => readIndex[s] = currentIndex
    /\ pc[s] \in {"take"} \cup Holding => currentIndex < Len(plan[s])
    /\ pc[s] \in Holding => note[s] = plan[s][currentIndex + 1]
    /\ pc[s] \in {"finish", "done"} => Len(answers[s]) = Len(plan[s])

\* Finished stays on the screen until the next session has fetched.
FinishedIsOver ==
  uiState.kind = "Finished" => \A s \in Session : pc[s] \in Stopped \cup {"launched"}

\* What is fetched comes from the session's deck, how much of it is studied from
\* the set-up screen.
FetchedFromDeck ==
  /\ sessionSize \in SessionSize \cup {DefaultSize}
  /\ \A s \in Session :
       pc[s] = "assign" => \E d \in Deck : allNotes[s] \in Fetchable(d)

OneAtATimeInv ==
  /\ IInv /\ Alone /\ ListIsPlan /\ IndexCounts /\ InOrder
  /\ FinishedIsOver /\ NoIndexFault /\ FetchedFromDeck

=============================================================================
