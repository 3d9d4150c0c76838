# AnkiVoice: a TLA+ model of the voice review agent

AnkiVoice is an Android app that reviews AnkiDroid flashcards by voice. It reads a
question aloud (Piper), records and transcribes what the user says (whisper.cpp),
reads the answer, asks for a grade and writes it back to AnkiDroid. The app is small,
but almost everything in it happens on two kinds of threads at once: Compose and the
lifecycle callbacks on the main thread, and coroutines on `Dispatchers.IO` that share
plain fields with them and with each other.

This directory holds TLA+ models of the app's own code
(`src/app/src/main/java/com/ankivoice/agent` and `cpp/whisper-jni.cpp`) and of those parts
of the native libraries it carries that have control worth modelling (`whisper_full` with its
cache, ggml's thread pool and graph allocator), TLC configurations that check them on small
instances, and proofs checked by TLAPS. Line references are to the files of the repository.
The short name *ViewModel* stands for `PodcastAgentViewModel`.

## 1. Inventory

| Part | State it keeps | Operations | Interacts through |
|---|---|---|---|
| `PodcastAgentViewModel` | `uiState`, `dueNotes`, `currentIndex`, `sessionSize`, `currentDeckId`, `syncEvent` | `initializeEngines`, `configureSession`, `startSession` / `studyLoop`, `setVoiceSpeed`, `syncWithAnkiDroid`, `onCleared` | calls the engines and the repository from IO coroutines; screens observe its flows |
| `AudioRecorder` | `audioRecord`, `isRecording`, `recordingJob` | `startRecording`, `stopRecording`, the reader coroutine | called by `listen`; calls back `onAudioData` from another thread |
| `WhisperEngine` and `whisper-jni.cpp` | `nativeContext`, the native contexts | `initialize`, `listen`, `transcribe` (no caller), `release` | native heap; released from the main thread |
| `getModelFile` of both engines | the model files in `filesDir` | test, copy, load | two ViewModels and every process share the files |
| `PiperEngine` | `piper`, `voice`, `audioTrack`, `playbackSpeed` | `initialize`, `speak` / `playAudio`, `setSpeed`, `release` | as WhisperEngine |
| `AnkiRepository` | none | `getDeckList`, `getDueCards`, `answerCard` | AnkiDroid's content provider, each call of which may fail |
| Screens: `MainActivity`, deck list, session set-up, player, Discover | permission flag, back stack, `decks`, `isRefreshing`, `selectedCount` | permission answers, navigation, start, sync | Android (rotation, process death, permissions), the ViewModel |
| `UsageManager` | a daily counter | `incrementUsage` | nothing constructs it |
| Theme, history and settings screens | a Boolean | toggle | |
| `whisper_full` (`src/whisper.cpp`) | the decoders, the history `prompt_past1`, the KV cache, `seek` | one call: windows, iterations at rising temperatures, token loop, ranking, output | called through JNI; computes graphs with ggml |
| ggml thread pool (`ggml-cpu.c`) | `threadpool`: barrier, abort mark, chunk counter, graph counter, `stop`, `pause`; a compute state per thread | compute, pause, resume, free; the workers' loop | atomics, a mutex and a condition variable between threads |
| ggml graph allocator (`ggml-alloc.c`) | free blocks, the place and the use counts of each tensor, the plan | reserve, allocate, reuse a plan | decides which memory the threads read and write |
| kernels, quantisation, scheduler, other backends of ggml | | | numerics, or not in the app's build |
| `com.ichi2.anki` | | | AnkiDroid's API files |

### What is hard about it

* **Overlapping sessions.** `PodcastPlayerScreen` starts a session whenever it enters the
  composition, and nothing cancels the one that runs: a rotation, a tab and back, another
  deck. All sessions share the list and the index, without a lock.
* **Cancellation.** Leaving the app cancels `viewModelScope`, but only suspension points
  notice. A transcription or a provider call runs to its end on engines that `onCleared`
  has released meanwhile; a `listen` that is cancelled in its delay never stops the recorder.
* **A reader that is cancelled and not joined**, and that reads its `AudioRecord` from a
  field which the next recording reassigns.
* **Native lifetimes** kept in plain `Long` and nullable fields.
* **Files copied in place**, by two ViewModels at once, with the process killed in between.
* **Conflated flows** (`syncEvent`) and state remembered beside the permission it mirrors.
* **Lock-free threads below.** The pool's threads meet at a barrier made of two counters, take
  chunks from a shared counter, stop at a node that one of them names, and poll before they
  sleep.
* **Memory that is given away early.** The allocator lets tensors share memory as soon as its
  counts say that nobody reads the old one, and keeps plans for later graphs.
* **A loop driven by a model's guesses.** `whisper_full` goes on by what is sampled; only its own
  bookkeeping keeps it within the context, the cache and the audio.
* **Failures that are swallowed**: a failed query looks like an empty deck, a failed
  `answerCard` like a successful one, an unintelligible reply like "good".

`PROJECT.json` lists each hazard at its line with the properties that cover it.

### What makes each part correct

* *Session*: each fetched card is asked and graded once, in order; a grade goes to the card
  that was asked; the Finished screen means it; sessions end; after leaving, at most the
  grade under way is still written.
* *Grading*: the ease is one of AnkiDroid's four, and depends on the commands heard alone.
* *Recorder*: a call hears only itself, has a recorder of its own, frees the microphone unless it
  is cancelled in its delay, and returns; readers end.
* *Native context*: not used after it is freed but by calls that cancellation came too late for, lost
  only to a later initialisation, one thread at a time.
* *whisper_full*: it returns whatever is sampled; no position past the context; room in the
  cache; each decoder sees the prompt and itself; the text comes from the decoder chosen, and
  lies within its tokens.
* *Thread pool*: nodes in order, pieces once, every thread out at the same node, nobody left
  behind, no worker in the last graph when the next is set.
* *Allocator*: tensors held at the same time are apart, what a thread reads is what was
  computed, outputs stay, free memory is not fragmented.
* *Model files*: once nobody copies the file is whole, and retrying brings the engine up.
* *Synthesis*: a track for each session at most, silence after release but for what it met, the
  chosen speed, a ready engine stays ready.
* *Repository*: a session reviews the cards of its deck, once each, whatever fails.
* *Screens*: nothing is shown without access; a session has a deck and a size the user
  chose; the progress bar goes away once its event is collected.

## 2. Modules

| Module | Models | Lines it rests on |
|---|---|---|
| `Grading` | the `when` from text to ease | ViewModel 151-159 |
| `StudySession` | the ViewModel with any number of session and initialisation coroutines | ViewModel 25-185, `PodcastPlayerScreen` |
| `ReviewSession` | abstract specification: what one session promises | |
| `StudySessionRefinement` | the mapping from `StudySession` to `ReviewSession` | |
| `AudioRecorder` | recorder, reader and `listen` around them | `AudioRecorder.kt`, `WhisperEngine.kt` 62-77 |
| `WhisperEngine` | the native context's lifetime | `WhisperEngine.kt`, `whisper-jni.cpp` |
| `SpeechInput` | `AudioRecorder` and `WhisperEngine` composed: `listen` as a whole | `WhisperEngine.kt` 62-89 |
| `WhisperFull` | `whisper_full_with_state` as `fullTranscribe` calls it | `whisper.cpp` 1019-1137, 6155-6308, 6783-7729 |
| `ComputeGraph` | graphs: operations, sources, views, sizes | |
| `GraphRun` | abstract specification: what computing a graph promises | |
| `Threadpool` | the threads of the CPU backend | `ggml-cpu.c` 461-600, 2660-3302 |
| `GraphAlloc` | the walk that places tensors in a buffer | `ggml-alloc.c` 22-348, 587-846, 995-1065 |
| `GraphCompute` | `Threadpool` and `GraphAlloc` composed: graph after graph, with the memory they use | both |
| `ModelAssets` | `getModelFile` and the load after it, as far as the loader accepts a part of a file | `WhisperEngine.kt` 91-101, `PiperEngine.kt` 150-160, `whisper.cpp` 1861-1947 |
| `PiperEngine` | the synthesiser and its audio track | `PiperEngine.kt` |
| `AnkiRepository` | fetching and answering in a whole session | `AnkiRepository.kt` |
| `Screens` | permission gate, navigation, deck list refresh | `MainActivity.kt`, `ui/screens` |
| `MCStudySession`, `MCStudySessionRefinement`, `MCAnkiRepository`, `MCPiperEngine`, `MCGraphCompute` | instances for TLC | |
| `StudySessionProofs`, `SpeechInputProofs` (with `WhisperEngine`), `WhisperFullProofs`, `GraphComputeProofs`, `PiperEngineProofs`, `AnkiRepositoryProofs`, `ModelAssetsProofs`, `ScreensProofs` | theorems and their proofs | |

The modules abstract from each other where the code's interface is narrow. `StudySession`
sees a recording as one suspension (`StopListening`, `RecorderFault`), the engine as
`whisperReady`, AnkiDroid as the set `Fetchable` and each session's log `answers`; `SpeechInput` and
`AnkiRepository` open those up. `Screens` records that a session is started, `StudySession`
what it then does. Downwards, the native call inside `SpeechInput` is one call of
`WhisperFull`, each of whose `Encode`, `DecodePrompt` and `DecodeTokens` computes a graph as
`GraphCompute` does.

`SpeechInput` joins its two parts at the steps of `listen` that touch both: a call is accepted
only if there is a context (`Accepted`), the context is loaded when the recording ends
(`Arguments`), the list is converted while the call goes native (`Transcribe`), the call is cancelled
in its delay (`Cancelled`). `initialize`, the cancellation, `release`, other calls and readers that
outlive theirs interleave between, and no guard keeps them apart that the code does not have:
`initialize` may come over a live context, `release` in the middle of a call. What is assumed of the
callers is the order of `ViewModel.clear` (the scope is cancelled, then `onCleared` releases) and,
in `SpecOneSession`, that no second session listens.

`PiperEngine` has as many sessions as one likes, whose utterances overlap; only those of one
session follow one another, as `studyLoop` calls `speak` and waits.

`GraphCompute` joins plan and threads through `mem`, which says for each cell of the buffer
which tensor was last written there. `Work` is one piece of a node done by one thread: it
writes the node's cells, and the properties ask what was in the cells it reads.

### How state and actions correspond to the code

*Variables* carry the names of the fields and locals. Each coroutine or handler that can be
interrupted has a program counter (`pc`, `initPc`, `reader`, ...) whose values name places
in the function. *Actions* carry the names of what the code does there; one action is the
code between two accesses to shared state, or between two suspension points. Variables
marked *history* in their declaration are not in the program: they remember what a property
needs and guard no action.

*Steps that are merged*, and why nothing is lost:

* `startSession` lines 95-101 are one step: once the list is cleared no index is in range,
  so a session between the two assignments behaves as after both.
* The two reads of line 116, and those of line 117, are one step each. The list that is read
  is the one `TakeNote` or `IndexFault` decides on.
* `initializeEngines` has no suspension point after its launch; its writes to `uiState` are
  steps of their own, the engines' inner steps are in their own modules.
* `WhisperEngine.initialize` is one step after its coroutine has begun: of its inner steps only the
  assignment touches what others see, and what it reports is in `StudySession`.
* `PiperEngine.initialize` is three steps after its coroutine has begun, as its fields are only
  tested from outside. A local variable that is out of use is reset.
* What a pool thread does while it holds the mutex is one step; each access to an atomic is one.
* In `WhisperFull` the decoders of an iteration sample in one step: the code gives each to a
  thread of its own, which touches nothing but its decoder, and joins them.
* The cursor of `getDueCards` is the set of places not read yet (`rows`); the place read next is the
  least of them.
* An iteration over the sources of a node in `GraphAlloc` is a walk planned ahead (`todo`): one
  entry for each call of `allocate_node` and each turn of the parents' loop.

Memory is sequentially consistent in all models. The fields are neither volatile nor locked,
so the JVM may show a thread older values still, and ggml uses relaxed atomics between its
barriers; the models do not claim otherwise.

*Environment assumptions*, stated in the module headers: an Android permission request made
beside another one is answered at once with an empty result; revoking a permission kills the
process; navigation's `saveState` and `restoreState` (that the Home tab may find nothing to
restore is allowed for); AnkiDroid returns a deck's rows in one fixed order. A stopped activity draws
no frames: nothing bounds the time until a screen collects an event.

## 3. Runs

| Run | Question | Result |
|---|---|---|
| `one_at_a_time` | sessions that follow one another, with start-up, a retry, configuration changes, faults and leaving the app: `TypeOK`, `InOrder`, `FinishedMeansDone`, `NoIndexFault`, `ImplementsReviewSession` | hold |
| `overlap` | two sessions that overlap arbitrarily: `NoteHeld`, `OneLateGrade`, `GradesTheNoteAsked`, `SessionEnds` | hold |
| `overlap_finished` | the same, `FinishedMeansDone` | violated |
| `speech_input` | two `listen` calls of a session with recorder, readers and native context; two initialisations, the cancellation and the release falling anywhere: `HearsOnlyItself`, `MicrophoneFree`, `NoUseAfterFree`, `NothingLeaked`, `ListenEnds` | hold |
| `transcribe` | `whisper_full` over audio of several windows, whatever is sampled: `TypeOK`, `PositionsFit`, `SlotFound`, `SeesOwnHistory`, `BestDecodedNow`, `ResultInTokens`, `TranscribeReturns` | hold |
| `compute` | graphs placed in one buffer and computed by one to three threads, with aborts, pauses and a pool that is freed: `ResetUnobserved`, `Apart`, `Coalesced`, `RunsInOrder`, `EachPieceOnce`, `ComputeReturns`, `ReadsIntact` | hold |
| `whisper_threads` | the calls the ViewModel makes: `OneThreadPerContext` | violated |
| `model_copy` | two loaders, kills, full storage: `SettlesWhole`, `RetryHelps` | hold |
| `piper` | two sessions that speak at once, two initialisations, speed changes, the release: `TracksBounded`, `LateUtterances`, `ReadySpeaks`, `PlaysAtSpeed` | hold |
| `anki` | failing calls, blank rows, deletions, kills: `ReviewsTheDeck`, `FinishedCoversDeck`, `FailuresDoNotHang` | hold |
| `anki_card_ord` | a note with two cards: `ReviewsShownCard` | violated |
| `screens` | permission answers, rotations, process death, tabs, Back, syncs: `ShownWithAccess`, `SessionWasSetUp`, `RefreshEnds` | hold |

### Bounds, and why they suffice

* `one_at_a_time`: two sessions, the boot initialisation and one retry, a deck of two cards,
  sizes 1 and 2. Two sessions are needed for one to find the other's leavings; two cards
  make "first", "next" and "last" differ; the sizes make a session shorter than its deck and
  as long as it. A failing query adds the empty result and the partial one.
* `overlap`: two sessions of two cards, engines already up (`SpecReady`). Every pair of steps
  of two sessions can meet; lost increments and faults are reached within two cards.
* `speech_input`: two calls, so that an old reader can meet a new recording; two buffers in all, so
  that an old reader can take one of the new recorder's, and one can come late; two
  initialisations, so that one assigns over the context of the other, or is under way when the
  engine is released. Calls that overlap are in `SpecSpeech`: `FreedOnlyPastTheDelay` and `NeverLeaked`
  are proved for any number of them (section 4), and TLC has confirmed both for two that
  overlap.
* `whisper_threads`: three initialisations, three `listen` calls.
* `transcribe`: everything is scaled down together. The context has 12 tokens (448 in the
  models), which leaves a history of 5, prompts of up to 9 and 2 tokens to sample: enough for
  a timestamp and a text, or an end. A window is 3 timestamp steps, the audio 11, so that
  there are full windows, a window cut short and a rest dropped at the end, and the history
  meets its cap. Two decoders (5 in the code) and three temperatures (6), two of
  them below the cutoff for the history, so that an iteration runs with one decoder, with
  both, with and without history. Lengths 0 and 11 are the call that does nothing and the one
  that does.
* `compute`: three threads are enough to have one ahead, one behind and one asleep; a second
  graph gives the pool, the plan and the memory something left over. A matrix product is cut
  into 2 tiles per thread, so that a thread works its own chunk and steals others
  (`TilesPerTask` is 4 in the code; it only decides when chunks are handed out). One thread
  computes every graph of three nodes over sizes 1 and 2; several compute a small attention
  block with an abort callback, shrinking and growing graphs that keep or lose the plan.
  `Capacity` 14 is more than any of them needs.
* `model_copy`: four chunks, so that two copies can be at different inner positions; two
  kills, so that the process can die again after it came back.
* `piper`: two sessions of two utterances, so that one session can build a track before the release
  and another after it while the other session does the same; two initialisations, one after
  the other or at once; two speeds. `MCPiperEngine` declares initialisations, sessions and the
  utterances of a session symmetric: nothing tells them apart, and the run checks no liveness.
* `anki`: a deck longer than a session with a blank row in it, and a deck of one card.
* `screens`: two decks, two sizes, one tab (the three tabs behave alike but for Discover's
  button), two sync coroutines.

`CHECK_DEADLOCK FALSE` is set where the program may really stop: all sessions over, the
process dead, the engine released.

### Fairness

`StudySession` assumes weak fairness of each coroutine's own steps: the dispatcher runs what
is ready, `delay` ends, and native and provider calls return. Nothing is assumed of the user
or of faults (`RecorderFault` is in no fairness condition). `SpeechInput`: the same for the steps of
a call, the end of its delay or its cancellation among them, and of a reader. `WhisperFull`: the thread inside the call runs (one weak fairness
condition on all its steps; which token is sampled stays open). `GraphCompute`: each thread
of the pool, and the caller once it has begun something; the kernel schedules them. No fairness
is assumed of a spurious wake-up, and none that a caller comes back. `ModelAssets`: the loaders' steps, their retry included; `RetryHelps`
is therefore about a user who presses Retry. `AnkiRepository`: a provider call returns or
throws. `Screens`: the sync coroutines and the collection of their event; no button is ever
assumed to be pressed.

### Refinements

* `ImplementsReviewSession` (`one_at_a_time`): the ViewModel implements `ReviewSession`, one review
  per card of the session, under the mapping of `StudySessionRefinement`.
* `RunsInOrder` (`compute`): `Threadpool` implements `GraphRun`, the computation of a graph by pieces,
  with `run <- cgraph`, `status` read off the caller's place and the recorded pieces. Barriers,
  polling, sleeping and chunk counters are stuttering steps. `RunsAsPromised` proves it for every graph.

### Conditions in properties

Some properties exclude a state the code does reach. The exclusion is a history
variable in the formula, and it is a fact about the program:

* `FinishedMeansDone`, `InOrder` and `NoIndexFault` are checked for sessions that follow one
  another; the user interface does not guarantee it, and `overlap_finished` shows the first
  failing otherwise. In the `overlap` run `IndexFault` fires: an overtaken session can end
  the process.
* `NothingLeaked`: a context in `replaced` is one that a later `initialize` has assigned over. This is
  what Retry does after Whisper came up and Piper did not; the native model of the first attempt
  is lost. `revived`: `release` found an `initialize` under way, which then loads a context nobody
  releases. The property says that contexts are lost in no third way.
* `NoUseAfterFree`: a call in `pastDelay` had its delay behind it when the scope was cancelled; nothing
  stops it before the native code, which may find the context freed (the race of
  `whisper_threads`). All other calls end in their delay.
* `HearsOnlyItself` and its companions are for the calls of one session; overlapping ones share a
  recording. `MicrophoneFree` and `ListenEnds` except the recorder and the readers of a call that was
  cancelled in its delay (`abandoned`): they go on for as long as the process lives. `fault` in them is a real end of the process: `toFloatArray` meeting a late
  append, `stop` on a recorder that did not initialise.
* `ListenEnds` in `speech_input` counts the end of the process as an end.
* `TranscribeReturns` includes a return with an error. After -7 (the cache could not be enlarged)
  the context points to a freed state; that is the model's state `freed`, where it stops.
* `ReadsIntact` excludes graphs of equal counts and different edges, for which
  `ggml_gallocr_needs_realloc` keeps the plan: `whisper_full` computes graphs of one shape in
  several sizes.
* `SettlesWhole`, `RetryHelps`: no copy was cut short. A truncated file exists, so no retry
  copies it again. `RetryHelps` also asks that from some time on the files can be opened.
* `TracksBounded`: two sessions that speak at once do build two tracks, of which the field keeps one
  and nobody releases the other; a session that `release` meets can build another. The bound says that
  tracks do not pile up beyond this, with the length of the sessions for instance. With one session it
  is one track. `LateUtterances`: the utterances `release` has met (`underway`), at most one of a session,
  may still be played. Both except a `release` that fell into an initialisation (`revived`), which
  assigns the fields again.
* `ReadySpeaks`: no two initialisations were under way at once (`together`), as a second tap on Retry
  makes them; the one that fails then takes the voice of the one that succeeded. `PlaysAtSpeed`:
  `setSpeed` did not fall between reading and applying the speed of a new track.
* `ShownWithAccess`: the flag was not last set by an empty permission result, for which
  `results.values.all { it }` is true (a rotation while the dialog is open).
* `SessionWasSetUp`: the process was not restored; then the player starts with the default
  size. The size is of some deck the user set up, as a player that is entered again takes the
  size configured last.
* `RefreshEnds`: no event the bar waited for was gone before the screen had collected it (`missed`): two
  seconds passed while the activity was stopped, another sync cleared it, or it was raised
  again before the screen had seen it cleared. What happens then: with decks in the list the bar
  stays, and hides the hint that would trigger another sync, until the screen is left.

### Disagreements found

1. Overlapping sessions show the Finished screen with cards left (`overlap_finished`).
2. Two threads use one whisper context, which `whisper.h` excludes (`whisper_threads`).
3. The grade for a note's second card is recorded for its first (`anki_card_ord`).

Met while modelling, without a run: a `listen` that is cancelled in its delay leaves the recorder
recording, past any duration (`AbandonDelay`); Retry over a live context loses the native model
(`replaced`); two sessions that speak at once build two tracks, of which one is never released; a sync
event that is not collected in its two seconds leaves the progress bar (`missed`); "got it" and "failed" are in the guide's list of grade
phrases and are recorded as Good; a model file that ends between its header and its first tensor
loads as an empty model, which hears nothing; "All Cards" (`DeckConfigScreen.kt:118`) is the number 50
and always the same first fifty; all cards are fetched though the guide (line 434) asks for
due ones; Discover's button navigates to a route without a destination; the sample notes'
ids -1 and -2 are answered like cards; a buffer the reader delivers after the recording is
lost.

## 4. Proofs

Each theorem below is checked by TLAPS for every value of the constants that meets the
assumptions of its modules; TLC evaluates those assumptions on the instances of section 3. They
say what the constants stand for (decks hold sequences of notes, sizes are positive, the absent
note is no note, tabs are not named like screens, graphs are records of sequences whose sources
are tensors, a pool has at least one thread, the cache is padded to a multiple of something
positive). Hypotheses beyond that are named where they occur. The inductive invariants were
checked by TLC before they were proved.

### Study session (`StudySessionProofs`)

For every set of sessions, decks and notes, every collection and every configured size.

* However many sessions overlap: `TypeCorrect` (every recorded ease is one of four), `HeldNote`,
  `GradesAsked` and `AtMostOneLate`. The invariant of the first three is `TypeOK /\ NoteHeld`. `TypeOK`
  alone is not inductive: a step that appends a grade must know that the session's note *is* a
  note, which is true only between `TakeNote` and the end of `AnswerCard`. `NoteHeld` ties the note
  to the question asked, which makes the action property a consequence. `AtMostOneLate` adds
  `LateIsLast`: a session with a late grade is past its last suspension point but one, and every way
  back to a question leads through another, which ends it.
* For sessions that follow one another (`SpecOneAtATime`): `GradesInOrder`, `NeverOutOfRange`,
  `FinishedIsTrue`. The shared fields are the session's own only because nobody else is under way
  (`Alone`); then the list is what the session has fetched (`ListIsPlan`) and the index counts its
  grades, but for an increment that is still owed (`IndexCounts`). `FinishedIsOver` is needed as the
  text stays on the screen while the next session prepares.
* `ReviewsSafely`: the initial states and steps of `ReviewSession` are implemented, which is
  `ImplementsReviewSession` without its fairness.
* Of `Ease`, for every text: `EaseIsAnEase`, `BestGradeWins` (the most favourable of the commands
  it contains), `UnheardIsGood`.

### Microphone and native context (`SpeechInputProofs`)

Of the native context, for any number of calls in any interleaving: `NeverLeaked` (`NothingLeaked` of
`Spec`) and `FreedOnlyPastTheDelay` (`NoUseAfterFree` of `SpecSpeech`, where calls overlap). The
invariant adds three facts: `ReleaseOrder` (release comes after the cancellation, alone frees
contexts, and meets no initialisation unless `revived` says so), `FieldIsLive` (the field names a live
context, but for the moment between its release and the end of release) and `ReleaseHolds` (release
frees what the field names). The second theorem also needs `CallsEnd`: where each call is in the
recorder and in the engine belong together, and after the cancellation a call that is not in
`pastDelay` is still in its delay or before it, so it can only end.

Of the microphone, for any number of calls of one session (`SpecOneSession`): `OwnVoice`
(`HearsOnlyItself`) and `MicrophoneLentOnce` (`MicrophoneFree`), as consequences of `SpeechInvariance`. The
properties alone are far from inductive, as a reader may outlive its call and read the next one's
recorder. The invariant says why that does no harm: `OneCall` (recorder and context are in the same
call), `FieldOfCall` (the field names the active call's recorder or none), `HolderInField` (who holds
the microphone is in the field), `OwnAudio` (until a call collects, its reader has read its own
recorder only, since no other was ever in the field; what a late reader delivers goes to a list
nobody collects again). A call that was cancelled keeps its recorder in the field for good: nobody
listens after it, as the scope is cancelled.

### whisper_full (`WhisperFullProofs`)

For every context length from 10 on, every number of decoders and temperatures, every length of
audio and up to four tokens of `prompt_init`:

* `FitsContext`: the history and its marker take at most `n_text_ctx / 2` positions, `prompt_init`
  at most four, and the token loop stops after `n_text_ctx / 2 - 4`: together no more than the
  context. The bound is tight.
* `ResultFits`: `result_len` is the number of some earlier iteration plus one, and a decoder at work
  has one token per iteration; cutting and failing keep that.
* `BestIsCurrent`: the best decoder is chosen among those of this iteration, or is the one chosen
  before, whose number never exceeds those decoding now, since their count only grows with the
  temperature.
* `TypeIsKept`, which bounds the history and the result.

The invariant `IInv` has one conjunct for each of these reasons. Two theorems are about the cache,
for every number of decoders and every padding of the context, with the invariant `CacheInv`
on top of `IInv`:

* `CacheHasRoom` (`SlotFound`). During the token loop the occupied cells are those from the start on
  (`CellsInv`): the cache is cleared for the prompt, and `find_slot` then finds its place directly
  behind them (`NextSlot`). They are at most the prompt and one cell for each decoder and token, for
  which `n_decoders + 2` padded contexts are enough (`RoomForAll`); one context is, when there is one
  decoder.
* `DecodersAreApart` (`SeesOwnHistory`). The prompt's cells are seen by all decoders, and each sampled token
  has exactly one cell, which only its decoder sees. The batch has one row for each decoder at
  work: `Row` numbers them without a gap and no two alike (`RowsOfActive`), so the logits a decoder
  reads are those of its own last token (`RowsInv`). A decoder that has stopped leaves its cells
  behind, which is why the invariant asks for all tokens only of those at work. That the view has
  `prompt + n` cells is a bijection between its cells and their positions (`OwnHistory`).

### Allocator and thread pool (`GraphComputeProofs`)

For any graphs, workloads and number of threads, `BackendInvariant` proves the plan's and the pool's
invariants together of `SpecCompute`, and three properties follow; two more follow from it with `PiecesInv`.

* `NeverShared` (`Apart`) and `NeverFragmented` (`Coalesced`). Neither the use counts nor the order of
  nodes matter: that memory is given back once, where it was and as large as it was, follows from
  in-place reuse handing over the place (`allocated` of the source becomes false) and from the
  free list being disjoint. `FreeBytesApart` shows that merging with a neighbour on either side keeps
  it so; for that no two free blocks may touch, so the two properties are proved as one.
* `NobodyIsLeftBehind` (`ResetUnobserved`): when the caller sets the next graph's parameters no worker is
  in the last graph. The barrier only counts, so this needs that all who count belong together.
  `Together` says that every thread of the graph comes to the *same* next barrier (`Position`: the node
  and what the barrier is for), a worker that has not yet seen the graph included, whose place is
  that of somebody who starts at node 1. `Counting` says that `n_barrier` is the number of threads
  waiting; the last to come has reset it and the others all wait. So a barrier opens only when all
  stand at it, and those let out of the last one have left the graph. `Placed` says that threads
  beyond the graph's number are outside it, and that a worker with a new graph before it has left
  the old one. The abort mark is where it could fail: thread 0 writes it while others read it, and a
  thread that stops at another node would wait for ever. `Aborting` says that thread 0 is then past the
  barrier the others are at or before it at the node they all stop at (`AbortIsBehind`). Which node
  that is, is the least one at which the loop does something (`TargetProperty`); its existence is
  proved by the least-number principle, which is the well-foundedness of `<` on the naturals.
* `RunsAsPromised` (`RunsInOrder`): the steps of the pool are steps of `GraphRun` or stutter, for any
  graph, threads, tiles and aborts; and `NoPieceTwice` (`EachPieceOnce`). Their invariant, `PiecesInv`, says
  which pieces are computed by where each thread is: its share of a node as soon as it has *begun*
  it (`Begun`); tiles of a node only once all threads have been let to them (`Opened`, `TilesInTime`); all
  tiles of a node that all have done with (`Ended`, `TilesComplete`). In between, `TilesOf` is about the
  chunk counter: the tiles below `current_chunk` are given away, each to one thread, and are computed
  unless in its hands. The counter starts at the number of threads, as each begins with the chunk of its
  own number; thread 0 sets it before the barrier that the tiles are behind. That a thread computes only
  behind complete stages (`AheadIsComputed`) follows from `Together`: nobody is a node ahead of a thread
  that has yet to pass a barrier, and between two barriers the loop only skips nodes without work
  (`LoopLeadsTo`, `Abreast`). An aborted graph ends at whole nodes as all stop at the same one. TLC had
  confirmed `PiecesInv` with `PoolInv` on the `compute` graphs and on graphs that end in a matrix product,
  a view or an abort.

### Synthesis (`PiperEngineProofs`)

For any number of initialisations, sessions, utterances and speeds, all overlapping:
`TracksDoNotPileUp` (`TracksBounded`), `UtterancesEnd` (`LateUtterances`, and that they are one of each
session), `SuccessLasts` (`ReadySpeaks`), `SpeedIsPlayed` (`PlaysAtSpeed`), with the exceptions section 3
names. `Scheduling` says that the calls of one session follow one another, and that those under way
after a release are the ones it has met. `Tracks` is the core: while the field is not cleared, a
session that has opened a track builds no other, as it finds the field set; afterwards each
session's second track is that of the call `release` has met. So a session opens two at most, and
`Closed` says that `release` has closed one, or that all live ones are of calls it has met. From
these, `TracksBounded` is a count: the tracks are mapped to their sessions, injectively among the calls
release has met and among the others (`OnePerSession`, `LessThanTwice`). `Voices` says that
initialisations under way before the release are the first to succeed, `Utterances` who
played late, `Speeds` what a track's speed is at each step of its set-up.

### Flashcards (`AnkiRepositoryProofs`)

For any decks of any length and any session size: `OnlyTheDeckIsReviewed` (`ReviewsTheDeck`) and
`TheDeckIsCovered` (`FinishedCoversDeck`), both under `OneCardNotes`, every note has one card. Without it
they are false, as the run `anki_card_ord` shows; the `anki` instance meets it. The invariant keeps the
list in the deck's order (`InDeckOrder`), from which a counting argument (`ListedByRank`) gives what
`take` and the cut at `SessionSize` need: a card among the first `SessionSize` with a question stands at
one of the first `SessionSize` places of the list. `NothingMissed` says that every such card is listed or
still to be read, `ReviewsTheList` ties the log to the list and the index.

### Model files and screens (`ModelAssetsProofs`, `ScreensProofs`)

* `FileIsWhole` (`SettlesWhole`), for any number of loaders, any size and any number of kills. The
  invariant is `SomeoneCompletes`: while the file is not whole, whoever emptied it last still
  copies and has all it has written in the file; other copies only add to it.
* `AccessIsGranted` (`ShownWithAccess`) and `SessionsAreSetUp` (`SessionWasSetUp`), for any decks, tabs and
  sizes and a back stack of any depth. The second needs that every player on the stack *or saved
  by a tab* is for a deck with a chosen size (`Entries`), and that the ViewModel's size is one that
  some deck has been given (`SizesMatch`).

### Only model-checked

* All liveness (`SessionEnds`, `ListenEnds`, `RetryHelps`, `FailuresDoNotHang`, `RefreshEnds`,
  `TranscribeReturns`, `ComputeReturns`) and the fairness part of `ImplementsReviewSession`, which the
  prover does not reach.
* `ReadsIntact`: it rests on the use counts, which are folds over the graph, and what a fold
  returns is out of the provers' reach.

## 5. Not modelled

* `UsageManager`: nothing constructs it. The theme, the history and settings screens: fixed
  texts. `com.ichi2.anki`: AnkiDroid's API files, stateless.
* Layout, animation, wording, logging and HTML clean-up. Speech appears by its results: some set
  of commands, or none.
* *The speed row* (`PodcastPlayerScreen.kt:101`) starts at 1.0 whenever the player is entered, while the
  engine keeps its speed: a display value nothing depends on and no comment speaks of.
* *Routes without a destination* (`MainActivity.kt:235`, and a deck name with a slash at 207): the crash
  is an action of `Screens`; a property could only repeat its guard.
* *`WhisperEngine.transcribe`*: no caller.
* *whisper.cpp outside `fullTranscribe`'s path*: beam search, grammars, VAD, word timestamps, callbacks,
  `whisper_full_parallel`, `carry_initial_prompt`, the history kept from an earlier call
  (`no_context` is the default). Reading the model file is modelled by which files it accepts.
* *ggml's kernels, quantisation and numerics*, and its scheduler, which has one backend to
  schedule here. An allocation that `malloc` refuses is left out.
* *In the allocator*: several chunks and buffer types (the CPU backend has one buffer without a
  size limit); views flagged as outputs, which whisper does not make.
* *In the thread pool*: priorities, affinity and NUMA. Pausing, resuming and the abort callback are
  modelled although the app uses none: its pools live for one graph.
* *ggml's other backends* (CUDA, Vulkan, OpenCL, Metal, SYCL, CANN, ...), the x86 kernels and
  whisper's examples: the app's `CMakeLists.txt` compiles none of them. They are most of the C
  and C++ in the repository, so a line count over the whole tree says little about how
  much of the program is covered.

## 6. Plan

Done: all modules of section 2 and the proofs above. Left, in this order:

1. *`SpeechInput` and `PiperEngine` with `StudySession`*: which of the overlaps above two sessions of
   the ViewModel reach together, on one recorder and one track.
2. *What overlapping calls hear*: the second listener is turned away and the first stop ends the
   recording of both. The model has these steps, no property speaks of them yet.
