---------------------------- MODULE ModelAssets ----------------------------
(***************************************************************************)
(* getModelFile, the same code in WhisperEngine and PiperEngine: a bundled *)
(* model is copied from the APK's assets to filesDir unless the file is    *)
(* there, then the native loader reads it.  Two ViewModels of the app (the *)
(* activity's and the deck screen's) initialise their engines concurrently *)
(* and share the file; the process can be killed at any moment.            *)
(***************************************************************************)
EXTENDS Naturals, FiniteSets

CONSTANTS
  Loader,     \* coroutines that call initialize
  Chunks,     \* bound: buffers copyTo moves; the first holds the header
  MaxKills    \* bound: how often the process is killed

ASSUME ChunksAssumption == Chunks \in Nat \ {0}
ASSUME KillsAssumption == MaxKills \in Nat

VARIABLES
  exists,     \* the file is there
  content,    \* which of its chunks hold the model's bytes
  pc,         \* where each loader is
  written,    \* how many chunks its FileOutputStream has written
  interrupted,\* history: a copy was cut short by a kill or an I/O error
  kills       \* how often the process was killed

vars == <<exists, content, pc, written, interrupted, kills>>

Chunk == 1 .. Chunks
Whole == exists /\ content = Chunk

Init ==
  /\ exists = FALSE
  /\ content = {}
  /\ pc = [l \in Loader |-> "idle"]
  /\ written = [l \in Loader |-> 0]
  /\ interrupted = FALSE
  /\ kills = 0

Goto(l, from, to) == pc[l] = from /\ pc' = [pc EXCEPT ![l] = to]

\* initialize is called, by the ViewModel's init block or by Retry.
Initialize(l) ==
  /\ \E from \in {"idle", "failed"} : Goto(l, from, "test")
  /\ UNCHANGED <<exists, content, written, interrupted, kills>>

TestExists(l) ==
  /\ Goto(l, "test", IF exists THEN "load" ELSE "open")
  /\ UNCHANGED <<exists, content, written, interrupted, kills>>

\* FileOutputStream(file) creates the file or empties it.
Open(l) ==
  /\ Goto(l, "open", "copy")
  /\ exists' = TRUE
  /\ content' = {}
  /\ written' = [written EXCEPT ![l] = 0]
  /\ UNCHANGED <<interrupted, kills>>

\* The asset or the file cannot be opened: the exception becomes initialize's error, and
\* no file is made or emptied.
OpenFails(l) ==
  /\ Goto(l, "open", "failed")
  /\ UNCHANGED <<exists, content, written, interrupted, kills>>

\* Every stream writes at its own offset, always the model's bytes.
Copy(l) ==
  /\ written[l] < Chunks
  /\ Goto(l, "copy", "copy")
  /\ written' = [written EXCEPT ![l] = @ + 1]
  /\ content' = content \cup {written[l] + 1}
  /\ UNCHANGED <<exists, interrupted, kills>>

\* Mutant: the last buffer is not written.
CopyDoneEarly(l) ==
  /\ written[l] >= Chunks - 1
  /\ Goto(l, "copy", "load")
  /\ UNCHANGED <<exists, content, written, interrupted, kills>>

CopyDone(l) ==
  /\ written[l] = Chunks
  /\ Goto(l, "copy", "load")
  /\ UNCHANGED <<exists, content, written, interrupted, kills>>

\* Storage is full: the exception becomes initialize's error, the file stays.
CopyFails(l) ==
  /\ Goto(l, "copy", "failed")
  /\ interrupted' = TRUE
  /\ UNCHANGED <<exists, content, written, kills>>

\* What an incomplete file may pass for.  The loader reads tensors until the file
\* ends and counts them, not their bytes: a file that ends before its first tensor
\* is "assumed to be an empty model for testing", one whose last tensor has begun
\* is complete, and bytes another copy has yet to write are zeros.
Readable ==
  /\ 1 \in content
  /\ \/ content = {1}
     \/ Chunks - 1 \in content
     \/ Chunks \in content

\* The native loader reads the file as it is now; where the missing bytes lie
\* decides whether it takes an incomplete file.
Load(l) ==
  /\ \/ Whole /\ Goto(l, "load", "ready")
     \/ ~Whole /\ Goto(l, "load", "failed")
     \/ ~Whole /\ Readable /\ Goto(l, "load", "readyInPart")
  /\ UNCHANGED <<exists, content, written, interrupted, kills>>

\* The process dies; the file stays, the engines of a new process start over.
Kill ==
  /\ kills < MaxKills
  /\ kills' = kills + 1
  /\ \E l \in Loader : pc[l] # "idle"
  /\ pc' = [l \in Loader |-> "idle"]
  /\ interrupted' = (interrupted \/ \E l \in Loader : pc[l] = "copy")
  /\ UNCHANGED <<exists, content, written>>

LoaderStep(l) ==
  \/ Initialize(l) \/ TestExists(l) \/ Open(l) \/ Copy(l) \/ CopyDone(l) \/ Load(l)

Next == Kill \/ \E l \in Loader : LoaderStep(l) \/ OpenFails(l) \/ CopyFails(l)

\* Initialisation is retried and the file system answers.
Fairness == \A l \in Loader : WF_vars(LoaderStep(l))

Spec == Init /\ [][Next]_vars /\ Fairness

-----------------------------------------------------------------------------
Up(l) == pc[l] \in {"ready", "readyInPart"}
Copying(l) == pc[l] \in {"open", "copy"}

\* However copies interleave, truncate and overwrite each other, once no loader
\* is copying any more the file is whole, unless a copy was cut short
\* (WhisperEngine.kt:91-101, PiperEngine.kt:150-160).
SettlesWhole ==
  exists /\ ~interrupted /\ (\A l \in Loader : ~Copying(l)) => Whole

\* If no copy is ever cut short, and the files can be opened in the end, every loader
\* comes up: one whose attempt met the other's unfinished copy does so when it is retried
\* (WhisperEngine.kt:34-57, PiperEngine.kt:45-84).
RetryHelps ==
  [](~interrupted) /\ <>[][\A l \in Loader : ~OpenFails(l)]_vars
    => \A l \in Loader : <>[]Up(l)

=============================================================================
