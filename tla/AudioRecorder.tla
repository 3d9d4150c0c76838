--------------------------- MODULE AudioRecorder ---------------------------
(***************************************************************************)
(* AudioRecorder and the WhisperEngine.listen calls that drive it.         *)
(*                                                                         *)
(* Each listen call opens an AudioRecord, launches a reader coroutine that *)
(* appends what it reads to that call's own list, waits, stops the recorder*)
(* and transcribes the list.  The reader is cancelled but never joined, and*)
(* it reads through the shared field audioRecord.  It lives in a scope of  *)
(* its own, which nobody cancels.  The call lives in the viewModelScope:   *)
(* cancelled in its delay it never comes to stopRecording.  A call, its    *)
(* AudioRecord and its reader share one identity, c.  SpeechInput says when*)
(* calls begin and what becomes of what they have heard.                   *)
(***************************************************************************)
EXTENDS Naturals, Sequences

CONSTANTS
  Call,        \* the listen calls, in any order
  None,        \* no AudioRecord, no job
  MaxChunk     \* bound: buffers read in all

VARIABLES
  isRecording, audioRecord, recordingJob,   \* fields of AudioRecorder
  record,     \* the state of each call's AudioRecord
  produced,   \* how many buffers have been read
  pc,         \* where each listen call is
  reader,     \* where each reader is
  buffer,     \* the AudioRecord its current buffer came from
  audio,      \* accumulatedAudio: where each buffer appended so far came from
  heard,      \* what was handed to fullTranscribe
  fault,      \* an exception has ended the process
  cleared     \* the viewModelScope is cancelled; read here, set by WhisperEngine

fields == <<isRecording, audioRecord, recordingJob>>
device == <<record, produced>>
readerVars == <<reader, buffer, audio>>
vars == <<fields, device, pc, readerVars, heard, fault>>

RecordState == {"unused", "uninitialized", "ready", "recording", "stopped", "released"}
CallState == {"idle", "test", "open", "flag", "begin", "launch", "wait", "stopFlag", "cancel",
              "stop", "release", "clear", "collect", "convert", "done", "abandoned"}
ReaderState == {"none", "launched", "test", "read", "deliver", "done"}

Init ==
  /\ isRecording = FALSE /\ audioRecord = None /\ recordingJob = None
  /\ record = [c \in Call |-> "unused"]
  /\ produced = 0
  /\ pc = [c \in Call |-> "idle"]
  /\ reader = [c \in Call |-> "none"]
  /\ buffer = [c \in Call |-> None]
  /\ audio = [c \in Call |-> <<>>]
  /\ heard = [c \in Call |-> <<>>]
  /\ fault = FALSE

Goto(c, from, to) == ~fault /\ pc[c] = from /\ pc' = [pc EXCEPT ![c] = to]
ReaderGoto(c, from, to) == ~fault /\ reader[c] = from /\ reader' = [reader EXCEPT ![c] = to]

\* The recorder the field names now is in one of these states.
FieldIn(states) == \E c \in Call : audioRecord = c /\ record[c] \in states

\* A call on the recorder the field names, if any, leaves it in state `to`.
Field(to) == record' = IF audioRecord = None THEN record
                       ELSE [record EXCEPT ![audioRecord] = to]

-----------------------------------------------------------------------------
(* listen, with startRecording and stopRecording in line.                  *)

Listen(c) ==
  /\ Goto(c, "idle", "test")
  /\ UNCHANGED <<fields, device, readerVars, heard, fault>>

\* A recording that is under way makes startRecording return at once.
TestRecording(c) ==
  /\ Goto(c, "test", IF isRecording THEN "wait" ELSE "open")
  /\ UNCHANGED <<fields, device, readerVars, heard, fault>>

OpenRecord(c) ==
  /\ Goto(c, "open", "flag")
  /\ audioRecord' = c
  /\ record' = [record EXCEPT ![c] = "ready"]
  /\ UNCHANGED <<isRecording, recordingJob, produced, readerVars, heard, fault>>

\* The microphone is busy or not permitted: startRecording returns, leaving
\* the field set.
OpenFails(c) ==
  /\ Goto(c, "open", "wait")
  /\ audioRecord' = c
  /\ record' = [record EXCEPT ![c] = "uninitialized"]
  /\ UNCHANGED <<isRecording, recordingJob, produced, readerVars, heard, fault>>

SetRecording(c) ==
  /\ Goto(c, "flag", "begin")
  /\ isRecording' = TRUE
  /\ UNCHANGED <<audioRecord, recordingJob, device, readerVars, heard, fault>>

\* audioRecord?.startRecording(), which throws unless the recorder is initialised.
BeginRecording(c) ==
  /\ Goto(c, "begin", "launch")
  /\ IF FieldIn({"uninitialized", "released"})
     THEN fault' = TRUE /\ UNCHANGED record
     ELSE Field("recording") /\ UNCHANGED fault
  /\ UNCHANGED <<fields, produced, readerVars, heard>>

LaunchReader(c) ==
  /\ Goto(c, "launch", "wait")
  /\ recordingJob' = c
  /\ reader' = [reader EXCEPT ![c] = "launched"]
  /\ UNCHANGED <<isRecording, audioRecord, device, buffer, audio, heard, fault>>

\* Mutant: a delay that cancellation does not reach.
EndDelayUncancelled(c) ==
  /\ Goto(c, "wait", "stopFlag")
  /\ UNCHANGED <<fields, device, readerVars, heard, fault>>

\* The delay of durationMs is over.
EndDelay(c) ==
  /\ ~cleared
  /\ Goto(c, "wait", "stopFlag")
  /\ UNCHANGED <<fields, device, readerVars, heard, fault>>

\* Cancelled, delay throws: listen is over, stopRecording is not called, and the
\* recorder and its reader go on.
AbandonDelay(c) ==
  /\ cleared
  /\ Goto(c, "wait", "abandoned")
  /\ UNCHANGED <<fields, device, readerVars, heard, fault>>

\* Mutant: the flag stays set.
ClearRecordingForgotten(c) ==
  /\ Goto(c, "stopFlag", "cancel")
  /\ UNCHANGED <<fields, device, readerVars, heard, fault>>

ClearRecording(c) ==
  /\ Goto(c, "stopFlag", "cancel")
  /\ isRecording' = FALSE
  /\ UNCHANGED <<audioRecord, recordingJob, device, readerVars, heard, fault>>

\* recordingJob?.cancel(): a reader that has begun has no suspension point.
CancelReader(c) ==
  /\ Goto(c, "cancel", "stop")
  /\ reader' = IF recordingJob # None /\ reader[recordingJob] = "launched"
               THEN [reader EXCEPT ![recordingJob] = "done"] ELSE reader
  /\ UNCHANGED <<fields, device, buffer, audio, heard, fault>>

\* audioRecord?.stop() throws on a recorder that is not initialised.
StopRecord(c) ==
  /\ Goto(c, "stop", "release")
  /\ IF FieldIn({"uninitialized", "released"})
     THEN fault' = TRUE /\ UNCHANGED record
     ELSE Field("stopped") /\ UNCHANGED fault
  /\ UNCHANGED <<fields, produced, readerVars, heard>>

\* Mutant: the recorder is stopped but not released.
ReleaseRecordForgotten(c) ==
  /\ Goto(c, "release", "clear")
  /\ UNCHANGED <<fields, device, readerVars, heard, fault>>

ReleaseRecord(c) ==
  /\ Goto(c, "release", "clear")
  /\ Field("released")
  /\ UNCHANGED <<fields, produced, readerVars, heard, fault>>

ClearRecord(c) ==
  /\ Goto(c, "clear", "collect")
  /\ audioRecord' = None
  /\ UNCHANGED <<isRecording, recordingJob, device, readerVars, heard, fault>>

\* Nothing recorded: listen returns "".
CollectNothing(c) ==
  /\ audio[c] = <<>>
  /\ Goto(c, "collect", "done")
  /\ UNCHANGED <<fields, device, readerVars, heard, fault>>

\* toFloatArray takes the size of the list and walks through it.
Collect(c) ==
  /\ audio[c] # <<>>
  /\ Goto(c, "collect", "convert")
  /\ heard' = [heard EXCEPT ![c] = audio[c]]
  /\ UNCHANGED <<fields, device, readerVars, fault>>

Convert(c) ==
  /\ Goto(c, "convert", "done")
  /\ UNCHANGED <<fields, device, readerVars, heard, fault>>

\* The list grew while it was walked: ConcurrentModificationException, or an
\* index past the array.
ConvertFault(c) ==
  /\ audio[c] # heard[c]
  /\ Goto(c, "convert", "convert")
  /\ fault' = TRUE
  /\ UNCHANGED <<fields, device, readerVars, heard>>

RecordingStep(c) ==
  \/ TestRecording(c) \/ OpenRecord(c) \/ OpenFails(c) \/ SetRecording(c)
  \/ BeginRecording(c) \/ LaunchReader(c) \/ EndDelay(c) \/ ClearRecording(c)
  \/ CancelReader(c) \/ StopRecord(c) \/ ReleaseRecord(c) \/ ClearRecord(c)

-----------------------------------------------------------------------------
(* The reader coroutine.                                                   *)

BeginReader(c) ==
  /\ ReaderGoto(c, "launched", "test")
  /\ UNCHANGED <<fields, device, pc, buffer, audio, heard, fault>>

TestReader(c) ==
  /\ ReaderGoto(c, "test", IF isRecording THEN "read" ELSE "done")
  /\ UNCHANGED <<fields, device, pc, buffer, audio, heard, fault>>

\* read blocks until it has a buffer from the recorder the field names now.
ReadBuffer(c) ==
  /\ FieldIn({"recording"})
  /\ produced < MaxChunk
  /\ ReaderGoto(c, "read", "deliver")
  /\ buffer' = [buffer EXCEPT ![c] = audioRecord]
  /\ produced' = produced + 1
  /\ UNCHANGED <<fields, record, pc, audio, heard, fault>>

\* There is no recorder, or it has been stopped: read yields nothing.
ReadNothing(c) ==
  /\ ~FieldIn({"recording"})
  /\ ReaderGoto(c, "read", "test")
  /\ UNCHANGED <<fields, device, pc, buffer, audio, heard, fault>>

\* Mutant: one list for all calls, the current call's.
DeliverToLatest(c) ==
  /\ ReaderGoto(c, "deliver", "test")
  /\ audio' = [audio EXCEPT ![recordingJob] = Append(@, buffer[c])]
  /\ UNCHANGED <<fields, device, pc, buffer, heard, fault>>

\* The callback: accumulatedAudio.addAll.
Deliver(c) ==
  /\ ReaderGoto(c, "deliver", "test")
  /\ audio' = [audio EXCEPT ![c] = Append(@, buffer[c])]
  /\ UNCHANGED <<fields, device, pc, buffer, heard, fault>>

ReaderStep(c) ==
  BeginReader(c) \/ TestReader(c) \/ ReadBuffer(c) \/ ReadNothing(c) \/ Deliver(c)

Listening(c) == pc[c] \notin {"idle", "done", "abandoned"}
Abandoned(c) == pc[c] = "abandoned"

-----------------------------------------------------------------------------
\* Every variable has its type (AudioRecorder.kt:19-24, WhisperEngine.kt:62-77).
TypeOK ==
  /\ isRecording \in BOOLEAN
  /\ audioRecord \in Call \cup {None}
  /\ recordingJob \in Call \cup {None}
  /\ record \in [Call -> RecordState]
  /\ produced \in 0 .. MaxChunk
  /\ pc \in [Call -> CallState]
  /\ reader \in [Call -> ReaderState]
  /\ buffer \in [Call -> Call \cup {None}]
  /\ audio \in [Call -> Seq(Call)]
  /\ heard \in [Call -> Seq(Call)]
  /\ fault \in BOOLEAN

\* One call at a time: what is transcribed for a call was recorded for it, so
\* the spoken answer is never taken for the grade (WhisperEngine.kt:65-76).
HearsOnlyItself ==
  \A c \in Call : \A i \in DOMAIN heard[c] : heard[c][i] = c

\* One call at a time: the microphone is held by at most one recorder, and by
\* none once the call has returned, unless its delay was cancelled
\* (AudioRecorder.kt:61-68, WhisperEngine.kt:71-72).
MicrophoneFree ==
  LET held == {c \in Call : record[c] \in {"ready", "recording", "stopped"}}
  IN  /\ \A c, d \in held : c = d
      /\ ~fault => \A c \in held : Listening(c) \/ Abandoned(c)

=============================================================================
