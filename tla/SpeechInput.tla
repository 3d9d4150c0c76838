---------------------------- MODULE SpeechInput ----------------------------
(***************************************************************************)
(* WhisperEngine.listen as a whole: the microphone (AudioRecorder) and the *)
(* native context (WhisperEngine) of the same calls.  A call is refused    *)
(* without a context, records, and hands what it has heard to the context  *)
(* the field names by then.  What initialize and release do to the context *)
(* meanwhile, and readers that outlive their call, interleave with it.     *)
(***************************************************************************)
EXTENDS WhisperEngine, Sequences

CONSTANT MaxChunk   \* bound: buffers read in all

ASSUME RecorderAssumption == None \notin ListenCall /\ MaxChunk \in Nat \ {0}

VARIABLES
  isRecording, audioRecord, recordingJob, record, produced, pc, reader, buffer, audio, heard, fault,
  pastDelay     \* history: the calls whose delay was over when the scope was cancelled

Recorder == INSTANCE AudioRecorder WITH Call <- ListenCall

recorderVars == <<isRecording, audioRecord, recordingJob, record, produced, pc, reader, buffer,
                  audio, heard, fault>>
allVars == <<vars, recorderVars, pastDelay>>

-----------------------------------------------------------------------------
InitSpeech == Init /\ Recorder!Init /\ pastDelay = {}

Refused(l) == nativeContext = None /\ StartListen(l) /\ UNCHANGED recorderVars
Accepted(l) == nativeContext # None /\ StartListen(l) /\ Recorder!Listen(l)
Begin(l) == ~fault /\ (Refused(l) \/ Accepted(l)) /\ UNCHANGED pastDelay

Recording(l) == Recorder!RecordingStep(l) /\ UNCHANGED vars

\* The end of a recording: it was cancelled, nothing was heard, or fullTranscribe's
\* arguments are evaluated, the context first.
Cancelled(l) == Abandon(l) /\ Recorder!AbandonDelay(l)
Empty(l) == RecordNothing(l) /\ Recorder!CollectNothing(l)
Arguments(l) == LoadContext(l) /\ Recorder!Collect(l)
Transcribe(l) == EnterNative(l) /\ Recorder!Convert(l)
Transcribed(l) == LeaveNative(l) /\ ~fault /\ UNCHANGED recorderVars

ListenStep(l) ==
  /\ \/ Recording(l) \/ Cancelled(l) \/ Empty(l)
     \/ Arguments(l) \/ Transcribe(l) \/ Transcribed(l)
  /\ UNCHANGED pastDelay
ReaderStep(l) == Recorder!ReaderStep(l) /\ UNCHANGED <<vars, pastDelay>>
Fault(l) == Recorder!ConvertFault(l) /\ UNCHANGED <<vars, pastDelay>>

\* A call under way that has recorded for its whole duration.
DelayOver(l) ==
  /\ listenPc[l] \in {"record", "call", "native"}
  /\ pc[l] \notin {"test", "open", "flag", "begin", "launch", "wait"}

CancelCalls == CancelScope /\ pastDelay' = {l \in ListenCall : DelayOver(l)}

\* initialize, the cancellation and release, whatever the calls are doing.
Lifetime ==
  /\ ~fault /\ UNCHANGED recorderVars
  /\ \/ CancelCalls
     \/ /\ \/ \E i \in InitCall : \/ StartInit(i) \/ ModelFails(i)
                                    \/ InitContext(i)
           \/ StartRelease \/ LoadFreed \/ FreeContext \/ ZeroContext
        /\ UNCHANGED pastDelay

Background == Lifetime \/ \E l \in ListenCall : ListenStep(l) \/ ReaderStep(l) \/ Fault(l)

\* Sessions may overlap, and so may their calls; a session's own calls follow one
\* another.
NextSpeech == Background \/ \E l \in ListenCall : Begin(l)
NextOneSession == Background \/ (~Listening /\ \E l \in ListenCall : Begin(l))

\* delay, the recorder's calls and whisper_full return (WhisperFull shows the
\* latter), and the dispatcher runs the readers.
Fairness == \A l \in ListenCall : WF_allVars(ListenStep(l)) /\ WF_allVars(ReaderStep(l))

SpecSpeech == InitSpeech /\ [][NextSpeech]_allVars /\ Fairness
SpecOneSession == InitSpeech /\ [][NextOneSession]_allVars /\ Fairness

-----------------------------------------------------------------------------
\* The recorder's fields have their types, for the calls of this module
\* (AudioRecorder.kt:19-24).
TypeOK == Recorder!TypeOK

\* No call of a session transcribes what was recorded for another: the answer to a
\* question is never heard as the grade for it (WhisperEngine.kt:65-76).
HearsOnlyItself == Recorder!HearsOnlyItself

\* The microphone is held once, and given back by every call of a session that is not
\* cancelled in its delay (AudioRecorder.kt:61-68).
MicrophoneFree == Recorder!MicrophoneFree

\* release waits for nobody, but the cancellation before it ends all calls that are in
\* their delay: a transcription on a freed context is one whose delay was over by then.
\* And it has read the pointer before release was through, as the field names no freed
\* context afterwards (WhisperEngine.kt:71-76, 84-89).
NoUseAfterFree ==
  /\ \A l \in ListenCall :
       listenPc[l] = "native" /\ context[ptr[l]] = "freed" => l \in pastDelay
  /\ releasePc = "done" /\ nativeContext # None => context[nativeContext] = "live"

\* Nobody listens, and no reader lives on, but beside a recorder that a cancelled call
\* has left running.
Quiet ==
  /\ ~Listening
  /\ \/ \A l \in ListenCall : reader[l] \in {"none", "done"}
     \/ \E l \in ListenCall : Recorder!Abandoned(l)

\* Whenever the scope is cancelled and the context freed, listen calls return, and their
\* readers, never joined, end, or the process has died (WhisperEngine.kt:62-77,
\* AudioRecorder.kt:46-58).
ListenEnds == []<>(Quiet \/ fault)

=============================================================================
