------------------------- MODULE SpeechInputProofs -------------------------
(***************************************************************************)
(* The first part is about the native context, for any number of calls     *)
(* that overlap as they like: none is lost but to a second initialisation, *)
(* and only a call that was past its delay can find one freed.  The second *)
(* is about the microphone, for any number of calls of one session and     *)
(* whatever their readers do: a call transcribes nothing but its own       *)
(* recording, and the microphone is held once.                             *)
(***************************************************************************)
EXTENDS SpeechInput, TLAPS

-----------------------------------------------------------------------------
(* WhisperEngine: the contexts, the field that names them, and release.    *)

Typed ==
  /\ nativeContext \in InitCall \cup {None}
  /\ context \in [InitCall -> {"none", "live", "freed"}]
  /\ initPc \in [InitCall -> {"idle", "model", "done"}]
  /\ listenPc \in [ListenCall -> {"idle", "record", "call", "native", "done"}]
  /\ releasePc \in {"idle", "load", "free", "zero", "done"}
  /\ ptr \in [ListenCall -> InitCall \cup {None}]
  /\ freed \in InitCall \cup {None}
  /\ cleared \in BOOLEAN /\ revived \in BOOLEAN

\* release comes after the cancellation, and alone frees contexts.
ReleaseOrder ==
  /\ releasePc # "idle" => cleared
  /\ releasePc = "idle" => ~revived
  /\ releasePc # "idle" /\ ~revived => ~Initialising
  /\ \A i \in InitCall : context[i] = "freed" => releasePc \in {"zero", "done"}
  /\ \A l \in ListenCall : listenPc[l] = "native" => ptr[l] \in InitCall

\* The context in the field is alive, but for the moment between its release and the
\* end of release.
FieldIsLive ==
  \A i \in InitCall :
    nativeContext = i => context[i] = "live" \/ (releasePc = "zero" /\ freed = i)

\* Without an initialisation beside it, release frees what the field names.
ReleaseHolds ==
  ~revived =>
    /\ releasePc \in {"free", "zero"} => freed = nativeContext
    /\ \A i \in InitCall : releasePc = "zero" /\ nativeContext = i => context[i] = "freed"

IInv == Typed /\ ReleaseOrder /\ FieldIsLive /\ ReleaseHolds /\ NothingLeaked

\* A new engine: no context, nobody at work (WhisperEngine.kt:26-32).
LEMMA InitIInv == Init => IInv
<1> SUFFICES ASSUME Init PROVE IInv
  OBVIOUS
<1>1. Typed
  BY DEF Init, Typed
<1>2. ReleaseOrder /\ FieldIsLive /\ ReleaseHolds /\ NothingLeaked
  BY NoneAssumption DEF Init, ReleaseOrder, FieldIsLive, ReleaseHolds, NothingLeaked, Initialising
<1> QED
  BY <1>1, <1>2 DEF IInv

\* Every step of initialize, listen, the cancellation and release keeps the invariant,
\* whatever else is under way (WhisperEngine.kt:34-89).
LEMMA NextIInv == IInv /\ [Next]_vars => IInv'
<1> SUFFICES ASSUME IInv, [Next]_vars PROVE IInv'
  OBVIOUS
<1> USE NoneAssumption DEF IInv, scope
<1>1. ASSUME NEW i \in InitCall, StartInit(i) PROVE IInv'
  <2>1. Typed'
    BY <1>1 DEF Typed, StartInit, InitGoto
  <2>2. ReleaseOrder'
    BY <1>1 DEF Typed, ReleaseOrder, Initialising, StartInit, InitGoto
  <2>3. FieldIsLive'
    BY <1>1 DEF Typed, FieldIsLive, StartInit, InitGoto
  <2>4. ReleaseHolds'
    BY <1>1 DEF Typed, ReleaseOrder, FieldIsLive, ReleaseHolds, Initialising, StartInit, InitGoto
  <2>5. NothingLeaked'
    BY <1>1 DEF Typed, ReleaseOrder, FieldIsLive, ReleaseHolds, NothingLeaked, Initialising,
                StartInit, InitGoto
  <2> QED
    BY <2>1, <2>2, <2>3, <2>4, <2>5
<1>2. ASSUME NEW i \in InitCall, ModelFails(i) PROVE IInv'
  <2>1. Typed'
    BY <1>2 DEF Typed, ModelFails, InitGoto
  <2>2. ReleaseOrder'
    BY <1>2 DEF Typed, ReleaseOrder, Initialising, ModelFails, InitGoto
  <2>3. FieldIsLive'
    BY <1>2 DEF Typed, FieldIsLive, ModelFails, InitGoto
  <2>4. ReleaseHolds'
    BY <1>2 DEF Typed, ReleaseOrder, FieldIsLive, ReleaseHolds, Initialising, ModelFails, InitGoto
  <2>5. NothingLeaked'
    BY <1>2 DEF Typed, ReleaseOrder, FieldIsLive, ReleaseHolds, NothingLeaked, Initialising,
                ModelFails, InitGoto
  <2> QED
    BY <2>1, <2>2, <2>3, <2>4, <2>5
<1>3. ASSUME NEW i \in InitCall, InitContext(i) PROVE IInv'
  <2>1. Typed'
    BY <1>3 DEF Typed, InitContext, InitGoto
  <2>2. ReleaseOrder'
    BY <1>3 DEF Typed, ReleaseOrder, Initialising, InitContext, InitGoto
  <2>3. FieldIsLive'
    BY <1>3 DEF Typed, FieldIsLive, InitContext, InitGoto
  <2>4. ReleaseHolds'
    BY <1>3 DEF Typed, ReleaseOrder, FieldIsLive, ReleaseHolds, Initialising, InitContext,
                InitGoto
  <2>5. NothingLeaked'
    BY <1>3 DEF Typed, ReleaseOrder, FieldIsLive, ReleaseHolds, NothingLeaked, Initialising,
                InitContext, InitGoto
  <2> QED
    BY <2>1, <2>2, <2>3, <2>4, <2>5
<1>4. ASSUME NEW l \in ListenCall, StartListen(l) PROVE IInv'
  <2>1. Typed'
    BY <1>4 DEF Typed, StartListen, ListenGoto
  <2>2. ReleaseOrder'
    BY <1>4 DEF Typed, ReleaseOrder, Initialising, StartListen, ListenGoto
  <2>3. FieldIsLive'
    BY <1>4 DEF Typed, FieldIsLive, StartListen, ListenGoto
  <2>4. ReleaseHolds'
    BY <1>4 DEF Typed, ReleaseOrder, FieldIsLive, ReleaseHolds, Initialising, StartListen,
                ListenGoto
  <2>5. NothingLeaked'
    BY <1>4 DEF Typed, ReleaseOrder, FieldIsLive, ReleaseHolds, NothingLeaked, Initialising,
                StartListen, ListenGoto
  <2> QED
    BY <2>1, <2>2, <2>3, <2>4, <2>5
<1>5. ASSUME NEW l \in ListenCall, Abandon(l) PROVE IInv'
  <2>1. Typed'
    BY <1>5 DEF Typed, Abandon, ListenGoto
  <2>2. ReleaseOrder'
    BY <1>5 DEF Typed, ReleaseOrder, Initialising, Abandon, ListenGoto
  <2>3. FieldIsLive'
    BY <1>5 DEF Typed, FieldIsLive, Abandon, ListenGoto
  <2>4. ReleaseHolds'
    BY <1>5 DEF Typed, ReleaseOrder, FieldIsLive, ReleaseHolds, Initialising, Abandon, ListenGoto
  <2>5. NothingLeaked'
    BY <1>5 DEF Typed, ReleaseOrder, FieldIsLive, ReleaseHolds, NothingLeaked, Initialising,
                Abandon, ListenGoto
  <2> QED
    BY <2>1, <2>2, <2>3, <2>4, <2>5
<1>6. ASSUME NEW l \in ListenCall, RecordNothing(l) PROVE IInv'
  <2>1. Typed'
    BY <1>6 DEF Typed, RecordNothing, ListenGoto
  <2>2. ReleaseOrder'
    BY <1>6 DEF Typed, ReleaseOrder, Initialising, RecordNothing, ListenGoto
  <2>3. FieldIsLive'
    BY <1>6 DEF Typed, FieldIsLive, RecordNothing, ListenGoto
  <2>4. ReleaseHolds'
    BY <1>6 DEF Typed, ReleaseOrder, FieldIsLive, ReleaseHolds, Initialising, RecordNothing,
                ListenGoto
  <2>5. NothingLeaked'
    BY <1>6 DEF Typed, ReleaseOrder, FieldIsLive, ReleaseHolds, NothingLeaked, Initialising,
                RecordNothing, ListenGoto
  <2> QED
    BY <2>1, <2>2, <2>3, <2>4, <2>5
<1>7. ASSUME NEW l \in ListenCall, LoadContext(l) PROVE IInv'
  <2>1. Typed'
    BY <1>7 DEF Typed, LoadContext, ListenGoto
  <2>2. ReleaseOrder'
    BY <1>7 DEF Typed, ReleaseOrder, Initialising, LoadContext, ListenGoto
  <2>3. FieldIsLive'
    BY <1>7 DEF Typed, FieldIsLive, LoadContext, ListenGoto
  <2>4. ReleaseHolds'
    BY <1>7 DEF Typed, ReleaseOrder, FieldIsLive, ReleaseHolds, Initialising, LoadContext,
                ListenGoto
  <2>5. NothingLeaked'
    BY <1>7 DEF Typed, ReleaseOrder, FieldIsLive, ReleaseHolds, NothingLeaked, Initialising,
                LoadContext, ListenGoto
  <2> QED
    BY <2>1, <2>2, <2>3, <2>4, <2>5
<1>8. ASSUME NEW l \in ListenCall, EnterNative(l) PROVE IInv'
  <2>1. Typed'
    BY <1>8 DEF Typed, EnterNative, ListenGoto
  <2>2. ReleaseOrder'
    BY <1>8 DEF Typed, ReleaseOrder, Initialising, EnterNative, ListenGoto
  <2>3. FieldIsLive'
    BY <1>8 DEF Typed, FieldIsLive, EnterNative, ListenGoto
  <2>4. ReleaseHolds'
    BY <1>8 DEF Typed, ReleaseOrder, FieldIsLive, ReleaseHolds, Initialising, EnterNative,
                ListenGoto
  <2>5. NothingLeaked'
    BY <1>8 DEF Typed, ReleaseOrder, FieldIsLive, ReleaseHolds, NothingLeaked, Initialising,
                EnterNative, ListenGoto
  <2> QED
    BY <2>1, <2>2, <2>3, <2>4, <2>5
<1>9. ASSUME NEW l \in ListenCall, LeaveNative(l) PROVE IInv'
  <2>1. Typed'
    BY <1>9 DEF Typed, LeaveNative, ListenGoto
  <2>2. ReleaseOrder'
    BY <1>9 DEF Typed, ReleaseOrder, Initialising, LeaveNative, ListenGoto
  <2>3. FieldIsLive'
    BY <1>9 DEF Typed, FieldIsLive, LeaveNative, ListenGoto
  <2>4. ReleaseHolds'
    BY <1>9 DEF Typed, ReleaseOrder, FieldIsLive, ReleaseHolds, Initialising, LeaveNative,
                 ListenGoto
  <2>5. NothingLeaked'
    BY <1>9 DEF Typed, ReleaseOrder, FieldIsLive, ReleaseHolds, NothingLeaked, Initialising,
                LeaveNative, ListenGoto
  <2> QED
    BY <2>1, <2>2, <2>3, <2>4, <2>5
<1>10. CASE CancelScope
  <2>1. Typed'
    BY <1>10 DEF Typed, CancelScope
  <2>2. ReleaseOrder'
    BY <1>10 DEF Typed, ReleaseOrder, Initialising, CancelScope
  <2>3. FieldIsLive'
    BY <1>10 DEF Typed, FieldIsLive, CancelScope
  <2>4. ReleaseHolds'
    BY <1>10 DEF Typed, ReleaseOrder, FieldIsLive, ReleaseHolds, Initialising, CancelScope
  <2>5. NothingLeaked'
    BY <1>10 DEF Typed, ReleaseOrder, FieldIsLive, ReleaseHolds, NothingLeaked, Initialising,
                CancelScope
  <2> QED
    BY <2>1, <2>2, <2>3, <2>4, <2>5
<1>11. CASE StartRelease
  <2>1. Typed'
    BY <1>11 DEF Typed, StartRelease, ReleaseGoto, Initialising
  <2>2. ReleaseOrder'
    BY <1>11 DEF Typed, ReleaseOrder, Initialising, StartRelease, ReleaseGoto
  <2>3. FieldIsLive'
    BY <1>11 DEF Typed, FieldIsLive, StartRelease, ReleaseGoto
  <2>4. ReleaseHolds'
    BY <1>11 DEF Typed, ReleaseOrder, FieldIsLive, ReleaseHolds, Initialising, StartRelease,
                 ReleaseGoto
  <2>5. NothingLeaked'
    BY <1>11 DEF Typed, ReleaseOrder, FieldIsLive, ReleaseHolds, NothingLeaked, Initialising,
                StartRelease, ReleaseGoto
  <2> QED
    BY <2>1, <2>2, <2>3, <2>4, <2>5
<1>12. CASE LoadFreed
  <2>1. Typed'
    BY <1>12 DEF Typed, LoadFreed, ReleaseGoto
  <2>2. ReleaseOrder'
    BY <1>12 DEF Typed, ReleaseOrder, Initialising, LoadFreed, ReleaseGoto
  <2>3. FieldIsLive'
    BY <1>12 DEF Typed, FieldIsLive, LoadFreed, ReleaseGoto
  <2>4. ReleaseHolds'
    BY <1>12 DEF Typed, ReleaseOrder, FieldIsLive, ReleaseHolds, Initialising, LoadFreed,
                 ReleaseGoto
  <2>5. NothingLeaked'
    BY <1>12 DEF Typed, ReleaseOrder, FieldIsLive, ReleaseHolds, NothingLeaked, Initialising,
                LoadFreed, ReleaseGoto
  <2> QED
    BY <2>1, <2>2, <2>3, <2>4, <2>5
<1>13. CASE FreeContext
  <2>1. Typed'
    BY <1>13 DEF Typed, FreeContext, ReleaseGoto
  <2>2. ReleaseOrder'
    BY <1>13 DEF Typed, ReleaseOrder, Initialising, FreeContext, ReleaseGoto
  <2>3. FieldIsLive'
    BY <1>13 DEF Typed, FieldIsLive, FreeContext, ReleaseGoto
  <2>4. ReleaseHolds'
    BY <1>13 DEF Typed, ReleaseOrder, FieldIsLive, ReleaseHolds, Initialising, FreeContext,
                 ReleaseGoto
  <2>5. NothingLeaked'
    BY <1>13 DEF Typed, ReleaseOrder, FieldIsLive, ReleaseHolds, NothingLeaked, Initialising,
                FreeContext, ReleaseGoto
  <2> QED
    BY <2>1, <2>2, <2>3, <2>4, <2>5
<1>14. CASE ZeroContext
  <2>1. Typed'
    BY <1>14 DEF Typed, ZeroContext, ReleaseGoto
  <2>2. ReleaseOrder'
    BY <1>14 DEF Typed, ReleaseOrder, Initialising, ZeroContext, ReleaseGoto
  <2>3. FieldIsLive'
    BY <1>14 DEF Typed, FieldIsLive, ZeroContext, ReleaseGoto
  <2>4. ReleaseHolds'
    BY <1>14 DEF Typed, ReleaseOrder, FieldIsLive, ReleaseHolds, Initialising, ZeroContext,
                 ReleaseGoto
  <2>5. NothingLeaked'
    BY <1>14 DEF Typed, ReleaseOrder, FieldIsLive, ReleaseHolds, NothingLeaked, Initialising,
                ZeroContext, ReleaseGoto
  <2> QED
    BY <2>1, <2>2, <2>3, <2>4, <2>5
<1>15. CASE UNCHANGED vars
  BY <1>15 DEF vars, Typed, ReleaseOrder, FieldIsLive, ReleaseHolds, NothingLeaked, Initialising
<1> QED
  BY <1>1, <1>2, <1>3, <1>4, <1>5, <1>6, <1>7,
     <1>8, <1>9, <1>10, <1>11, <1>12, <1>13, <1>14, <1>15 DEF Next

\* However many initialisations, calls and sessions there are, and however they overlap
\* with each other and with release, a context is lost only to a later initialisation,
\* or when release finds one under way (WhisperEngine.kt:44, 84-89).
THEOREM NeverLeaked == Spec => []NothingLeaked
<1>1. Spec => []IInv
  BY InitIInv, NextIInv, PTL DEF Spec
<1>2. IInv => NothingLeaked
  BY DEF IInv
<1> QED
  BY <1>1, <1>2, PTL

-----------------------------------------------------------------------------
(* SpeechInput, sessions and calls overlapping: the native context.        *)

\* Each step of the composed system is one of WhisperEngine's, or leaves the context
\* alone (WhisperEngine.kt:34-89).
LEMMA SpeechSteps == [NextSpeech]_allVars => [Next]_vars
BY DEF NextSpeech, Next, Background, Begin, Refused, Accepted, ListenStep, Recording, Cancelled,
       Empty, Arguments, Transcribe, Transcribed, ReaderStep, Fault, Lifetime, CancelCalls, allVars

BeforeEnd == {"test", "open", "flag", "begin", "launch", "wait"}

\* In a cancelled scope a call is past its delay, and was so from the start, or has
\* still to be cancelled in it.
CallsEnd ==
  /\ pc \in [ListenCall -> Recorder!CallState]
  /\ \A l \in ListenCall : listenPc[l] \in {"call", "native"} => pc[l] \in {"convert", "done"}
  /\ cleared => \A l \in ListenCall :
       listenPc[l] \in {"record", "call", "native"} =>
         l \in pastDelay \/ (listenPc[l] = "record" /\ pc[l] \in BeforeEnd)

\* Every step of the composed system keeps it: no delay ends after the cancellation
\* (WhisperEngine.kt:71).
LEMMA NextCallsEnd == IInv /\ CallsEnd /\ [NextSpeech]_allVars => CallsEnd'
<1> SUFFICES ASSUME IInv, CallsEnd, [NextSpeech]_allVars PROVE CallsEnd'
  OBVIOUS
<1> USE DEF IInv, Typed, CallsEnd, BeforeEnd, Recorder!CallState, scope
<1>1. ASSUME NEW l \in ListenCall, Begin(l) PROVE CallsEnd'
  BY <1>1 DEF Begin, Refused, Accepted, StartListen, ListenGoto, recorderVars, Recorder!Listen,
              Recorder!Goto
<1>2. ASSUME NEW l \in ListenCall, Recording(l), UNCHANGED pastDelay PROVE CallsEnd'
  <2>1. UNCHANGED <<listenPc, cleared, pastDelay>>
    BY <1>2 DEF Recording, vars
  <2>2. PICK to \in Recorder!CallState :
          /\ pc' = [pc EXCEPT ![l] = to]
          /\ pc[l] \notin {"convert", "done"}
          /\ pc[l] \in BeforeEnd => to \in BeforeEnd \/ ~cleared
    BY <1>2 DEF Recording, Recorder!RecordingStep, Recorder!Goto, Recorder!TestRecording,
         Recorder!OpenRecord, Recorder!OpenFails, Recorder!SetRecording, Recorder!BeginRecording,
         Recorder!LaunchReader, Recorder!EndDelay, Recorder!ClearRecording,
         Recorder!CancelReader, Recorder!StopRecord, Recorder!ReleaseRecord, Recorder!ClearRecord
  <2> QED
    BY <2>1, <2>2
<1>3. ASSUME NEW l \in ListenCall, ListenStep(l), ~Recording(l) PROVE CallsEnd'
  BY <1>3 DEF ListenStep, Cancelled, Empty, Arguments, Transcribe, Transcribed, Abandon,
       RecordNothing, LoadContext, EnterNative, LeaveNative, ListenGoto, recorderVars,
       Recorder!Goto, Recorder!AbandonDelay, Recorder!CollectNothing, Recorder!Collect,
       Recorder!Convert
<1>4. ASSUME NEW l \in ListenCall, ReaderStep(l) PROVE CallsEnd'
  BY <1>4 DEF ReaderStep, vars, Recorder!ReaderStep, Recorder!BeginReader, Recorder!TestReader,
       Recorder!ReadBuffer, Recorder!ReadNothing, Recorder!Deliver
<1>5. ASSUME NEW l \in ListenCall, Fault(l) PROVE CallsEnd'
  BY <1>5 DEF Fault, vars, Recorder!ConvertFault, Recorder!Goto
<1>6. CASE Lifetime
  <2>1. CASE CancelCalls
    BY <1>6, <2>1 DEF Lifetime, CancelCalls, CancelScope, DelayOver, recorderVars
  <2>2. CASE ~CancelCalls
    BY <1>6, <2>2 DEF Lifetime, StartInit, ModelFails, InitContext, StartRelease,
         LoadFreed, FreeContext, ZeroContext, recorderVars
  <2> QED
    BY <2>1, <2>2
<1>7. CASE UNCHANGED allVars
  BY <1>7 DEF allVars, vars, recorderVars
<1> QED
  BY <1>1, <1>2, <1>3, <1>4, <1>5, <1>6, <1>7 DEF NextSpeech, Background, ListenStep

\* For any number of overlapping calls and initialisations, and a release that waits for
\* none of them: a transcription on a freed context is one whose delay was over when the
\* scope was cancelled, and a released engine keeps no freed context in its field
\* (WhisperEngine.kt:71-76, 84-89).
THEOREM FreedOnlyPastTheDelay == SpecSpeech => []NoUseAfterFree
<1>1. InitSpeech => IInv /\ CallsEnd
  BY InitIInv DEF InitSpeech, Init, CallsEnd, Recorder!Init, Recorder!CallState
<1>2. IInv /\ CallsEnd /\ [NextSpeech]_allVars => (IInv /\ CallsEnd)'
  BY NextIInv, NextCallsEnd, SpeechSteps
<1>3. IInv /\ CallsEnd => NoUseAfterFree
  BY DEF IInv, Typed, ReleaseOrder, FieldIsLive, CallsEnd, NoUseAfterFree
<1> QED
  BY <1>1, <1>2, <1>3, PTL DEF SpecSpeech

-----------------------------------------------------------------------------
(* SpeechInput, one session: the microphone.                               *)

Active(c) == pc[c] \notin {"idle", "done"}
Holds(c) == record[c] \in {"ready", "recording", "stopped"}

\* The calls of the recorder and of the context are the same ones, one at a time; one
\* that was cancelled in its delay is the last.
OneCall ==
  /\ listenPc \in [ListenCall -> {"idle", "record", "call", "native", "done"}]
  /\ \A c \in ListenCall : Active(c) => listenPc[c] \in {"record", "call"} \/ Recorder!Abandoned(c)
  /\ \A c \in ListenCall : Recorder!Abandoned(c) => cleared
  /\ \A c \in ListenCall : listenPc[c] = "idle" => pc[c] = "idle"
  /\ \A c, d \in ListenCall :
       /\ listenPc[c] \notin {"idle", "done"} \/ Recorder!Abandoned(c)
       /\ listenPc[d] \notin {"idle", "done"} \/ Recorder!Abandoned(d)
       => c = d

\* The field names a recorder of the active call only, from its opening until it is
\* cleared.
FieldOfCall ==
  /\ audioRecord # None => Active(audioRecord)
  /\ \A c \in ListenCall : pc[c] \in {"test", "open", "collect", "convert"} => audioRecord = None

\* Whoever holds the microphone is the recorder in the field, up to its release.
HolderInField ==
  /\ \A c \in ListenCall : Holds(c) => audioRecord = c
  /\ \A c \in ListenCall : pc[c] = "clear" => \A d \in ListenCall : ~Holds(d)

\* Until a call collects what it heard, its reader can only have read its own recorder.
OwnAudio ==
  /\ \A c \in ListenCall : pc[c] = "idle" => reader[c] = "none"
  /\ \A c \in ListenCall : reader[c] = "deliver" => buffer[c] \in ListenCall
  /\ \A c \in ListenCall : pc[c] \notin {"convert", "done"} =>
       /\ reader[c] = "deliver" => buffer[c] = c
       /\ \A k \in DOMAIN audio[c] : audio[c][k] = c

SpeechInv == TypeOK /\ OneCall /\ FieldOfCall /\ HolderInField /\ OwnAudio /\ HearsOnlyItself

-----------------------------------------------------------------------------
\* A new engine: no call has begun (WhisperEngine.kt:26-32).
LEMMA InitSpeechInv == Init /\ Recorder!Init => SpeechInv
<1> SUFFICES ASSUME Init, Recorder!Init PROVE SpeechInv
  OBVIOUS
<1> USE RecorderAssumption DEF Recorder!Init
<1>1. TypeOK
  <2>1. <<>> \in Seq(ListenCall) /\ 0 \in 0 .. MaxChunk
    OBVIOUS
  <2>2. /\ pc \in [ListenCall -> Recorder!CallState]
        /\ reader \in [ListenCall -> Recorder!ReaderState]
        /\ record \in [ListenCall -> Recorder!RecordState]
    BY DEF Recorder!RecordState, Recorder!CallState, Recorder!ReaderState
  <2>3. /\ produced \in 0 .. MaxChunk
        /\ buffer \in [ListenCall -> ListenCall \cup {None}]
        /\ audio \in [ListenCall -> Seq(ListenCall)] /\ heard \in [ListenCall -> Seq(ListenCall)]
    BY <2>1
  <2> QED
    BY <2>2, <2>3 DEF TypeOK, Recorder!TypeOK
<1>2. OneCall
  BY DEF Init, OneCall, Active, Recorder!Abandoned
<1>3. FieldOfCall /\ HolderInField
  BY DEF FieldOfCall, HolderInField, Holds, Active
<1>4. OwnAudio
  <2>1. \A c \in ListenCall : DOMAIN audio[c] = {}
    OBVIOUS
  <2> QED
    BY <2>1 DEF OwnAudio
<1>5. HearsOnlyItself
  <2>1. \A c \in ListenCall : DOMAIN heard[c] = {}
    OBVIOUS
  <2> QED
    BY <2>1 DEF HearsOnlyItself, Recorder!HearsOnlyItself
<1> QED
  BY <1>1, <1>2, <1>3, <1>4, <1>5 DEF SpeechInv

\* Two calls inside the recorder are one (WhisperEngine.kt:62-77).
LEMMA SoleCall ==
  ASSUME SpeechInv, NEW c \in ListenCall, NEW d \in ListenCall, Active(c), Active(d)
  PROVE  c = d
BY DEF SpeechInv, OneCall

\* A call that goes on without touching its reader leaves the reader's audio its own
\* (WhisperEngine.kt:65-76).
LEMMA AudioStays ==
  ASSUME SpeechInv, NEW l \in ListenCall, NEW to \in Recorder!CallState \ {"idle"},
         pc[l] \notin {"idle", "convert", "done"}, pc' = [pc EXCEPT ![l] = to],
         UNCHANGED <<reader, buffer, audio>>
  PROVE  OwnAudio'
<1>1. \A c \in ListenCall : c # l => pc'[c] = pc[c]
  BY DEF SpeechInv, TypeOK, Recorder!TypeOK
<1>2. pc'[l] # "idle"
  BY DEF SpeechInv, TypeOK, Recorder!TypeOK
<1> QED
  BY <1>1, <1>2 DEF SpeechInv, OwnAudio

\* A call on the recorder in the field changes that one alone (AudioRecorder.kt:44, 65-66).
LEMMA FieldChanges ==
  ASSUME SpeechInv, NEW to \in Recorder!RecordState, Recorder!Field(to)
  PROVE  /\ record' \in [ListenCall -> Recorder!RecordState]
         /\ \A c \in ListenCall : record'[c] = IF c = audioRecord THEN to ELSE record[c]
<1> USE DEF SpeechInv, TypeOK, Recorder!TypeOK, Recorder!Field
<1>1. CASE audioRecord = None
  BY <1>1, RecorderAssumption
<1>2. CASE audioRecord # None
  BY <1>2
<1> QED
  BY <1>1, <1>2

\* startRecording and stop either throw or change the recorder in the field
\* (AudioRecorder.kt:44, 65).
LEMMA FieldOrFault ==
  ASSUME SpeechInv, NEW to \in {"recording", "stopped"},
         IF Recorder!FieldIn({"uninitialized", "released"})
         THEN fault' = TRUE /\ UNCHANGED record
         ELSE Recorder!Field(to) /\ UNCHANGED fault
  PROVE  /\ record' \in [ListenCall -> Recorder!RecordState]
         /\ fault' \in BOOLEAN
         /\ \A c \in ListenCall : record'[c] = record[c] \/ audioRecord = c
<1>1. CASE Recorder!FieldIn({"uninitialized", "released"})
  BY <1>1 DEF SpeechInv, TypeOK, Recorder!TypeOK
<1>2. CASE ~Recorder!FieldIn({"uninitialized", "released"})
  <2>1. to \in Recorder!RecordState
    BY DEF Recorder!RecordState
  <2>2. Recorder!Field(to) /\ fault' = fault
    BY <1>2
  <2> QED
    BY <2>1, <2>2, FieldChanges DEF SpeechInv, TypeOK, Recorder!TypeOK
<1> QED
  BY <1>1, <1>2

\* Recording, from the test of the flag to the cleared field (AudioRecorder.kt:26-68).
LEMMA RecordingKeeps ==
  ASSUME SpeechInv, NEW l \in ListenCall, Recording(l)
  PROVE  SpeechInv'
<1> USE RecorderAssumption
    DEF SpeechInv, Active, TypeOK, Recorder!TypeOK, Recorder!CallState, Recorder!ReaderState,
        Recorder!RecordState, OneCall, FieldOfCall, Recorder!Goto, Recorder!ReaderGoto,
        Recorder!fields, Recorder!device, Recorder!readerVars, Recorder!Abandoned, scope
<1>1. CASE Recorder!TestRecording(l) /\ UNCHANGED vars
  <2>1. TypeOK'
    BY <1>1 DEF Recorder!TestRecording, vars
  <2>2. OneCall'
    BY <1>1 DEF Recorder!TestRecording, vars
  <2>3. FieldOfCall'
    BY <1>1 DEF Recorder!TestRecording, vars
  <2>4. HolderInField'
    BY <1>1 DEF HolderInField, Holds, Recorder!TestRecording, vars
  <2>5. OwnAudio'
    BY <1>1, ZenonT(30) DEF OwnAudio, Recorder!TestRecording, vars
  <2>6. HearsOnlyItself'
    BY <1>1 DEF HearsOnlyItself, Recorder!HearsOnlyItself, Recorder!TestRecording, vars
  <2> QED
    BY <2>1, <2>2, <2>3, <2>4, <2>5, <2>6
<1>2. CASE Recorder!OpenRecord(l) /\ UNCHANGED vars
  <2>1. TypeOK'
    BY <1>2 DEF Recorder!OpenRecord, vars
  <2>2. OneCall'
    BY <1>2 DEF Recorder!OpenRecord, vars
  <2>3. FieldOfCall'
    BY <1>2 DEF Recorder!OpenRecord, vars
  <2>4. HolderInField'
    <3>1. \A d \in ListenCall : ~Holds(d)
      BY <1>2 DEF HolderInField, Recorder!OpenRecord
    <3>2. \A d \in ListenCall : pc'[d] # "clear"
      BY <1>2 DEF Recorder!OpenRecord
    <3> QED
      BY <1>2, <3>1, <3>2 DEF HolderInField, Holds, Recorder!OpenRecord
  <2>5. OwnAudio'
    BY <1>2 DEF OwnAudio, Recorder!OpenRecord, vars
  <2>6. HearsOnlyItself'
    BY <1>2 DEF HearsOnlyItself, Recorder!HearsOnlyItself, Recorder!OpenRecord, vars
  <2> QED
    BY <2>1, <2>2, <2>3, <2>4, <2>5, <2>6
<1>3. CASE Recorder!OpenFails(l) /\ UNCHANGED vars
  <2>1. TypeOK'
    BY <1>3 DEF Recorder!OpenFails, vars
  <2>2. OneCall'
    BY <1>3 DEF Recorder!OpenFails, vars
  <2>3. FieldOfCall'
    BY <1>3 DEF Recorder!OpenFails, vars
  <2>4. HolderInField'
    BY <1>3 DEF HolderInField, Holds, Recorder!OpenFails, vars
  <2>5. OwnAudio'
    BY <1>3 DEF OwnAudio, Recorder!OpenFails, vars
  <2>6. HearsOnlyItself'
    BY <1>3 DEF HearsOnlyItself, Recorder!HearsOnlyItself, Recorder!OpenFails, vars
  <2> QED
    BY <2>1, <2>2, <2>3, <2>4, <2>5, <2>6
<1>4. CASE Recorder!SetRecording(l) /\ UNCHANGED vars
  <2>1. TypeOK'
    BY <1>4 DEF Recorder!SetRecording, vars
  <2>2. OneCall'
    BY <1>4 DEF Recorder!SetRecording, vars
  <2>3. FieldOfCall'
    BY <1>4 DEF Recorder!SetRecording, vars
  <2>4. HolderInField'
    BY <1>4 DEF HolderInField, Holds, Recorder!SetRecording, vars
  <2>5. OwnAudio'
    BY <1>4, ZenonT(30) DEF OwnAudio, Recorder!SetRecording, vars
  <2>6. HearsOnlyItself'
    BY <1>4 DEF HearsOnlyItself, Recorder!HearsOnlyItself, Recorder!SetRecording, vars
  <2> QED
    BY <2>1, <2>2, <2>3, <2>4, <2>5, <2>6
<1>5. CASE Recorder!BeginRecording(l) /\ UNCHANGED vars
  <2>0. /\ record' \in [ListenCall -> Recorder!RecordState]
        /\ fault' \in BOOLEAN
        /\ \A c \in ListenCall : record'[c] = record[c] \/ audioRecord = c
    BY <1>5, FieldOrFault DEF Recorder!BeginRecording
  <2>1. TypeOK'
    BY <1>5, <2>0 DEF Recorder!BeginRecording, vars
  <2>2. OneCall'
    BY <1>5, <2>0 DEF Recorder!BeginRecording, vars
  <2>3. FieldOfCall'
    BY <1>5, <2>0 DEF Recorder!BeginRecording, vars
  <2>4. HolderInField'
    <3>1. pc'[l] # "clear" /\ \A c \in ListenCall : c # l => ~Active(c)'
      BY <1>5 DEF Recorder!BeginRecording, vars
    <3> QED
      BY <1>5, <2>0, <3>1 DEF HolderInField, Holds, Recorder!BeginRecording, vars
  <2>5. OwnAudio'
    <3>1. /\ pc' = [pc EXCEPT ![l] = "launch"] /\ UNCHANGED <<reader, buffer, audio>>
          /\ pc[l] = "begin"
      BY <1>5 DEF Recorder!BeginRecording
    <3> QED
      BY <3>1, AudioStays
  <2>6. HearsOnlyItself'
    BY <1>5, <2>0 DEF HearsOnlyItself, Recorder!HearsOnlyItself, Recorder!BeginRecording,
       vars
  <2> QED
    BY <2>1, <2>2, <2>3, <2>4, <2>5, <2>6
<1>6. CASE Recorder!LaunchReader(l) /\ UNCHANGED vars
  <2>1. TypeOK'
    BY <1>6 DEF Recorder!LaunchReader, vars
  <2>2. OneCall'
    BY <1>6 DEF Recorder!LaunchReader, vars
  <2>3. FieldOfCall'
    BY <1>6 DEF Recorder!LaunchReader, vars
  <2>4. HolderInField'
    BY <1>6 DEF HolderInField, Holds, Recorder!LaunchReader, vars
  <2>5. OwnAudio'
    BY <1>6, SMTT(30) DEF OwnAudio, Recorder!LaunchReader, vars
  <2>6. HearsOnlyItself'
    BY <1>6 DEF HearsOnlyItself, Recorder!HearsOnlyItself, Recorder!LaunchReader, vars
  <2> QED
    BY <2>1, <2>2, <2>3, <2>4, <2>5, <2>6
<1>7. CASE Recorder!EndDelay(l) /\ UNCHANGED vars
  <2>1. TypeOK'
    BY <1>7 DEF Recorder!EndDelay, vars
  <2>2. OneCall'
    BY <1>7 DEF Recorder!EndDelay, vars
  <2>3. FieldOfCall'
    BY <1>7 DEF Recorder!EndDelay, vars
  <2>4. HolderInField'
    BY <1>7 DEF HolderInField, Holds, Recorder!EndDelay, vars
  <2>5. OwnAudio'
    BY <1>7, ZenonT(30) DEF OwnAudio, Recorder!EndDelay, vars
  <2>6. HearsOnlyItself'
    BY <1>7 DEF HearsOnlyItself, Recorder!HearsOnlyItself, Recorder!EndDelay, vars
  <2> QED
    BY <2>1, <2>2, <2>3, <2>4, <2>5, <2>6
<1>8. CASE Recorder!ClearRecording(l) /\ UNCHANGED vars
  <2>1. TypeOK'
    BY <1>8 DEF Recorder!ClearRecording, vars
  <2>2. OneCall'
    BY <1>8 DEF Recorder!ClearRecording, vars
  <2>3. FieldOfCall'
    BY <1>8 DEF Recorder!ClearRecording, vars
  <2>4. HolderInField'
    BY <1>8 DEF HolderInField, Holds, Recorder!ClearRecording, vars
  <2>5. OwnAudio'
    BY <1>8, ZenonT(30) DEF OwnAudio, Recorder!ClearRecording, vars
  <2>6. HearsOnlyItself'
    BY <1>8 DEF HearsOnlyItself, Recorder!HearsOnlyItself, Recorder!ClearRecording, vars
  <2> QED
    BY <2>1, <2>2, <2>3, <2>4, <2>5, <2>6
<1>9. CASE Recorder!CancelReader(l) /\ UNCHANGED vars
  <2>1. TypeOK'
    BY <1>9 DEF Recorder!CancelReader, vars
  <2>2. OneCall'
    BY <1>9 DEF Recorder!CancelReader, vars
  <2>3. FieldOfCall'
    BY <1>9 DEF Recorder!CancelReader, vars
  <2>4. HolderInField'
    BY <1>9 DEF HolderInField, Holds, Recorder!CancelReader, vars
  <2>5. OwnAudio'
    BY <1>9 DEF OwnAudio, Recorder!CancelReader, vars
  <2>6. HearsOnlyItself'
    BY <1>9 DEF HearsOnlyItself, Recorder!HearsOnlyItself, Recorder!CancelReader, vars
  <2> QED
    BY <2>1, <2>2, <2>3, <2>4, <2>5, <2>6
<1>10. CASE Recorder!StopRecord(l) /\ UNCHANGED vars
  <2>0. /\ record' \in [ListenCall -> Recorder!RecordState]
        /\ fault' \in BOOLEAN
        /\ \A c \in ListenCall : record'[c] = record[c] \/ audioRecord = c
    BY <1>10, FieldOrFault DEF Recorder!StopRecord
  <2>1. TypeOK'
    BY <1>10, <2>0 DEF Recorder!StopRecord, vars
  <2>2. OneCall'
    BY <1>10, <2>0 DEF Recorder!StopRecord, vars
  <2>3. FieldOfCall'
    BY <1>10, <2>0 DEF Recorder!StopRecord, vars
  <2>4. HolderInField'
    <3>1. pc'[l] # "clear" /\ \A c \in ListenCall : c # l => ~Active(c)'
      BY <1>10 DEF Recorder!StopRecord, vars
    <3> QED
      BY <1>10, <2>0, <3>1 DEF HolderInField, Holds, Recorder!StopRecord, vars
  <2>5. OwnAudio'
    <3>1. /\ pc' = [pc EXCEPT ![l] = "release"] /\ UNCHANGED <<reader, buffer, audio>>
          /\ pc[l] = "stop"
      BY <1>10 DEF Recorder!StopRecord
    <3> QED
      BY <3>1, AudioStays
  <2>6. HearsOnlyItself'
    BY <1>10, <2>0 DEF HearsOnlyItself, Recorder!HearsOnlyItself, Recorder!StopRecord, vars
  <2> QED
    BY <2>1, <2>2, <2>3, <2>4, <2>5, <2>6
<1>11. CASE Recorder!ReleaseRecord(l) /\ UNCHANGED vars
  <2>0. /\ record' \in [ListenCall -> Recorder!RecordState]
        /\ \A c \in ListenCall : record'[c] = IF c = audioRecord THEN "released" ELSE record[c]
    BY <1>11, FieldChanges DEF Recorder!ReleaseRecord
  <2>1. TypeOK'
    BY <1>11, <2>0 DEF Recorder!ReleaseRecord, vars
  <2>2. OneCall'
    BY <1>11, <2>0 DEF Recorder!ReleaseRecord, vars
  <2>3. FieldOfCall'
    BY <1>11, <2>0 DEF Recorder!ReleaseRecord, vars
  <2>4. HolderInField'
    BY <1>11, <2>0 DEF HolderInField, Holds, Recorder!ReleaseRecord, vars
  <2>5. OwnAudio'
    <3>1. /\ pc' = [pc EXCEPT ![l] = "clear"] /\ UNCHANGED <<reader, buffer, audio>>
          /\ pc[l] = "release"
      BY <1>11 DEF Recorder!ReleaseRecord
    <3> QED
      BY <3>1, AudioStays
  <2>6. HearsOnlyItself'
    BY <1>11, <2>0 DEF HearsOnlyItself, Recorder!HearsOnlyItself, Recorder!ReleaseRecord,
       vars
  <2> QED
    BY <2>1, <2>2, <2>3, <2>4, <2>5, <2>6
<1>12. CASE Recorder!ClearRecord(l) /\ UNCHANGED vars
  <2>1. TypeOK'
    BY <1>12 DEF Recorder!ClearRecord, vars
  <2>2. OneCall'
    BY <1>12 DEF Recorder!ClearRecord, vars
  <2>3. FieldOfCall'
    BY <1>12 DEF Recorder!ClearRecord, vars
  <2>4. HolderInField'
    BY <1>12 DEF HolderInField, Holds, Recorder!ClearRecord, vars
  <2>5. OwnAudio'
    BY <1>12, ZenonT(30) DEF OwnAudio, Recorder!ClearRecord, vars
  <2>6. HearsOnlyItself'
    BY <1>12 DEF HearsOnlyItself, Recorder!HearsOnlyItself, Recorder!ClearRecord, vars
  <2> QED
    BY <2>1, <2>2, <2>3, <2>4, <2>5, <2>6
<1> QED
  BY <1>1, <1>2, <1>3, <1>4, <1>5, <1>6, <1>7, <1>8, <1>9, <1>10, <1>11, <1>12 DEF
     Recording, Recorder!RecordingStep

\* The rest of listen: the cancellation, nothing heard, the arguments, the conversion, the
\* transcription (WhisperEngine.kt:71-77).
LEMMA ListeningKeeps ==
  ASSUME SpeechInv, NEW l \in ListenCall, ListenStep(l)
  PROVE  SpeechInv'
<1> USE RecorderAssumption
    DEF SpeechInv, Active, TypeOK, Recorder!TypeOK, Recorder!CallState, Recorder!ReaderState,
        Recorder!RecordState, OneCall, FieldOfCall, Recorder!Goto, Recorder!ReaderGoto,
        Recorder!fields, Recorder!device, Recorder!readerVars, Recorder!Abandoned, scope
<1>1. CASE Empty(l)
  <2>1. TypeOK'
    BY <1>1 DEF Empty, RecordNothing, ListenGoto, Recorder!CollectNothing
  <2>2. OneCall'
    BY <1>1 DEF Empty, RecordNothing, ListenGoto, Recorder!CollectNothing
  <2>3. FieldOfCall'
    BY <1>1 DEF Empty, RecordNothing, ListenGoto, Recorder!CollectNothing
  <2>4. HolderInField'
    BY <1>1 DEF HolderInField, Holds, Empty, RecordNothing, ListenGoto,
       Recorder!CollectNothing
  <2>5. OwnAudio'
    <3>1. /\ pc[l] = "collect" /\ pc' = [pc EXCEPT ![l] = "done"]
          /\ UNCHANGED <<reader, buffer, audio>>
      BY <1>1 DEF Empty, Recorder!CollectNothing
    <3> QED
      BY <3>1, AudioStays
  <2>6. HearsOnlyItself'
    BY <1>1 DEF HearsOnlyItself, Recorder!HearsOnlyItself, Empty, RecordNothing,
       ListenGoto, Recorder!CollectNothing
  <2> QED
    BY <2>1, <2>2, <2>3, <2>4, <2>5, <2>6
<1>2. CASE Arguments(l)
  <2>1. TypeOK'
    BY <1>2 DEF Arguments, LoadContext, ListenGoto, Recorder!Collect
  <2>2. OneCall'
    <3>1. /\ listenPc[l] = "record" /\ listenPc' = [listenPc EXCEPT ![l] = "call"]
          /\ pc' = [pc EXCEPT ![l] = "convert"]
      BY <1>2 DEF Arguments, LoadContext, ListenGoto, Recorder!Collect
    <3> QED
      BY <3>1
  <2>3. FieldOfCall'
    BY <1>2 DEF Arguments, LoadContext, ListenGoto, Recorder!Collect
  <2>4. HolderInField'
    BY <1>2 DEF HolderInField, Holds, Arguments, LoadContext, ListenGoto, Recorder!Collect
  <2>5. OwnAudio'
    <3>1. /\ pc[l] = "collect" /\ pc' = [pc EXCEPT ![l] = "convert"]
          /\ UNCHANGED <<reader, buffer, audio>>
      BY <1>2 DEF Arguments, Recorder!Collect
    <3> QED
      BY <3>1, AudioStays
  <2>6. HearsOnlyItself'
    <3>1. heard' = [heard EXCEPT ![l] = audio[l]] /\ pc[l] = "collect"
      BY <1>2 DEF Arguments, Recorder!Collect
    <3>2. \A k \in DOMAIN audio[l] : audio[l][k] = l
      BY <3>1 DEF OwnAudio
    <3>3. \A c \in ListenCall : heard'[c] = IF c = l THEN audio[l] ELSE heard[c]
      BY <3>1
    <3> QED
      BY <3>2, <3>3 DEF HearsOnlyItself, Recorder!HearsOnlyItself
  <2> QED
    BY <2>1, <2>2, <2>3, <2>4, <2>5, <2>6
<1>3. CASE Transcribe(l)
  <2>1. TypeOK'
    BY <1>3 DEF Transcribe, EnterNative, ListenGoto, Recorder!Convert
  <2>2. OneCall'
    <3>1. /\ listenPc[l] = "call" /\ cleared' = cleared
          /\ listenPc' = [listenPc EXCEPT ![l] = IF ptr[l] = None THEN "done" ELSE "native"]
          /\ pc[l] = "convert" /\ pc' = [pc EXCEPT ![l] = "done"]
      BY <1>3 DEF Transcribe, EnterNative, ListenGoto, Recorder!Convert
    <3>2. \A c \in ListenCall : c # l => listenPc'[c] = listenPc[c] /\ pc'[c] = pc[c]
      BY <3>1
    <3>3. listenPc'[l] \in {"done", "native"} /\ pc'[l] = "done"
      BY <3>1
    <3>4. listenPc' \in [ListenCall -> {"idle", "record", "call", "native", "done"}]
      BY <3>1
    <3> QED
      BY <3>1, <3>2, <3>3, <3>4
  <2>3. FieldOfCall'
    BY <1>3 DEF Transcribe, EnterNative, ListenGoto, Recorder!Convert
  <2>4. HolderInField'
    BY <1>3 DEF HolderInField, Holds, Transcribe, EnterNative, ListenGoto, Recorder!Convert
  <2>5. OwnAudio'
    <3>1. /\ pc[l] = "convert" /\ pc' = [pc EXCEPT ![l] = "done"]
          /\ UNCHANGED <<reader, buffer, audio>>
      BY <1>3 DEF Transcribe, Recorder!Convert
    <3>2. /\ \A c \in ListenCall : c # l => pc'[c] = pc[c]
          /\ pc'[l] = "done"
      BY <3>1
    <3> QED
      BY <3>1, <3>2 DEF OwnAudio
  <2>6. HearsOnlyItself'
    BY <1>3 DEF HearsOnlyItself, Recorder!HearsOnlyItself, Transcribe, EnterNative,
       ListenGoto, Recorder!Convert
  <2> QED
    BY <2>1, <2>2, <2>3, <2>4, <2>5, <2>6
<1>4. CASE Transcribed(l)
  <2>1. TypeOK'
    BY <1>4 DEF Transcribed, LeaveNative, ListenGoto, recorderVars
  <2>2. OneCall'
    <3>1. /\ listenPc[l] = "native" /\ listenPc' = [listenPc EXCEPT ![l] = "done"]
          /\ UNCHANGED <<pc, cleared>>
      BY <1>4 DEF Transcribed, LeaveNative, ListenGoto, recorderVars
    <3>2. \A c \in ListenCall : listenPc'[c] = IF c = l THEN "done" ELSE listenPc[c]
      BY <3>1
    <3>3. listenPc' \in [ListenCall -> {"idle", "record", "call", "native", "done"}]
      BY <3>1
    <3> QED
      BY <3>1, <3>2, <3>3
  <2>3. FieldOfCall'
    BY <1>4 DEF Transcribed, LeaveNative, ListenGoto, recorderVars
  <2>4. HolderInField'
    BY <1>4 DEF HolderInField, Holds, Transcribed, LeaveNative, ListenGoto, recorderVars
  <2>5. OwnAudio'
    BY <1>4 DEF OwnAudio, Transcribed, LeaveNative, ListenGoto, recorderVars
  <2>6. HearsOnlyItself'
    BY <1>4 DEF HearsOnlyItself, Recorder!HearsOnlyItself, Transcribed, LeaveNative,
       ListenGoto, recorderVars
  <2> QED
    BY <2>1, <2>2, <2>3, <2>4, <2>5, <2>6
<1>5. CASE Cancelled(l)
  <2>1. TypeOK'
    BY <1>5 DEF Cancelled, Abandon, ListenGoto, Recorder!AbandonDelay
  <2>2. OneCall'
    BY <1>5 DEF Cancelled, Abandon, ListenGoto, Recorder!AbandonDelay
  <2>3. FieldOfCall'
    BY <1>5 DEF Cancelled, Abandon, ListenGoto, Recorder!AbandonDelay
  <2>4. HolderInField'
    BY <1>5 DEF HolderInField, Holds, Cancelled, Abandon, ListenGoto, Recorder!AbandonDelay
  <2>5. OwnAudio'
    <3>1. /\ pc[l] = "wait" /\ pc' = [pc EXCEPT ![l] = "abandoned"]
          /\ UNCHANGED <<reader, buffer, audio>>
      BY <1>5 DEF Cancelled, Recorder!AbandonDelay
    <3> QED
      BY <3>1, AudioStays
  <2>6. HearsOnlyItself'
    BY <1>5 DEF HearsOnlyItself, Recorder!HearsOnlyItself, Cancelled, Abandon, ListenGoto,
       Recorder!AbandonDelay
  <2> QED
    BY <2>1, <2>2, <2>3, <2>4, <2>5, <2>6
<1> QED
  BY <1>1, <1>2, <1>3, <1>4, <1>5, RecordingKeeps DEF ListenStep

\* The reader coroutine (AudioRecorder.kt:46-58).
LEMMA ReaderKeeps ==
  ASSUME SpeechInv, NEW l \in ListenCall, ReaderStep(l)
  PROVE  SpeechInv'
<1> USE RecorderAssumption
    DEF SpeechInv, Active, TypeOK, Recorder!TypeOK, Recorder!CallState, Recorder!ReaderState,
        Recorder!RecordState, OneCall, FieldOfCall, Recorder!Goto, Recorder!ReaderGoto,
        Recorder!fields, Recorder!device, Recorder!readerVars, Recorder!Abandoned, scope
<1>1. CASE Recorder!BeginReader(l) /\ UNCHANGED vars
  <2>1. TypeOK'
    BY <1>1 DEF Recorder!BeginReader, vars
  <2>2. OneCall'
    BY <1>1 DEF Recorder!BeginReader, vars
  <2>3. FieldOfCall'
    BY <1>1 DEF Recorder!BeginReader, vars
  <2>4. HolderInField'
    BY <1>1 DEF HolderInField, Holds, Recorder!BeginReader, vars
  <2>5. OwnAudio'
    BY <1>1 DEF OwnAudio, Recorder!BeginReader, vars
  <2>6. HearsOnlyItself'
    BY <1>1 DEF HearsOnlyItself, Recorder!HearsOnlyItself, Recorder!BeginReader, vars
  <2> QED
    BY <2>1, <2>2, <2>3, <2>4, <2>5, <2>6
<1>2. CASE Recorder!TestReader(l) /\ UNCHANGED vars
  <2>1. TypeOK'
    BY <1>2 DEF Recorder!TestReader, vars
  <2>2. OneCall'
    BY <1>2 DEF Recorder!TestReader, vars
  <2>3. FieldOfCall'
    BY <1>2 DEF Recorder!TestReader, vars
  <2>4. HolderInField'
    BY <1>2 DEF HolderInField, Holds, Recorder!TestReader, vars
  <2>5. OwnAudio'
    BY <1>2, ZenonT(30) DEF OwnAudio, Recorder!TestReader, vars
  <2>6. HearsOnlyItself'
    BY <1>2 DEF HearsOnlyItself, Recorder!HearsOnlyItself, Recorder!TestReader, vars
  <2> QED
    BY <2>1, <2>2, <2>3, <2>4, <2>5, <2>6
<1>3. CASE Recorder!ReadBuffer(l) /\ UNCHANGED vars
  <2>1. TypeOK'
    <3>1. audioRecord \in ListenCall /\ produced + 1 \in 0 .. MaxChunk
      BY <1>3 DEF Recorder!ReadBuffer, Recorder!FieldIn
    <3>2. /\ reader' = [reader EXCEPT ![l] = "deliver"]
          /\ buffer' = [buffer EXCEPT ![l] = audioRecord]
          /\ produced' = produced + 1
          /\ UNCHANGED <<isRecording, audioRecord, recordingJob, record, pc, audio, heard, fault>>
      BY <1>3 DEF Recorder!ReadBuffer
    <3>3. produced' \in 0 .. MaxChunk
      BY <3>1, <3>2
    <3> QED
      BY <3>1, <3>2, <3>3
  <2>2. OneCall'
    BY <1>3 DEF Recorder!ReadBuffer, vars, Recorder!FieldIn
  <2>3. FieldOfCall'
    BY <1>3 DEF Recorder!ReadBuffer, vars, Recorder!FieldIn
  <2>4. HolderInField'
    BY <1>3 DEF HolderInField, Holds, Recorder!ReadBuffer, vars, Recorder!FieldIn
  <2>5. OwnAudio'
    <3>1. audioRecord \in ListenCall /\ reader[l] = "read"
      BY <1>3 DEF Recorder!ReadBuffer, Recorder!FieldIn
    <3>2. pc[l] \notin {"convert", "done"} => audioRecord = l
      BY <3>1, SoleCall DEF OwnAudio
    <3>3. /\ reader' = [reader EXCEPT ![l] = "deliver"]
          /\ buffer' = [buffer EXCEPT ![l] = audioRecord]
          /\ UNCHANGED <<pc, audio>>
      BY <1>3 DEF Recorder!ReadBuffer
    <3>4. ASSUME NEW c \in ListenCall, c # l
          PROVE  reader'[c] = reader[c] /\ buffer'[c] = buffer[c]
      BY <3>3, <3>4
    <3>5. reader'[l] = "deliver" /\ buffer'[l] = audioRecord
      BY <3>3
    <3> QED
      BY <3>1, <3>2, <3>3, <3>4, <3>5 DEF OwnAudio
  <2>6. HearsOnlyItself'
    BY <1>3 DEF HearsOnlyItself, Recorder!HearsOnlyItself, Recorder!ReadBuffer, vars,
       Recorder!FieldIn
  <2> QED
    BY <2>1, <2>2, <2>3, <2>4, <2>5, <2>6
<1>4. CASE Recorder!ReadNothing(l) /\ UNCHANGED vars
  <2>1. TypeOK'
    BY <1>4 DEF Recorder!ReadNothing, vars, Recorder!FieldIn
  <2>2. OneCall'
    BY <1>4 DEF Recorder!ReadNothing, vars, Recorder!FieldIn
  <2>3. FieldOfCall'
    BY <1>4 DEF Recorder!ReadNothing, vars, Recorder!FieldIn
  <2>4. HolderInField'
    BY <1>4 DEF HolderInField, Holds, Recorder!ReadNothing, vars, Recorder!FieldIn
  <2>5. OwnAudio'
    BY <1>4 DEF OwnAudio, Recorder!ReadNothing, vars, Recorder!FieldIn
  <2>6. HearsOnlyItself'
    BY <1>4 DEF HearsOnlyItself, Recorder!HearsOnlyItself, Recorder!ReadNothing, vars,
       Recorder!FieldIn
  <2> QED
    BY <2>1, <2>2, <2>3, <2>4, <2>5, <2>6
<1>5. CASE Recorder!Deliver(l) /\ UNCHANGED vars
  <2>1. TypeOK'
    <3>1. buffer[l] \in ListenCall
      BY <1>5 DEF OwnAudio, Recorder!Deliver
    <3>2. /\ reader' = [reader EXCEPT ![l] = "test"]
          /\ audio' = [audio EXCEPT ![l] = Append(@, buffer[l])]
          /\ UNCHANGED <<isRecording, audioRecord, recordingJob, record, produced, pc, buffer,
                         heard, fault>>
      BY <1>5 DEF Recorder!Deliver
    <3>3. Append(audio[l], buffer[l]) \in Seq(ListenCall)
      BY <3>1
    <3>4. audio' \in [ListenCall -> Seq(ListenCall)]
      BY <3>2, <3>3
    <3>5. reader' \in [ListenCall -> Recorder!ReaderState]
      BY <3>2
    <3> QED
      BY <3>2, <3>4, <3>5
  <2>2. OneCall'
    <3>1. UNCHANGED <<listenPc, pc, cleared>>
      BY <1>5 DEF Recorder!Deliver, vars
    <3> QED
      BY <3>1
  <2>3. FieldOfCall'
    BY <1>5 DEF Recorder!Deliver, vars
  <2>4. HolderInField'
    BY <1>5 DEF HolderInField, Holds, Recorder!Deliver, vars
  <2>5. OwnAudio'
    <3>1. /\ reader[l] = "deliver" /\ reader' = [reader EXCEPT ![l] = "test"]
          /\ audio' = [audio EXCEPT ![l] = Append(@, buffer[l])] /\ UNCHANGED <<pc, buffer>>
      BY <1>5 DEF Recorder!Deliver
    <3>2. ASSUME NEW c \in ListenCall, c # l
          PROVE  reader'[c] = reader[c] /\ audio'[c] = audio[c]
      BY <3>1, <3>2
    <3>3. reader'[l] = "test" /\ audio'[l] = Append(audio[l], buffer[l])
      BY <3>1
    <3>4. audio[l] \in Seq(ListenCall) /\ buffer[l] \in ListenCall /\ pc[l] # "idle"
      BY <3>1 DEF OwnAudio
    <3>5. ASSUME pc[l] \notin {"convert", "done"}
          PROVE  \A k \in DOMAIN audio'[l] : audio'[l][k] = l
      <4>1. buffer[l] = l /\ \A k \in 1 .. Len(audio[l]) : audio[l][k] = l
        BY <3>1, <3>4, <3>5, SMTT(30) DEF OwnAudio
      <4>2. /\ DOMAIN audio'[l] = 1 .. Len(audio[l]) + 1
            /\ \A k \in 1 .. Len(audio[l]) : audio'[l][k] = audio[l][k]
            /\ audio'[l][Len(audio[l]) + 1] = buffer[l]
        BY <3>3, <3>4
      <4>3. \A k \in 1 .. Len(audio[l]) + 1 : k \in 1 .. Len(audio[l]) \/ k = Len(audio[l]) + 1
        <5>1. Len(audio[l]) \in Nat
          BY <3>4
        <5>2. \A n \in Nat : \A k \in 1 .. n + 1 : k \in 1 .. n \/ k = n + 1
          OBVIOUS
        <5> QED
          BY <5>1, <5>2, Zenon
      <4>4. \A k \in DOMAIN audio'[l] : k \in 1 .. Len(audio[l]) \/ k = Len(audio[l]) + 1
        BY <4>2, <4>3, Zenon
      <4> QED
        BY <4>1, <4>2, <4>4, Zenon
    <3>6. \A c \in ListenCall : reader'[c] = "deliver" => c # l
      BY <3>3
    <3>7. ASSUME NEW c \in ListenCall, pc[c] \notin {"convert", "done"}
          PROVE  \A k \in DOMAIN audio'[c] : audio'[c][k] = c
      <4>1. CASE c = l
        BY <4>1, <3>5, <3>7
      <4>2. CASE c # l
        BY <4>2, <3>2, <3>7 DEF OwnAudio
      <4> QED
        BY <4>1, <4>2
    <3>8. \A c \in ListenCall : pc[c] = "idle" => reader'[c] = "none"
      BY <3>2, <3>4 DEF OwnAudio
    <3>9. \A c \in ListenCall :
            reader'[c] = "deliver" => /\ buffer[c] \in ListenCall
                                      /\ pc[c] \notin {"convert", "done"} => buffer[c] = c
      BY <3>2, <3>6 DEF OwnAudio
    <3> QED
      BY <3>1, <3>7, <3>8, <3>9 DEF OwnAudio
  <2>6. HearsOnlyItself'
    BY <1>5 DEF HearsOnlyItself, Recorder!HearsOnlyItself, Recorder!Deliver, vars
  <2> QED
    BY <2>1, <2>2, <2>3, <2>4, <2>5, <2>6
<1> QED
  BY <1>1, <1>2, <1>3, <1>4, <1>5 DEF ReaderStep, Recorder!ReaderStep

\* A call begins when none is under way (WhisperEngine.kt:62-67).
LEMMA BeginKeeps ==
  ASSUME SpeechInv, NEW l \in ListenCall, ~Listening, Refused(l) \/ Accepted(l)
  PROVE  SpeechInv'
<1> USE RecorderAssumption
    DEF SpeechInv, Active, TypeOK, Recorder!TypeOK, Recorder!CallState, Recorder!ReaderState,
        Recorder!RecordState, OneCall, FieldOfCall, Recorder!Goto, Recorder!ReaderGoto,
        Recorder!fields, Recorder!device, Recorder!readerVars, Recorder!Abandoned, scope
<1>1. CASE Refused(l)
  <2>1. TypeOK'
    BY <1>1 DEF Refused, StartListen, ListenGoto, recorderVars, Listening
  <2>2. OneCall'
    BY <1>1 DEF Refused, StartListen, ListenGoto, recorderVars, Listening
  <2>3. FieldOfCall'
    BY <1>1 DEF Refused, StartListen, ListenGoto, recorderVars, Listening
  <2>4. HolderInField'
    BY <1>1 DEF HolderInField, Holds, Refused, StartListen, ListenGoto, recorderVars,
       Listening
  <2>5. OwnAudio'
    BY <1>1 DEF OwnAudio, Refused, StartListen, ListenGoto, recorderVars, Listening
  <2>6. HearsOnlyItself'
    BY <1>1 DEF HearsOnlyItself, Recorder!HearsOnlyItself, Refused, StartListen,
       ListenGoto, recorderVars, Listening
  <2> QED
    BY <2>1, <2>2, <2>3, <2>4, <2>5, <2>6
<1>2. CASE Accepted(l)
  <2>1. TypeOK'
    BY <1>2 DEF Accepted, StartListen, ListenGoto, Recorder!Listen, Listening
  <2>2. OneCall'
    BY <1>2 DEF Accepted, StartListen, ListenGoto, Recorder!Listen, Listening
  <2>3. FieldOfCall'
    BY <1>2 DEF Accepted, StartListen, ListenGoto, Recorder!Listen, Listening
  <2>4. HolderInField'
    BY <1>2 DEF HolderInField, Holds, Accepted, StartListen, ListenGoto, Recorder!Listen,
       Listening
  <2>5. OwnAudio'
    BY <1>2, ZenonT(30) DEF OwnAudio, Accepted, StartListen, ListenGoto, Recorder!Listen,
                            Listening
  <2>6. HearsOnlyItself'
    BY <1>2 DEF HearsOnlyItself, Recorder!HearsOnlyItself, Accepted, StartListen,
       ListenGoto, Recorder!Listen, Listening
  <2> QED
    BY <2>1, <2>2, <2>3, <2>4, <2>5, <2>6
<1> QED
  BY <1>1, <1>2

\* The list grows while it is walked (WhisperEngine.kt:76).
LEMMA FaultKeeps ==
  ASSUME SpeechInv, NEW l \in ListenCall, Recorder!ConvertFault(l), UNCHANGED vars
  PROVE  SpeechInv'
<1>1. pc' = pc /\ fault' = TRUE
  BY DEF SpeechInv, TypeOK, Recorder!TypeOK, Recorder!ConvertFault, Recorder!Goto
<1>2. UNCHANGED <<isRecording, audioRecord, recordingJob, record, produced, reader, buffer,
                  audio, heard, listenPc, cleared>>
  BY DEF Recorder!ConvertFault, Recorder!fields, Recorder!device, Recorder!readerVars, vars, scope
<1>3. TypeOK' /\ HearsOnlyItself'
  BY <1>1, <1>2 DEF SpeechInv, TypeOK, Recorder!TypeOK, HearsOnlyItself, Recorder!HearsOnlyItself
<1>4. OneCall' /\ FieldOfCall'
  BY <1>1, <1>2 DEF SpeechInv, OneCall, FieldOfCall, Active, Recorder!Abandoned
<1>5. HolderInField' /\ OwnAudio'
  BY <1>1, <1>2 DEF SpeechInv, HolderInField, OwnAudio, Active, Holds
<1> QED
  BY <1>3, <1>4, <1>5 DEF SpeechInv

\* initialize, the cancellation and release leave recorder and calls alone
\* (WhisperEngine.kt:34-57, 84-89).
LEMMA LifetimeKeeps == ASSUME SpeechInv, Lifetime \/ UNCHANGED allVars PROVE SpeechInv'
<1>1. UNCHANGED <<recorderVars, listenPc>> /\ (cleared => cleared')
  BY DEF Lifetime, CancelCalls, CancelScope, allVars, vars, scope, StartInit, StartRelease,
         ModelFails, InitContext, LoadFreed, FreeContext, ZeroContext
<1>2. TypeOK' /\ HearsOnlyItself'
  BY <1>1 DEF recorderVars, SpeechInv, TypeOK, Recorder!TypeOK, HearsOnlyItself,
              Recorder!HearsOnlyItself
<1>3. OneCall' /\ FieldOfCall'
  BY <1>1 DEF recorderVars, SpeechInv, OneCall, FieldOfCall, Active, Recorder!Abandoned
<1>4. HolderInField' /\ OwnAudio'
  BY <1>1 DEF recorderVars, SpeechInv, HolderInField, OwnAudio, Active, Holds
<1> QED
  BY <1>2, <1>3, <1>4 DEF SpeechInv

\* Whatever the calls of a session, their readers, initialize, the cancellation and
\* release do, the recorder's fields belong to the one call that listens, or that was
\* cancelled in its delay (AudioRecorder.kt:19-68).
THEOREM SpeechInvariance == SpecOneSession => []SpeechInv
<1>1. SpeechInv /\ [NextOneSession]_allVars => SpeechInv'
  BY ListeningKeeps, ReaderKeeps, BeginKeeps, FaultKeeps, LifetimeKeeps
     DEF NextOneSession, Background, Begin, Fault
<1> QED
  BY <1>1, InitSpeechInv, PTL DEF SpecOneSession, InitSpeech

\* For any number of calls that follow one another, and however long their readers
\* live, what a call transcribes was recorded for it (WhisperEngine.kt:65-76).
THEOREM OwnVoice == SpecOneSession => []HearsOnlyItself
<1>1. SpeechInv => HearsOnlyItself
  BY DEF SpeechInv
<1> QED
  BY <1>1, SpeechInvariance, PTL

\* At most one recorder holds the microphone, and it is the one of a call that has not
\* returned, or of the call that was cancelled in its delay (AudioRecorder.kt:61-68,
\* WhisperEngine.kt:71-72).
THEOREM MicrophoneLentOnce == SpecOneSession => []MicrophoneFree
<1>1. SpeechInv => MicrophoneFree
  <2> SUFFICES ASSUME SpeechInv PROVE MicrophoneFree
    OBVIOUS
  <2> DEFINE held == {c \in ListenCall : record[c] \in {"ready", "recording", "stopped"}}
  <2>2. \A c, d \in held : c = d
    BY DEF SpeechInv, HolderInField, Holds
  <2>3. \A c \in held : Recorder!Listening(c) \/ Recorder!Abandoned(c)
    BY RecorderAssumption DEF SpeechInv, HolderInField, Holds, FieldOfCall, Active,
       Recorder!Listening, Recorder!Abandoned
  <2> QED
    BY <2>2, <2>3 DEF MicrophoneFree, Recorder!MicrophoneFree
<1> QED
  BY <1>1, SpeechInvariance, PTL

=============================================================================
