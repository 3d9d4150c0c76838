--------------------------- MODULE WhisperEngine ---------------------------
(***************************************************************************)
(* WhisperEngine and its JNI layer (whisper-jni.cpp): the lifetime of the  *)
(* native whisper_context.  initialize and listen run on Dispatchers.IO,   *)
(* release on the main thread; they share the plain field nativeContext.   *)
(* A context is named after the initialize call that created it.           *)
(*                                                                         *)
(* The calls are those of PodcastAgentViewModel, and nothing keeps them    *)
(* apart: Retry initialises again, also over a context when Whisper came   *)
(* up and Piper did not, sessions overlap, and release finds whatever is   *)
(* under way.  Only the order of ViewModel.clear helps: viewModelScope is  *)
(* cancelled, then onCleared calls release.                                *)
(***************************************************************************)
EXTENDS Naturals, FiniteSets

CONSTANTS
  InitCall,     \* calls of initialize
  ListenCall,   \* calls of listen
  None          \* 0L, no native context

ASSUME NoneAssumption == None \notin InitCall

VARIABLES
  nativeContext,  \* the engine's field
  context,        \* the native side: what has become of each context
  initPc, listenPc, releasePc,
  ptr,            \* the contextPtr each listen call has loaded
  freed,          \* the contextPtr release has loaded
  cleared,        \* the viewModelScope is cancelled
  replaced,       \* history: the contexts that initialize has assigned over
  revived         \* history: release came while initialize was under way

scope == <<cleared, replaced, revived>>
vars == <<nativeContext, context, initPc, listenPc, releasePc, ptr, freed, scope>>

Init ==
  /\ nativeContext = None
  /\ context = [i \in InitCall |-> "none"]
  /\ initPc = [i \in InitCall |-> "idle"]
  /\ listenPc = [l \in ListenCall |-> "idle"]
  /\ releasePc = "idle"
  /\ ptr = [l \in ListenCall |-> None]
  /\ freed = None
  /\ cleared = FALSE /\ replaced = {} /\ revived = FALSE

InitGoto(i, from, to) == initPc[i] = from /\ initPc' = [initPc EXCEPT ![i] = to]
ListenGoto(l, from, to) == listenPc[l] = from /\ listenPc' = [listenPc EXCEPT ![l] = to]
ReleaseGoto(from, to) == releasePc = from /\ releasePc' = to

Initialising == \E i \in InitCall : initPc[i] = "model"
Listening == \E l \in ListenCall : listenPc[l] \in {"record", "call", "native"}

-----------------------------------------------------------------------------
(* initialize                                                              *)

\* The coroutine of initializeEngines begins; nothing in it can be cancelled.
StartInit(i) ==
  /\ ~cleared
  /\ InitGoto(i, "idle", "model")
  /\ UNCHANGED <<nativeContext, context, listenPc, releasePc, ptr, freed, scope>>

\* The model file is missing, or copying it out of the assets threw.
ModelFails(i) ==
  /\ InitGoto(i, "model", "done")
  /\ UNCHANGED <<nativeContext, context, listenPc, releasePc, ptr, freed, scope>>

\* initContext; the result is assigned over whatever the field holds.  What initialize
\* then reports is in StudySession.
InitContext(i) ==
  /\ InitGoto(i, "model", "done")
  /\ \/ nativeContext' = i /\ context' = [context EXCEPT ![i] = "live"]
     \/ nativeContext' = None /\ UNCHANGED context
  /\ replaced' = replaced \cup ({nativeContext} \ {None})
  /\ UNCHANGED <<listenPc, releasePc, ptr, freed, cleared, revived>>

-----------------------------------------------------------------------------
(* listen, from the point of view of the native context                    *)

\* withContext throws in a cancelled scope; without a context listen returns at once.
StartListen(l) ==
  /\ ~cleared
  /\ ListenGoto(l, "idle", IF nativeContext = None THEN "done" ELSE "record")
  /\ UNCHANGED <<nativeContext, context, initPc, releasePc, ptr, freed, scope>>

\* The scope is cancelled before the delay of the recording is over.
Abandon(l) ==
  /\ cleared
  /\ ListenGoto(l, "record", "done")
  /\ UNCHANGED <<nativeContext, context, initPc, releasePc, ptr, freed, scope>>

RecordNothing(l) ==
  /\ ListenGoto(l, "record", "done")
  /\ UNCHANGED <<nativeContext, context, initPc, releasePc, ptr, freed, scope>>

\* The argument of fullTranscribe is read after the recording.
LoadContext(l) ==
  /\ ListenGoto(l, "record", "call")
  /\ ptr' = [ptr EXCEPT ![l] = nativeContext]
  /\ UNCHANGED <<nativeContext, context, initPc, releasePc, freed, scope>>

\* fullTranscribe returns "" for a null pointer and runs whisper_full otherwise.
EnterNative(l) ==
  /\ ListenGoto(l, "call", IF ptr[l] = None THEN "done" ELSE "native")
  /\ UNCHANGED <<nativeContext, context, initPc, releasePc, ptr, freed, scope>>

LeaveNative(l) ==
  /\ ListenGoto(l, "native", "done")
  /\ UNCHANGED <<nativeContext, context, initPc, releasePc, ptr, freed, scope>>

-----------------------------------------------------------------------------
(* release                                                                 *)

\* ViewModel.clear cancels the scope, then calls onCleared.
CancelScope ==
  /\ ~cleared /\ cleared' = TRUE
  /\ UNCHANGED <<nativeContext, context, initPc, listenPc, releasePc, ptr, freed, replaced,
                 revived>>

StartRelease ==
  /\ cleared
  /\ ReleaseGoto("idle", IF nativeContext = None THEN "done" ELSE "load")
  /\ revived' = Initialising
  /\ UNCHANGED <<nativeContext, context, initPc, listenPc, ptr, freed, cleared, replaced>>

\* Mutant: the field is zeroed before its value is passed to freeContext.
LoadFreedZeroFirst ==
  /\ ReleaseGoto("load", "free")
  /\ nativeContext' = None
  /\ freed' = None
  /\ UNCHANGED <<context, initPc, listenPc, ptr, scope>>

LoadFreed ==
  /\ ReleaseGoto("load", "free")
  /\ freed' = nativeContext
  /\ UNCHANGED <<nativeContext, context, initPc, listenPc, ptr, scope>>

\* freeContext; a null pointer frees nothing.
FreeContext ==
  /\ ReleaseGoto("free", "zero")
  /\ context' = [i \in InitCall |-> IF i = freed THEN "freed" ELSE context[i]]
  /\ UNCHANGED <<nativeContext, initPc, listenPc, ptr, freed, scope>>

\* Mutant: the field keeps the freed pointer.
ZeroContextForgotten ==
  /\ ReleaseGoto("zero", "done")
  /\ UNCHANGED <<nativeContext, context, initPc, listenPc, ptr, freed, scope>>

ZeroContext ==
  /\ ReleaseGoto("zero", "done")
  /\ nativeContext' = None
  /\ UNCHANGED <<context, initPc, listenPc, ptr, freed, scope>>

-----------------------------------------------------------------------------
Next ==
  \/ \E i \in InitCall : StartInit(i) \/ ModelFails(i) \/ InitContext(i)
  \/ \E l \in ListenCall : \/ StartListen(l) \/ Abandon(l) \/ RecordNothing(l)
                           \/ LoadContext(l) \/ EnterNative(l) \/ LeaveNative(l)
  \/ CancelScope \/ StartRelease \/ LoadFreed \/ FreeContext \/ ZeroContext

Spec == Init /\ [][Next]_vars

-----------------------------------------------------------------------------
\* A native context is lost in two ways only: a later initialize assigns over it, or
\* release finds an initialize under way.  Otherwise the field names every context until
\* it is freed, and a released engine has none (WhisperEngine.kt:44, 84-89).
NothingLeaked ==
  ~revived =>
    /\ \A i \in InitCall : context[i] = "live" => nativeContext = i \/ i \in replaced
    /\ releasePc = "done" => nativeContext = None

\* No two threads work on one context at the same time (include/whisper.h:45).
OneThreadPerContext ==
  \A i \in InitCall :
    Cardinality({l \in ListenCall : listenPc[l] = "native" /\ ptr[l] = i})
      + (IF releasePc = "free" /\ freed = i THEN 1 ELSE 0) <= 1

=============================================================================
