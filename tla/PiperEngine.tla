---------------------------- MODULE PiperEngine ----------------------------
(***************************************************************************)
(* PiperEngine: the native synthesiser and the AudioTrack it plays on.     *)
(* initialize and speak run on Dispatchers.IO, setSpeed and release on the *)
(* main thread; they share four plain fields.  An AudioTrack is named after*)
(* the speak call that built it.  The model files are those of ModelAssets.*)
(*                                                                         *)
(* Neither the engine nor PodcastAgentViewModel keeps the calls apart: a   *)
(* second session may start while one speaks, a second tap on Retry start  *)
(* another initialisation.  Only the calls of one session follow one       *)
(* another, and no coroutine starts once the ViewModel is cleared.         *)
(***************************************************************************)
EXTENDS Naturals, FiniteSets

CONSTANTS
  InitCall,   \* calls of initialize
  Session,    \* sessions that overlap; one that starts when another is over takes its place
  Utterance,  \* the utterances of a session, in any order
  None,       \* no AudioTrack
  Speed,      \* the speeds of SpeedControlRow
  Normal      \* 1.0

Speak == Session \X Utterance   \* calls of speak

ASSUME NoneAssumption == None \notin Speak
ASSUME SessionAssumption == IsFiniteSet(Session) /\ Session # {}
ASSUME NormalAssumption == Normal \in Speed

VARIABLES
  piper, voice,    \* the fields are not null
  audioTrack, playbackSpeed,
  track,           \* the state of each AudioTrack
  trackSpeed,      \* and the speed of its playbackParams
  initPc, speakPc, mainPc,
  params,          \* the playbackSpeed each speak call has read
  playing,         \* the track each speak call writes to
  mainTrack,       \* the track setSpeed works on
  released,        \* history: release has dropped the synthesiser
  late,            \* history: the speak calls that played after that
  crossed,         \* history: setSpeed ran between ReadSpeed and ApplySpeed
  underway,        \* history: the speak calls that release has met
  revived,         \* history: release came while initialize was under way
  together         \* history: two initialisations were under way at once

fields == <<piper, voice, audioTrack, playbackSpeed>>
history == <<released, late, crossed, underway, revived, together>>
vars == <<fields, track, trackSpeed, initPc, speakPc, mainPc, params, playing, mainTrack,
          history>>

Init ==
  /\ piper = FALSE /\ voice = FALSE
  /\ audioTrack = None /\ playbackSpeed = Normal
  /\ track = [s \in Speak |-> "none"]
  /\ trackSpeed = [s \in Speak |-> Normal]
  /\ initPc = [i \in InitCall |-> "idle"]
  /\ speakPc = [s \in Speak |-> "idle"]
  /\ mainPc = "idle"
  /\ params = [s \in Speak |-> Normal]
  /\ playing = [s \in Speak |-> None] /\ mainTrack = None
  /\ released = FALSE /\ late = {} /\ crossed = FALSE
  /\ underway = {} /\ revived = FALSE /\ together = FALSE

InitGoto(i, from, to) ==
  /\ initPc[i] = from
  /\ initPc' = [initPc EXCEPT ![i] = to]
  /\ UNCHANGED <<audioTrack, playbackSpeed, track, trackSpeed, speakPc, mainPc, params,
                 playing, mainTrack, released, late, crossed, underway, revived>>

SpeakGoto(s, from, to) ==
  /\ speakPc[s] = from
  /\ speakPc' = [speakPc EXCEPT ![s] = to]
  /\ UNCHANGED <<piper, voice, playbackSpeed, initPc, mainPc, mainTrack, released, crossed,
                 underway, revived, together>>

MainGoto(from, to) ==
  /\ mainPc = from
  /\ mainPc' = to
  /\ UNCHANGED <<initPc, speakPc, params, playing, late, together>>

-----------------------------------------------------------------------------
(* initialize.                                                             *)

Initialising == \E i \in InitCall : initPc[i] \in {"begun", "construct", "load"}

\* The coroutine of initializeEngines begins, with Whisper's model; from then on
\* nothing can cancel it.
StartInit(i) ==
  /\ ~released
  /\ InitGoto(i, "idle", "begun")
  /\ together' = (together \/ Initialising)
  /\ UNCHANGED <<piper, voice>>

\* Mutant: initialize is not idempotent.
BeginInitAgain(i) ==
  /\ InitGoto(i, "begun", IF piper THEN "load" ELSE "construct")
  /\ UNCHANGED <<piper, voice, together>>

BeginInit(i) ==
  /\ InitGoto(i, "begun", IF piper /\ voice THEN "succeeded"
                          ELSE IF piper THEN "load" ELSE "construct")
  /\ UNCHANGED <<piper, voice, together>>

\* The constructor throws, or the field is set before the native part is asked;
\* when that refuses, the field stays and the next initialize goes on to load.
Construct(i) ==
  \/ /\ InitGoto(i, "construct", "failed")
     /\ piper' \in {piper, TRUE}
     /\ UNCHANGED <<voice, together>>
  \/ /\ InitGoto(i, "construct", "load")
     /\ piper' = TRUE
     /\ UNCHANGED <<voice, together>>

\* A model file is missing or loading throws: the voice stays; loadVoice returns
\* nothing: the voice is gone; or it returns the voice.
LoadVoice(i) ==
  /\ \/ InitGoto(i, "load", "failed") /\ voice' \in {voice, FALSE}
     \/ InitGoto(i, "load", "succeeded") /\ voice' = TRUE
  /\ UNCHANGED <<piper, together>>

-----------------------------------------------------------------------------
(* speak and playAudio.                                                    *)

Busy(s) == speakPc[s] \notin {"idle", "done"}
Speaking(x) == \E s \in Speak : s[1] = x /\ Busy(s)

BeginSpeak(s) ==
  /\ ~Speaking(s[1])
  /\ SpeakGoto(s, "idle", IF piper /\ voice THEN "synthesize" ELSE "done")
  /\ UNCHANGED <<audioTrack, track, trackSpeed, params, playing, late>>

\* Synthesis may fail or yield nothing.
Synthesize(s) ==
  /\ \E to \in {"done", "test"} : SpeakGoto(s, "synthesize", to)
  /\ UNCHANGED <<audioTrack, track, trackSpeed, params, playing, late>>

\* Mutant: every speak builds a track.
TestTrackIgnored(s) ==
  /\ SpeakGoto(s, "test", "build")
  /\ UNCHANGED <<audioTrack, track, trackSpeed, params, playing, late>>

TestTrack(s) ==
  /\ SpeakGoto(s, "test", IF audioTrack = None THEN "build" ELSE "load")
  /\ UNCHANGED <<audioTrack, track, trackSpeed, params, playing, late>>

BuildTrack(s) ==
  /\ SpeakGoto(s, "build", "speed")
  /\ audioTrack' = s
  /\ track' = [track EXCEPT ![s] = "live"]
  /\ UNCHANGED <<trackSpeed, params, playing, late>>

BuildFails(s) ==
  /\ SpeakGoto(s, "build", "done")
  /\ UNCHANGED <<audioTrack, track, trackSpeed, params, playing, late>>

ReadSpeed(s) ==
  /\ SpeakGoto(s, "speed", "apply")
  /\ params' = [params EXCEPT ![s] = playbackSpeed]
  /\ UNCHANGED <<audioTrack, track, trackSpeed, playing, late>>

\* Mutant: the new track keeps its own speed.
ApplySpeedForgotten(s) ==
  /\ SpeakGoto(s, "apply", "load")
  /\ params' = [params EXCEPT ![s] = Normal]
  /\ UNCHANGED <<audioTrack, track, trackSpeed, playing, late>>

\* The field may be null again, or its track released: then the call throws,
\* and playAudio is over.
ApplySpeed(s) ==
  /\ SpeakGoto(s, "apply",
       IF audioTrack # None /\ track[audioTrack] = "released" THEN "done" ELSE "load")
  /\ trackSpeed' = IF audioTrack # None /\ track[audioTrack] = "live"
                   THEN [trackSpeed EXCEPT ![audioTrack] = params[s]] ELSE trackSpeed
  /\ params' = [params EXCEPT ![s] = Normal]
  /\ UNCHANGED <<audioTrack, track, playing, late>>

LoadTrack(s) ==
  /\ SpeakGoto(s, "load", IF audioTrack = None THEN "done" ELSE "write")
  /\ playing' = [playing EXCEPT ![s] = audioTrack]
  /\ UNCHANGED <<audioTrack, track, trackSpeed, params, late>>

\* play and write on a released track throw or return at once.
Write(s) ==
  /\ SpeakGoto(s, "write", "done")
  /\ late' = IF released /\ track[playing[s]] = "live" THEN late \cup {s} ELSE late
  /\ playing' = [playing EXCEPT ![s] = None]
  /\ UNCHANGED <<audioTrack, track, trackSpeed, params>>

-----------------------------------------------------------------------------
(* setSpeed and release, on the main thread.                               *)

SetSpeed(speed) ==
  /\ MainGoto("idle", "load")
  /\ playbackSpeed' = speed
  /\ crossed' = (crossed \/ \E s \in Speak : speakPc[s] = "apply")
  /\ UNCHANGED <<piper, voice, audioTrack, track, trackSpeed, mainTrack, released, underway,
                 revived>>

LoadTrackForSpeed ==
  /\ MainGoto("load", IF audioTrack = None THEN "idle" ELSE "set")
  /\ mainTrack' = audioTrack
  /\ UNCHANGED <<fields, track, trackSpeed, released, crossed, underway, revived>>

SetTrackSpeed ==
  /\ MainGoto("set", "idle")
  /\ trackSpeed' = IF track[mainTrack] = "live"
                   THEN [trackSpeed EXCEPT ![mainTrack] = playbackSpeed] ELSE trackSpeed
  /\ mainTrack' = None
  /\ UNCHANGED <<fields, track, released, crossed, underway, revived>>

\* Mutant: the synthesiser is kept.
BeginReleaseKeepsVoice ==
  /\ MainGoto("idle", "stop")
  /\ released' = TRUE /\ underway' = {s \in Speak : Busy(s)} /\ revived' = Initialising
  /\ UNCHANGED <<fields, track, trackSpeed, mainTrack, crossed>>

BeginRelease ==
  /\ MainGoto("idle", "stop")
  /\ piper' = FALSE /\ voice' = FALSE
  /\ released' = TRUE /\ underway' = {s \in Speak : Busy(s)} /\ revived' = Initialising
  /\ UNCHANGED <<audioTrack, playbackSpeed, track, trackSpeed, mainTrack, crossed>>

\* audioTrack?.stop() and audioTrack?.release() read the field each.
StopTrack ==
  /\ MainGoto("stop", "release")
  /\ UNCHANGED <<fields, track, trackSpeed, mainTrack, released, crossed, underway, revived>>

ReleaseTrack ==
  /\ MainGoto("release", "clear")
  /\ track' = IF audioTrack = None THEN track ELSE [track EXCEPT ![audioTrack] = "released"]
  /\ UNCHANGED <<fields, trackSpeed, mainTrack, released, crossed, underway, revived>>

ClearTrack ==
  /\ MainGoto("clear", "gone")
  /\ audioTrack' = None
  /\ UNCHANGED <<piper, voice, playbackSpeed, track, trackSpeed, mainTrack, released, crossed,
                 underway, revived>>

-----------------------------------------------------------------------------
Next ==
  \/ \E i \in InitCall : StartInit(i) \/ BeginInit(i) \/ Construct(i) \/ LoadVoice(i)
  \/ \E s \in Speak :
       \/ BeginSpeak(s) \/ Synthesize(s) \/ TestTrack(s) \/ BuildTrack(s) \/ BuildFails(s)
       \/ ReadSpeed(s) \/ ApplySpeed(s) \/ LoadTrack(s) \/ Write(s)
  \/ \E speed \in Speed : SetSpeed(speed)
  \/ LoadTrackForSpeed \/ SetTrackSpeed
  \/ BeginRelease \/ StopTrack \/ ReleaseTrack \/ ClearTrack

Spec == Init /\ [][Next]_vars

-----------------------------------------------------------------------------
\* Sessions that overlap may each build a track, and each another one when release comes
\* while they speak; release closes one of them.  Tracks do not pile up beyond that: of
\* sessions that follow one another there is one track at most.  The exception is an
\* initialize under way that brings the released synthesiser back
\* (PiperEngine.kt:22-28, 51, 71, 105-144).
TracksBounded ==
  ~revived => Cardinality({s \in Speak : track[s] = "live"}) <= 2 * Cardinality(Session) - 1

\* Once the engine is released nothing is played but the utterances, one of each session,
\* that release has met, with the same exception (PiperEngine.kt:22-28, 51, 71, 86-88).
LateUtterances == ~revived => late \subseteq underway

\* An engine that has reported success can speak until it is released, whatever later
\* calls of initialize meet with, but for two that run at once
\* (PiperEngine.kt:47, 71-79).
ReadySpeaks ==
  (\E i \in InitCall : initPc[i] = "succeeded") /\ ~released /\ ~together => piper /\ voice

\* However sessions overlap, the track of the field plays at the speed that was selected
\* last, unless that fell between reading the speed for a new track and setting it
\* (PiperEngine.kt:30-43, 133-136).
PlaysAtSpeed ==
  audioTrack # None /\ mainPc = "idle" /\ ~crossed
  /\ (\A s \in Speak : speakPc[s] \notin {"speed", "apply"}) =>
    trackSpeed[audioTrack] = playbackSpeed

=============================================================================
