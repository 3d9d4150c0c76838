------------------------- MODULE PiperEngineProofs -------------------------
(***************************************************************************)
(* Proofs about PiperEngine, for any number of initialisations, sessions,  *)
(* utterances and speeds, all overlapping: the inductive invariant IInv,   *)
(* and the four invariants that MCPiperEngine checks as its consequences.  *)
(***************************************************************************)
EXTENDS PiperEngine, FiniteSetTheorems, TLAPS

InitControl == {"idle", "begun", "construct", "load", "failed", "succeeded"}
SpeakControl == {"idle", "synthesize", "test", "build", "speed", "apply", "load", "write", "done"}
MainControl == {"idle", "load", "set", "stop", "release", "clear", "gone"}

TypeOK ==
  /\ piper \in BOOLEAN /\ voice \in BOOLEAN
  /\ audioTrack \in Speak \cup {None} /\ playbackSpeed \in Speed
  /\ track \in [Speak -> {"none", "live", "released"}]
  /\ trackSpeed \in [Speak -> Speed] /\ params \in [Speak -> Speed]
  /\ initPc \in [InitCall -> InitControl]
  /\ speakPc \in [Speak -> SpeakControl]
  /\ mainPc \in MainControl
  /\ playing \in [Speak -> Speak \cup {None}] /\ mainTrack \in Speak \cup {None}
  /\ late \subseteq Speak /\ underway \subseteq Speak
  /\ released \in BOOLEAN /\ crossed \in BOOLEAN /\ revived \in BOOLEAN /\ together \in BOOLEAN

InProgress(i) == initPc[i] \in {"begun", "construct", "load"}
Unbuilt(s) == speakPc[s] \in {"idle", "synthesize", "test", "build"}
SameSession(s, t) == s[1] = t[1]
Opened(s) == track[s] # "none"

-----------------------------------------------------------------------------
(* The inductive invariant: TypeOK and five parts.                         *)

\* The calls of one session follow one another; a released engine that nobody revives
\* lets none begin, so that those under way are the ones release has met.
Scheduling ==
  /\ ~together => \A i, j \in InitCall : InProgress(i) /\ InProgress(j) => i = j
  /\ \A s, t \in Speak : SameSession(s, t) /\ Busy(s) /\ Busy(t) => s = t
  /\ released <=> mainPc \in {"stop", "release", "clear", "gone"}
  /\ ~released => underway = {} /\ ~revived
  /\ \A s, t \in underway : SameSession(s, t) => s = t
  /\ released /\ ~revived => \A s \in Speak : Busy(s) => s \in underway

\* Until the release an initialisation that is under way, or has to be repeated,
\* is the first to succeed; a released engine that nobody revives stays empty.
Voices ==
  /\ ~released /\ ~together =>
       /\ \A i \in InitCall : initPc[i] = "load" => piper
       /\ \A i \in InitCall : initPc[i] = "succeeded" => piper /\ voice
       /\ (\E i \in InitCall : initPc[i] \in {"construct", "load"}) =>
            \A i \in InitCall : initPc[i] # "succeeded"
  /\ released /\ ~revived => ~piper /\ ~Initialising

\* Which AudioTracks have been opened: while the field is not cleared, one by each
\* session, and none by a session that is about to build one; after that, one more by
\* each call that release has met.
Tracks ==
  /\ \A s \in Speak : Unbuilt(s) => track[s] = "none"
  /\ mainPc # "gone" =>
       /\ audioTrack = None => \A s \in Speak : track[s] = "none"
       /\ \A s, t \in Speak : SameSession(s, t) /\ speakPc[s] = "build" => track[t] = "none"
       /\ \A s, t \in Speak : SameSession(s, t) /\ Opened(s) /\ Opened(t) => s = t
  /\ mainPc \notin {"clear", "gone"} /\ audioTrack # None => track[audioTrack] = "live"
  /\ ~revived =>
       \A s, t \in Speak :
         /\ SameSession(s, t) /\ Opened(s) /\ Opened(t)
         /\ s \in underway <=> t \in underway
         => s = t

\* Release has closed a track, or there was none but those of the calls it has met.
Closed ==
  ~revived /\ mainPc \in {"clear", "gone"} =>
    \/ \E r \in Speak : track[r] = "released"
    \/ \A s \in Speak : track[s] = "live" => s \in underway

\* Who has played after the release.
Utterances ==
  /\ late # {} => released
  /\ LateUtterances

\* The speed of the track in the field, before the release.
Speeds ==
  ~crossed =>
    /\ \A s \in Speak : speakPc[s] = "apply" => params[s] = playbackSpeed
    /\ mainPc = "set" => mainTrack # None
    /\ /\ mainPc = "idle" \/ (mainPc = "set" /\ mainTrack # audioTrack)
       /\ audioTrack # None /\ speakPc[audioTrack] \notin {"speed", "apply"}
       => trackSpeed[audioTrack] = playbackSpeed

IInv == TypeOK /\ Scheduling /\ Voices /\ Tracks /\ Closed /\ Utterances /\ Speeds

\* Every step of initialize, speak, setSpeed and release keeps it, whatever else is under
\* way (PiperEngine.kt:22-148).
LEMMA Invariance ==
  ASSUME IInv, [Next]_vars
  PROVE  IInv'
<1> USE NoneAssumption, NormalAssumption
    DEF IInv, TypeOK, fields, history
<1>1. ASSUME NEW i \in InitCall, StartInit(i) PROVE IInv'
  <2>1. TypeOK'
    BY <1>1 DEF InitControl, SpeakControl, MainControl, StartInit, InitGoto
  <2>2. Scheduling'
    BY <1>1 DEF Scheduling, Voices, SameSession, Busy, InProgress, Initialising, StartInit,
                InitGoto
  <2>3. Voices'
    BY <1>1 DEF Scheduling, Voices, InProgress, Initialising, StartInit, InitGoto
  <2>4. Tracks'
    BY <1>1 DEF Scheduling, Tracks, SameSession, Opened, Busy, Unbuilt, Initialising,
                StartInit, InitGoto
  <2>5. Closed'
    BY <1>1 DEF Scheduling, Tracks, Closed, Busy, Unbuilt, Initialising, StartInit, InitGoto
  <2>6. Utterances'
    BY <1>1 DEF Scheduling, Utterances, LateUtterances, Busy, Initialising, StartInit, InitGoto
  <2>7. Speeds'
    BY <1>1 DEF Scheduling, Tracks, Speeds, Unbuilt, SpeakControl, StartInit, InitGoto
  <2> QED
    BY <2>1, <2>2, <2>3, <2>4, <2>5, <2>6, <2>7
<1>2. ASSUME NEW i \in InitCall, BeginInit(i) PROVE IInv'
  <2>1. TypeOK'
    BY <1>2 DEF InitControl, SpeakControl, MainControl, BeginInit, InitGoto
  <2>2. Scheduling'
    BY <1>2 DEF Scheduling, Voices, SameSession, Busy, InProgress, Initialising, BeginInit,
                InitGoto
  <2>3. Voices'
    BY <1>2 DEF Scheduling, Voices, InProgress, Initialising, BeginInit, InitGoto
  <2>4. Tracks'
    BY <1>2 DEF Scheduling, Tracks, SameSession, Opened, Busy, Unbuilt, Initialising,
                BeginInit, InitGoto
  <2>5. Closed'
    BY <1>2 DEF Scheduling, Tracks, Closed, Busy, Unbuilt, Initialising, BeginInit, InitGoto
  <2>6. Utterances'
    BY <1>2 DEF Scheduling, Utterances, LateUtterances, Busy, Initialising, BeginInit, InitGoto
  <2>7. Speeds'
    BY <1>2 DEF Scheduling, Tracks, Speeds, Unbuilt, SpeakControl, BeginInit, InitGoto
  <2> QED
    BY <2>1, <2>2, <2>3, <2>4, <2>5, <2>6, <2>7
<1>3. ASSUME NEW i \in InitCall, Construct(i) PROVE IInv'
  <2>1. PICK to \in {"failed", "load"} : InitGoto(i, "construct", to) /\ (to = "load" => piper')
    BY <1>3, Zenon DEF Construct
  <2>2. voice' = voice /\ (piper' = piper \/ piper' = TRUE)
    BY <1>3, Zenon DEF Construct
  <2>3. /\ initPc[i] = "construct" /\ initPc' = [initPc EXCEPT ![i] = to]
        /\ \A j \in InitCall : j # i => initPc'[j] = initPc[j]
        /\ initPc'[i] = to
    BY <2>1 DEF InitGoto
  <2>4. UNCHANGED <<audioTrack, playbackSpeed, track, trackSpeed, speakPc, mainPc, params, playing,
                    mainTrack, released, late, crossed, underway, revived, together>>
    BY <1>3, <2>1, Zenon DEF InitGoto, Construct
  <2>5. TypeOK'
    BY <2>1, <2>2, <2>3, <2>4 DEF InitControl
  <2>6. Scheduling'
    BY <2>1, <2>3, <2>4 DEF Scheduling, SameSession, Busy, InProgress
  <2>7. Voices'
    BY <2>1, <2>2, <2>3, <2>4 DEF Scheduling, Voices, InProgress, Initialising
  <2>8. Tracks' /\ Closed'
    BY <2>4 DEF Tracks, SameSession, Opened, Unbuilt, Closed
  <2>9. Utterances' /\ Speeds'
    BY <2>4 DEF Utterances, LateUtterances, Speeds
  <2> QED
    BY <2>5, <2>6, <2>7, <2>8, <2>9
<1>4. ASSUME NEW i \in InitCall, LoadVoice(i) PROVE IInv'
  <2>1. PICK to \in {"failed", "succeeded"} : InitGoto(i, "load", to) /\ (to = "succeeded" => voice')
    BY <1>4, Zenon DEF LoadVoice
  <2>2. piper' = piper /\ (voice' = voice \/ voice' = FALSE \/ voice' = TRUE)
    BY <1>4, Zenon DEF LoadVoice
  <2>3. /\ initPc[i] = "load" /\ initPc' = [initPc EXCEPT ![i] = to]
        /\ \A j \in InitCall : j # i => initPc'[j] = initPc[j]
        /\ initPc'[i] = to
    BY <2>1 DEF InitGoto
  <2>4. UNCHANGED <<audioTrack, playbackSpeed, track, trackSpeed, speakPc, mainPc, params, playing,
                    mainTrack, released, late, crossed, underway, revived, together>>
    BY <1>4, <2>1, Zenon DEF InitGoto, LoadVoice
  <2>5. TypeOK'
    BY <2>1, <2>2, <2>3, <2>4 DEF InitControl
  <2>6. Scheduling'
    BY <2>1, <2>3, <2>4 DEF Scheduling, SameSession, Busy, InProgress
  <2>7. Voices'
    BY <2>1, <2>2, <2>3, <2>4 DEF Scheduling, Voices, InProgress, Initialising
  <2>8. Tracks' /\ Closed'
    BY <2>4 DEF Tracks, SameSession, Opened, Unbuilt, Closed
  <2>9. Utterances' /\ Speeds'
    BY <2>4 DEF Utterances, LateUtterances, Speeds
  <2> QED
    BY <2>5, <2>6, <2>7, <2>8, <2>9
<1>5. ASSUME NEW s \in Speak, BeginSpeak(s) PROVE IInv'
  <2>1. TypeOK'
    BY <1>5 DEF InitControl, SpeakControl, MainControl, BeginSpeak, SpeakGoto, Speaking
  <2>2. Scheduling'
    BY <1>5 DEF Scheduling, Voices, SameSession, Busy, InProgress, Initialising, BeginSpeak,
                SpeakGoto, Speaking
  <2>3. Voices'
    BY <1>5 DEF Scheduling, Voices, InProgress, Initialising, BeginSpeak, SpeakGoto, Speaking
  <2>4. Tracks'
    BY <1>5 DEF Scheduling, Tracks, SameSession, Opened, Busy, Unbuilt, Initialising,
                BeginSpeak, SpeakGoto, Speaking
  <2>5. Closed'
    BY <1>5 DEF Scheduling, Tracks, Closed, Busy, Unbuilt, Initialising, BeginSpeak, SpeakGoto,
                Speaking
  <2>6. Utterances'
    BY <1>5 DEF Scheduling, Utterances, LateUtterances, Busy, Initialising, BeginSpeak,
                SpeakGoto, Speaking
  <2>7. Speeds'
    BY <1>5 DEF Scheduling, Tracks, Speeds, Unbuilt, SpeakControl, BeginSpeak, SpeakGoto, Speaking
  <2> QED
    BY <2>1, <2>2, <2>3, <2>4, <2>5, <2>6, <2>7
<1>6. ASSUME NEW s \in Speak, Synthesize(s) PROVE IInv'
  <2>1. TypeOK'
    BY <1>6 DEF InitControl, SpeakControl, MainControl, Synthesize, SpeakGoto
  <2>2. Scheduling'
    BY <1>6 DEF Scheduling, Voices, SameSession, Busy, InProgress, Initialising, Synthesize,
                SpeakGoto
  <2>3. Voices'
    BY <1>6 DEF Scheduling, Voices, InProgress, Initialising, Synthesize, SpeakGoto
  <2>4. Tracks'
    BY <1>6 DEF Scheduling, Tracks, SameSession, Opened, Busy, Unbuilt, Initialising,
                Synthesize, SpeakGoto
  <2>5. Closed'
    BY <1>6 DEF Scheduling, Tracks, Closed, Busy, Unbuilt, Initialising, Synthesize, SpeakGoto
  <2>6. Utterances'
    BY <1>6 DEF Scheduling, Utterances, LateUtterances, Busy, Initialising, Synthesize, SpeakGoto
  <2>7. Speeds'
    BY <1>6 DEF Scheduling, Tracks, Speeds, Unbuilt, SpeakControl, Synthesize, SpeakGoto
  <2> QED
    BY <2>1, <2>2, <2>3, <2>4, <2>5, <2>6, <2>7
<1>7. ASSUME NEW s \in Speak, TestTrack(s) PROVE IInv'
  <2>1. TypeOK'
    BY <1>7 DEF InitControl, SpeakControl, MainControl, TestTrack, SpeakGoto
  <2>2. Scheduling'
    BY <1>7 DEF Scheduling, Voices, SameSession, Busy, InProgress, Initialising, TestTrack,
                SpeakGoto
  <2>3. Voices'
    BY <1>7 DEF Scheduling, Voices, InProgress, Initialising, TestTrack, SpeakGoto
  <2>4. Tracks'
    BY <1>7 DEF Scheduling, Tracks, SameSession, Opened, Busy, Unbuilt, Initialising,
                TestTrack, SpeakGoto
  <2>5. Closed'
    BY <1>7 DEF Scheduling, Tracks, Closed, Busy, Unbuilt, Initialising, TestTrack, SpeakGoto
  <2>6. Utterances'
    BY <1>7 DEF Scheduling, Utterances, LateUtterances, Busy, Initialising, TestTrack, SpeakGoto
  <2>7. Speeds'
    BY <1>7 DEF Scheduling, Tracks, Speeds, Unbuilt, SpeakControl, TestTrack, SpeakGoto
  <2> QED
    BY <2>1, <2>2, <2>3, <2>4, <2>5, <2>6, <2>7
<1>8. ASSUME NEW s \in Speak, BuildTrack(s) PROVE IInv'
  <2>1. TypeOK'
    BY <1>8 DEF InitControl, SpeakControl, MainControl, BuildTrack, SpeakGoto
  <2>2. Scheduling'
    BY <1>8 DEF Scheduling, Voices, SameSession, Busy, InProgress, Initialising, BuildTrack,
                SpeakGoto
  <2>3. Voices'
    BY <1>8 DEF Scheduling, Voices, InProgress, Initialising, BuildTrack, SpeakGoto
  <2>4. Tracks'
    BY <1>8 DEF Scheduling, Tracks, SameSession, Opened, Busy, Unbuilt, Initialising,
                BuildTrack, SpeakGoto
  <2>5. Closed'
    BY <1>8 DEF Scheduling, Tracks, Closed, Busy, Unbuilt, Initialising, BuildTrack, SpeakGoto
  <2>6. Utterances'
    BY <1>8 DEF Scheduling, Utterances, LateUtterances, Busy, Initialising, BuildTrack, SpeakGoto
  <2>7. Speeds'
    BY <1>8 DEF Scheduling, Tracks, Speeds, Unbuilt, SpeakControl, BuildTrack, SpeakGoto
  <2> QED
    BY <2>1, <2>2, <2>3, <2>4, <2>5, <2>6, <2>7
<1>9. ASSUME NEW s \in Speak, BuildFails(s) PROVE IInv'
  <2>1. TypeOK'
    BY <1>9 DEF InitControl, SpeakControl, MainControl, BuildFails, SpeakGoto
  <2>2. Scheduling'
    BY <1>9 DEF Scheduling, Voices, SameSession, Busy, InProgress, Initialising, BuildFails,
                SpeakGoto
  <2>3. Voices'
    BY <1>9 DEF Scheduling, Voices, InProgress, Initialising, BuildFails, SpeakGoto
  <2>4. Tracks'
    BY <1>9 DEF Scheduling, Tracks, SameSession, Opened, Busy, Unbuilt, Initialising,
                BuildFails, SpeakGoto
  <2>5. Closed'
    BY <1>9 DEF Scheduling, Tracks, Closed, Busy, Unbuilt, Initialising, BuildFails, SpeakGoto
  <2>6. Utterances'
    BY <1>9 DEF Scheduling, Utterances, LateUtterances, Busy, Initialising, BuildFails, SpeakGoto
  <2>7. Speeds'
    BY <1>9 DEF Scheduling, Tracks, Speeds, Unbuilt, SpeakControl, BuildFails, SpeakGoto
  <2> QED
    BY <2>1, <2>2, <2>3, <2>4, <2>5, <2>6, <2>7
<1>10. ASSUME NEW s \in Speak, ReadSpeed(s) PROVE IInv'
  <2>1. TypeOK'
    BY <1>10 DEF InitControl, SpeakControl, MainControl, ReadSpeed, SpeakGoto
  <2>2. Scheduling'
    BY <1>10 DEF Scheduling, Voices, SameSession, Busy, InProgress, Initialising, ReadSpeed,
                 SpeakGoto
  <2>3. Voices'
    BY <1>10 DEF Scheduling, Voices, InProgress, Initialising, ReadSpeed, SpeakGoto
  <2>4. Tracks'
    BY <1>10 DEF Scheduling, Tracks, SameSession, Opened, Busy, Unbuilt, Initialising,
                 ReadSpeed, SpeakGoto
  <2>5. Closed'
    BY <1>10 DEF Scheduling, Tracks, Closed, Busy, Unbuilt, Initialising, ReadSpeed, SpeakGoto
  <2>6. Utterances'
    BY <1>10 DEF Scheduling, Utterances, LateUtterances, Busy, Initialising, ReadSpeed, SpeakGoto
  <2>7. Speeds'
    BY <1>10 DEF Scheduling, Tracks, Speeds, Unbuilt, SpeakControl, ReadSpeed, SpeakGoto
  <2> QED
    BY <2>1, <2>2, <2>3, <2>4, <2>5, <2>6, <2>7
<1>11. ASSUME NEW s \in Speak, ApplySpeed(s) PROVE IInv'
  <2>1. TypeOK'
    BY <1>11 DEF InitControl, SpeakControl, MainControl, ApplySpeed, SpeakGoto
  <2>2. Scheduling'
    BY <1>11 DEF Scheduling, Voices, SameSession, Busy, InProgress, Initialising, ApplySpeed,
                 SpeakGoto
  <2>3. Voices'
    BY <1>11 DEF Scheduling, Voices, InProgress, Initialising, ApplySpeed, SpeakGoto
  <2>4. Tracks'
    BY <1>11 DEF Scheduling, Tracks, SameSession, Opened, Busy, Unbuilt, Initialising,
                 ApplySpeed, SpeakGoto
  <2>5. Closed'
    BY <1>11 DEF Scheduling, Tracks, Closed, Busy, Unbuilt, Initialising, ApplySpeed, SpeakGoto
  <2>6. Utterances'
    BY <1>11 DEF Scheduling, Utterances, LateUtterances, Busy, Initialising, ApplySpeed, SpeakGoto
  <2>7. Speeds'
    BY <1>11 DEF Scheduling, Tracks, Speeds, Unbuilt, SpeakControl, ApplySpeed, SpeakGoto
  <2> QED
    BY <2>1, <2>2, <2>3, <2>4, <2>5, <2>6, <2>7
<1>12. ASSUME NEW s \in Speak, LoadTrack(s) PROVE IInv'
  <2>1. TypeOK'
    BY <1>12 DEF InitControl, SpeakControl, MainControl, LoadTrack, SpeakGoto
  <2>2. Scheduling'
    BY <1>12 DEF Scheduling, Voices, SameSession, Busy, InProgress, Initialising, LoadTrack,
                 SpeakGoto
  <2>3. Voices'
    BY <1>12 DEF Scheduling, Voices, InProgress, Initialising, LoadTrack, SpeakGoto
  <2>4. Tracks'
    BY <1>12 DEF Scheduling, Tracks, SameSession, Opened, Busy, Unbuilt, Initialising,
                 LoadTrack, SpeakGoto
  <2>5. Closed'
    BY <1>12 DEF Scheduling, Tracks, Closed, Busy, Unbuilt, Initialising, LoadTrack, SpeakGoto
  <2>6. Utterances'
    BY <1>12 DEF Scheduling, Utterances, LateUtterances, Busy, Initialising, LoadTrack, SpeakGoto
  <2>7. Speeds'
    BY <1>12 DEF Scheduling, Tracks, Speeds, Unbuilt, SpeakControl, LoadTrack, SpeakGoto
  <2> QED
    BY <2>1, <2>2, <2>3, <2>4, <2>5, <2>6, <2>7
<1>13. ASSUME NEW s \in Speak, Write(s) PROVE IInv'
  <2>1. TypeOK'
    BY <1>13 DEF InitControl, SpeakControl, MainControl, Write, SpeakGoto
  <2>2. Scheduling'
    BY <1>13 DEF Scheduling, Voices, SameSession, Busy, InProgress, Initialising, Write, SpeakGoto
  <2>3. Voices'
    BY <1>13 DEF Scheduling, Voices, InProgress, Initialising, Write, SpeakGoto
  <2>4. Tracks'
    BY <1>13 DEF Scheduling, Tracks, SameSession, Opened, Busy, Unbuilt, Initialising, Write,
                 SpeakGoto
  <2>5. Closed'
    BY <1>13 DEF Scheduling, Tracks, Closed, Busy, Unbuilt, Initialising, Write, SpeakGoto
  <2>6. Utterances'
    BY <1>13 DEF Scheduling, Utterances, LateUtterances, Busy, Initialising, Write, SpeakGoto
  <2>7. Speeds'
    BY <1>13 DEF Scheduling, Tracks, Speeds, Unbuilt, SpeakControl, Write, SpeakGoto
  <2> QED
    BY <2>1, <2>2, <2>3, <2>4, <2>5, <2>6, <2>7
<1>14. ASSUME NEW speed \in Speed, SetSpeed(speed) PROVE IInv'
  <2>1. TypeOK'
    BY <1>14 DEF InitControl, SpeakControl, MainControl, SetSpeed, MainGoto
  <2>2. Scheduling'
    BY <1>14 DEF Scheduling, Voices, SameSession, Busy, InProgress, Initialising, SetSpeed,
                 MainGoto
  <2>3. Voices'
    BY <1>14 DEF Scheduling, Voices, InProgress, Initialising, SetSpeed, MainGoto
  <2>4. Tracks'
    BY <1>14 DEF Scheduling, Tracks, SameSession, Opened, Busy, Unbuilt, Initialising,
                 SetSpeed, MainGoto
  <2>5. Closed'
    BY <1>14 DEF Scheduling, Tracks, Closed, Busy, Unbuilt, Initialising, SetSpeed, MainGoto
  <2>6. Utterances'
    BY <1>14 DEF Scheduling, Utterances, LateUtterances, Busy, Initialising, SetSpeed, MainGoto
  <2>7. Speeds'
    BY <1>14 DEF Scheduling, Tracks, Speeds, Unbuilt, SpeakControl, SetSpeed, MainGoto
  <2> QED
    BY <2>1, <2>2, <2>3, <2>4, <2>5, <2>6, <2>7
<1>15. CASE LoadTrackForSpeed
  <2>1. TypeOK'
    BY <1>15 DEF InitControl, SpeakControl, MainControl, LoadTrackForSpeed, MainGoto
  <2>2. Scheduling'
    BY <1>15 DEF Scheduling, Voices, SameSession, Busy, InProgress, Initialising,
                 LoadTrackForSpeed, MainGoto
  <2>3. Voices'
    BY <1>15 DEF Scheduling, Voices, InProgress, Initialising, LoadTrackForSpeed, MainGoto
  <2>4. Tracks'
    BY <1>15 DEF Scheduling, Tracks, SameSession, Opened, Busy, Unbuilt, Initialising,
                 LoadTrackForSpeed, MainGoto
  <2>5. Closed'
    BY <1>15 DEF Scheduling, Tracks, Closed, Busy, Unbuilt, Initialising, LoadTrackForSpeed,
                 MainGoto
  <2>6. Utterances'
    BY <1>15 DEF Scheduling, Utterances, LateUtterances, Busy, Initialising, LoadTrackForSpeed,
                 MainGoto
  <2>7. Speeds'
    BY <1>15 DEF Scheduling, Tracks, Speeds, Unbuilt, SpeakControl, LoadTrackForSpeed, MainGoto
  <2> QED
    BY <2>1, <2>2, <2>3, <2>4, <2>5, <2>6, <2>7
<1>16. CASE SetTrackSpeed
  <2>1. TypeOK'
    BY <1>16 DEF InitControl, SpeakControl, MainControl, SetTrackSpeed, MainGoto
  <2>2. Scheduling'
    BY <1>16 DEF Scheduling, Voices, SameSession, Busy, InProgress, Initialising,
                 SetTrackSpeed, MainGoto
  <2>3. Voices'
    BY <1>16 DEF Scheduling, Voices, InProgress, Initialising, SetTrackSpeed, MainGoto
  <2>4. Tracks'
    BY <1>16 DEF Scheduling, Tracks, SameSession, Opened, Busy, Unbuilt, Initialising,
                 SetTrackSpeed, MainGoto
  <2>5. Closed'
    BY <1>16 DEF Scheduling, Tracks, Closed, Busy, Unbuilt, Initialising, SetTrackSpeed, MainGoto
  <2>6. Utterances'
    BY <1>16 DEF Scheduling, Utterances, LateUtterances, Busy, Initialising, SetTrackSpeed,
                 MainGoto
  <2>7. Speeds'
    BY <1>16 DEF Scheduling, Tracks, Speeds, Unbuilt, SpeakControl, SetTrackSpeed, MainGoto
  <2> QED
    BY <2>1, <2>2, <2>3, <2>4, <2>5, <2>6, <2>7
<1>17. CASE BeginRelease
  <2>1. TypeOK'
    BY <1>17 DEF MainControl, Busy, Initialising, BeginRelease, MainGoto
  <2>2. Scheduling'
    BY <1>17 DEF Scheduling, Voices, SameSession, Busy, InProgress, Initialising, BeginRelease,
                 MainGoto
  <2>3. Voices'
    BY <1>17 DEF Scheduling, Voices, InProgress, Initialising, BeginRelease, MainGoto
  <2>4. Tracks'
    BY <1>17 DEF Scheduling, Tracks, SameSession, Opened, Busy, Unbuilt, Initialising,
                 BeginRelease, MainGoto
  <2>5. Closed'
    BY <1>17 DEF Scheduling, Tracks, Closed, Busy, Unbuilt, Initialising, BeginRelease, MainGoto
  <2>6. Utterances'
    BY <1>17 DEF Scheduling, Utterances, LateUtterances, Busy, Initialising, BeginRelease,
                 MainGoto
  <2>7. Speeds'
    BY <1>17 DEF Scheduling, Tracks, Speeds, Unbuilt, SpeakControl, BeginRelease, MainGoto
  <2> QED
    BY <2>1, <2>2, <2>3, <2>4, <2>5, <2>6, <2>7
<1>18. CASE StopTrack
  <2>1. TypeOK'
    BY <1>18 DEF InitControl, SpeakControl, MainControl, StopTrack, MainGoto
  <2>2. Scheduling'
    BY <1>18 DEF Scheduling, Voices, SameSession, Busy, InProgress, Initialising, StopTrack,
                 MainGoto
  <2>3. Voices'
    BY <1>18 DEF Scheduling, Voices, InProgress, Initialising, StopTrack, MainGoto
  <2>4. Tracks'
    BY <1>18 DEF Scheduling, Tracks, SameSession, Opened, Busy, Unbuilt, Initialising,
                 StopTrack, MainGoto
  <2>5. Closed'
    BY <1>18 DEF Scheduling, Tracks, Closed, Busy, Unbuilt, Initialising, StopTrack, MainGoto
  <2>6. Utterances'
    BY <1>18 DEF Scheduling, Utterances, LateUtterances, Busy, Initialising, StopTrack, MainGoto
  <2>7. Speeds'
    BY <1>18 DEF Scheduling, Tracks, Speeds, Unbuilt, SpeakControl, StopTrack, MainGoto
  <2> QED
    BY <2>1, <2>2, <2>3, <2>4, <2>5, <2>6, <2>7
<1>19. CASE ReleaseTrack
  <2>1. TypeOK'
    BY <1>19 DEF InitControl, SpeakControl, MainControl, ReleaseTrack, MainGoto
  <2>2. Scheduling'
    BY <1>19 DEF Scheduling, Voices, SameSession, Busy, InProgress, Initialising, ReleaseTrack,
                 MainGoto
  <2>3. Voices'
    BY <1>19 DEF Scheduling, Voices, InProgress, Initialising, ReleaseTrack, MainGoto
  <2>4. Tracks'
    BY <1>19 DEF Scheduling, Tracks, SameSession, Opened, Busy, Unbuilt, Initialising,
                 ReleaseTrack, MainGoto
  <2>5. Closed'
    BY <1>19 DEF Scheduling, Tracks, Closed, Busy, Unbuilt, Initialising, ReleaseTrack, MainGoto
  <2>6. Utterances'
    BY <1>19 DEF Scheduling, Utterances, LateUtterances, Busy, Initialising, ReleaseTrack,
                 MainGoto
  <2>7. Speeds'
    BY <1>19 DEF Scheduling, Tracks, Speeds, Unbuilt, SpeakControl, ReleaseTrack, MainGoto
  <2> QED
    BY <2>1, <2>2, <2>3, <2>4, <2>5, <2>6, <2>7
<1>20. CASE ClearTrack
  <2>1. TypeOK'
    BY <1>20 DEF InitControl, SpeakControl, MainControl, ClearTrack, MainGoto
  <2>2. Scheduling'
    BY <1>20 DEF Scheduling, Voices, SameSession, Busy, InProgress, Initialising, ClearTrack,
                 MainGoto
  <2>3. Voices'
    BY <1>20 DEF Scheduling, Voices, InProgress, Initialising, ClearTrack, MainGoto
  <2>4. Tracks'
    BY <1>20 DEF Scheduling, Tracks, SameSession, Opened, Busy, Unbuilt, Initialising,
                 ClearTrack, MainGoto
  <2>5. Closed'
    BY <1>20 DEF Scheduling, Tracks, Closed, Busy, Unbuilt, Initialising, ClearTrack, MainGoto
  <2>6. Utterances'
    BY <1>20 DEF Scheduling, Utterances, LateUtterances, Busy, Initialising, ClearTrack, MainGoto
  <2>7. Speeds'
    BY <1>20 DEF Scheduling, Tracks, Speeds, Unbuilt, SpeakControl, ClearTrack, MainGoto
  <2> QED
    BY <2>1, <2>2, <2>3, <2>4, <2>5, <2>6, <2>7
<1>21. CASE UNCHANGED vars
  BY <1>21 DEF vars, Scheduling, Voices, Tracks, Closed, Utterances, LateUtterances, Speeds,
             SameSession, Opened, Busy, Unbuilt, InProgress, Initialising
<1> QED
  BY <1>1, <1>2, <1>3, <1>4, <1>5, <1>6, <1>7, <1>8, <1>9, <1>10, <1>11,
     <1>12, <1>13, <1>14, <1>15, <1>16, <1>17, <1>18, <1>19, <1>20, <1>21 DEF Next

\* A new engine (PiperEngine.kt:17-20).
LEMMA InitInvariant == Init => IInv
<1> SUFFICES ASSUME Init PROVE IInv
  OBVIOUS
<1> USE NoneAssumption, NormalAssumption DEF Init
<1>1. TypeOK
  BY DEF TypeOK, InitControl, SpeakControl, MainControl
<1>2. Scheduling /\ Voices
  BY DEF Scheduling, Busy, Voices, InProgress, Initialising
<1>3. Tracks /\ Closed
  BY DEF Tracks, Closed, Opened
<1>4. Utterances /\ Speeds
  BY DEF Utterances, LateUtterances, Speeds
<1> QED
  BY <1>1, <1>2, <1>3, <1>4 DEF IInv

\* The engine keeps IInv: its fields, its tracks and its threads of control stay in step
\* with each other (PiperEngine.kt:17-148).
THEOREM EngineInvariant == Spec => []IInv
BY InitInvariant, Invariance, PTL DEF Spec

-----------------------------------------------------------------------------
(* Counting the tracks.                                                    *)

\* Calls of different sessions are no more than the sessions they are of.
LEMMA OnePerSession ==
  ASSUME NEW T, T \subseteq Speak, NEW R, R \subseteq Session,
         \A s \in T : s[1] \in R,
         \A s, t \in T : SameSession(s, t) => s = t
  PROVE  /\ IsFiniteSet(T)
         /\ Cardinality(T) \in Nat /\ Cardinality(R) \in Nat
         /\ Cardinality(T) <= Cardinality(R)
<1> DEFINE f == [s \in T |-> s[1]]
<1>1. IsFiniteSet(R) /\ Cardinality(R) \in Nat
  BY SessionAssumption, FS_Subset, FS_CardinalityType, Zenon
<1>2. f \in [T -> R]
  OBVIOUS
<1>3. \A s, t \in T : f[s] = f[t] => s = t
  BY DEF SameSession
<1>4. f \in Injection(T, R)
  BY <1>2, <1>3 DEF Injection, IsInjective
<1>5. IsFiniteSet(T) /\ Cardinality(T) <= Cardinality(R)
  BY <1>1, <1>4, FS_Injection, Zenon
<1> QED
  BY <1>1, <1>5, FS_CardinalityType, Zenon

\* Two sets of calls of different sessions, one of them without a call of some session,
\* are less than twice the sessions.
LEMMA LessThanTwice ==
  ASSUME NEW S, NEW T, S \subseteq Speak, T \subseteq Speak, NEW x \in Session,
         \A s \in S : s[1] # x,
         \A s, t \in S : SameSession(s, t) => s = t,
         \A s, t \in T : SameSession(s, t) => s = t
  PROVE  Cardinality(S \cup T) <= 2 * Cardinality(Session) - 1
<1> DEFINE k == Cardinality(Session)
<1>1. \A s \in Speak : s[1] \in Session
  BY DEF Speak
<1>2. /\ IsFiniteSet(S) /\ Cardinality(S) \in Nat
      /\ Cardinality(S) <= Cardinality(Session \ {x})
  <2>1. \A s \in S : s[1] \in Session \ {x}
    BY <1>1
  <2> QED
    BY <2>1, OnePerSession
<1>3. IsFiniteSet(T) /\ Cardinality(T) \in Nat /\ k \in Nat /\ Cardinality(T) <= k
  BY <1>1, OnePerSession
<1>4. Cardinality(Session \ {x}) = k - 1
  BY SessionAssumption, FS_RemoveElement, Zenon
<1>5. Cardinality(S \cap T) \in Nat
  <2>1. IsFiniteSet(S \cap T)
    BY <1>2, FS_Subset
  <2> QED
    BY <2>1, FS_CardinalityType
<1>6. Cardinality(S \cup T) = Cardinality(S) + Cardinality(T) - Cardinality(S \cap T)
  BY <1>2, <1>3, FS_Union, Zenon
<1> QED
  BY <1>2, <1>3, <1>4, <1>5, <1>6

\* However many sessions overlap, and however many utterances, retries and speed changes
\* interleave with the release, tracks are open for no more than two utterances of each
\* session, and one less in all, unless an initialisation revives the engine
\* (PiperEngine.kt:22-28, 51, 71, 105-144).
THEOREM TracksDoNotPileUp == Spec => []TracksBounded
<1>1. IInv => TracksBounded
  <2> SUFFICES ASSUME IInv, ~revived
               PROVE  Cardinality({s \in Speak : track[s] = "live"})
                        <= 2 * Cardinality(Session) - 1
    BY DEF TracksBounded
  <2> DEFINE live == {s \in Speak : track[s] = "live"}
             met == {s \in live : s \in underway}
             old == {s \in live : s \notin underway}
  <2>1. live = met \cup old /\ met \subseteq Speak /\ old \subseteq Speak
    OBVIOUS
  <2>2. /\ \A s, t \in met : SameSession(s, t) => s = t
        /\ \A s, t \in old : SameSession(s, t) => s = t
    BY DEF IInv, Tracks, Opened
  <2>3. PICK x : x \in Session
    BY SessionAssumption
  <2>4. CASE \A s, t \in live : SameSession(s, t) => s = t
    <3>1. Cardinality({} \cup live) <= 2 * Cardinality(Session) - 1
      BY <2>3, <2>4, LessThanTwice
    <3> QED
      BY <3>1
  <2>5. CASE \E r \in Speak : track[r] = "released"
    <3>1. PICK r \in Speak : track[r] = "released"
      BY <2>5
    <3>2. r[1] \in Session /\ Opened(r) /\ r \notin live
      BY <3>1 DEF Speak, Opened
    <3>3. ASSUME NEW s \in live, SameSession(s, r) PROVE s \in underway <=> r \notin underway
      BY <3>2, <3>3 DEF IInv, Tracks, Opened, SameSession
    <3>4. CASE r \in underway
      <4>1. \A s \in met : s[1] # r[1]
        BY <3>3, <3>4 DEF SameSession
      <4> QED
        BY <2>1, <2>2, <3>2, <4>1, LessThanTwice
    <3>5. CASE r \notin underway
      <4>1. \A s \in old : s[1] # r[1]
        BY <3>3, <3>5 DEF SameSession
      <4>2. Cardinality(old \cup met) <= 2 * Cardinality(Session) - 1
        BY <2>1, <2>2, <3>2, <4>1, LessThanTwice
      <4> QED
        BY <2>1, <4>2
    <3> QED
      BY <3>4, <3>5
  <2>6. CASE \A s \in live : s \in underway
    BY <2>2, <2>4, <2>6
  <2>7. CASE mainPc \notin {"clear", "gone"}
    <3>1. \A s, t \in live : SameSession(s, t) => s = t
      BY <2>7 DEF IInv, Tracks, Opened
    <3> QED
      BY <2>4, <3>1
  <2> QED
    BY <2>5, <2>6, <2>7 DEF IInv, Closed
<1> QED
  BY <1>1, EngineInvariant, PTL

\* After the release nothing is played but what release has met, and that is one
\* utterance of each session at most (PiperEngine.kt:22-28, 86-88).
THEOREM UtterancesEnd == Spec => [](LateUtterances /\ \A s, t \in underway : s[1] = t[1] => s = t)
<1>1. IInv => LateUtterances /\ \A s, t \in underway : s[1] = t[1] => s = t
  BY DEF IInv, Utterances, Scheduling, SameSession
<1> QED
  BY <1>1, EngineInvariant, PTL

\* Whatever later calls of initialize meet with, as long as no two are under way at once,
\* an engine that has reported success can speak until it is released
\* (PiperEngine.kt:47, 71-79).
THEOREM SuccessLasts == Spec => []ReadySpeaks
<1>1. IInv => ReadySpeaks
  BY DEF IInv, Voices, ReadySpeaks
<1> QED
  BY <1>1, EngineInvariant, PTL

\* The track in the field plays at the speed selected last, whichever of building the
\* track and selecting the speed comes first, and however many build one at a time
\* (PiperEngine.kt:30-43, 133-136).
THEOREM SpeedIsPlayed == Spec => []PlaysAtSpeed
<1>1. IInv => PlaysAtSpeed
  BY DEF IInv, TypeOK, Speeds, PlaysAtSpeed
<1> QED
  BY <1>1, EngineInvariant, PTL

=============================================================================
