------------------------- MODULE SpeechWaitingProofs -------------------------
(***************************************************************************)
(* Theorems about waiting for the voice model, for every value of          *)
(* SpeechPipeline's constants: a text that waits has a load on its way and *)
(* is not one that was stopped, and the badge of the model is right when   *)
(* nothing is under way.  The invariants behind them, SpeechSupport, are   *)
(* one theorem more.                                                       *)
(***************************************************************************)
EXTENDS SpeechProofs

Has(q, kind) == \E k \in DOMAIN q : q[k].kind = kind

\* LoadOutstanding, of the queue c, the command jt being served and the queue m.
LoadAbout(c, jt, m) == jt.kind = "LoadTts" \/ Has(c, "LoadTts") \/ Has(m, "TtsLoaded")

\* What is in a queue stays there when the queue grows at its end.
LEMMA HasAppend ==
  ASSUME NEW S, NEW q \in Seq(S), NEW x \in S, NEW kind
  PROVE  /\ Has(q, kind) => Has(Append(q, x), kind)
         /\ x.kind = kind => Has(Append(q, x), kind)
<1>1. /\ DOMAIN q = 1 .. Len(q) /\ Len(q) \in Nat
      /\ DOMAIN Append(q, x) = 1 .. Len(q) + 1
  BY LenProperties, AppendProperties
<1>2. /\ \A k \in DOMAIN q : Append(q, x)[k] = q[k]
      /\ Append(q, x)[Len(q) + 1] = x
  BY <1>1, AppendProperties
<1> QED
  BY <1>1, <1>2 DEF Has

\* Taking the head of a queue leaves the rest.
LEMMA HasTail ==
  ASSUME NEW S, NEW q \in Seq(S), q # << >>, NEW kind, Has(q, kind), Head(q).kind # kind
  PROVE  Has(Tail(q), kind)
<1>1. /\ DOMAIN q = 1 .. Len(q) /\ Len(q) \in Nat \ {0}
      /\ DOMAIN Tail(q) = 1 .. Len(q) - 1
      /\ \A k \in DOMAIN Tail(q) : Tail(q)[k] = q[k + 1]
  BY LenProperties, EmptySeq, HeadTailProperties
<1>2. PICK k \in DOMAIN q : q[k].kind = kind
  BY DEF Has
<1>3. k # 1
  BY <1>1, <1>2
<1>4. k - 1 \in DOMAIN Tail(q) /\ (k - 1) + 1 = k
  BY <1>1, <1>3
<1>5. Tail(q)[k - 1].kind = kind
  BY <1>1, <1>2, <1>4
<1> QED
  BY <1>4, <1>5 DEF Has

\* What is in either part is in the concatenation.
LEMMA HasConcat ==
  ASSUME NEW S, NEW q \in Seq(S), NEW s \in Seq(S), NEW kind
  PROVE  /\ Has(q, kind) => Has(q \o s, kind)
         /\ Has(s, kind) => Has(q \o s, kind)
<1>1. /\ DOMAIN q = 1 .. Len(q) /\ Len(q) \in Nat
      /\ DOMAIN s = 1 .. Len(s) /\ Len(s) \in Nat
      /\ DOMAIN (q \o s) = 1 .. Len(q) + Len(s)
  BY LenProperties, ConcatProperties
<1>2. \A k \in DOMAIN (q \o s) : (q \o s)[k] = IF k <= Len(q) THEN q[k] ELSE s[k - Len(q)]
  BY <1>1, ConcatProperties
<1>3. \A k \in DOMAIN q : k \in DOMAIN (q \o s) /\ (q \o s)[k] = q[k]
  BY <1>1, <1>2
<1>4. ASSUME NEW k \in DOMAIN s
      PROVE  k + Len(q) \in DOMAIN (q \o s) /\ (q \o s)[k + Len(q)] = s[k]
  <2>1. k + Len(q) \in DOMAIN (q \o s) /\ ~(k + Len(q) <= Len(q)) /\ (k + Len(q)) - Len(q) = k
    BY <1>1
  <2> QED
    BY <1>2, <2>1
<1> QED
  BY <1>3, <1>4 DEF Has

-----------------------------------------------------------------------------
(* A load asked for stays asked for until its answer is handled.             *)

\* pump_tts_synth adds to the command queue and takes nothing from it.
LEMMA PumpKeeps ==
  ASSUME NEW t \in Controller, NEW q \in Seq(Cmd), NEW loaded \in BOOLEAN,
         NEW kind, Has(q, kind)
  PROVE  Has(PumpedCmds(t, q, loaded), kind)
<1>1. CASE Pumps(t, loaded)
  <2>1. Synthesize(t.active, Head(t.pending).index) \in Cmd
    BY <1>1, HeadPendingType DEF Pumps, Synthesize, Cmd, CmdKinds
  <2> QED
    BY <1>1, <2>1, HasAppend DEF PumpedCmds
<1>2. CASE ~Pumps(t, loaded)
  BY <1>2 DEF PumpedCmds
<1> QED
  BY <1>1, <1>2

\* After load_tts of a model that is not loaded, a load is in the queue or ran
\* already (app/models.rs).
LEMMA LoadTtsAsks ==
  ASSUME NEW q \in Seq(Cmd), NEW loaded, NEW loading,
         LoadTts(q, loaded, loading)
  PROVE  /\ Has(q, "LoadTts") => Has(cmds', "LoadTts")
         /\ ttsLoading' /\ ~loading => Has(cmds', "LoadTts")
         /\ ~loaded /\ ~loading => Has(cmds', "LoadTts")
         /\ loading => ttsLoading'
<1>1. Command("LoadTts") \in Cmd /\ Command("LoadTts").kind = "LoadTts"
  BY CommandType DEF CmdKinds, Command
<1>2. Has(Append(q, Command("LoadTts")), "LoadTts")
  BY <1>1, HasAppend
<1> QED
  BY <1>2 DEF LoadTts

\* start_speak_job leaves a text waiting only behind a load.
LEMMA StartAsks ==
  ASSUME TypeOK, NEW m,
         NEW s \in [req : Nat, segs : Nat], NEW rest,
         NEW loaded \in BOOLEAN, NEW loading \in BOOLEAN,
         StartSpeakJob(s, rest, loaded, loading),
         loading \/ rest # NoSpeak => LoadAbout(cmds, jobThread, m)
  PROVE  ttsLoading' \/ pendingSpeak' # NoSpeak => LoadAbout(cmds', jobThread, m)
<1>1. cmds \in Seq(Cmd) /\ Cancel(tts) \in Controller
  BY CancelType DEF TypeOK
<1>2. CASE tts.inFlight
  <2> DEFINE q == Append(cmds, Command("CancelTtsWorker"))
  <2>1. LoadTts(q, FALSE, loading)
    BY <1>2 DEF StartSpeakJob
  <2>2. Command("CancelTtsWorker") \in Cmd
    BY CommandType DEF CmdKinds
  <2>3. q \in Seq(Cmd)
    BY <1>1, <2>2, AppendProperties
  <2>4. Has(cmds, "LoadTts") => Has(q, "LoadTts")
    BY <1>1, <2>2, HasAppend
  <2> HIDE DEF q
  <2>5. /\ Has(q, "LoadTts") => Has(cmds', "LoadTts")
        /\ ~loading => Has(cmds', "LoadTts")
    BY <2>1, <2>3, LoadTtsAsks
  <2> QED
    BY <2>4, <2>5 DEF LoadAbout
<1>3. CASE ~tts.inFlight
  <2>1. /\ cmds' = PumpedCmds(BeginJob(Cancel(tts), s.segs), cmds, loaded)
        /\ pendingSpeak' = rest /\ ttsLoading' = loading
    BY <1>3 DEF StartSpeakJob, PumpTtsSynth
  <2>2. BeginJob(Cancel(tts), s.segs) \in Controller
    BY <1>1, BeginJobType
  <2> QED
    BY <1>1, <2>1, <2>2, PumpKeeps DEF LoadAbout
<1> QED
  BY <1>2, <1>3

\* A user's command keeps LoadOnItsWay.
LEMMA UserLoad ==
  ASSUME TypeOK, TypeOK', LoadOnItsWay, User
  PROVE  LoadOnItsWay'
<1>1. /\ cmds \in Seq(Cmd) /\ ttsLoading \in BOOLEAN /\ ttsLoaded \in BOOLEAN
      /\ pendingSpeak \in [req : Nat, segs : Nat]
  BY DEF TypeOK
<1>2. jobThread' = jobThread /\ msgs' = msgs
  BY DEF User, Speak, StopSpeech, UnloadVoice, UnloadAll, LoadVoice, LoadDictation, UserActs,
         Replay, PauseResume, workerVars
<1>3. ttsLoading \/ pendingSpeak # NoSpeak => LoadAbout(cmds, jobThread, msgs)
  BY DEF LoadOnItsWay, LoadOutstanding, LoadAbout, Has
<1>4. SUFFICES ttsLoading' \/ pendingSpeak' # NoSpeak => LoadAbout(cmds', jobThread, msgs)
  BY <1>2 DEF LoadOnItsWay, LoadOutstanding, LoadAbout, Has
<1>5. \A kind \in CmdKinds : Has(cmds, "LoadTts") => Has(Append(cmds, Command(kind)), "LoadTts")
  BY <1>1, CommandType, HasAppend
<1>6. CASE \E n \in SegmentCounts : Speak(n)
  <2>1. PICK n \in SegmentCounts : Speak(n)
    BY <1>6
  <2>2. requests' \in Nat /\ n \in Nat
    BY PipelineAssumption DEF TypeOK
  <2> DEFINE s == [req |-> requests', segs |-> n]
  <2>3. s \in [req : Nat, segs : Nat]
    BY <2>2
  <2>4. \/ ~ttsLoaded /\ LoadTts(cmds, ttsLoaded, ttsLoading)
        \/ StartSpeakJob(s, pendingSpeak, ttsLoaded, ttsLoading)
    BY <2>1 DEF Speak
  <2> HIDE DEF s
  <2>5. CASE ~ttsLoaded /\ LoadTts(cmds, ttsLoaded, ttsLoading)
    <3>1. /\ Has(cmds, "LoadTts") => Has(cmds', "LoadTts")
          /\ ~ttsLoading => Has(cmds', "LoadTts")
      BY <1>1, <2>5, LoadTtsAsks
    <3> QED
      BY <1>3, <3>1 DEF LoadAbout
  <2>6. CASE StartSpeakJob(s, pendingSpeak, ttsLoaded, ttsLoading)
    BY <1>1, <1>3, <2>3, <2>6, StartAsks
  <2> QED
    BY <2>4, <2>5, <2>6
<1>7. CASE StopSpeech
  <2>1. /\ ttsLoading' = ttsLoading /\ pendingSpeak' = NoSpeak
        /\ cmds' = cmds \/ cmds' = Append(cmds, Command("CancelTtsWorker"))
    BY <1>7 DEF StopSpeech
  <2> QED
    BY <1>3, <1>5, <2>1 DEF LoadAbout, CmdKinds
<1>8. CASE UnloadVoice \/ UnloadAll
  <2>1. /\ ttsLoading' = ttsLoading /\ pendingSpeak' = NoSpeak
        /\ \/ cmds' = Append(cmds, Command("Unload"))
           \/ cmds' = cmds \o << Command("CancelTtsWorker"), Command("Unload") >>
    BY <1>8 DEF UnloadVoice, UnloadAll, DiscardAllAudio
  <2>2. << Command("CancelTtsWorker"), Command("Unload") >> \in Seq(Cmd)
    BY CommandType DEF CmdKinds
  <2>3. Has(cmds, "LoadTts") => Has(cmds \o << Command("CancelTtsWorker"), Command("Unload") >>, "LoadTts")
    BY <1>1, <2>2, HasConcat
  <2> QED
    BY <1>3, <1>5, <2>1, <2>3 DEF LoadAbout, CmdKinds
<1>9. CASE LoadVoice
  <2>1. LoadTts(cmds, ttsLoaded, ttsLoading) /\ pendingSpeak' = pendingSpeak
    BY <1>9 DEF LoadVoice
  <2> QED
    BY <1>1, <1>3, <2>1, LoadTtsAsks DEF LoadAbout
<1>10. CASE LoadDictation
  <2>1. /\ ttsLoading' = ttsLoading /\ pendingSpeak' = pendingSpeak
        /\ cmds' = Append(cmds, Command("LoadStt"))
    BY <1>10 DEF LoadDictation
  <2> QED
    BY <1>3, <1>5, <2>1 DEF LoadAbout, CmdKinds
<1>11. CASE Replay \/ PauseResume
  BY <1>3, <1>11 DEF Replay, PauseResume
<1> QED
  BY <1>6, <1>7, <1>8, <1>9, <1>10, <1>11 DEF User

\* A handler of a message keeps LoadOnItsWay.
LEMMA HandleMsgLoad ==
  ASSUME TypeOK, TypeOK', LoadOnItsWay, HandleMsg
  PROVE  LoadOnItsWay'
<1>1. /\ cmds \in Seq(Cmd) /\ msgs \in Seq(Msg) /\ tts \in Controller
      /\ ttsLoading \in BOOLEAN /\ ttsLoaded \in BOOLEAN
      /\ pendingSpeak \in [req : Nat, segs : Nat]
  BY DEF TypeOK
<1>2. jobThread' = jobThread
  BY DEF HandleMsg, OnModelStatus, OnTtsLoaded, OnWorkerTimedOut, OnChunkReadyMsg,
         OnChunkFailedMsg, Receive
<1>3. ttsLoading \/ pendingSpeak # NoSpeak => LoadAbout(cmds, jobThread, msgs)
  BY DEF LoadOnItsWay, LoadOutstanding, LoadAbout, Has
<1>4. SUFFICES ttsLoading' \/ pendingSpeak' # NoSpeak => LoadAbout(cmds', jobThread, msgs')
  BY <1>2 DEF LoadOnItsWay, LoadOutstanding, LoadAbout, Has
<1>5. ASSUME NEW kind, kind # "TtsLoaded", Receive(kind)
      PROVE  Has(msgs, "TtsLoaded") => Has(msgs', "TtsLoaded")
  BY <1>1, <1>5, HasTail DEF Receive
<1>6. CASE OnModelStatus
  <2>1. Receive("ModelStatus") /\ ttsLoading' = ttsLoading /\ pendingSpeak' = pendingSpeak
        /\ cmds' = cmds
    BY <1>6 DEF OnModelStatus
  <2> QED
    BY <1>3, <1>5, <2>1 DEF LoadAbout
<1>7. CASE OnWorkerTimedOut
  <2>1. /\ Receive("WorkerTimedOut") /\ pendingSpeak' = pendingSpeak /\ cmds' = cmds
        /\ ttsLoading' = ttsLoading \/ ttsLoading' = FALSE
    BY <1>7 DEF OnWorkerTimedOut
  <2> QED
    BY <1>3, <1>5, <2>1 DEF LoadAbout
<1>8. CASE OnTtsLoaded
  <2>1. \/ StartSpeakJob(pendingSpeak, NoSpeak, TRUE, FALSE)
        \/ ttsLoading' = FALSE /\ pendingSpeak' = NoSpeak
    BY <1>8 DEF OnTtsLoaded
  <2>2. CASE StartSpeakJob(pendingSpeak, NoSpeak, TRUE, FALSE)
    BY <1>1, <2>2, StartAsks
  <2> QED
    BY <2>1, <2>2
<1>9. CASE OnChunkReadyMsg
  <2> DEFINE t == OnChunkReady(tts, Head(msgs).job, Head(msgs).index)
  <2>1. /\ Receive("TtsChunkReady") /\ ttsLoading' = ttsLoading /\ pendingSpeak' = pendingSpeak
        /\ cmds' = cmds \/ cmds' = PumpedCmds(t, cmds, ttsLoaded)
    BY <1>9 DEF OnChunkReadyMsg, PumpTtsSynth
  <2>2. t \in Controller
    BY <1>1, <2>1, ReceiveType, OnChunkReadyType DEF Msg
  <2> HIDE DEF t
  <2> QED
    BY <1>1, <1>3, <1>5, <2>1, <2>2, PumpKeeps DEF LoadAbout
<1>10. CASE OnChunkFailedMsg
  <2> DEFINE t == OnChunkFailed(tts, Head(msgs).index)
  <2>1. /\ Receive("TtsChunkFailed") /\ pendingSpeak' = pendingSpeak
        /\ \/ cmds' = cmds /\ ttsLoading' = ttsLoading
           \/ LoadTts(cmds, ttsLoaded, ttsLoading)
           \/ cmds' = PumpedCmds(t, cmds, TRUE) /\ ttsLoading' = ttsLoading
    BY <1>10 DEF OnChunkFailedMsg
  <2>2. t \in Controller
    BY <1>1, <2>1, ReceiveType, OnChunkFailedType DEF Msg
  <2> HIDE DEF t
  <2>3. CASE LoadTts(cmds, ttsLoaded, ttsLoading)
    BY <1>1, <1>3, <1>5, <2>1, <2>3, LoadTtsAsks DEF LoadAbout
  <2> QED
    BY <1>1, <1>3, <1>5, <2>1, <2>2, <2>3, PumpKeeps DEF LoadAbout
<1> QED
  BY <1>6, <1>7, <1>8, <1>9, <1>10 DEF HandleMsg

\* The transport poll and the hand-over loop keep LoadOnItsWay.
LEMMA PollLoad ==
  ASSUME TypeOK, LoadOnItsWay, PollTransport \/ HandOver
  PROVE  LoadOnItsWay'
<1>1. cmds \in Seq(Cmd) /\ tts \in Controller /\ ttsLoaded \in BOOLEAN
  BY DEF TypeOK
<1>2. /\ jobThread' = jobThread /\ msgs' = msgs
      /\ ttsLoading' = ttsLoading /\ pendingSpeak' = pendingSpeak
  BY DEF PollTransport, HandOver, HandOverNext, HandOverEnds, workerVars
<1>3. Has(cmds, "LoadTts") => Has(cmds', "LoadTts")
  <2>1. CASE PollTransport
    <3> DEFINE asks == Tick(transport).status = "playing" /\ ttsLoaded
    <3>1. cmds' = PumpedCmds(tts, cmds, asks) /\ asks \in BOOLEAN
      BY <2>1 DEF PollTransport
    <3> HIDE DEF asks
    <3> QED
      BY <1>1, <3>1, PumpKeeps
  <2>2. CASE \E appends \in BOOLEAN, o \in StartOutcome : HandOverNext(appends, o)
    <3>1. /\ tts.ready # << >>
          /\ cmds' = cmds \/ cmds' = PumpedCmds(PopReady(tts), cmds, ttsLoaded)
      BY <2>2 DEF HandOverNext, PumpTtsSynth
    <3>2. PopReady(tts) \in Controller
      BY <1>1, <3>1, PopReadyType
    <3> QED
      BY <1>1, <3>1, <3>2, PumpKeeps
  <2>3. CASE HandOverEnds
    BY <1>1, <2>3, PumpKeeps DEF HandOverEnds, PumpTtsSynth
  <2> QED
    BY <2>1, <2>2, <2>3 DEF HandOver
<1> QED
  BY <1>2, <1>3 DEF LoadOnItsWay, LoadOutstanding, Has

\* The job thread keeps LoadOnItsWay: it answers every load it takes.
LEMMA JobThreadLoad ==
  ASSUME TypeOK, LoadOnItsWay, JobThread
  PROVE  LoadOnItsWay'
<1>1. cmds \in Seq(Cmd) /\ msgs \in Seq(Msg)
  BY DEF TypeOK
<1>2. ttsLoading' = ttsLoading /\ pendingSpeak' = pendingSpeak
  BY DEF JobThread, TakeCmd, ServeLoadTts, ServeSynthesize, ServeCancelTtsWorker, ServeUnload,
         ServeLoadStt, Serving, uiVars
<1>3. SUFFICES ASSUME LoadAbout(cmds, jobThread, msgs)
               PROVE  LoadAbout(cmds', jobThread', msgs')
  BY <1>2 DEF LoadOnItsWay, LoadOutstanding, LoadAbout, Has
<1>4. CASE TakeCmd
  <2>1. /\ jobThread = Idle /\ cmds # << >> /\ jobThread' = Head(cmds) /\ cmds' = Tail(cmds)
        /\ msgs' = msgs
    BY <1>4 DEF TakeCmd
  <2>2. Idle.kind # "LoadTts"
    BY DEF Idle
  <2> QED
    BY <1>1, <1>3, <2>1, <2>2, HasTail DEF LoadAbout
<1>5. ASSUME NEW s \in Seq(Msg), NEW kind, Serving(kind), Post(s),
             kind = "LoadTts" => Has(s, "TtsLoaded")
      PROVE  LoadAbout(cmds', jobThread', msgs')
  <2>1. jobThread.kind = kind /\ cmds' = cmds /\ msgs' = msgs \o s
    BY <1>5 DEF Serving, Post
  <2>2. /\ Has(msgs, "TtsLoaded") => Has(msgs', "TtsLoaded")
        /\ Has(s, "TtsLoaded") => Has(msgs', "TtsLoaded")
    BY <1>1, <2>1, HasConcat
  <2> QED
    BY <1>3, <1>5, <2>1, <2>2 DEF LoadAbout
<1>6. \A b \in BOOLEAN : ModelStatus(b) \in Msg /\ TtsLoaded(b) \in Msg
  BY MsgTypes
<1>7. CASE ServeLoadTts
  <2>1. \E b \in BOOLEAN : Post(<< TtsLoaded(b), ModelStatus(b) >>)
    BY <1>7 DEF ServeLoadTts
  <2>2. PICK b \in BOOLEAN : Post(<< TtsLoaded(b), ModelStatus(b) >>)
    BY <2>1
  <2> DEFINE s == << TtsLoaded(b), ModelStatus(b) >>
  <2>3. s \in Seq(Msg) /\ DOMAIN s = {1, 2} /\ s[1] = TtsLoaded(b)
    BY <1>6
  <2>4. TtsLoaded(b).kind = "TtsLoaded"
    BY DEF TtsLoaded
  <2>5. Serving("LoadTts") /\ Post(s)
    BY <1>7, <2>2 DEF ServeLoadTts
  <2> HIDE DEF s
  <2>6. Has(s, "TtsLoaded")
    BY <2>3, <2>4 DEF Has
  <2> QED
    BY <1>5, <2>3, <2>5, <2>6
<1>8. CASE ServeSynthesize
  <2>1. jobThread \in Cmd /\ Serving("Synthesize")
    BY <1>8, ServingType DEF ServeSynthesize, CmdKinds
  <2>2. ChunkReady(jobThread) \in Msg /\ ChunkFailed(jobThread) \in Msg /\ TimedOut(jobThread) \in Msg
    BY <2>1, MsgTypes
  <2>3. \E s \in Seq(Msg) : Post(s)
    <3>1. \E a \in BOOLEAN :
            \/ Post(<< ChunkReady(jobThread) >>) \/ Post(<< ChunkFailed(jobThread) >>)
            \/ Post(<< TimedOut(jobThread), ModelStatus(a), ChunkFailed(jobThread) >>)
      BY <1>8 DEF ServeSynthesize
    <3>2. << ChunkReady(jobThread) >> \in Seq(Msg) /\ << ChunkFailed(jobThread) >> \in Seq(Msg)
      BY <2>2
    <3>3. \A a \in BOOLEAN : << TimedOut(jobThread), ModelStatus(a), ChunkFailed(jobThread) >> \in Seq(Msg)
      BY <1>6, <2>2
    <3> QED
      BY <3>1, <3>2, <3>3
  <2> QED
    BY <1>5, <2>1, <2>3
<1>9. ASSUME NEW b \in BOOLEAN, NEW kind, Serving(kind), kind # "LoadTts",
             Post(<< ModelStatus(b) >>)
      PROVE  LoadAbout(cmds', jobThread', msgs')
  <2>1. << ModelStatus(b) >> \in Seq(Msg)
    BY <1>6
  <2> QED
    BY <1>5, <1>9, <2>1
<1>10. CASE ServeCancelTtsWorker
  BY <1>9, <1>10 DEF ServeCancelTtsWorker
<1>11. CASE ServeUnload
  <2>1. policy' \in BOOLEAN /\ Serving("Unload") /\ Post(<< ModelStatus(policy') >>)
    BY <1>11, UnloadedType DEF ServeUnload
  <2> QED
    BY <1>9, <2>1
<1>12. CASE ServeLoadStt
  <2>1. policy' \in BOOLEAN /\ Serving("LoadStt") /\ Post(<< ModelStatus(policy') >>)
    BY <1>12, UnloadedType DEF ServeLoadStt, TypeOK
  <2> QED
    BY <1>9, <2>1
<1> QED
  BY <1>4, <1>7, <1>8, <1>10, <1>11, <1>12 DEF JobThread

\* A text that waits, or a load that is marked as asked for, has a load on its way.
LEMMA LoadAlways == Spec => []LoadOnItsWay
<1>1. Init => TypeOK /\ LoadOnItsWay
  <2>1. Init => TypeOK
    BY InitType
  <2>2. Init => LoadOnItsWay
    BY DEF Init, LoadOnItsWay
  <2> QED
    BY <2>1, <2>2
<1>2. ASSUME TypeOK, LoadOnItsWay, [Next]_vars
      PROVE  TypeOK' /\ LoadOnItsWay'
  <2>1. TypeOK'
    BY <1>2, NextType
  <2>2. CASE PlayerAdvances \/ PlayerDies \/ WorkerDies \/ UNCHANGED vars
    <3>1. /\ jobThread' = jobThread /\ cmds' = cmds /\ msgs' = msgs
          /\ ttsLoading' = ttsLoading /\ pendingSpeak' = pendingSpeak
      BY <2>2 DEF PlayerAdvances, PlayerDies, WorkerDies, vars, uiVars, workerVars
    <3> QED
      BY <1>2, <2>1, <3>1 DEF LoadOnItsWay, LoadOutstanding
  <2> QED
    BY <1>2, <2>1, <2>2, UserLoad, HandleMsgLoad, PollLoad, JobThreadLoad DEF Next
<1>3. TypeOK /\ LoadOnItsWay /\ [Next]_vars => TypeOK' /\ LoadOnItsWay'
  BY <1>2
<1> QED
  BY <1>1, <1>3, PTL DEF Spec

\* A text waits for the voice model only while a load is on its way.
THEOREM WaitingHasLoad == Spec => []WaitingSpeechHasLoad
<1>1. LoadOnItsWay => WaitingSpeechHasLoad
  BY DEF LoadOnItsWay, WaitingSpeechHasLoad
<1> QED
  BY <1>1, LoadAlways, PTL

-----------------------------------------------------------------------------
(* Only start_speak_job starts a job; a text that waits is newer than the    *)
(* last Stop or unload.                                                      *)

\* A step that starts no job.
StartsNone == tts'.active \in {NoJob, tts.active}

\* The parts of the handlers that start no job.
LEMMA PartsStartNone ==
  ASSUME NEW t \in Controller
  PROVE  /\ \A b : Pumped(t, b).active = t.active
         /\ \A j, i : OnChunkReady(t, j, i).active = t.active
         /\ \A i : OnChunkFailed(t, i).active = t.active
         /\ PopReady(t).active = t.active
         /\ \A tr : FinalizeIfDone(t, tr) => tts'.active \in {NoJob, t.active}
         /\ \A tr : CleanupChunkTemps(t, tr) => tts'.active = t.active
<1>1. \A b : Pumped(t, b).active = t.active
  BY DEF Pumped, MarkSynthStarted, Controller
<1>2. /\ \A j, i : OnChunkReady(t, j, i).active = t.active
      /\ \A i : OnChunkFailed(t, i).active = t.active
      /\ PopReady(t).active = t.active
      /\ EndJob(t).active = NoJob
  BY DEF OnChunkReady, OnChunkFailed, PopReady, EndJob, Controller
<1>3. \A tr : FinalizeIfDone(t, tr) => tts'.active \in {NoJob, t.active}
  BY <1>2 DEF FinalizeIfDone
<1>4. \A tr : CleanupChunkTemps(t, tr) => tts'.active = t.active
  BY DEF CleanupChunkTemps, Controller
<1> QED
  BY <1>1, <1>2, <1>3, <1>4

\* start_speak_job starts a job for the request it is given, or none.
LEMMA StartFor ==
  ASSUME TypeOK, NEW s \in [req : Nat, segs : Nat], NEW rest, NEW loaded, NEW loading,
         StartSpeakJob(s, rest, loaded, loading)
  PROVE  /\ StartsNone \/ request' = s.req
         /\ pendingSpeak' \in {s, rest}
<1>1. Cancel(tts) \in Controller /\ Cancel(tts).active = NoJob
  BY CancelType DEF TypeOK, Cancel
<1>2. CASE tts.inFlight
  <2>1. CleanupChunkTemps(Cancel(tts), Stop(transport)) /\ pendingSpeak' = s
    BY <1>2 DEF StartSpeakJob
  <2> QED
    BY <1>1, <2>1, PartsStartNone DEF StartsNone
<1>3. CASE ~tts.inFlight
  BY <1>3 DEF StartSpeakJob
<1> QED
  BY <1>2, <1>3

\* Every step keeps WaitingIsNew, and starts a job for a new request only.
LEMMA NextWaiting ==
  ASSUME TypeOK, TypeOK', WaitingIsNew, [Next]_vars
  PROVE  /\ WaitingIsNew'
         /\ StartsNone \/ request' > stopped'
<1>1. /\ tts \in Controller /\ requests \in Nat /\ stopped \in Nat
      /\ pendingSpeak \in [req : Nat, segs : Nat] /\ pendingSpeak.req \in Nat
      /\ NoSpeak.req = 0
      /\ Cancel(tts) \in Controller /\ Cancel(tts).active = NoJob
  BY CancelType DEF TypeOK, NoSpeak, Cancel
<1>2. CASE \E n \in SegmentCounts : Speak(n)
  <2>1. PICK n \in SegmentCounts : Speak(n)
    BY <1>2
  <2>2. requests' = requests + 1 /\ stopped' = stopped /\ n \in Nat
    BY <2>1, PipelineAssumption DEF Speak
  <2> DEFINE s == [req |-> requests', segs |-> n]
  <2>3. s \in [req : Nat, segs : Nat] /\ s.req = requests + 1
    BY <1>1, <2>2
  <2>4. \/ pendingSpeak' = s /\ tts' = tts
        \/ StartSpeakJob(s, pendingSpeak, ttsLoaded, ttsLoading)
    BY <2>1 DEF Speak
  <2> HIDE DEF s
  <2>5. /\ StartsNone \/ request' = s.req
        /\ pendingSpeak' \in {s, pendingSpeak}
    BY <2>3, <2>4, StartFor DEF StartsNone
  <2>6. stopped <= requests /\ pendingSpeak.req <= requests
        /\ (pendingSpeak # NoSpeak => pendingSpeak.req > stopped)
    BY DEF WaitingIsNew
  <2>7. s.req > stopped
    BY <1>1, <2>3, <2>6
  <2>8. pendingSpeak'.req <= requests' /\ stopped' <= requests'
    BY <1>1, <2>2, <2>3, <2>5, <2>6
  <2>9. pendingSpeak' # NoSpeak => pendingSpeak'.req > stopped'
    BY <2>2, <2>5, <2>6, <2>7
  <2> QED
    BY <2>2, <2>5, <2>7, <2>8, <2>9 DEF WaitingIsNew
<1>3. ASSUME StartsNone, requests' = requests, stopped' \in {stopped, requests},
             pendingSpeak' = NoSpeak
      PROVE  WaitingIsNew' /\ (StartsNone \/ request' > stopped')
  BY <1>1, <1>3 DEF WaitingIsNew
<1>4. CASE StopSpeech \/ UnloadVoice \/ UnloadAll
  <2>1. /\ requests' = requests /\ stopped' = requests /\ pendingSpeak' = NoSpeak
        /\ \/ CleanupChunkTemps(Cancel(tts), Stop(transport))
           \/ tts' = [Cancel(tts) EXCEPT !.chunkPaths = 0]
    BY <1>4 DEF StopSpeech, UnloadVoice, UnloadAll, DiscardAllAudio
  <2>2. StartsNone
    BY <1>1, <2>1, PartsStartNone DEF StartsNone, Controller
  <2> QED
    BY <1>3, <2>1, <2>2
<1>5. ASSUME StartsNone, requests' = requests, stopped' = stopped,
             pendingSpeak' = pendingSpeak
      PROVE  WaitingIsNew' /\ (StartsNone \/ request' > stopped')
  BY <1>5 DEF WaitingIsNew
<1>6. CASE LoadVoice \/ LoadDictation \/ Replay \/ PauseResume
  <2>1. tts' = tts /\ requests' = requests /\ stopped' = stopped /\ pendingSpeak' = pendingSpeak
    BY <1>6 DEF LoadVoice, LoadDictation, Replay, PauseResume, userVars
  <2> QED
    BY <1>5, <2>1 DEF StartsNone
<1>7. CASE OnTtsLoaded
  <2>1. requests' = requests /\ stopped' = stopped
    BY <1>7 DEF OnTtsLoaded, Receive, userVars
  <2>2. \/ pendingSpeak # NoSpeak /\ StartSpeakJob(pendingSpeak, NoSpeak, TRUE, FALSE)
        \/ StartsNone /\ pendingSpeak' = pendingSpeak
        \/ StartsNone /\ pendingSpeak' = NoSpeak
    <3>1. \/ pendingSpeak # NoSpeak /\ StartSpeakJob(pendingSpeak, NoSpeak, TRUE, FALSE)
          \/ tts' = Pumped(tts, TRUE) /\ pendingSpeak' = pendingSpeak
          \/ tts' = tts /\ pendingSpeak' = NoSpeak
      BY <1>7 DEF OnTtsLoaded, PumpTtsSynth
    <3>2. Pumped(tts, TRUE).active = tts.active
      BY <1>1, PartsStartNone
    <3> QED
      BY <3>1, <3>2 DEF StartsNone
  <2>3. CASE pendingSpeak # NoSpeak /\ StartSpeakJob(pendingSpeak, NoSpeak, TRUE, FALSE)
    <3>1. /\ StartsNone \/ request' = pendingSpeak.req
          /\ pendingSpeak' \in {pendingSpeak, NoSpeak}
      BY <1>1, <2>3, StartFor
    <3> QED
      BY <1>1, <2>1, <2>3, <3>1 DEF WaitingIsNew
  <2> QED
    BY <1>3, <1>5, <2>1, <2>2, <2>3
<1>8. CASE OnModelStatus \/ OnWorkerTimedOut
  BY <1>5, <1>8 DEF OnModelStatus, OnWorkerTimedOut, Receive, userVars, StartsNone
<1>9. CASE OnChunkReadyMsg
  <2>1. requests' = requests /\ stopped' = stopped /\ pendingSpeak' = pendingSpeak
    BY <1>9 DEF OnChunkReadyMsg, Receive, userVars
  <2> DEFINE t == OnChunkReady(tts, Head(msgs).job, Head(msgs).index)
  <2>2. t \in Controller /\ t.active = tts.active
    <3>1. Head(msgs).job \in Nat /\ Head(msgs).index \in Nat
      BY <1>9, ReceiveType DEF OnChunkReadyMsg, Msg
    <3>2. t \in Controller
      BY <1>1, <3>1, OnChunkReadyType
    <3>3. t.active = tts.active
      BY <1>1, PartsStartNone
    <3> QED
      BY <3>2, <3>3
  <2>3. tts' \in {tts, t, Pumped(t, ttsLoaded)}
    BY <1>9 DEF OnChunkReadyMsg, PumpTtsSynth
  <2> HIDE DEF t
  <2>4. StartsNone
    BY <2>2, <2>3, PartsStartNone DEF StartsNone
  <2> QED
    BY <1>5, <2>1, <2>4
<1>10. CASE OnChunkFailedMsg
  <2>1. requests' = requests /\ stopped' = stopped /\ pendingSpeak' = pendingSpeak
    BY <1>10 DEF OnChunkFailedMsg, Receive, userVars
  <2> DEFINE t == OnChunkFailed(tts, Head(msgs).index)
  <2>2. t \in Controller /\ t.active = tts.active
    <3>1. Head(msgs).job \in Nat /\ Head(msgs).index \in Nat
      BY <1>10, ReceiveType DEF OnChunkFailedMsg, Msg
    <3> QED
      BY <1>1, <3>1, OnChunkFailedType, PartsStartNone
  <2>3. \/ tts' \in {tts, Pumped(t, ttsLoaded)}
        \/ FinalizeIfDone(Pumped(t, ttsLoaded), SetPendingQueue(transport, FALSE))
    BY <1>10 DEF OnChunkFailedMsg
  <2> HIDE DEF t
  <2>4. Pumped(t, ttsLoaded) \in Controller /\ Pumped(t, ttsLoaded).active = tts.active
    BY <2>2, PumpedType, PartsStartNone DEF TypeOK
  <2>5. StartsNone
    BY <2>3, <2>4, PartsStartNone DEF StartsNone
  <2> QED
    BY <1>5, <2>1, <2>5
<1>11. CASE PollTransport
  <2>1. requests' = requests /\ stopped' = stopped /\ pendingSpeak' = pendingSpeak
    BY <1>11 DEF PollTransport, userVars
  <2> DEFINE asks == Tick(transport).status = "playing" /\ ttsLoaded
             t    == Pumped(tts, asks)
  <2>2. asks \in BOOLEAN /\ (tts' = t \/ \E tr : FinalizeIfDone(t, tr))
    BY <1>11 DEF PollTransport
  <2> HIDE DEF asks
  <2>3. t \in Controller /\ t.active = tts.active
    BY <1>1, <2>2, PumpedType, PartsStartNone DEF TypeOK
  <2> HIDE DEF t
  <2>4. StartsNone
    BY <2>2, <2>3, PartsStartNone DEF StartsNone
  <2> QED
    BY <1>5, <2>1, <2>4
<1>12. CASE \E appends \in BOOLEAN, o \in StartOutcome : HandOverNext(appends, o)
  <2>1. requests' = requests /\ stopped' = stopped /\ pendingSpeak' = pendingSpeak
    BY <1>12 DEF HandOverNext, userVars
  <2> DEFINE t == PopReady(tts)
  <2>2. /\ tts.ready # << >>
        /\ tts' \in {t, Pumped(t, ttsLoaded)} \/ \E tr : FinalizeIfDone(t, tr)
    BY <1>12 DEF HandOverNext, PumpTtsSynth
  <2>3. t \in Controller /\ t.active = tts.active
    BY <1>1, <2>2, PopReadyType, PartsStartNone
  <2> HIDE DEF t
  <2>4. StartsNone
    BY <2>2, <2>3, PartsStartNone DEF StartsNone
  <2> QED
    BY <1>5, <2>1, <2>4
<1>13. CASE HandOverEnds
  <2>1. requests' = requests /\ stopped' = stopped /\ pendingSpeak' = pendingSpeak
        /\ tts' = Pumped(tts, ttsLoaded)
    BY <1>13 DEF HandOverEnds, PumpTtsSynth, userVars
  <2> QED
    BY <1>1, <1>5, <2>1, PartsStartNone DEF StartsNone
<1>14. CASE JobThread
  BY <1>5, <1>14 DEF JobThread, TakeCmd, ServeLoadTts, ServeSynthesize, ServeCancelTtsWorker,
     ServeUnload, ServeLoadStt, Serving, uiVars, userVars, StartsNone
<1>15. CASE PlayerAdvances \/ PlayerDies \/ WorkerDies \/ UNCHANGED vars
  BY <1>5, <1>15 DEF PlayerAdvances, PlayerDies, WorkerDies, vars, uiVars, userVars, StartsNone
<1> QED
  BY <1>2, <1>4, <1>6, <1>7, <1>8, <1>9, <1>10, <1>11, <1>12, <1>13, <1>14, <1>15
     DEF Next, User, HandleMsg, HandOver

\* A text that waits is newer than the last Stop or unload, and no step starts a
\* job for one that is not.
LEMMA NewAlways ==
  Spec => /\ []WaitingIsNew
          /\ [][tts'.active \notin {NoJob, tts.active} => request' > stopped']_vars
<1>1. Init => TypeOK /\ WaitingIsNew
  <2>1. Init => TypeOK
    BY InitType
  <2>2. Init => WaitingIsNew
    BY DEF Init, WaitingIsNew, NoSpeak
  <2> QED
    BY <2>1, <2>2
<1>2. ASSUME TypeOK, WaitingIsNew, [Next]_vars
      PROVE  TypeOK' /\ WaitingIsNew' /\ (StartsNone \/ request' > stopped')
  BY <1>2, NextType, NextWaiting
<1>3. TypeOK /\ WaitingIsNew /\ [Next]_vars
        => TypeOK' /\ WaitingIsNew'
           /\ [tts'.active \notin {NoJob, tts.active} => request' > stopped']_vars
  BY <1>2 DEF StartsNone
<1> QED
  BY <1>1, <1>3, PTL DEF Spec

\* A text that was stopped or unloaded does not start, however late its load
\* ends.
THEOREM StoppedStays == Spec => StoppedStaysStopped
BY NewAlways, PTL DEF StoppedStaysStopped

-----------------------------------------------------------------------------
(* The badge of the voice model.                                             *)

CmdsGrow == \A kind \in CmdKinds : Has(cmds, kind) => Has(cmds', kind)
Tells(c) == \E kind \in Telling : Has(c, kind)

\* BadgeTold in terms of the three channels.
LEMMA BadgeToldParts ==
  /\ BadgeTold <=> jobThread.kind \in Telling \/ Tells(cmds) \/ WillRead(msgs, ttsLoaded, policy)
  /\ Telling \subseteq CmdKinds
BY DEF BadgeTold, Tells, Has, Telling, CmdKinds

\* Handling the first message brings the badge one step nearer to what it will
\* read: a ModelStatus sets it, and what follows any other message about the
\* badge decides.
LEMMA WillReadTail ==
  ASSUME NEW q \in Seq(Msg), q # << >>, NEW l, NEW p, WillRead(q, l, p), NEW l2,
         Head(q).kind = "ModelStatus" => l2 = Head(q).ok,
         Head(q).kind \notin BadgeMsgs => l2 = l
  PROVE  WillRead(Tail(q), l2, p)
<1>1. /\ Len(q) \in Nat \ {0} /\ Len(Tail(q)) = Len(q) - 1 /\ Head(q) = q[1]
      /\ \A n \in 1 .. Len(q) - 1 : Tail(q)[n] = q[n + 1]
  BY LenProperties, EmptySeq, HeadTailProperties
<1>2. PICK k \in 0 .. Len(q) :
        /\ k = 0 => l = p
        /\ k # 0 => q[k].kind = "ModelStatus" /\ q[k].ok = p
        /\ \A n \in k + 1 .. Len(q) : q[n].kind \notin BadgeMsgs
  BY DEF WillRead
<1>3. CASE k \in {0, 1}
  <2>1. l2 = p
    <3>1. CASE k = 0
      <4>1. 1 \in k + 1 .. Len(q)
        BY <1>1, <3>1
      <4> QED
        BY <1>1, <1>2, <3>1, <4>1
    <3>2. CASE k = 1
      BY <1>1, <1>2, <3>2
    <3> QED
      BY <1>3, <3>1, <3>2
  <2>2. ASSUME NEW n \in 0 + 1 .. Len(Tail(q))
        PROVE  Tail(q)[n].kind \notin BadgeMsgs
    <3>1. n \in 1 .. Len(q) - 1 /\ n + 1 \in k + 1 .. Len(q)
      BY <1>1, <1>3
    <3> QED
      BY <1>1, <1>2, <3>1
  <2>3. 0 \in 0 .. Len(Tail(q))
    BY <1>1
  <2> QED
    BY <2>1, <2>2, <2>3 DEF WillRead
<1>4. CASE k \notin {0, 1}
  <2>1. k - 1 \in 0 .. Len(Tail(q)) /\ k - 1 # 0 /\ k - 1 \in 1 .. Len(q) - 1 /\ (k - 1) + 1 = k
    BY <1>1, <1>4
  <2>2. Tail(q)[k - 1] = q[k]
    BY <1>1, <2>1
  <2>3. ASSUME NEW n \in (k - 1) + 1 .. Len(Tail(q))
        PROVE  Tail(q)[n].kind \notin BadgeMsgs
    <3>1. n \in 1 .. Len(q) - 1 /\ n + 1 \in k + 1 .. Len(q)
      BY <1>1, <1>4
    <3> QED
      BY <1>1, <1>2, <3>1
  <2> QED
    BY <1>2, <1>4, <2>1, <2>2, <2>3 DEF WillRead
<1> QED
  BY <1>3, <1>4

\* A reply of the job thread that ends in the model's state, but for messages
\* about chunks, decides what the badge will read; one about chunks changes
\* nothing of it.
LEMMA WillReadPost ==
  ASSUME NEW q \in Seq(Msg), NEW s \in Seq(Msg), NEW l, NEW p,
         \/ WillRead(q, l, p) /\ \A n \in 1 .. Len(s) : s[n].kind \notin BadgeMsgs
         \/ \E i \in 1 .. Len(s) :
              /\ s[i].kind = "ModelStatus" /\ s[i].ok = p
              /\ \A n \in i + 1 .. Len(s) : s[n].kind \notin BadgeMsgs
  PROVE  WillRead(q \o s, l, p)
<1>1. /\ Len(q) \in Nat /\ Len(s) \in Nat /\ Len(q \o s) = Len(q) + Len(s)
      /\ \A n \in 1 .. Len(q) : (q \o s)[n] = q[n]
      /\ \A n \in Len(q) + 1 .. Len(q) + Len(s) : (q \o s)[n] = s[n - Len(q)]
  BY LenProperties, ConcatProperties
<1>2. CASE WillRead(q, l, p) /\ \A n \in 1 .. Len(s) : s[n].kind \notin BadgeMsgs
  <2>1. PICK k \in 0 .. Len(q) :
          /\ k = 0 => l = p
          /\ k # 0 => q[k].kind = "ModelStatus" /\ q[k].ok = p
          /\ \A n \in k + 1 .. Len(q) : q[n].kind \notin BadgeMsgs
    BY <1>2 DEF WillRead
  <2>2. ASSUME NEW n \in k + 1 .. Len(q \o s)
        PROVE  (q \o s)[n].kind \notin BadgeMsgs
    <3>1. CASE n \in 1 .. Len(q)
      BY <1>1, <2>1, <3>1
    <3>2. CASE n \notin 1 .. Len(q)
      <4>1. n \in Len(q) + 1 .. Len(q) + Len(s) /\ n - Len(q) \in 1 .. Len(s)
        BY <1>1, <3>2
      <4> QED
        BY <1>1, <1>2, <4>1
    <3> QED
      BY <3>1, <3>2
  <2>3. k \in 0 .. Len(q \o s) /\ (k # 0 => (q \o s)[k] = q[k])
    BY <1>1
  <2> QED
    BY <2>1, <2>2, <2>3 DEF WillRead
<1>3. CASE \E i \in 1 .. Len(s) :
             /\ s[i].kind = "ModelStatus" /\ s[i].ok = p
             /\ \A n \in i + 1 .. Len(s) : s[n].kind \notin BadgeMsgs
  <2>1. PICK i \in 1 .. Len(s) :
             /\ s[i].kind = "ModelStatus" /\ s[i].ok = p
             /\ \A n \in i + 1 .. Len(s) : s[n].kind \notin BadgeMsgs
    BY <1>3
  <2> DEFINE k == Len(q) + i
  <2>2. /\ k \in 0 .. Len(q \o s) /\ k # 0
        /\ k \in Len(q) + 1 .. Len(q) + Len(s) /\ k - Len(q) = i
    BY <1>1
  <2>3. (q \o s)[k] = s[i]
    BY <1>1, <2>2
  <2>4. ASSUME NEW n \in k + 1 .. Len(q \o s)
        PROVE  (q \o s)[n].kind \notin BadgeMsgs
    <3>1. n \in Len(q) + 1 .. Len(q) + Len(s) /\ n - Len(q) \in i + 1 .. Len(s)
      BY <1>1
    <3> QED
      BY <1>1, <2>1, <3>1
  <2> HIDE DEF k
  <2> QED
    BY <2>1, <2>2, <2>3, <2>4 DEF WillRead
<1> QED
  BY <1>2, <1>3

\* load_tts only adds to the queue.
LEMMA LoadTtsGrows ==
  ASSUME NEW q \in Seq(Cmd), NEW loaded, NEW loading, LoadTts(q, loaded, loading)
  PROVE  \A kind \in CmdKinds : Has(q, kind) => Has(cmds', kind)
<1>1. Command("LoadTts") \in Cmd
  BY CommandType DEF CmdKinds
<1>2. \A kind \in CmdKinds : Has(q, kind) => Has(Append(q, Command("LoadTts")), kind)
  BY <1>1, HasAppend
<1> QED
  BY <1>2 DEF LoadTts

\* start_speak_job only adds to the queue, and puts the badge out only with a
\* CancelTtsWorker behind it.
LEMMA StartGrows ==
  ASSUME TypeOK,
         NEW s \in [req : Nat, segs : Nat], NEW rest,
         NEW loaded \in BOOLEAN, NEW loading \in BOOLEAN,
         StartSpeakJob(s, rest, loaded, loading)
  PROVE  CmdsGrow /\ (ttsLoaded' = loaded \/ Tells(cmds'))
<1>1. cmds \in Seq(Cmd) /\ Cancel(tts) \in Controller
  BY CancelType DEF TypeOK
<1>2. CASE tts.inFlight
  <2> DEFINE q == Append(cmds, Command("CancelTtsWorker"))
  <2>1. LoadTts(q, FALSE, loading)
    BY <1>2 DEF StartSpeakJob
  <2>2. /\ Command("CancelTtsWorker") \in Cmd
        /\ Command("CancelTtsWorker").kind = "CancelTtsWorker"
    BY CommandType DEF CmdKinds, Command
  <2>3. q \in Seq(Cmd)
    BY <1>1, <2>2, AppendProperties
  <2>4. /\ \A kind \in CmdKinds : Has(cmds, kind) => Has(q, kind)
        /\ Has(q, "CancelTtsWorker")
    BY <1>1, <2>2, HasAppend
  <2> HIDE DEF q
  <2>5. \A kind \in CmdKinds : Has(q, kind) => Has(cmds', kind)
    BY <2>1, <2>3, LoadTtsGrows
  <2>6. "CancelTtsWorker" \in CmdKinds /\ "CancelTtsWorker" \in Telling
    BY DEF CmdKinds, Telling
  <2> QED
    BY <2>4, <2>5, <2>6 DEF CmdsGrow, Tells
<1>3. CASE ~tts.inFlight
  <2>1. /\ cmds' = PumpedCmds(BeginJob(Cancel(tts), s.segs), cmds, loaded)
        /\ ttsLoaded' = loaded
    BY <1>3 DEF StartSpeakJob, PumpTtsSynth
  <2>2. BeginJob(Cancel(tts), s.segs) \in Controller
    BY <1>1, BeginJobType
  <2> QED
    BY <1>1, <2>1, <2>2, PumpKeeps DEF CmdsGrow
<1> QED
  BY <1>2, <1>3

\* A step of the UI that adds commands, and changes the badge only with a
\* command that posts the model's state behind it, keeps BadgeTold.
LEMMA GrowsKeepsBadge ==
  ASSUME BadgeTold, CmdsGrow, jobThread' = jobThread, msgs' = msgs, policy' = policy,
         ttsLoaded' = ttsLoaded \/ Tells(cmds')
  PROVE  BadgeTold'
<1>1. Tells(cmds) => Tells(cmds')
  BY BadgeToldParts DEF CmdsGrow, Tells
<1>2. BadgeTold' <=> jobThread'.kind \in Telling \/ Tells(cmds')
                       \/ WillRead(msgs', ttsLoaded', policy')
  BY DEF BadgeTold, Tells, Has
<1> QED
  BY <1>1, <1>2, BadgeToldParts

\* A user's command keeps BadgeTold.
LEMMA UserBadge ==
  ASSUME TypeOK, TypeOK', BadgeTold, User
  PROVE  BadgeTold'
<1>1. /\ cmds \in Seq(Cmd) /\ ttsLoading \in BOOLEAN /\ ttsLoaded \in BOOLEAN
      /\ pendingSpeak \in [req : Nat, segs : Nat]
  BY DEF TypeOK
<1>2. jobThread' = jobThread /\ msgs' = msgs /\ policy' = policy
  BY DEF User, Speak, StopSpeech, UnloadVoice, UnloadAll, LoadVoice, LoadDictation, UserActs,
         Replay, PauseResume, workerVars
<1>3. ASSUME NEW kind \in CmdKinds, cmds' = Append(cmds, Command(kind))
      PROVE  CmdsGrow /\ (kind \in Telling => Tells(cmds'))
  <2>1. Command(kind) \in Cmd /\ Command(kind).kind = kind
    BY CommandType DEF Command
  <2>2. \A x \in CmdKinds : Has(cmds, x) => Has(cmds', x)
    BY <1>1, <1>3, <2>1, HasAppend
  <2>3. Has(cmds', kind)
    BY <1>1, <1>3, <2>1, HasAppend
  <2> QED
    BY <2>2, <2>3 DEF CmdsGrow, Tells
<1>4. cmds' = cmds => CmdsGrow
  BY DEF CmdsGrow
<1>5. SUFFICES CmdsGrow /\ (ttsLoaded' = ttsLoaded \/ Tells(cmds'))
  BY <1>2, GrowsKeepsBadge
<1>6. CASE \E n \in SegmentCounts : Speak(n)
  <2>1. PICK n \in SegmentCounts : Speak(n)
    BY <1>6
  <2>2. requests' \in Nat /\ n \in Nat
    BY PipelineAssumption DEF TypeOK
  <2> DEFINE s == [req |-> requests', segs |-> n]
  <2>3. s \in [req : Nat, segs : Nat]
    BY <2>2
  <2>4. \/ LoadTts(cmds, ttsLoaded, ttsLoading) /\ ttsLoaded' = ttsLoaded
        \/ StartSpeakJob(s, pendingSpeak, ttsLoaded, ttsLoading)
    BY <2>1 DEF Speak
  <2> HIDE DEF s
  <2>5. CASE LoadTts(cmds, ttsLoaded, ttsLoading) /\ ttsLoaded' = ttsLoaded
    BY <1>1, <2>5, LoadTtsGrows DEF CmdsGrow
  <2>6. CASE StartSpeakJob(s, pendingSpeak, ttsLoaded, ttsLoading)
    BY <1>1, <2>3, <2>6, StartGrows
  <2> QED
    BY <2>4, <2>5, <2>6
<1>7. CASE StopSpeech
  <2>1. \/ cmds' = cmds /\ ttsLoaded' = ttsLoaded
        \/ cmds' = Append(cmds, Command("CancelTtsWorker"))
    BY <1>7 DEF StopSpeech
  <2> QED
    BY <1>3, <1>4, <2>1 DEF CmdKinds, Telling
<1>8. CASE UnloadVoice \/ UnloadAll
  <2>1. \/ cmds' = Append(cmds, Command("Unload"))
        \/ cmds' = cmds \o << Command("CancelTtsWorker"), Command("Unload") >>
    BY <1>8 DEF UnloadVoice, UnloadAll
  <2>2. CASE cmds' = cmds \o << Command("CancelTtsWorker"), Command("Unload") >>
    <3> DEFINE s == << Command("CancelTtsWorker"), Command("Unload") >>
    <3>1. s \in Seq(Cmd) /\ DOMAIN s = {1, 2} /\ s[2] = Command("Unload")
      BY CommandType DEF CmdKinds
    <3>2. Has(s, "Unload")
      BY <3>1 DEF Has, Command
    <3> HIDE DEF s
    <3>3. \A kind \in CmdKinds : Has(cmds, kind) => Has(cmds \o s, kind)
      BY <1>1, <3>1, HasConcat
    <3>4. Has(cmds \o s, "Unload")
      BY <1>1, <3>1, <3>2, HasConcat
    <3>5. cmds' = cmds \o s
      BY <2>2 DEF s
    <3> QED
      BY <3>3, <3>4, <3>5 DEF CmdsGrow, Tells, Telling
  <2> QED
    BY <1>3, <2>1, <2>2 DEF CmdKinds, Telling
<1>9. CASE LoadVoice
  <2>1. LoadTts(cmds, ttsLoaded, ttsLoading) /\ ttsLoaded' = ttsLoaded
    BY <1>9 DEF LoadVoice
  <2> QED
    BY <1>1, <2>1, LoadTtsGrows DEF CmdsGrow
<1>10. CASE LoadDictation
  <2>1. cmds' = Append(cmds, Command("LoadStt")) /\ ttsLoaded' = ttsLoaded
    BY <1>10 DEF LoadDictation
  <2> QED
    BY <1>3, <2>1 DEF CmdKinds
<1>11. CASE Replay \/ PauseResume
  BY <1>4, <1>11 DEF Replay, PauseResume
<1> QED
  BY <1>6, <1>7, <1>8, <1>9, <1>10, <1>11 DEF User

\* A handler of a message keeps BadgeTold.
LEMMA HandleMsgBadge ==
  ASSUME TypeOK, TypeOK', BadgeTold, HandleMsg
  PROVE  BadgeTold'
<1>1. /\ cmds \in Seq(Cmd) /\ msgs \in Seq(Msg) /\ tts \in Controller
      /\ ttsLoading \in BOOLEAN /\ ttsLoaded \in BOOLEAN
      /\ pendingSpeak \in [req : Nat, segs : Nat]
  BY DEF TypeOK
<1>2. ASSUME NEW kind, Receive(kind), CmdsGrow,
             kind = "ModelStatus" => ttsLoaded' = Head(msgs).ok,
             kind \notin BadgeMsgs => ttsLoaded' = ttsLoaded
      PROVE  BadgeTold'
  <2>1. /\ jobThread' = jobThread /\ policy' = policy
        /\ msgs # << >> /\ msgs' = Tail(msgs) /\ Head(msgs).kind = kind
    BY <1>2 DEF Receive
  <2>2. WillRead(msgs, ttsLoaded, policy) => WillRead(msgs', ttsLoaded', policy')
    BY <1>1, <1>2, <2>1, WillReadTail
  <2>3. Tells(cmds) => Tells(cmds')
    BY <1>2, BadgeToldParts DEF CmdsGrow, Tells
  <2>4. BadgeTold' <=> jobThread'.kind \in Telling \/ Tells(cmds')
                         \/ WillRead(msgs', ttsLoaded', policy')
    BY DEF BadgeTold, Tells, Has
  <2> QED
    BY <2>1, <2>2, <2>3, <2>4, BadgeToldParts
<1>3. /\ "TtsLoaded" \in BadgeMsgs /\ "WorkerTimedOut" \in BadgeMsgs
      /\ "ModelStatus" \in BadgeMsgs
  BY DEF BadgeMsgs
<1>4. cmds' = cmds => CmdsGrow
  BY DEF CmdsGrow
<1>5. ASSUME NEW t \in Controller, NEW loaded \in BOOLEAN, cmds' = PumpedCmds(t, cmds, loaded)
      PROVE  CmdsGrow
  BY <1>1, <1>5, PumpKeeps DEF CmdsGrow
<1>6. CASE OnModelStatus
  <2>1. Receive("ModelStatus") /\ ttsLoaded' = Head(msgs).ok /\ cmds' = cmds
    BY <1>6 DEF OnModelStatus
  <2> QED
    BY <1>2, <1>3, <1>4, <2>1
<1>7. CASE OnWorkerTimedOut
  <2>1. Receive("WorkerTimedOut") /\ cmds' = cmds
    BY <1>7 DEF OnWorkerTimedOut
  <2> QED
    BY <1>2, <1>3, <1>4, <2>1
<1>8. CASE OnTtsLoaded
  <2>1. /\ Receive("TtsLoaded")
        /\ \/ StartSpeakJob(pendingSpeak, NoSpeak, TRUE, FALSE)
           \/ cmds' = PumpedCmds(tts, cmds, TRUE)
           \/ cmds' = cmds
    BY <1>8 DEF OnTtsLoaded, PumpTtsSynth
  <2>2. StartSpeakJob(pendingSpeak, NoSpeak, TRUE, FALSE) => CmdsGrow
    BY <1>1, StartGrows
  <2>3. CmdsGrow
    BY <1>1, <1>4, <1>5, <2>1, <2>2
  <2> QED
    BY <1>2, <1>3, <2>1, <2>3
<1>9. CASE OnChunkReadyMsg
  <2> DEFINE t == OnChunkReady(tts, Head(msgs).job, Head(msgs).index)
  <2>1. /\ Receive("TtsChunkReady") /\ ttsLoaded' = ttsLoaded
        /\ cmds' = cmds \/ cmds' = PumpedCmds(t, cmds, ttsLoaded)
    BY <1>9 DEF OnChunkReadyMsg, PumpTtsSynth
  <2>2. t \in Controller
    BY <1>1, <2>1, ReceiveType, OnChunkReadyType DEF Msg
  <2> HIDE DEF t
  <2>3. CmdsGrow
    BY <1>1, <1>4, <1>5, <2>1, <2>2
  <2> QED
    BY <1>2, <2>1, <2>3
<1>10. CASE OnChunkFailedMsg
  <2> DEFINE t == OnChunkFailed(tts, Head(msgs).index)
  <2>1. /\ Receive("TtsChunkFailed") /\ ttsLoaded' = ttsLoaded
        /\ \/ cmds' = cmds
           \/ LoadTts(cmds, ttsLoaded, ttsLoading)
           \/ cmds' = PumpedCmds(t, cmds, TRUE)
    BY <1>10 DEF OnChunkFailedMsg
  <2>2. t \in Controller
    BY <1>1, <2>1, ReceiveType, OnChunkFailedType DEF Msg
  <2> HIDE DEF t
  <2>3. CmdsGrow
    <3>1. LoadTts(cmds, ttsLoaded, ttsLoading) => CmdsGrow
      BY <1>1, LoadTtsGrows DEF CmdsGrow
    <3> QED
      BY <1>1, <1>4, <1>5, <2>1, <2>2, <3>1
  <2> QED
    BY <1>2, <2>1, <2>3
<1> QED
  BY <1>6, <1>7, <1>8, <1>9, <1>10 DEF HandleMsg

\* The transport poll and the hand-over loop keep BadgeTold.
LEMMA PollBadge ==
  ASSUME TypeOK, BadgeTold, PollTransport \/ HandOver
  PROVE  BadgeTold'
<1>1. cmds \in Seq(Cmd) /\ tts \in Controller /\ ttsLoaded \in BOOLEAN
  BY DEF TypeOK
<1>2. /\ jobThread' = jobThread /\ msgs' = msgs /\ policy' = policy /\ ttsLoaded' = ttsLoaded
  BY DEF PollTransport, HandOver, HandOverNext, HandOverEnds, workerVars
<1>3. CmdsGrow
  <2>1. CASE PollTransport
    <3> DEFINE asks == Tick(transport).status = "playing" /\ ttsLoaded
    <3>1. cmds' = PumpedCmds(tts, cmds, asks) /\ asks \in BOOLEAN
      BY <2>1 DEF PollTransport
    <3> HIDE DEF asks
    <3> QED
      BY <1>1, <3>1, PumpKeeps DEF CmdsGrow
  <2>2. CASE \E appends \in BOOLEAN, o \in StartOutcome : HandOverNext(appends, o)
    <3>1. /\ tts.ready # << >>
          /\ cmds' = cmds \/ cmds' = PumpedCmds(PopReady(tts), cmds, ttsLoaded)
      BY <2>2 DEF HandOverNext, PumpTtsSynth
    <3>2. PopReady(tts) \in Controller
      BY <1>1, <3>1, PopReadyType
    <3> QED
      BY <1>1, <3>1, <3>2, PumpKeeps DEF CmdsGrow
  <2>3. CASE HandOverEnds
    BY <1>1, <2>3, PumpKeeps DEF HandOverEnds, PumpTtsSynth, CmdsGrow
  <2> QED
    BY <2>1, <2>2, <2>3 DEF HandOver
<1> QED
  BY <1>2, <1>3, GrowsKeepsBadge

\* The job thread keeps BadgeTold: a command that may change what is loaded
\* ends with the state posted.
LEMMA JobThreadBadge ==
  ASSUME TypeOK, TypeOK', BadgeTold, JobThread
  PROVE  BadgeTold'
<1>1. cmds \in Seq(Cmd) /\ msgs \in Seq(Msg) /\ policy' \in BOOLEAN
  BY DEF TypeOK
<1>2. ttsLoaded' = ttsLoaded
  BY DEF JobThread, TakeCmd, ServeLoadTts, ServeSynthesize, ServeCancelTtsWorker, ServeUnload,
         ServeLoadStt, Serving, uiVars
<1>3. BadgeTold' <=> jobThread'.kind \in Telling \/ Tells(cmds')
                       \/ WillRead(msgs', ttsLoaded', policy')
  BY DEF BadgeTold, Tells, Has
<1>4. CASE TakeCmd
  <2>1. /\ jobThread = Idle /\ cmds # << >> /\ jobThread' = Head(cmds) /\ cmds' = Tail(cmds)
        /\ msgs' = msgs /\ policy' = policy
    BY <1>4 DEF TakeCmd
  <2>2. Idle.kind \notin Telling
    BY DEF Idle, Telling
  <2>3. Tells(cmds) => jobThread'.kind \in Telling \/ Tells(cmds')
    BY <1>1, <2>1, HasTail DEF Tells
  <2> QED
    BY <1>2, <1>3, <2>1, <2>2, <2>3, BadgeToldParts
<1>5. ASSUME NEW s \in Seq(Msg), Post(s),
             \E i \in 1 .. Len(s) :
               /\ s[i].kind = "ModelStatus" /\ s[i].ok = policy'
               /\ \A n \in i + 1 .. Len(s) : s[n].kind \notin BadgeMsgs
      PROVE  BadgeTold'
  <2>1. msgs' = msgs \o s
    BY <1>5 DEF Post
  <2>2. WillRead(msgs \o s, ttsLoaded', policy')
    BY <1>1, <1>5, WillReadPost
  <2> QED
    BY <1>3, <2>1, <2>2
<1>6. \A b \in BOOLEAN : ModelStatus(b) \in Msg /\ TtsLoaded(b) \in Msg
                         /\ ModelStatus(b).kind = "ModelStatus" /\ ModelStatus(b).ok = b
  BY MsgTypes DEF ModelStatus
<1>7. ASSUME Post(<< ModelStatus(policy') >>)
      PROVE  BadgeTold'
  <2> DEFINE s == << ModelStatus(policy') >>
  <2>1. s \in Seq(Msg) /\ Len(s) = 1 /\ s[1] = ModelStatus(policy')
    BY <1>1, <1>6
  <2>2. Post(s)
    BY <1>7
  <2> HIDE DEF s
  <2> QED
    BY <1>1, <1>5, <1>6, <2>1, <2>2
<1>8. CASE ServeLoadTts
  <2>1. Post(<< TtsLoaded(policy'), ModelStatus(policy') >>)
    BY <1>8 DEF ServeLoadTts, TypeOK
  <2> DEFINE s == << TtsLoaded(policy'), ModelStatus(policy') >>
  <2>2. s \in Seq(Msg) /\ Len(s) = 2 /\ s[2] = ModelStatus(policy')
    BY <1>1, <1>6
  <2>3. Post(s)
    BY <2>1
  <2> HIDE DEF s
  <2> QED
    BY <1>1, <1>5, <1>6, <2>2, <2>3
<1>9. CASE ServeSynthesize
  <2>1. jobThread \in Cmd /\ Serving("Synthesize")
    BY <1>9, ServingType DEF ServeSynthesize, CmdKinds, Serving, TypeOK, Idle
  <2>2. /\ ChunkReady(jobThread) \in Msg /\ ChunkReady(jobThread).kind \notin BadgeMsgs
        /\ ChunkFailed(jobThread) \in Msg /\ ChunkFailed(jobThread).kind \notin BadgeMsgs
        /\ TimedOut(jobThread) \in Msg
    BY <2>1, MsgTypes DEF ChunkReady, ChunkFailed, BadgeMsgs
  <2>3. ASSUME NEW a \in Msg, a.kind \notin BadgeMsgs, Post(<< a >>), policy' = policy
        PROVE  BadgeTold'
    <3> DEFINE s == << a >>
    <3>1. s \in Seq(Msg) /\ \A n \in 1 .. Len(s) : s[n].kind \notin BadgeMsgs
      BY <2>3
    <3>2. msgs' = msgs \o s
      BY <2>3 DEF Post
    <3> HIDE DEF s
    <3>3. WillRead(msgs, ttsLoaded, policy) => WillRead(msgs', ttsLoaded', policy')
      BY <1>1, <1>2, <2>3, <3>1, <3>2, WillReadPost
    <3>4. jobThread.kind = "Synthesize" /\ cmds' = cmds /\ "Synthesize" \notin Telling
      BY <2>1 DEF Serving, Telling
    <3> QED
      BY <1>3, <3>3, <3>4, BadgeToldParts
  <2>4. ASSUME Post(<< TimedOut(jobThread), ModelStatus(policy'), ChunkFailed(jobThread) >>)
        PROVE  BadgeTold'
    <3> DEFINE s == << TimedOut(jobThread), ModelStatus(policy'), ChunkFailed(jobThread) >>
    <3>1. s \in Seq(Msg) /\ Len(s) = 3 /\ s[2] = ModelStatus(policy')
          /\ s[3] = ChunkFailed(jobThread)
      BY <1>1, <1>6, <2>2
    <3>2. Post(s)
      BY <2>4
    <3> HIDE DEF s
    <3>3. \A n \in 2 + 1 .. Len(s) : s[n].kind \notin BadgeMsgs
      BY <2>2, <3>1
    <3>4. 2 \in 1 .. Len(s)
      BY <3>1
    <3> QED
      BY <1>1, <1>5, <1>6, <3>1, <3>2, <3>3, <3>4
  <2>5. \/ Post(<< ChunkReady(jobThread) >>) /\ policy' = policy
        \/ Post(<< ChunkFailed(jobThread) >>) /\ policy' = policy
        \/ Post(<< TimedOut(jobThread), ModelStatus(policy'), ChunkFailed(jobThread) >>)
    BY <1>9 DEF ServeSynthesize, KillWorker, TypeOK
  <2> QED
    BY <2>2, <2>3, <2>4, <2>5
<1>10. CASE ServeCancelTtsWorker \/ ServeUnload \/ ServeLoadStt
  <2>1. Post(<< ModelStatus(policy') >>)
    BY <1>10 DEF ServeCancelTtsWorker, ServeUnload, ServeLoadStt, KillWorker
  <2> QED
    BY <1>7, <2>1
<1> QED
  BY <1>4, <1>8, <1>9, <1>10 DEF JobThread

\* Until the badge shows what the policy holds, a message or a command that will
\* tell it is on its way.
LEMMA ToldAlways == Spec => []BadgeTold
<1>1. Init => TypeOK /\ BadgeTold
  <2>1. Init => TypeOK
    BY InitType
  <2>2. Init => BadgeTold
    <3> SUFFICES ASSUME Init PROVE WillRead(msgs, ttsLoaded, policy)
      BY DEF BadgeTold
    <3>1. msgs = << >> /\ ttsLoaded = policy
      BY DEF Init
    <3>2. 0 \in 0 .. Len(msgs) /\ \A n \in 0 + 1 .. Len(msgs) : FALSE
      BY <3>1
    <3> QED
      BY <3>1, <3>2 DEF WillRead
  <2> QED
    BY <2>1, <2>2
<1>2. ASSUME TypeOK, BadgeTold, [Next]_vars
      PROVE  TypeOK' /\ BadgeTold'
  <2>1. TypeOK'
    BY <1>2, NextType
  <2>2. CASE PlayerAdvances \/ PlayerDies \/ WorkerDies \/ UNCHANGED vars
    <3>1. /\ jobThread' = jobThread /\ cmds' = cmds /\ msgs' = msgs
          /\ ttsLoaded' = ttsLoaded /\ policy' = policy
      BY <2>2 DEF PlayerAdvances, PlayerDies, WorkerDies, vars, uiVars, workerVars
    <3> QED
      BY <1>2, <2>1, <3>1, GrowsKeepsBadge DEF CmdsGrow
  <2> QED
    BY <1>2, <2>1, <2>2, UserBadge, HandleMsgBadge, PollBadge, JobThreadBadge DEF Next
<1>3. TypeOK /\ BadgeTold /\ [Next]_vars => TypeOK' /\ BadgeTold'
  BY <1>2
<1> QED
  BY <1>1, <1>3, PTL DEF Spec

\* With the queues empty and the job thread idle the badge of the voice model
\* shows what the policy holds, whatever was killed, evicted or refused.
THEOREM BadgeAgrees == Spec => []BadgeAgreesWhenQuiet
<1>1. BadgeTold => BadgeAgreesWhenQuiet
  <2> SUFFICES ASSUME BadgeTold, Quiet PROVE ttsLoaded = policy
    BY DEF BadgeAgreesWhenQuiet
  <2>1. jobThread.kind \notin Telling /\ cmds = << >> /\ msgs = << >>
    BY DEF Quiet, Idle, Telling
  <2>2. WillRead(msgs, ttsLoaded, policy)
    BY <2>1 DEF BadgeTold
  <2> QED
    BY <2>1, <2>2 DEF WillRead
<1> QED
  BY <1>1, ToldAlways, PTL

\* The four facts the run checks along with the properties hold for any number
\* of requests: each load that is waited for is on its way, a text that waits is
\* newer than the last Stop (app/pipeline/speak.rs), no queue names a job still
\* to be handed out, and a badge that is behind will be told.
THEOREM SupportCorrect == Spec => []SpeechSupport
<1>1. Spec => []WaitingIsNew
  BY NewAlways
<1>2. LoadOnItsWay /\ WaitingIsNew /\ JobIdsHandedOut /\ BadgeTold => SpeechSupport
  BY DEF SpeechSupport
<1> QED
  BY <1>1, <1>2, LoadAlways, JobIdsCorrect, ToldAlways, PTL
=============================================================================
