---------------------------- MODULE SpeechProofs -----------------------------
(***************************************************************************)
(* Type correctness and safety of SpeechPipeline, for every value of its   *)
(* constants: first what the operators of the TTS controller and of the    *)
(* transport return, then every handler; then that a live job has exactly  *)
(* the synthesis its flag tells, and that the prebuffer is bounded.        *)
(***************************************************************************)
EXTENDS SpeechPipeline, SequenceTheorems, TLAPS

-----------------------------------------------------------------------------
(* The controller.                                                         *)

\* Every operation of the controller yields a controller (tts_controller.rs).
LEMMA BeginJobType ==
  ASSUME NEW t \in Controller, NEW n \in Nat
  PROVE  BeginJob(t, n) \in Controller
<1>1. SegmentsOf(n) \in Seq(Segment)
  BY PrebufferAssumption DEF SegmentsOf, Segment
<1> QED
  BY <1>1 DEF BeginJob, Controller

\* A cancelled controller (cancel) is a controller.
LEMMA CancelType ==
  ASSUME NEW t \in Controller
  PROVE  Cancel(t) \in Controller
BY DEF Cancel, Controller, NoJob

\* mark_synth_started yields a controller.
LEMMA MarkSynthStartedType ==
  ASSUME NEW t \in Controller
  PROVE  MarkSynthStarted(t) \in Controller
BY DEF MarkSynthStarted, Controller

\* on_chunk_ready yields a controller.
LEMMA OnChunkReadyType ==
  ASSUME NEW t \in Controller, NEW job \in Nat, NEW i \in Nat
  PROVE  OnChunkReady(t, job, i) \in Controller
<1>1. Append(t.ready, [job |-> job, index |-> i]) \in Seq(Chunk)
  BY DEF Controller, Chunk
<1>2. Made(t, i) \in Seq(Segment)
  BY DEF Made, HeadIs, Controller
<1>3. t.chunkPaths + 1 \in Nat
  BY DEF Controller
<1> QED
  BY <1>1, <1>2, <1>3 DEF OnChunkReady, Controller

\* on_chunk_failed yields a controller: a retried segment has a retry left.
LEMMA OnChunkFailedType ==
  ASSUME NEW t \in Controller, NEW i \in Nat
  PROVE  OnChunkFailed(t, i) \in Controller
<1>1. ASSUME HeadIs(t, i), ~Skips(t, i)
      PROVE  [t.pending EXCEPT ![1] = Retry(@)] \in Seq(Segment)
  <2>1. t.pending \in Seq(Segment) /\ t.pending # << >>
    BY <1>1 DEF HeadIs, Controller
  <2>2. 1 \in 1 .. Len(t.pending) /\ t.pending[1] \in Segment /\ Head(t.pending) = t.pending[1]
    BY <2>1, EmptySeq, ElementOfSeq
  <2>3. t.pending[1].retries < MaxRetries
    BY <1>1, <2>2, PrebufferAssumption DEF Skips, Segment
  <2>4. Retry(t.pending[1]) \in Segment
    BY <2>2, <2>3, PrebufferAssumption DEF Segment, Retry
  <2> QED
    BY <2>1, <2>2, <2>4, ExceptSeq
<1>2. Failed(t, i) \in Seq(Segment)
  BY <1>1 DEF Failed, HeadIs, Controller
<1> QED
  BY <1>2 DEF OnChunkFailed, Controller

\* pop_ready of a ready chunk yields a controller and a chunk.
LEMMA PopReadyType ==
  ASSUME NEW t \in Controller, t.ready # << >>
  PROVE  PopReady(t) \in Controller /\ Head(t.ready) \in Chunk
<1>1. Head(t.ready) \in Chunk /\ Tail(t.ready) \in Seq(Chunk)
  BY HeadTailProperties DEF Controller
<1> QED
  BY <1>1 DEF PopReady, Controller

\* The end of a job (finalize_tts_job_if_done) yields a controller.
LEMMA EndJobType ==
  ASSUME NEW t \in Controller
  PROVE  EndJob(t) \in Controller
BY DEF EndJob, Controller, NoJob

\* A segment that may be asked for is the head of the pending queue.
LEMMA HeadPendingType ==
  ASSUME NEW t \in Controller, ShouldRequestSynth(t)
  PROVE  Head(t.pending).index \in Nat /\ t.active \in Nat
<1>1. Head(t.pending) \in Segment
  BY HeadTailProperties DEF ShouldRequestSynth, Controller
<1> QED
  BY <1>1 DEF Controller, Segment

-----------------------------------------------------------------------------
(* The transport.                                                          *)

\* Every operation of the transport yields a transport (transport.rs).
LEMMA TransportTypes ==
  ASSUME NEW tr \in Transport
  PROVE  /\ \A b \in BOOLEAN : SetPendingQueue(tr, b) \in Transport
         /\ Stop(tr) \in Transport
         /\ TogglePause(tr) \in Transport
         /\ Tick(tr) \in Transport
         /\ RememberPath(tr) \in Transport
         /\ ClearLastPath(tr) \in Transport
<1>1. \A b \in BOOLEAN : SetPendingQueue(tr, b) \in Transport
  BY DEF SetPendingQueue, Transport, Status
<1>2. Stop(tr) \in Transport
  <2>1. << >> \in Seq(Chunk)
    BY EmptySeq
  <2> QED
    BY <2>1 DEF Stop, Transport, Status, Backends
<1>3. TogglePause(tr) \in Transport
  BY DEF TogglePause, Transport, Status
<1>4. Tick(tr) \in Transport
  BY DEF Tick, Transport, Status, Backends
<1>5. RememberPath(tr) \in Transport /\ ClearLastPath(tr) \in Transport
  BY DEF RememberPath, ClearLastPath, Transport
<1> QED
  BY <1>1, <1>2, <1>3, <1>4, <1>5

\* play_file yields a transport, whatever the start of the player comes to.
LEMMA PlayFileType ==
  ASSUME NEW tr \in Transport, NEW item \in Chunk, NEW o \in StartOutcome
  PROVE  PlayFile(tr, item, o) \in Transport
<1>1. << item >> \in Seq(Chunk)
  OBVIOUS
<1> QED
  BY <1>1 DEF PlayFile, Started, StartOutcome, Transport, Status, Backends

\* enqueue_or_play yields a transport, appended or started anew.
LEMMA EnqueueOrPlayType ==
  ASSUME NEW tr \in Transport, NEW item \in Chunk, NEW appends \in BOOLEAN,
         NEW o \in StartOutcome
  PROVE  EnqueueOrPlay(tr, item, appends, o) \in Transport
<1>1. CASE CanAppend(tr) /\ appends
  <2>1. Append(tr.playlist, item) \in Seq(Chunk)
    BY DEF Transport
  <2> QED
    BY <1>1, <2>1 DEF EnqueueOrPlay, Transport, Status
<1>2. CASE ~(CanAppend(tr) /\ appends)
  BY <1>2, PlayFileType DEF EnqueueOrPlay
<1> QED
  BY <1>1, <1>2

-----------------------------------------------------------------------------
(* The parts of the invariant.                                             *)

\* The parts of the type invariant that a UI handler can disturb.
UiType ==
  /\ tts \in Controller
  /\ transport \in Transport
  /\ fullPath \in BOOLEAN /\ ttsLoaded \in BOOLEAN /\ ttsLoading \in BOOLEAN
  /\ pendingSpeak \in [req : Nat, segs : Nat]
  /\ uiStep \in {"frame", "ready", "failed", "poll"}

WorkerType ==
  /\ jobThread \in Cmd \union {Idle}
  /\ policy \in BOOLEAN /\ proc \in ProcStates

HistoryType ==
  /\ spoken \in Seq(Nat) /\ dropped \subseteq Nat
  /\ request \in Nat /\ requests \in Nat /\ stopped \in Nat
  /\ userActions \in Nat /\ disturbances \in Nat

\* The type invariant, part by part.
LEMMA TypeParts ==
  TypeOK <=> UiType /\ cmds \in Seq(Cmd) /\ msgs \in Seq(Msg) /\ WorkerType /\ HistoryType
BY DEF TypeOK, UiType, WorkerType, HistoryType

-----------------------------------------------------------------------------
\* Parts of the UI handlers.

\* A synthesis asked for is a command (pump_tts_synth, app/pipeline/speak.rs).
LEMMA PumpedType ==
  ASSUME NEW t \in Controller, NEW q \in Seq(Cmd), NEW loaded \in BOOLEAN
  PROVE  Pumped(t, loaded) \in Controller /\ PumpedCmds(t, q, loaded) \in Seq(Cmd)
<1>1. CASE Pumps(t, loaded)
  <2>1. Synthesize(t.active, Head(t.pending).index) \in Cmd
    BY <1>1, HeadPendingType DEF Pumps, Synthesize, Cmd, CmdKinds
  <2>2. MarkSynthStarted(t) \in Controller
    BY MarkSynthStartedType
  <2> QED
    BY <1>1, <2>1, <2>2, AppendProperties DEF Pumped, PumpedCmds
<1>2. CASE ~Pumps(t, loaded)
  BY <1>2 DEF Pumped, PumpedCmds
<1> QED
  BY <1>1, <1>2

\* pump_tts_synth keeps the types of the controller and the queue.
LEMMA PumpType ==
  ASSUME NEW t \in Controller, NEW q \in Seq(Cmd), NEW loaded \in BOOLEAN,
         PumpTtsSynth(t, q, loaded)
  PROVE  tts' \in Controller /\ cmds' \in Seq(Cmd)
BY PumpedType DEF PumpTtsSynth

\* A command without a job is a command.
LEMMA CommandType ==
  \A kind \in CmdKinds : Command(kind) \in Cmd
BY DEF Command, Cmd, NoJob

\* load_tts keeps the types of the queue and of tts_loading.
LEMMA LoadTtsType ==
  ASSUME NEW q \in Seq(Cmd), NEW loaded \in BOOLEAN, NEW loading \in BOOLEAN,
         LoadTts(q, loaded, loading)
  PROVE  cmds' \in Seq(Cmd) /\ ttsLoading' \in BOOLEAN
<1>1. Append(q, Command("LoadTts")) \in Seq(Cmd)
  BY CommandType, AppendProperties DEF CmdKinds
<1> QED
  BY <1>1 DEF LoadTts

\* cleanup_chunk_temps_keeping_replay keeps the types it touches.
LEMMA CleanupType ==
  ASSUME TypeOK, NEW t \in Controller, NEW tr \in Transport,
         CleanupChunkTemps(t, tr)
  PROVE  tts' \in Controller /\ transport' \in Transport /\ fullPath' \in BOOLEAN
<1>1. [t EXCEPT !.chunkPaths = IF fullPath \/ tr.last THEN 1 ELSE 0] \in Controller
  BY DEF Controller
<1> QED
  BY <1>1, TransportTypes DEF CleanupChunkTemps, TypeOK, Transport

\* finalize_tts_job_if_done keeps the types it touches.
LEMMA FinalizeType ==
  ASSUME TypeOK, NEW t \in Controller, NEW tr \in Transport,
         FinalizeIfDone(t, tr)
  PROVE  tts' \in Controller /\ transport' \in Transport /\ fullPath' \in BOOLEAN
BY EndJobType, TransportTypes DEF FinalizeIfDone, TypeOK

\* A history that is forgotten is an empty one.
LEMMA ForgetType ==
  ForgetSpeech => spoken' \in Seq(Nat) /\ dropped' \subseteq Nat /\ request' \in Nat
BY EmptySeq DEF ForgetSpeech

\* start_speak_job keeps the types, whether it starts the job or waits.
LEMMA StartType ==
  ASSUME TypeOK,
         NEW s \in [req : Nat, segs : Nat], NEW rest \in [req : Nat, segs : Nat],
         NEW loaded \in BOOLEAN, NEW loading \in BOOLEAN,
         StartSpeakJob(s, rest, loaded, loading),
         uiStep' = uiStep
  PROVE  /\ UiType' /\ cmds' \in Seq(Cmd) /\ proc' \in ProcStates
         /\ spoken' \in Seq(Nat) /\ dropped' \subseteq Nat /\ request' \in Nat
<1>1. Cancel(tts) \in Controller /\ Stop(transport) \in Transport
  BY CancelType, TransportTypes DEF TypeOK
<1>2. CASE tts.inFlight
  <2>1. Append(cmds, Command("CancelTtsWorker")) \in Seq(Cmd)
    BY CommandType, AppendProperties DEF CmdKinds, TypeOK
  <2>2. /\ CleanupChunkTemps(Cancel(tts), Stop(transport))
        /\ LoadTts(Append(cmds, Command("CancelTtsWorker")), FALSE, loading)
        /\ ForgetSpeech
        /\ proc' = Killed(proc) /\ ttsLoaded' = FALSE /\ pendingSpeak' = s
    BY <1>2 DEF StartSpeakJob
  <2>3. tts' \in Controller /\ transport' \in Transport /\ fullPath' \in BOOLEAN
    BY <1>1, <2>2, CleanupType
  <2>4. cmds' \in Seq(Cmd) /\ ttsLoading' \in BOOLEAN
    BY <2>1, <2>2, LoadTtsType
  <2>5. proc' \in ProcStates
    BY <2>2 DEF Killed, ProcStates, TypeOK
  <2> QED
    BY <2>2, <2>3, <2>4, <2>5, ForgetType DEF UiType, TypeOK
<1>3. CASE ~tts.inFlight
  <2>1. /\ transport' = SetPendingQueue(Stop(transport), s.segs > 1)
        /\ PumpTtsSynth(BeginJob(Cancel(tts), s.segs), cmds, loaded)
        /\ pendingSpeak' = rest /\ ttsLoaded' = loaded /\ ttsLoading' = loading
        /\ spoken' = << >> /\ dropped' = {} /\ request' = s.req
        /\ UNCHANGED << proc, fullPath >>
    BY <1>3 DEF StartSpeakJob
  <2>2. BeginJob(Cancel(tts), s.segs) \in Controller
    BY <1>1, BeginJobType
  <2>3. tts' \in Controller /\ cmds' \in Seq(Cmd)
    BY <2>1, <2>2, PumpType DEF TypeOK
  <2>4. transport' \in Transport
    <3>1. (s.segs > 1) \in BOOLEAN
      OBVIOUS
    <3> QED
      BY <1>1, <2>1, <3>1, TransportTypes
  <2>5. spoken' \in Seq(Nat) /\ dropped' \subseteq Nat /\ request' \in Nat
    BY <2>1, EmptySeq
  <2>6. fullPath' \in BOOLEAN /\ proc' \in ProcStates
    BY <2>1 DEF TypeOK
  <2> QED
    BY <2>1, <2>3, <2>4, <2>5, <2>6 DEF UiType, TypeOK
<1> QED
  BY <1>2, <1>3

-----------------------------------------------------------------------------
\* The user's commands.

\* An empty pending_speak has the type of a request.
LEMMA NoSpeakType == NoSpeak \in [req : Nat, segs : Nat]
BY DEF NoSpeak

\* do_speak keeps the types.
LEMMA SpeakType ==
  ASSUME TypeOK, NEW n \in SegmentCounts, Speak(n)
  PROVE  TypeOK'
<1> DEFINE s == [req |-> requests', segs |-> n]
<1>1. /\ userActions' \in Nat /\ requests' \in Nat /\ stopped' \in Nat
      /\ disturbances' \in Nat
      /\ UNCHANGED << uiStep, msgs, jobThread, policy >>
  BY DEF Speak, UserActs, TypeOK
<1>2. s \in [req : Nat, segs : Nat] /\ pendingSpeak \in [req : Nat, segs : Nat]
  BY <1>1, PipelineAssumption DEF TypeOK
<1>3. CASE ~ttsLoaded
  <2>1. /\ pendingSpeak' = s
        /\ LoadTts(cmds, ttsLoaded, ttsLoading)
        /\ UNCHANGED << tts, transport, fullPath, ttsLoaded, proc, speechVars >>
    BY <1>3 DEF Speak
  <2>2. cmds' \in Seq(Cmd) /\ ttsLoading' \in BOOLEAN
    BY <2>1, LoadTtsType DEF TypeOK
  <2> HIDE DEF s
  <2> QED
    BY <1>1, <1>2, <2>1, <2>2 DEF TypeOK, speechVars
<1>4. CASE ttsLoaded
  <2>1. StartSpeakJob(s, pendingSpeak, ttsLoaded, ttsLoading)
    BY <1>4 DEF Speak
  <2> HIDE DEF s
  <2>2. /\ UiType' /\ cmds' \in Seq(Cmd) /\ proc' \in ProcStates
        /\ spoken' \in Seq(Nat) /\ dropped' \subseteq Nat /\ request' \in Nat
    BY <1>1, <1>2, <2>1, StartType DEF TypeOK
  <2> QED
    BY <1>1, <2>2 DEF UiType, TypeOK
<1> QED
  BY <1>3, <1>4 DEF TypeOK

\* cancel_tts_pipeline keeps the types.
LEMMA StopSpeechType ==
  ASSUME TypeOK, StopSpeech
  PROVE  TypeOK'
<1>1. /\ userActions' \in Nat /\ requests' \in Nat /\ stopped' \in Nat
      /\ disturbances' \in Nat
      /\ UNCHANGED << uiStep, msgs, jobThread, policy, ttsLoading >>
      /\ pendingSpeak' = NoSpeak
  BY DEF StopSpeech, UserActs, TypeOK
<1>2. tts' \in Controller /\ transport' \in Transport /\ fullPath' \in BOOLEAN
  BY CancelType, TransportTypes, CleanupType DEF StopSpeech, TypeOK
<1>3. Append(cmds, Command("CancelTtsWorker")) \in Seq(Cmd)
  BY CommandType, AppendProperties DEF CmdKinds, TypeOK
<1>4. cmds' \in Seq(Cmd) /\ proc' \in ProcStates /\ ttsLoaded' \in BOOLEAN
  BY <1>3 DEF StopSpeech, Killed, ProcStates, TypeOK
<1>5. spoken' \in Seq(Nat) /\ dropped' \subseteq Nat /\ request' \in Nat
  BY ForgetType DEF StopSpeech
<1> QED
  BY <1>1, <1>2, <1>4, <1>5, NoSpeakType DEF TypeOK

\* discard_all_tts_audio keeps the types it touches.
LEMMA DiscardType ==
  ASSUME TypeOK, DiscardAllAudio
  PROVE  /\ tts' \in Controller /\ transport' \in Transport /\ fullPath' \in BOOLEAN
         /\ pendingSpeak' \in [req : Nat, segs : Nat] /\ stopped' \in Nat
         /\ spoken' \in Seq(Nat) /\ dropped' \subseteq Nat /\ request' \in Nat
<1>1. Cancel(tts) \in Controller
  BY CancelType DEF TypeOK
<1>2. [Cancel(tts) EXCEPT !.chunkPaths = 0] \in Controller
  BY <1>1 DEF Controller
<1>3. ClearLastPath(Stop(transport)) \in Transport
  BY TransportTypes DEF TypeOK
<1>4. pendingSpeak' \in [req : Nat, segs : Nat]
  BY NoSpeakType DEF DiscardAllAudio
<1>5. spoken' \in Seq(Nat) /\ dropped' \subseteq Nat /\ request' \in Nat
  BY ForgetType DEF DiscardAllAudio
<1> QED
  BY <1>2, <1>3, <1>4, <1>5 DEF DiscardAllAudio, TypeOK

\* unload_tts and unload_all_models keep the types.
LEMMA UnloadType ==
  ASSUME TypeOK, UnloadVoice \/ UnloadAll
  PROVE  TypeOK'
<1>1. /\ DiscardAllAudio
      /\ userActions' \in Nat /\ requests' \in Nat /\ disturbances' \in Nat
      /\ UNCHANGED << uiStep, msgs, jobThread, policy, ttsLoading >>
  BY DEF UnloadVoice, UnloadAll, UserActs, TypeOK
<1>2. /\ Append(cmds, Command("Unload")) \in Seq(Cmd)
      /\ cmds \o << Command("CancelTtsWorker"), Command("Unload") >> \in Seq(Cmd)
  <2>1. Command("Unload") \in Cmd /\ Command("CancelTtsWorker") \in Cmd
    BY CommandType DEF CmdKinds
  <2>2. << Command("CancelTtsWorker"), Command("Unload") >> \in Seq(Cmd)
    BY <2>1
  <2> QED
    BY <2>1, <2>2, AppendProperties, ConcatProperties DEF TypeOK
<1>3. cmds' \in Seq(Cmd) /\ ttsLoaded' \in BOOLEAN
  BY <1>2 DEF UnloadVoice, UnloadAll, TypeOK
<1>4. proc' \in ProcStates
  BY DEF UnloadVoice, UnloadAll, Killed, ProcStates, TypeOK
<1> QED
  BY <1>1, <1>3, <1>4, DiscardType DEF TypeOK

\* The Load voice button keeps the types.
LEMMA LoadVoiceType ==
  ASSUME TypeOK, LoadVoice
  PROVE  TypeOK'
<1>1. cmds' \in Seq(Cmd) /\ ttsLoading' \in BOOLEAN
  BY LoadTtsType DEF LoadVoice, TypeOK
<1> QED
  BY <1>1 DEF LoadVoice, UserActs, TypeOK, speechVars

\* load_stt keeps the types.
LEMMA LoadDictationType ==
  ASSUME TypeOK, LoadDictation
  PROVE  TypeOK'
<1>1. cmds' \in Seq(Cmd)
  BY CommandType, AppendProperties DEF LoadDictation, CmdKinds, TypeOK
<1> QED
  BY <1>1 DEF LoadDictation, UserActs, TypeOK, speechVars

\* A disturbance, or none, leaves their number a number.
LEMMA DisturbedType ==
  ASSUME disturbances \in Nat
  PROVE  /\ \A d : Disturbed(d) => disturbances' \in Nat
         /\ Undisturbed => disturbances' \in Nat
         /\ \A a, o : PlayerOutcome(a, o) => disturbances' \in Nat
BY DEF Disturbed, Undisturbed, PlayerOutcome

\* replay_last keeps the types.
LEMMA ReplayType ==
  ASSUME TypeOK, Replay
  PROVE  TypeOK'
<1>1. ReplayItem \in Chunk
  BY DEF ReplayItem, Chunk, NoJob
<1>2. PICK o \in StartOutcome :
        /\ PlayerOutcome(TRUE, o)
        /\ \/ UNCHANGED << transport, fullPath >>
           \/ transport' = PlayFile(transport, ReplayItem, o) /\ fullPath' = TRUE
  BY DEF Replay
<1>3. transport' \in Transport /\ fullPath' \in BOOLEAN /\ disturbances' \in Nat
  BY <1>1, <1>2, PlayFileType, DisturbedType DEF TypeOK
<1> QED
  BY <1>3 DEF Replay, TypeOK, speechVars, workerVars

\* The Pause/Resume button keeps the types.
LEMMA PauseResumeType ==
  ASSUME TypeOK, PauseResume
  PROVE  TypeOK'
<1>1. transport' \in Transport
  BY TransportTypes DEF PauseResume, TypeOK
<1> QED
  BY <1>1 DEF PauseResume, TypeOK, speechVars, workerVars, userVars

-----------------------------------------------------------------------------
\* The handlers of messages and the poll of the transport.

\* What drain_job_messages takes is a message, what it leaves a queue.
LEMMA ReceiveType ==
  ASSUME TypeOK, NEW kind, Receive(kind)
  PROVE  /\ Head(msgs) \in Msg /\ msgs' \in Seq(Msg)
         /\ WorkerType => jobThread' \in Cmd \union {Idle} /\ policy' \in BOOLEAN
         /\ requests' \in Nat /\ stopped' \in Nat
         /\ userActions' \in Nat /\ disturbances' \in Nat
BY HeadTailProperties DEF Receive, TypeOK, WorkerType, userVars

\* The ModelStatus handler keeps the types.
LEMMA OnModelStatusType ==
  ASSUME TypeOK, OnModelStatus
  PROVE  TypeOK'
<1>1. ttsLoaded' \in BOOLEAN
  BY ReceiveType DEF OnModelStatus, Msg
<1> QED
  BY <1>1, ReceiveType DEF OnModelStatus, TypeOK, WorkerType, speechVars

\* The TtsLoaded handler keeps the types.
LEMMA OnTtsLoadedType ==
  ASSUME TypeOK, OnTtsLoaded
  PROVE  TypeOK'
<1>1. /\ Receive("TtsLoaded") /\ uiStep' = uiStep
  BY DEF OnTtsLoaded
<1>2. CASE StartSpeakJob(pendingSpeak, NoSpeak, TRUE, FALSE)
  <2>1. /\ UiType' /\ cmds' \in Seq(Cmd) /\ proc' \in ProcStates
        /\ spoken' \in Seq(Nat) /\ dropped' \subseteq Nat /\ request' \in Nat
    BY <1>1, <1>2, StartType, NoSpeakType DEF TypeOK
  <2> QED
    BY <1>1, <2>1, ReceiveType DEF UiType, TypeOK, WorkerType
<1>3. CASE /\ ttsLoaded' = TRUE /\ ttsLoading' = FALSE
           /\ PumpTtsSynth(tts, cmds, TRUE)
           /\ UNCHANGED << transport, fullPath, pendingSpeak, proc, speechVars >>
  <2>1. tts' \in Controller /\ cmds' \in Seq(Cmd)
    BY <1>3, PumpType DEF TypeOK
  <2> QED
    BY <1>1, <1>3, <2>1, ReceiveType DEF TypeOK, WorkerType, speechVars
<1>4. CASE /\ ttsLoading' = FALSE /\ pendingSpeak' = NoSpeak
           /\ UNCHANGED << tts, transport, fullPath, ttsLoaded, cmds, proc, speechVars >>
  BY <1>1, <1>4, ReceiveType, NoSpeakType DEF TypeOK, WorkerType, speechVars
<1> QED
  BY <1>2, <1>3, <1>4 DEF OnTtsLoaded

\* The WorkerTimedOut handler keeps the types.
LEMMA OnWorkerTimedOutType ==
  ASSUME TypeOK, OnWorkerTimedOut
  PROVE  TypeOK'
BY ReceiveType DEF OnWorkerTimedOut, TypeOK, WorkerType, speechVars

\* The TtsChunkReady handler keeps the types.
LEMMA OnChunkReadyMsgType ==
  ASSUME TypeOK, OnChunkReadyMsg
  PROVE  TypeOK'
<1> DEFINE m  == Head(msgs)
           t  == OnChunkReady(tts, m.job, m.index)
           tr == SetPendingQueue(transport, TRUE)
<1>1. Receive("TtsChunkReady") /\ m \in Msg
  BY ReceiveType DEF OnChunkReadyMsg
<1>2. t \in Controller /\ tr \in Transport
  BY <1>1, OnChunkReadyType, TransportTypes DEF TypeOK, Msg
<1>3. CASE UNCHANGED << tts, transport, uiStep, cmds >>
  BY <1>1, <1>3, ReceiveType DEF OnChunkReadyMsg, TypeOK, WorkerType, speechVars
<1>4. CASE transport' = tr /\ tts' = t /\ uiStep' = "ready" /\ UNCHANGED cmds
  BY <1>1, <1>2, <1>4, ReceiveType DEF OnChunkReadyMsg, TypeOK, WorkerType, speechVars
<1>5. CASE transport' = tr /\ PumpTtsSynth(t, cmds, ttsLoaded) /\ UNCHANGED uiStep
  <2> HIDE DEF t, tr
  <2>1. tts' \in Controller /\ cmds' \in Seq(Cmd)
    BY <1>2, <1>5, PumpType DEF TypeOK
  <2> QED
    BY <1>1, <1>2, <1>5, <2>1, ReceiveType DEF OnChunkReadyMsg, TypeOK, WorkerType, speechVars
<1> QED
  BY <1>3, <1>4, <1>5 DEF OnChunkReadyMsg

\* The TtsChunkFailed handler keeps the types.
LEMMA OnChunkFailedMsgType ==
  ASSUME TypeOK, OnChunkFailedMsg
  PROVE  TypeOK'
<1> DEFINE m == Head(msgs)
           t == OnChunkFailed(tts, m.index)
           t1 == Pumped(t, ttsLoaded)
<1>1. Receive("TtsChunkFailed") /\ m \in Msg
  BY ReceiveType DEF OnChunkFailedMsg
<1>2. t \in Controller
  BY <1>1, OnChunkFailedType DEF TypeOK, Msg
<1>3. t1 \in Controller
  BY <1>2, PumpedType DEF TypeOK
<1>4. CASE UNCHANGED << tts, transport, fullPath, ttsLoading, uiStep, cmds, dropped >>
  BY <1>1, <1>4, ReceiveType DEF OnChunkFailedMsg, TypeOK, WorkerType
<1>5. CASE Live(tts, m.job)
  <2>1. dropped' \subseteq Nat
    BY <1>1, <1>5 DEF OnChunkFailedMsg, TypeOK, Msg
  <2>2. cmds' \in Seq(Cmd) /\ ttsLoading' \in BOOLEAN
    <3>1. CASE ~ttsLoaded
      BY <1>5, <3>1, LoadTtsType DEF OnChunkFailedMsg, TypeOK
    <3>2. CASE ttsLoaded
      <4>1. cmds' = PumpedCmds(t, cmds, TRUE) /\ ttsLoading' = ttsLoading
        BY <1>5, <3>2 DEF OnChunkFailedMsg
      <4> HIDE DEF t
      <4> QED
        BY <1>2, <4>1, PumpedType DEF TypeOK
    <3> QED
      BY <3>1, <3>2
  <2>3. tts' \in Controller /\ transport' \in Transport /\ fullPath' \in BOOLEAN
    <3>1. \/ FinalizeIfDone(t1, SetPendingQueue(transport, FALSE))
          \/ tts' = t1 /\ UNCHANGED << transport, fullPath >>
      BY <1>5 DEF OnChunkFailedMsg, TypeOK
    <3> HIDE DEF t1
    <3>2. SetPendingQueue(transport, FALSE) \in Transport
      BY TransportTypes DEF TypeOK
    <3> QED
      BY <1>3, <3>1, <3>2, FinalizeType DEF TypeOK
  <2>4. uiStep' \in {"frame", "ready", "failed", "poll"}
    BY <1>5 DEF OnChunkFailedMsg, TypeOK
  <2> QED
    BY <1>1, <2>1, <2>2, <2>3, <2>4, ReceiveType DEF OnChunkFailedMsg, TypeOK, WorkerType
<1> QED
  BY <1>4, <1>5 DEF OnChunkFailedMsg

\* poll_transport keeps the types.
LEMMA PollTransportType ==
  ASSUME TypeOK, PollTransport
  PROVE  TypeOK'
<1> DEFINE tr    == Tick(transport)
           asks  == tr.status = "playing" /\ ttsLoaded
           t     == Pumped(tts, asks)
           tr1   == SetPendingQueue(tr, FALSE)
<1>1. tr \in Transport /\ tr1 \in Transport
  BY TransportTypes DEF TypeOK
<1>2. t \in Controller /\ PumpedCmds(tts, cmds, asks) \in Seq(Cmd)
  BY PumpedType DEF TypeOK
<1>3. cmds' \in Seq(Cmd)
  BY <1>2 DEF PollTransport
<1>4. /\ tts' \in Controller /\ transport' \in Transport /\ fullPath' \in BOOLEAN
      /\ uiStep' \in {"frame", "ready", "failed", "poll"}
  <2>1. \/ uiStep' = "poll" /\ tts' = t /\ transport' = tr /\ UNCHANGED fullPath
        \/ uiStep' = uiStep /\ (FinalizeIfDone(t, tr1) \/ FinalizeIfDone(t, tr))
    BY DEF PollTransport
  <2> HIDE DEF t, tr, tr1
  <2> QED
    BY <1>1, <1>2, <2>1, FinalizeType DEF TypeOK
<1> QED
  BY <1>3, <1>4 DEF PollTransport, TypeOK, workerVars, speechVars, userVars

\* The chunks of a playlist have natural indices.
LEMMA IndicesType ==
  ASSUME NEW items \in Seq(Chunk)
  PROVE  Indices(items) \subseteq Nat
<1>1. ASSUME NEW k \in DOMAIN items
      PROVE  items[k].index \in Nat
  <2>1. k \in 1 .. Len(items)
    BY LenProperties
  <2>2. items[k] \in Chunk
    BY <2>1, ElementOfSeq
  <2> QED
    BY <2>2 DEF Chunk
<1> QED
  BY <1>1 DEF Indices

\* One iteration of try_play_next_ready keeps the types.
LEMMA HandOverNextType ==
  ASSUME TypeOK, NEW appends \in BOOLEAN, NEW o \in StartOutcome, HandOverNext(appends, o)
  PROVE  TypeOK'
<1> DEFINE chunk == Head(tts.ready)
           t     == PopReady(tts)
           tr    == SetPendingQueue(transport, HasWork(t))
           next  == EnqueueOrPlay(tr, chunk, appends, o)
           lost  == IF CanAppend(tr) /\ ~appends THEN Indices(Tail(tr.playlist)) ELSE {}
<1>1. chunk \in Chunk /\ t \in Controller
  BY PopReadyType DEF HandOverNext, TypeOK
<1>2. tr \in Transport
  <2>1. HasWork(t) \in BOOLEAN
    BY DEF HasWork
  <2> QED
    BY <2>1, TransportTypes DEF TypeOK
<1>3. next \in Transport
  <2> HIDE DEF chunk, tr
  <2> QED
    BY <1>1, <1>2, EnqueueOrPlayType
<1>4. lost \subseteq Nat
  <2> HIDE DEF tr
  <2>1. CASE CanAppend(tr)
    <3>1. Tail(tr.playlist) \in Seq(Chunk)
      BY <1>2, <2>1, HeadTailProperties DEF CanAppend, Transport
    <3> QED
      BY <3>1, IndicesType
  <2> QED
    BY <2>1
<1>5. spoken' \in Seq(Nat) /\ dropped' \subseteq Nat
  <2>1. spoken' = spoken \/ spoken' = Append(spoken, chunk.index)
    BY DEF HandOverNext
  <2>2. dropped' = dropped \union lost \/ dropped' = dropped \union lost \union {chunk.index}
    BY DEF HandOverNext
  <2> HIDE DEF lost, chunk
  <2>3. chunk.index \in Nat
    BY <1>1 DEF Chunk
  <2>4. spoken' \in Seq(Nat)
    <3>1. spoken \in Seq(Nat)
      BY DEF TypeOK
    <3>2. Append(spoken, chunk.index) \in Seq(Nat)
      BY <2>3, <3>1, AppendProperties
    <3> QED
      BY <2>1, <3>1, <3>2
  <2>5. dropped' \subseteq Nat
    BY <1>4, <2>2, <2>3 DEF TypeOK
  <2> QED
    BY <2>4, <2>5
<1>6. /\ tts' \in Controller /\ transport' \in Transport /\ fullPath' \in BOOLEAN
      /\ uiStep' \in {"frame", "ready", "failed", "poll"} /\ cmds' \in Seq(Cmd)
  <2>1. \/ tts' = t /\ transport' = next /\ UNCHANGED << fullPath, uiStep, cmds >>
        \/ /\ uiStep' = "frame" /\ transport' = next
           /\ PumpTtsSynth(t, cmds, ttsLoaded) /\ UNCHANGED fullPath
        \/ /\ uiStep' = "frame" /\ tts' = t /\ transport' = next
           /\ UNCHANGED << fullPath, cmds >>
        \/ uiStep' = "frame" /\ FinalizeIfDone(t, next) /\ UNCHANGED cmds
    BY DEF HandOverNext
  <2> HIDE DEF t, next
  <2> QED
    BY <1>1, <1>3, <2>1, PumpType, FinalizeType DEF TypeOK
<1>7. disturbances' \in Nat
  BY DisturbedType DEF HandOverNext, TypeOK
<1> QED
  BY <1>5, <1>6, <1>7 DEF HandOverNext, TypeOK, workerVars, userVars

\* The end of try_play_next_ready keeps the types.
LEMMA HandOverEndsType ==
  ASSUME TypeOK, HandOverEnds
  PROVE  TypeOK'
<1>1. tts' \in Controller /\ cmds' \in Seq(Cmd)
  BY PumpType DEF HandOverEnds, TypeOK
<1> QED
  BY <1>1 DEF HandOverEnds, TypeOK, workerVars, speechVars, userVars

-----------------------------------------------------------------------------
\* The job thread, the processes outside, and the theorem.

\* What the job thread builds are messages.
LEMMA MsgTypes ==
  /\ \A b \in BOOLEAN : ModelStatus(b) \in Msg /\ TtsLoaded(b) \in Msg
  /\ \A c \in Cmd : ChunkReady(c) \in Msg /\ ChunkFailed(c) \in Msg /\ TimedOut(c) \in Msg
BY DEF ModelStatus, TtsLoaded, ChunkReady, ChunkFailed, TimedOut, Msg, MsgKinds, Cmd, NoJob

\* The message queue with a reply of the job thread is a message queue.
LEMMA PostTypes ==
  ASSUME TypeOK
  PROVE  /\ \A a \in Msg : Post(<< a >>) => msgs' \in Seq(Msg)
         /\ \A a, b \in Msg : Post(<< a, b >>) => msgs' \in Seq(Msg)
         /\ \A a, b, c \in Msg : Post(<< a, b, c >>) => msgs' \in Seq(Msg)
<1>1. /\ \A a \in Msg : << a >> \in Seq(Msg)
      /\ \A a, b \in Msg : << a, b >> \in Seq(Msg)
      /\ \A a, b, c \in Msg : << a, b, c >> \in Seq(Msg)
  OBVIOUS
<1>2. msgs \in Seq(Msg)
  BY DEF TypeOK
<1>3. \A s \in Seq(Msg) : msgs \o s \in Seq(Msg)
  BY <1>2, ConcatProperties
<1> QED
  BY <1>1, <1>3 DEF Post

\* Finishing a command leaves the job thread idle and the UI alone.
LEMMA ServingType ==
  ASSUME TypeOK, NEW kind \in CmdKinds, Serving(kind)
  PROVE  /\ jobThread \in Cmd /\ jobThread' \in Cmd \union {Idle}
         /\ UiType' /\ cmds' \in Seq(Cmd)
         /\ spoken' \in Seq(Nat) /\ dropped' \subseteq Nat
         /\ request' \in Nat /\ requests' \in Nat /\ stopped' \in Nat
         /\ userActions' \in Nat
BY DEF Serving, TypeOK, UiType, uiVars, speechVars, userVars, Idle, CmdKinds

\* job_loop taking a command keeps the types.
LEMMA TakeCmdType ==
  ASSUME TypeOK, TakeCmd
  PROVE  TypeOK'
<1>1. Head(cmds) \in Cmd /\ Tail(cmds) \in Seq(Cmd)
  BY HeadTailProperties DEF TakeCmd, TypeOK
<1>2. proc' \in ProcStates
  BY DEF TakeCmd, TypeOK, ProcStates
<1> QED
  BY <1>1, <1>2 DEF TakeCmd, TypeOK, uiVars, speechVars, userVars

\* An unload, whether the worker does it or fails, keeps the types.
LEMMA UnloadedType ==
  ASSUME TypeOK, UnloadDone \/ UnloadFails
  PROVE  policy' \in BOOLEAN /\ proc' \in ProcStates
<1>1. policy \in BOOLEAN /\ proc \in ProcStates
  BY DEF TypeOK
<1>2. CASE UnloadDone
  BY <1>1, <1>2 DEF UnloadDone, ProcStates
<1>3. CASE UnloadFails
  <2>1. policy' = policy \/ policy' = FALSE
    BY <1>3 DEF UnloadFails, KillWorker
  <2>2. proc' \in ProcStates
    BY <1>1, <1>3 DEF UnloadFails, KillWorker, ProcStates
  <2> QED
    BY <1>1, <2>1, <2>2
<1> QED
  BY <1>2, <1>3

\* Every step of the job thread keeps the types.
LEMMA JobThreadType ==
  ASSUME TypeOK, JobThread
  PROVE  TypeOK'
<1>1. ASSUME NEW kind \in CmdKinds, Serving(kind), msgs' \in Seq(Msg),
             policy' \in BOOLEAN, proc' \in ProcStates, disturbances' \in Nat
      PROVE  TypeOK'
  BY <1>1, ServingType DEF TypeOK, UiType
<1>2. CASE ServeLoadTts
  <2>1. msgs' \in Seq(Msg)
    BY <1>2, MsgTypes, PostTypes DEF ServeLoadTts
  <2>2. policy' \in BOOLEAN /\ proc' \in ProcStates
    BY <1>2 DEF ServeLoadTts, ProcStates, TypeOK
  <2>3. disturbances' \in Nat
    BY <1>2, DisturbedType DEF ServeLoadTts, TypeOK
  <2> QED
    BY <1>1, <1>2, <2>1, <2>2, <2>3 DEF ServeLoadTts, CmdKinds
<1>3. CASE ServeSynthesize
  <2>1. Serving("Synthesize") /\ jobThread \in Cmd
    BY <1>3, ServingType DEF ServeSynthesize, CmdKinds
  <2>2. msgs' \in Seq(Msg)
    BY <1>3, <2>1, MsgTypes, PostTypes DEF ServeSynthesize
  <2>3. policy' \in BOOLEAN /\ proc' \in ProcStates
    BY <1>3 DEF ServeSynthesize, KillWorker, ProcStates, TypeOK
  <2>4. disturbances' \in Nat
    BY <1>3, DisturbedType DEF ServeSynthesize, TypeOK
  <2> QED
    BY <1>1, <2>1, <2>2, <2>3, <2>4 DEF CmdKinds
<1>4. CASE ServeCancelTtsWorker
  <2>1. msgs' \in Seq(Msg)
    BY <1>4, MsgTypes, PostTypes DEF ServeCancelTtsWorker
  <2>2. policy' \in BOOLEAN /\ proc' \in ProcStates /\ disturbances' \in Nat
    BY <1>4, DisturbedType DEF ServeCancelTtsWorker, KillWorker, ProcStates, TypeOK
  <2> QED
    BY <1>1, <1>4, <2>1, <2>2 DEF ServeCancelTtsWorker, CmdKinds
<1>5. CASE ServeUnload
  <2>1. policy' \in BOOLEAN /\ proc' \in ProcStates /\ disturbances' \in Nat
    BY <1>5, UnloadedType, DisturbedType DEF ServeUnload, TypeOK
  <2>2. msgs' \in Seq(Msg)
    BY <1>5, <2>1, MsgTypes, PostTypes DEF ServeUnload
  <2> QED
    BY <1>1, <1>5, <2>1, <2>2 DEF ServeUnload, CmdKinds
<1>6. CASE ServeLoadStt
  <2>1. policy' \in BOOLEAN /\ proc' \in ProcStates /\ disturbances' \in Nat
    BY <1>6, UnloadedType, DisturbedType DEF ServeLoadStt, TypeOK
  <2>2. msgs' \in Seq(Msg)
    BY <1>6, <2>1, MsgTypes, PostTypes DEF ServeLoadStt
  <2> QED
    BY <1>1, <1>6, <2>1, <2>2 DEF ServeLoadStt, CmdKinds
<1> QED
  BY <1>2, <1>3, <1>4, <1>5, <1>6, TakeCmdType DEF JobThread

\* The player process keeps the types of the transport and the history.
LEMMA PlayerType ==
  ASSUME TypeOK, PlayerAdvances \/ PlayerDies
  PROVE  TypeOK'
<1>1. transport.playlist \in Seq(Chunk) /\ transport.playlist # << >>
  BY DEF PlayerAdvances, PlayerDies, TypeOK, Transport
<1> DEFINE rest == Tail(transport.playlist)
<1>2. rest \in Seq(Chunk)
  BY <1>1, HeadTailProperties
<1>3. rest # << >> => Head(rest).index \in Nat
  <2>1. rest # << >> => Head(rest) \in Chunk
    <3> HIDE DEF rest
    <3> QED
      BY <1>2, HeadTailProperties
  <2> QED
    BY <2>1 DEF Chunk
<1>4. CASE PlayerAdvances
  <2>1. /\ transport' = [transport EXCEPT !.playlist = rest]
        /\ spoken' = IF rest # << >> THEN Append(spoken, Head(rest).index) ELSE spoken
    BY <1>4 DEF PlayerAdvances
  <2> HIDE DEF rest
  <2>2. transport' \in Transport
    BY <1>2, <2>1 DEF TypeOK, Transport
  <2>3. spoken' \in Seq(Nat)
    BY <1>3, <2>1, AppendProperties DEF TypeOK
  <2> QED
    BY <1>4, <2>2, <2>3 DEF PlayerAdvances, TypeOK, workerVars, userVars
<1>5. CASE PlayerDies
  <2>1. transport' \in Transport
    BY <1>5, EmptySeq DEF PlayerDies, TypeOK, Transport
  <2>2. dropped' \subseteq Nat
    BY <1>2, <1>5, IndicesType DEF PlayerDies, TypeOK
  <2>3. disturbances' \in Nat
    BY <1>5, DisturbedType DEF PlayerDies, TypeOK
  <2> QED
    BY <1>5, <2>1, <2>2, <2>3 DEF PlayerDies, TypeOK, workerVars, userVars
<1> QED
  BY <1>4, <1>5

\* The death of the worker keeps the types.
LEMMA WorkerDiesType ==
  ASSUME TypeOK, WorkerDies
  PROVE  TypeOK'
<1>1. disturbances' \in Nat
  BY DisturbedType DEF WorkerDies, TypeOK
<1> QED
  BY <1>1 DEF WorkerDies, TypeOK, ProcStates, uiVars, speechVars, userVars

\* The initial state has its types.
LEMMA InitType == Init => TypeOK
<1> SUFFICES ASSUME Init PROVE TypeOK
  OBVIOUS
<1>1. NewController \in Controller
  BY EmptySeq DEF NewController, Controller, NoJob
<1>2. NewTransport \in Transport
  BY EmptySeq DEF NewTransport, Transport, Status, Backends
<1> QED
  BY <1>1, <1>2, NoSpeakType, EmptySeq DEF Init, TypeOK, ProcStates

\* Every step of the pipeline keeps the types of its state.
LEMMA NextType ==
  ASSUME TypeOK, [Next]_vars
  PROVE  TypeOK'
<1>1. CASE User
  <2>1. CASE \E n \in SegmentCounts : Speak(n)
    BY <2>1, SpeakType
  <2>2. CASE StopSpeech
    BY <2>2, StopSpeechType
  <2>3. CASE UnloadVoice \/ UnloadAll
    BY <2>3, UnloadType
  <2>4. CASE LoadVoice
    BY <2>4, LoadVoiceType
  <2>5. CASE LoadDictation
    BY <2>5, LoadDictationType
  <2>6. CASE Replay
    BY <2>6, ReplayType
  <2>7. CASE PauseResume
    BY <2>7, PauseResumeType
  <2> QED
    BY <1>1, <2>1, <2>2, <2>3, <2>4, <2>5, <2>6, <2>7 DEF User
<1>2. CASE HandleMsg
  BY <1>2, OnModelStatusType, OnTtsLoadedType, OnWorkerTimedOutType,
     OnChunkReadyMsgType, OnChunkFailedMsgType DEF HandleMsg
<1>3. CASE PollTransport
  BY <1>3, PollTransportType
<1>4. CASE HandOver
  BY <1>4, HandOverNextType, HandOverEndsType DEF HandOver
<1>5. CASE JobThread
  BY <1>5, JobThreadType
<1>6. CASE PlayerAdvances \/ PlayerDies
  BY <1>6, PlayerType
<1>7. CASE WorkerDies
  BY <1>7, WorkerDiesType
<1>8. CASE UNCHANGED vars
  BY <1>8 DEF vars, uiVars, workerVars, speechVars, userVars, TypeOK
<1> QED
  BY <1>1, <1>2, <1>3, <1>4, <1>5, <1>6, <1>7, <1>8 DEF Next

\* The state of the pipeline keeps its types for every bound, number of
\* segments and kind of failure.
THEOREM TypeCorrect == Spec => []TypeOK
<1>1. Init => TypeOK
  BY InitType
<1>2. TypeOK /\ [Next]_vars => TypeOK'
  BY NextType
<1> QED
  BY <1>1, <1>2, PTL DEF Spec

-----------------------------------------------------------------------------
(***************************************************************************)
(* Safety: a live job has exactly the synthesis its flag tells, and the    *)
(* prebuffer is bounded.                                                   *)
(***************************************************************************)

\* q carries no synthesis of job j; q carries exactly one.
None(q, j) == \A k \in DOMAIN q : ~Carries(q[k], j)
One(q, j)  == \E k \in DOMAIN q :
                /\ Carries(q[k], j)
                /\ \A l \in DOMAIN q : Carries(q[l], j) => l = k

\* A queue that grows by what carries no synthesis of j carries as many as before.
LEMMA AppendOther ==
  ASSUME NEW S, NEW q \in Seq(S), NEW c \in S, NEW j, ~Carries(c, j)
  PROVE  /\ None(q, j) => None(Append(q, c), j)
         /\ One(q, j) => One(Append(q, c), j)
<1>1. /\ DOMAIN q = 1 .. Len(q) /\ Len(q) \in Nat
      /\ DOMAIN Append(q, c) = 1 .. Len(q) + 1
  BY LenProperties, AppendProperties
<1>2. /\ \A k \in DOMAIN q : Append(q, c)[k] = q[k]
      /\ Append(q, c)[Len(q) + 1] = c
  BY <1>1, AppendProperties
<1> HIDE DEF Carries
<1>3. \A k \in DOMAIN Append(q, c) : Carries(Append(q, c)[k], j) => k \in DOMAIN q /\ Carries(q[k], j)
  BY <1>1, <1>2
<1> QED
  BY <1>1, <1>2, <1>3 DEF None, One

\* A queue without a synthesis of j that grows by one carries exactly one.
LEMMA AppendOne ==
  ASSUME NEW S, NEW q \in Seq(S), NEW c \in S, NEW j, Carries(c, j), None(q, j)
  PROVE  One(Append(q, c), j)
<1>1. /\ DOMAIN q = 1 .. Len(q) /\ Len(q) \in Nat
      /\ DOMAIN Append(q, c) = 1 .. Len(q) + 1
  BY LenProperties, AppendProperties
<1>2. /\ \A k \in DOMAIN q : Append(q, c)[k] = q[k]
      /\ Append(q, c)[Len(q) + 1] = c
  BY <1>1, AppendProperties
<1> QED
  BY <1>1, <1>2 DEF None, One

\* A queue carries what its head and its tail carry.
LEMMA TailOther ==
  ASSUME NEW S, NEW q \in Seq(S), q # << >>, NEW j
  PROVE  /\ None(q, j) => None(Tail(q), j) /\ ~Carries(Head(q), j)
         /\ One(q, j) => IF Carries(Head(q), j) THEN None(Tail(q), j) ELSE One(Tail(q), j)
<1>1. /\ DOMAIN q = 1 .. Len(q) /\ Len(q) \in Nat \ {0}
      /\ DOMAIN Tail(q) = 1 .. Len(q) - 1
      /\ \A k \in DOMAIN Tail(q) : Tail(q)[k] = q[k + 1]
  BY LenProperties, EmptySeq, HeadTailProperties
<1>2. Head(q) = q[1] /\ 1 \in DOMAIN q
  BY <1>1
<1>3. \A k \in DOMAIN Tail(q) : k + 1 \in DOMAIN q
  BY <1>1
<1>4. None(q, j) => None(Tail(q), j) /\ ~Carries(Head(q), j)
  BY <1>1, <1>2, <1>3 DEF None
<1>5. ASSUME One(q, j)
      PROVE  IF Carries(Head(q), j) THEN None(Tail(q), j) ELSE One(Tail(q), j)
  <2>1. PICK k \in DOMAIN q : Carries(q[k], j) /\ \A l \in DOMAIN q : Carries(q[l], j) => l = k
    BY <1>5 DEF One
  <2>2. CASE Carries(Head(q), j)
    <3>1. k = 1
      BY <1>2, <2>1, <2>2
    <3>2. ASSUME NEW l \in DOMAIN Tail(q), Carries(Tail(q)[l], j)
          PROVE  FALSE
      <4>1. l + 1 = k
        BY <1>1, <1>3, <2>1, <3>2
      <4> QED
        BY <1>1, <3>1, <4>1
    <3> QED
      BY <2>2, <3>2 DEF None
  <2>3. CASE ~Carries(Head(q), j)
    <3>1. k # 1
      BY <1>2, <2>1, <2>3
    <3>2. k - 1 \in DOMAIN Tail(q) /\ (k - 1) + 1 = k
      BY <1>1, <3>1
    <3>3. Carries(Tail(q)[k - 1], j)
      BY <1>1, <2>1, <3>2
    <3>4. ASSUME NEW l \in DOMAIN Tail(q), Carries(Tail(q)[l], j)
          PROVE  l = k - 1
      <4>1. l + 1 = k
        BY <1>1, <1>3, <2>1, <3>4
      <4> QED
        BY <1>1, <4>1
    <3> QED
      BY <2>3, <3>2, <3>3, <3>4 DEF One
  <2> QED
    BY <2>2, <2>3
<1> QED
  BY <1>4, <1>5

\* Two queues, one of which at most carries a synthesis of j, carry it when joined.
LEMMA ConcatOther ==
  ASSUME NEW S, NEW q \in Seq(S), NEW s \in Seq(S), NEW j
  PROVE  /\ None(q, j) /\ None(s, j) => None(q \o s, j)
         /\ One(q, j) /\ None(s, j) => One(q \o s, j)
         /\ None(q, j) /\ One(s, j) => One(q \o s, j)
<1>1. /\ DOMAIN q = 1 .. Len(q) /\ Len(q) \in Nat
      /\ DOMAIN s = 1 .. Len(s) /\ Len(s) \in Nat
      /\ DOMAIN (q \o s) = 1 .. Len(q) + Len(s)
  BY LenProperties, ConcatProperties
<1>2. \A k \in DOMAIN (q \o s) : (q \o s)[k] = IF k <= Len(q) THEN q[k] ELSE s[k - Len(q)]
  BY <1>1, ConcatProperties
<1>3. \A k \in DOMAIN (q \o s) :
        IF k <= Len(q) THEN k \in DOMAIN q /\ (q \o s)[k] = q[k]
        ELSE k - Len(q) \in DOMAIN s /\ (q \o s)[k] = s[k - Len(q)]
  BY <1>1, <1>2
<1>4. None(q, j) /\ None(s, j) => None(q \o s, j)
  BY <1>3 DEF None
<1>5. ASSUME One(q, j), None(s, j)
      PROVE  One(q \o s, j)
  <2>1. PICK k \in DOMAIN q : Carries(q[k], j) /\ \A l \in DOMAIN q : Carries(q[l], j) => l = k
    BY <1>5 DEF One
  <2>2. k \in DOMAIN (q \o s) /\ (q \o s)[k] = q[k]
    BY <1>1, <1>2
  <2>3. \A l \in DOMAIN (q \o s) : Carries((q \o s)[l], j) => l = k
    BY <1>3, <1>5, <2>1 DEF None
  <2> QED
    BY <2>1, <2>2, <2>3 DEF One
<1>6. ASSUME None(q, j), One(s, j)
      PROVE  One(q \o s, j)
  <2>1. PICK k \in DOMAIN s : Carries(s[k], j) /\ \A l \in DOMAIN s : Carries(s[l], j) => l = k
    BY <1>6 DEF One
  <2>2. /\ k + Len(q) \in DOMAIN (q \o s) /\ ~(k + Len(q) <= Len(q))
        /\ (k + Len(q)) - Len(q) = k
    BY <1>1
  <2>3. Carries((q \o s)[k + Len(q)], j)
    BY <1>2, <2>1, <2>2
  <2>4. ASSUME NEW l \in DOMAIN (q \o s), Carries((q \o s)[l], j)
        PROVE  l = k + Len(q)
    <3>1. ~(l <= Len(q))
      BY <1>3, <1>6, <2>4 DEF None
    <3>2. l - Len(q) = k
      BY <1>3, <2>1, <2>4, <3>1
    <3> QED
      BY <1>1, <3>2
  <2> QED
    BY <2>2, <2>3, <2>4 DEF One
<1> QED
  BY <1>4, <1>5, <1>6

-----------------------------------------------------------------------------
(* The invariant, stated on a controller t, the command queue c, the command *)
(* jt being served and the message queue m, so that the steps of a handler   *)
(* can be taken one after the other.                                         *)

Clear(j, c, jt, m) == None(c, j) /\ ~Carries(jt, j) /\ None(m, j)

Single(j, c, jt, m) ==
  \/ One(c, j)  /\ ~Carries(jt, j) /\ None(m, j)
  \/ None(c, j) /\ Carries(jt, j)  /\ None(m, j)
  \/ None(c, j) /\ ~Carries(jt, j) /\ One(m, j)

Bounded(t) == Len(t.ready) + (IF t.inFlight THEN 1 ELSE 0) <= MaxReady

Known(t, c, jt, m) ==
  /\ t.active <= t.jobId /\ jt.job <= t.jobId
  /\ HandedOut(c, t.jobId) /\ HandedOut(m, t.jobId)
  /\ t.inFlight => t.active # NoJob

Flight(t, c, jt, m) ==
  t.active # NoJob => IF t.inFlight THEN Single(t.active, c, jt, m) ELSE Clear(t.active, c, jt, m)

Sound(t, c, jt, m) == Flight(t, c, jt, m) /\ Bounded(t) /\ Known(t, c, jt, m)

State(t, c, jt, m) ==
  t \in Controller /\ c \in Seq(Cmd) /\ jt \in Cmd \union {Idle} /\ m \in Seq(Msg)

\* Bounded without arithmetic on a conditional.
LEMMA BoundedCases ==
  ASSUME NEW t \in Controller
  PROVE  Bounded(t) <=> IF t.inFlight THEN Len(t.ready) + 1 <= MaxReady
                                     ELSE Len(t.ready) <= MaxReady
<1>1. Len(t.ready) \in Nat /\ t.inFlight \in BOOLEAN
  BY LenProperties DEF Controller
<1>2. CASE t.inFlight
  BY <1>1, <1>2 DEF Bounded
<1>3. CASE ~t.inFlight
  BY <1>1, <1>3 DEF Bounded
<1> QED
  BY <1>2, <1>3

\* Every command and every message names a natural number as its job.
LEMMA JobsAreNat ==
  /\ \A c \in Seq(Cmd) : \A k \in DOMAIN c : c[k] \in Cmd /\ c[k].job \in Nat
  /\ \A m \in Seq(Msg) : \A k \in DOMAIN m : m[k] \in Msg /\ m[k].job \in Nat
  /\ \A jt \in Cmd \union {Idle} : jt.job \in Nat
<1>1. \A c \in Seq(Cmd) : \A k \in DOMAIN c : c[k] \in Cmd
  BY LenProperties, ElementOfSeq
<1>2. \A m \in Seq(Msg) : \A k \in DOMAIN m : m[k] \in Msg
  BY LenProperties, ElementOfSeq
<1>3. \A c \in Cmd : c.job \in Nat
  BY DEF Cmd
<1>4. \A x \in Msg : x.job \in Nat
  BY DEF Msg
<1>5. Idle.job \in Nat
  BY DEF Idle, NoJob
<1> QED
  BY <1>1, <1>2, <1>3, <1>4, <1>5

\* A job id not handed out yet is carried by nothing.
LEMMA FreshIsClear ==
  ASSUME NEW t, NEW c, NEW jt, NEW m, State(t, c, jt, m), Known(t, c, jt, m),
         NEW j \in Nat, j > t.jobId
  PROVE  Clear(j, c, jt, m)
<1>1. t.jobId \in Nat
  BY DEF State, Controller
<1>2. ASSUME NEW k \in DOMAIN c PROVE ~Carries(c[k], j)
  BY <1>1, JobsAreNat DEF State, Known, HandedOut, Carries
<1>3. ASSUME NEW k \in DOMAIN m PROVE ~Carries(m[k], j)
  BY <1>1, JobsAreNat DEF State, Known, HandedOut, Carries
<1>4. ~Carries(jt, j)
  BY <1>1, JobsAreNat DEF State, Known, Carries
<1> QED
  BY <1>2, <1>3, <1>4 DEF Clear, None

\* Ids stay handed out as the controller's counter grows.
LEMMA KnownGrows ==
  ASSUME NEW t, NEW c, NEW jt, NEW m, State(t, c, jt, m), Known(t, c, jt, m),
         NEW n \in Nat, n >= t.jobId
  PROVE  jt.job <= n /\ HandedOut(c, n) /\ HandedOut(m, n)
<1>1. t.jobId \in Nat
  BY DEF State, Controller
<1>2. HandedOut(c, n)
  BY <1>1, JobsAreNat DEF State, Known, HandedOut
<1>3. HandedOut(m, n)
  BY <1>1, JobsAreNat DEF State, Known, HandedOut
<1>4. jt.job <= n
  BY <1>1, JobsAreNat DEF State, Known
<1> QED
  BY <1>2, <1>3, <1>4

\* cancel keeps the invariant: no job is live any more.
LEMMA SoundCancel ==
  ASSUME NEW t, NEW c, NEW jt, NEW m, State(t, c, jt, m), Sound(t, c, jt, m)
  PROVE  Sound(Cancel(t), c, jt, m)
<1>1. t.jobId \in Nat /\ t.jobId + 1 \in Nat /\ t.jobId + 1 >= t.jobId
  BY DEF State, Controller
<1>2. /\ jt.job <= t.jobId + 1 /\ HandedOut(c, t.jobId + 1) /\ HandedOut(m, t.jobId + 1)
  BY <1>1, KnownGrows DEF Sound
<1>3. Known(Cancel(t), c, jt, m)
  BY <1>1, <1>2 DEF Known, Cancel, NoJob
<1>4. Flight(Cancel(t), c, jt, m)
  BY DEF Flight, Cancel
<1>5. Bounded(Cancel(t))
  BY PrebufferAssumption, EmptySeq DEF Bounded, Cancel
<1> QED
  BY <1>3, <1>4, <1>5 DEF Sound

\* begin_job keeps the invariant: the new id is carried by nothing yet.
LEMMA SoundBegin ==
  ASSUME NEW t, NEW c, NEW jt, NEW m, State(t, c, jt, m), Sound(t, c, jt, m), NEW n \in Nat
  PROVE  Sound(BeginJob(t, n), c, jt, m)
<1>1. t.jobId \in Nat /\ t.jobId + 1 \in Nat /\ t.jobId + 1 > t.jobId
  BY DEF State, Controller
<1>2. /\ jt.job <= t.jobId + 1 /\ HandedOut(c, t.jobId + 1) /\ HandedOut(m, t.jobId + 1)
  BY <1>1, KnownGrows DEF Sound
<1>3. Clear(t.jobId + 1, c, jt, m)
  BY <1>1, FreshIsClear DEF Sound
<1>4. Known(BeginJob(t, n), c, jt, m)
  BY <1>1, <1>2 DEF Known, BeginJob
<1>5. Flight(BeginJob(t, n), c, jt, m)
  BY <1>3 DEF Flight, BeginJob
<1>6. Bounded(BeginJob(t, n))
  BY PrebufferAssumption, EmptySeq DEF Bounded, BeginJob
<1> QED
  BY <1>4, <1>5, <1>6 DEF Sound

\* A command that carries no synthesis joins the queue.
LEMMA SoundSend ==
  ASSUME NEW t, NEW c, NEW jt, NEW m, State(t, c, jt, m), Sound(t, c, jt, m),
         NEW x \in Cmd, x.kind # "Synthesize", x.job = NoJob
  PROVE  Sound(t, Append(c, x), jt, m)
<1>1. \A j : ~Carries(x, j)
  BY DEF Carries, Cmd, CmdKinds
<1>2. c \in Seq(Cmd) /\ t.jobId \in Nat
  BY DEF State, Controller
<1>3. Flight(t, Append(c, x), jt, m)
  <2>1. /\ None(c, t.active) => None(Append(c, x), t.active)
        /\ One(c, t.active) => One(Append(c, x), t.active)
    BY <1>1, <1>2, AppendOther
  <2> QED
    BY <2>1 DEF Sound, Flight, Single, Clear
<1>4. HandedOut(Append(c, x), t.jobId)
  <2>1. \A k \in DOMAIN Append(c, x) :
            (k \in DOMAIN c /\ Append(c, x)[k] = c[k]) \/ Append(c, x)[k] = x
    BY <1>2, LenProperties, AppendProperties
  <2>2. HandedOut(c, t.jobId) /\ x.job <= t.jobId
    BY <1>2 DEF Sound, Known, NoJob
  <2> QED
    BY <2>1, <2>2 DEF HandedOut
<1> QED
  BY <1>3, <1>4 DEF Sound, Known

\* The next synthesis is asked for, if it may.
LEMMA SoundPump ==
  ASSUME NEW t, NEW c, NEW jt, NEW m, State(t, c, jt, m), Sound(t, c, jt, m),
         NEW loaded \in BOOLEAN
  PROVE  Sound(Pumped(t, loaded), PumpedCmds(t, c, loaded), jt, m)
<1>1. CASE ~Pumps(t, loaded)
  BY <1>1 DEF Pumped, PumpedCmds
<1>2. CASE Pumps(t, loaded)
  <2> DEFINE x == Synthesize(t.active, Head(t.pending).index)
  <2>1. /\ Pumped(t, loaded) = MarkSynthStarted(t)
        /\ PumpedCmds(t, c, loaded) = Append(c, x)
    BY <1>2 DEF Pumped, PumpedCmds
  <2>2. t.active # NoJob /\ ~t.inFlight /\ Len(t.ready) < MaxReady
    BY <1>2 DEF Pumps, ShouldRequestSynth
  <2>3. x \in Cmd /\ x.job = t.active /\ Carries(x, t.active)
    BY <1>2, HeadPendingType DEF Pumps, Synthesize, Cmd, CmdKinds, Carries, State
  <2>4. c \in Seq(Cmd) /\ t.jobId \in Nat /\ t.active \in Nat /\ t \in Controller
    BY DEF State, Controller
  <2>5. /\ MarkSynthStarted(t).active = t.active /\ MarkSynthStarted(t).jobId = t.jobId
        /\ MarkSynthStarted(t).inFlight = TRUE /\ MarkSynthStarted(t).ready = t.ready
    BY <2>4 DEF MarkSynthStarted, Controller
  <2> HIDE DEF x
  <2>6. One(Append(c, x), t.active)
    BY <2>2, <2>3, <2>4, AppendOne DEF Sound, Flight, Clear
  <2>7. Flight(MarkSynthStarted(t), Append(c, x), jt, m)
    BY <2>2, <2>5, <2>6 DEF Sound, Flight, Clear, Single
  <2>8. Bounded(MarkSynthStarted(t))
    <3>1. Len(t.ready) \in Nat
      BY <2>4, LenProperties DEF Controller
    <3>2. MarkSynthStarted(t) \in Controller /\ MarkSynthStarted(t).inFlight
      BY <2>4, <2>5, MarkSynthStartedType
    <3>3. Len(MarkSynthStarted(t).ready) + 1 <= MaxReady
      BY <2>2, <2>5, <3>1, PrebufferAssumption
    <3> QED
      BY <3>2, <3>3, BoundedCases
  <2>9. HandedOut(Append(c, x), t.jobId)
    <3>1. \A k \in DOMAIN Append(c, x) :
            (k \in DOMAIN c /\ Append(c, x)[k] = c[k]) \/ Append(c, x)[k] = x
      BY <2>3, <2>4, LenProperties, AppendProperties
    <3>2. HandedOut(c, t.jobId) /\ x.job <= t.jobId
      BY <2>3 DEF Sound, Known
    <3> QED
      BY <3>1, <3>2 DEF HandedOut
  <2>10. Known(MarkSynthStarted(t), Append(c, x), jt, m)
    BY <2>2, <2>5, <2>9 DEF Sound, Known
  <2> QED
    BY <2>1, <2>7, <2>8, <2>10 DEF Sound
<1> QED
  BY <1>1, <1>2

\* The controllers t and u agree on everything Sound speaks of.
LEMMA SoundSame ==
  ASSUME NEW t, NEW u, NEW c, NEW jt, NEW m, Sound(t, c, jt, m),
         u.active = t.active, u.jobId = t.jobId, u.inFlight = t.inFlight, u.ready = t.ready
  PROVE  Sound(u, c, jt, m)
BY DEF Sound, Flight, Bounded, Known

\* The head of the message queue is dropped: it is not an answer for t's job.
LEMMA SoundStale ==
  ASSUME NEW t, NEW c, NEW jt, NEW m, State(t, c, jt, m), Sound(t, c, jt, m), m # << >>,
         t.active # NoJob => ~Carries(Head(m), t.active)
  PROVE  Sound(t, c, jt, Tail(m))
<1>1. m \in Seq(Msg)
  BY DEF State
<1>2. /\ None(m, t.active) => None(Tail(m), t.active)
      /\ One(m, t.active) /\ ~Carries(Head(m), t.active) => One(Tail(m), t.active)
  BY <1>1, TailOther
<1>3. Flight(t, c, jt, Tail(m))
  BY <1>2 DEF Sound, Flight, Single, Clear
<1>4. HandedOut(Tail(m), t.jobId)
  <2>1. \A k \in DOMAIN Tail(m) : k + 1 \in DOMAIN m /\ Tail(m)[k] = m[k + 1]
    BY <1>1, LenProperties, EmptySeq, HeadTailProperties
  <2> QED
    BY <2>1 DEF Sound, Known, HandedOut
<1> QED
  BY <1>3, <1>4 DEF Sound, Known

\* The answer of the synthesis in flight is taken: the flag is reset, and
\* one chunk at most joins the ready queue.
LEMMA SoundAnswer ==
  ASSUME NEW t, NEW c, NEW jt, NEW m, State(t, c, jt, m), Sound(t, c, jt, m), m # << >>,
         t.active # NoJob, Carries(Head(m), t.active),
         NEW u \in Controller, u.active = t.active, u.jobId = t.jobId, ~u.inFlight,
         Len(u.ready) <= Len(t.ready) + 1
  PROVE  Sound(u, c, jt, Tail(m))
<1>1. m \in Seq(Msg) /\ t \in Controller
  BY DEF State
<1>2. /\ None(m, t.active) => ~Carries(Head(m), t.active)
      /\ One(m, t.active) => None(Tail(m), t.active)
  BY <1>1, TailOther
<1>3. t.inFlight /\ Clear(t.active, c, jt, Tail(m))
  BY <1>2 DEF Sound, Flight, Single, Clear
<1>4. Flight(u, c, jt, Tail(m))
  BY <1>3 DEF Flight
<1>5. Bounded(u)
  <2>1. Len(t.ready) \in Nat /\ Len(u.ready) \in Nat
    BY <1>1, LenProperties DEF Controller
  <2>2. Len(t.ready) + 1 <= MaxReady
    BY <1>3 DEF Sound, Bounded
  <2> QED
    BY <2>1, <2>2, PrebufferAssumption DEF Bounded
<1>6. HandedOut(Tail(m), t.jobId)
  <2>1. \A k \in DOMAIN Tail(m) : k + 1 \in DOMAIN m /\ Tail(m)[k] = m[k + 1]
    BY <1>1, LenProperties, EmptySeq, HeadTailProperties
  <2> QED
    BY <2>1 DEF Sound, Known, HandedOut
<1> QED
  BY <1>4, <1>5, <1>6 DEF Sound, Known

\* pop_ready keeps the invariant: the ready queue shrinks.
LEMMA SoundPop ==
  ASSUME NEW t, NEW c, NEW jt, NEW m, State(t, c, jt, m), Sound(t, c, jt, m), t.ready # << >>
  PROVE  Sound(PopReady(t), c, jt, m)
<1>1. t \in Controller /\ t.ready \in Seq(Chunk)
  BY DEF State, Controller
<1>2. Len(t.ready) \in Nat /\ Len(Tail(t.ready)) = Len(t.ready) - 1
  BY <1>1, LenProperties, HeadTailProperties
<1>3. /\ PopReady(t).active = t.active /\ PopReady(t).jobId = t.jobId
      /\ PopReady(t).inFlight = t.inFlight /\ PopReady(t).ready = Tail(t.ready)
  BY <1>1 DEF PopReady, Controller
<1>4. Bounded(PopReady(t))
  <2>1. PopReady(t) \in Controller
    BY <1>1, PopReadyType
  <2>2. IF t.inFlight THEN Len(t.ready) + 1 <= MaxReady ELSE Len(t.ready) <= MaxReady
    BY <1>1, BoundedCases DEF Sound
  <2>3. /\ t.inFlight  => Len(PopReady(t).ready) + 1 <= MaxReady
        /\ ~t.inFlight => Len(PopReady(t).ready) <= MaxReady
    BY <1>2, <1>3, <2>2, PrebufferAssumption
  <2> QED
    BY <1>3, <2>1, <2>3, BoundedCases
<1> QED
  BY <1>3, <1>4 DEF Sound, Flight, Known

\* The end of a job without work keeps the invariant.
LEMMA SoundEnd ==
  ASSUME NEW t, NEW c, NEW jt, NEW m, State(t, c, jt, m), Sound(t, c, jt, m),
         t.active # NoJob, ~HasWork(t)
  PROVE  Sound(EndJob(t), c, jt, m)
<1>1. t \in Controller /\ ~t.inFlight
  BY DEF State, HasWork
<1>2. /\ EndJob(t).active = NoJob /\ EndJob(t).jobId = t.jobId
      /\ EndJob(t).inFlight = t.inFlight /\ EndJob(t).ready = t.ready
  BY <1>1 DEF EndJob, Controller
<1>3. t.jobId \in Nat
  BY <1>1 DEF Controller
<1> QED
  BY <1>1, <1>2, <1>3 DEF Sound, Flight, Bounded, Known, NoJob

\* The job thread takes a command.
LEMMA SoundTake ==
  ASSUME NEW t, NEW c, NEW m, State(t, c, Idle, m), Sound(t, c, Idle, m), c # << >>
  PROVE  Sound(t, Tail(c), Head(c), m)
<1>1. c \in Seq(Cmd) /\ t \in Controller
  BY DEF State
<1>2. /\ None(c, t.active) => None(Tail(c), t.active) /\ ~Carries(Head(c), t.active)
      /\ One(c, t.active) => IF Carries(Head(c), t.active) THEN None(Tail(c), t.active)
                             ELSE One(Tail(c), t.active)
  BY <1>1, TailOther
<1>3. ~Carries(Idle, t.active)
  BY DEF Idle, Carries
<1>4. Flight(t, Tail(c), Head(c), m)
  BY <1>2, <1>3 DEF Sound, Flight, Single, Clear
<1>5. HandedOut(Tail(c), t.jobId) /\ Head(c).job <= t.jobId
  <2>1. \A k \in DOMAIN Tail(c) : k + 1 \in DOMAIN c /\ Tail(c)[k] = c[k + 1]
    BY <1>1, LenProperties, EmptySeq, HeadTailProperties
  <2>2. 1 \in DOMAIN c /\ Head(c) = c[1]
    BY <1>1, LenProperties, EmptySeq
  <2> QED
    BY <2>1, <2>2 DEF Sound, Known, HandedOut
<1> QED
  BY <1>4, <1>5 DEF Sound, Known

\* The job thread answers: s carries the synthesis jt carried, and no other.
LEMMA SoundServe ==
  ASSUME NEW t, NEW c, NEW jt, NEW m, State(t, c, jt, m), Sound(t, c, jt, m),
         NEW s \in Seq(Msg), HandedOut(s, t.jobId),
         IF Carries(jt, t.active) THEN One(s, t.active) ELSE None(s, t.active)
  PROVE  Sound(t, c, Idle, m \o s)
<1>1. m \in Seq(Msg) /\ t \in Controller
  BY DEF State
<1>2. /\ None(m, t.active) /\ None(s, t.active) => None(m \o s, t.active)
      /\ One(m, t.active) /\ None(s, t.active) => One(m \o s, t.active)
      /\ None(m, t.active) /\ One(s, t.active) => One(m \o s, t.active)
  BY <1>1, ConcatOther
<1>3. ~Carries(Idle, t.active)
  BY DEF Idle, Carries
<1>4. Flight(t, c, Idle, m \o s)
  BY <1>2, <1>3 DEF Sound, Flight, Single, Clear
<1>5. HandedOut(m \o s, t.jobId)
  <2>1. /\ DOMAIN m = 1 .. Len(m) /\ Len(m) \in Nat
        /\ DOMAIN s = 1 .. Len(s) /\ Len(s) \in Nat
        /\ DOMAIN (m \o s) = 1 .. Len(m) + Len(s)
    BY <1>1, LenProperties, ConcatProperties
  <2>2. \A k \in DOMAIN (m \o s) : (m \o s)[k] = IF k <= Len(m) THEN m[k] ELSE s[k - Len(m)]
    BY <1>1, <2>1, ConcatProperties
  <2>3. HandedOut(m, t.jobId)
    BY DEF Sound, Known
  <2> QED
    BY <2>1, <2>2, <2>3 DEF HandedOut
<1>6. Idle.job <= t.jobId
  BY <1>1 DEF Idle, NoJob, Controller
<1> QED
  BY <1>4, <1>5, <1>6 DEF Sound, Known

-----------------------------------------------------------------------------
(* The invariant is kept by the parts of the handlers ...                    *)

\* load_tts keeps the invariant.
LEMMA SoundLoad ==
  ASSUME NEW t, NEW q, NEW jt, NEW m, State(t, q, jt, m), Sound(t, q, jt, m),
         NEW loaded, NEW loading, LoadTts(q, loaded, loading)
  PROVE  Sound(t, cmds', jt, m)
<1>1. Command("LoadTts") \in Cmd
  BY CommandType DEF CmdKinds
<1>2. Command("LoadTts").kind # "Synthesize" /\ Command("LoadTts").job = NoJob
  BY DEF Command
<1>3. Sound(t, Append(q, Command("LoadTts")), jt, m)
  BY <1>1, <1>2, SoundSend
<1> QED
  BY <1>3 DEF LoadTts

\* cleanup_chunk_temps_keeping_replay keeps the invariant.
LEMMA SoundCleanup ==
  ASSUME NEW t, NEW c, NEW jt, NEW m, NEW tr, State(t, c, jt, m), Sound(t, c, jt, m),
         CleanupChunkTemps(t, tr)
  PROVE  Sound(tts', c, jt, m)
<1>1. t \in Controller
  BY DEF State
<1>2. /\ tts'.active = t.active /\ tts'.jobId = t.jobId
      /\ tts'.inFlight = t.inFlight /\ tts'.ready = t.ready
  BY <1>1 DEF CleanupChunkTemps, Controller
<1> QED
  BY <1>2, SoundSame

\* finalize_tts_job_if_done keeps the invariant.
LEMMA SoundFinalize ==
  ASSUME NEW t, NEW c, NEW jt, NEW m, NEW tr, State(t, c, jt, m), Sound(t, c, jt, m),
         FinalizeIfDone(t, tr)
  PROVE  Sound(tts', c, jt, m)
BY SoundEnd DEF FinalizeIfDone

\* start_speak_job keeps the invariant, whether it starts the job or waits.
LEMMA SoundStart ==
  ASSUME TypeOK, NEW m \in Seq(Msg), Sound(tts, cmds, jobThread, m),
         NEW s \in [req : Nat, segs : Nat], NEW rest,
         NEW loaded \in BOOLEAN, NEW loading, StartSpeakJob(s, rest, loaded, loading)
  PROVE  Sound(tts', cmds', jobThread, m)
<1>1. State(tts, cmds, jobThread, m) /\ Cancel(tts) \in Controller
  BY CancelType DEF State, TypeOK
<1>2. State(Cancel(tts), cmds, jobThread, m) /\ Sound(Cancel(tts), cmds, jobThread, m)
  BY <1>1, SoundCancel DEF State
<1>3. CASE tts.inFlight
  <2>1. /\ CleanupChunkTemps(Cancel(tts), Stop(transport))
        /\ LoadTts(Append(cmds, Command("CancelTtsWorker")), FALSE, loading)
    BY <1>3 DEF StartSpeakJob
  <2>2. Command("CancelTtsWorker") \in Cmd
    BY CommandType DEF CmdKinds
  <2>3. /\ Sound(Cancel(tts), Append(cmds, Command("CancelTtsWorker")), jobThread, m)
        /\ State(Cancel(tts), Append(cmds, Command("CancelTtsWorker")), jobThread, m)
    <3>1. /\ Command("CancelTtsWorker").kind # "Synthesize"
          /\ Command("CancelTtsWorker").job = NoJob
      BY DEF Command
    <3>2. Sound(Cancel(tts), Append(cmds, Command("CancelTtsWorker")), jobThread, m)
      BY <1>2, <2>2, <3>1, SoundSend
    <3> QED
      BY <1>2, <2>2, <3>2, AppendProperties DEF State
  <2>4. Sound(Cancel(tts), cmds', jobThread, m)
    BY <2>1, <2>3, SoundLoad
  <2>5. cmds' \in Seq(Cmd)
    <3>1. Command("LoadTts") \in Cmd
      BY CommandType DEF CmdKinds
    <3>2. Append(cmds, Command("CancelTtsWorker")) \in Seq(Cmd)
      BY <2>3 DEF State
    <3>3. Append(Append(cmds, Command("CancelTtsWorker")), Command("LoadTts")) \in Seq(Cmd)
      BY <3>1, <3>2, AppendProperties
    <3> QED
      BY <2>1, <3>2, <3>3 DEF LoadTts
  <2>6. State(Cancel(tts), cmds', jobThread, m)
    BY <1>2, <2>5 DEF State
  <2> QED
    BY <2>1, <2>4, <2>6, SoundCleanup
<1>4. CASE ~tts.inFlight
  <2>1. PumpTtsSynth(BeginJob(Cancel(tts), s.segs), cmds, loaded)
    BY <1>4 DEF StartSpeakJob
  <2>2. BeginJob(Cancel(tts), s.segs) \in Controller
    BY <1>1, BeginJobType
  <2>3. Sound(BeginJob(Cancel(tts), s.segs), cmds, jobThread, m)
    BY <1>2, SoundBegin
  <2>4. State(BeginJob(Cancel(tts), s.segs), cmds, jobThread, m)
    BY <1>2, <2>2 DEF State
  <2> QED
    BY <2>1, <2>3, <2>4, SoundPump DEF PumpTtsSynth
<1> QED
  BY <1>3, <1>4

\* discard_all_tts_audio keeps the invariant.
LEMMA SoundDiscard ==
  ASSUME TypeOK, Sound(tts, cmds, jobThread, msgs), DiscardAllAudio
  PROVE  Sound(tts', cmds, jobThread, msgs)
<1>1. State(tts, cmds, jobThread, msgs) /\ Cancel(tts) \in Controller
  BY CancelType DEF State, TypeOK
<1>2. Sound(Cancel(tts), cmds, jobThread, msgs)
  BY <1>1, SoundCancel
<1>3. /\ tts'.active = Cancel(tts).active /\ tts'.jobId = Cancel(tts).jobId
      /\ tts'.inFlight = Cancel(tts).inFlight /\ tts'.ready = Cancel(tts).ready
  BY <1>1 DEF DiscardAllAudio, Controller
<1> QED
  BY <1>2, <1>3, SoundSame

(* ... by the user's commands ...                                            *)

SoundNow == Sound(tts, cmds, jobThread, msgs)

\* Every command of the user keeps the invariant.
LEMMA UserSound ==
  ASSUME TypeOK, TypeOK', SoundNow, User
  PROVE  SoundNow'
<1>1. State(tts, cmds, jobThread, msgs) /\ Cancel(tts) \in Controller
  BY CancelType DEF State, TypeOK
<1>2. jobThread' = jobThread /\ msgs' = msgs
  BY DEF User, Speak, StopSpeech, UnloadVoice, UnloadAll, LoadVoice, LoadDictation, UserActs,
         Replay, PauseResume, workerVars
<1>3. SUFFICES Sound(tts', cmds', jobThread, msgs)
  BY <1>2 DEF SoundNow
<1>4. /\ \A kind \in CmdKinds : Command(kind) \in Cmd /\ Command(kind).job = NoJob
      /\ \A kind : Command(kind).kind = kind
  BY CommandType DEF Command
<1>5. CASE \E n \in SegmentCounts : Speak(n)
  <2>1. PICK n \in SegmentCounts : Speak(n)
    BY <1>5
  <2>2. requests' \in Nat /\ n \in Nat
    BY PipelineAssumption DEF TypeOK
  <2> DEFINE s == [req |-> requests', segs |-> n]
  <2>3. s \in [req : Nat, segs : Nat]
    BY <2>2
  <2>4. \/ LoadTts(cmds, ttsLoaded, ttsLoading) /\ tts' = tts
        \/ StartSpeakJob(s, pendingSpeak, ttsLoaded, ttsLoading)
    BY <2>1 DEF Speak
  <2> HIDE DEF s
  <2> QED
    BY <1>1, <2>3, <2>4, SoundLoad, SoundStart DEF SoundNow, TypeOK
<1>6. CASE StopSpeech
  <2>1. CleanupChunkTemps(Cancel(tts), Stop(transport))
    BY <1>6 DEF StopSpeech
  <2>2. Sound(tts', cmds, jobThread, msgs)
    BY <1>1, <2>1, SoundCancel, SoundCleanup DEF State, SoundNow
  <2>3. cmds' = cmds \/ cmds' = Append(cmds, Command("CancelTtsWorker"))
    BY <1>6 DEF StopSpeech
  <2>4. State(tts', cmds, jobThread, msgs)
    BY <1>1 DEF State, TypeOK
  <2> QED
    BY <1>4, <2>2, <2>3, <2>4, SoundSend DEF CmdKinds
<1>7. CASE UnloadVoice \/ UnloadAll
  <2>1. Sound(tts', cmds, jobThread, msgs)
    BY <1>7, SoundDiscard DEF UnloadVoice, UnloadAll, SoundNow
  <2>2. State(tts', cmds, jobThread, msgs)
    BY <1>1 DEF State, TypeOK
  <2>3. Sound(tts', Append(cmds, Command("Unload")), jobThread, msgs)
    BY <1>4, <2>1, <2>2, SoundSend DEF CmdKinds
  <2>4. Sound(tts', Append(Append(cmds, Command("CancelTtsWorker")), Command("Unload")), jobThread, msgs)
    <3>1. /\ Sound(tts', Append(cmds, Command("CancelTtsWorker")), jobThread, msgs)
          /\ Command("CancelTtsWorker") \in Cmd
      BY <1>4, <2>1, <2>2, SoundSend DEF CmdKinds
    <3>2. State(tts', Append(cmds, Command("CancelTtsWorker")), jobThread, msgs)
      BY <2>2, <3>1, AppendProperties DEF State
    <3> QED
      BY <1>4, <3>1, <3>2, SoundSend DEF CmdKinds
  <2>5. cmds \o << Command("CancelTtsWorker"), Command("Unload") >>
          = Append(Append(cmds, Command("CancelTtsWorker")), Command("Unload"))
    BY <1>1, <1>4 DEF State, CmdKinds
  <2> QED
    BY <1>7, <2>3, <2>4, <2>5 DEF UnloadVoice, UnloadAll
<1>8. CASE LoadVoice
  BY <1>1, <1>8, SoundLoad DEF LoadVoice, SoundNow
<1>9. CASE LoadDictation
  <2>1. cmds' = Append(cmds, Command("LoadStt")) /\ tts' = tts
    BY <1>9 DEF LoadDictation
  <2> QED
    BY <1>1, <1>4, <2>1, SoundSend DEF SoundNow, CmdKinds
<1>10. CASE Replay \/ PauseResume
  BY <1>10 DEF Replay, PauseResume, SoundNow
<1> QED
  BY <1>5, <1>6, <1>7, <1>8, <1>9, <1>10 DEF User

(* ... by the handlers of messages ...                                       *)

\* A message that is not an answer for the live job leaves the queue.
LEMMA SoundDropMsg ==
  ASSUME TypeOK, SoundNow, NEW kind, Receive(kind),
         tts.active # NoJob => ~Carries(Head(msgs), tts.active)
  PROVE  Sound(tts, cmds, jobThread, msgs')
<1>1. State(tts, cmds, jobThread, msgs) /\ msgs # << >> /\ msgs' = Tail(msgs)
  BY DEF State, TypeOK, Receive
<1> QED
  BY <1>1, SoundStale DEF SoundNow

\* An answer for the live job leaves the queue.
LEMMA SoundTakeAnswer ==
  ASSUME TypeOK, SoundNow, NEW kind \in {"TtsChunkReady", "TtsChunkFailed"}, Receive(kind),
         Live(tts, Head(msgs).job),
         NEW u \in Controller, u.active = tts.active, u.jobId = tts.jobId, ~u.inFlight,
         Len(u.ready) <= Len(tts.ready) + 1
  PROVE  Sound(u, cmds, jobThread, msgs')
<1>1. State(tts, cmds, jobThread, msgs) /\ msgs # << >> /\ msgs' = Tail(msgs)
  BY DEF State, TypeOK, Receive
<1>2. tts.active # NoJob /\ Carries(Head(msgs), tts.active)
  BY DEF Live, Carries, Receive
<1> QED
  BY <1>1, <1>2, SoundAnswer DEF SoundNow

\* Every message handler keeps the invariant.
LEMMA HandleMsgSound ==
  ASSUME TypeOK, TypeOK', SoundNow, HandleMsg
  PROVE  SoundNow'
<1>1. tts \in Controller /\ msgs' \in Seq(Msg) /\ cmds \in Seq(Cmd)
      /\ jobThread \in Cmd \union {Idle} /\ pendingSpeak \in [req : Nat, segs : Nat]
      /\ ttsLoaded \in BOOLEAN
  BY DEF TypeOK
<1>2. jobThread' = jobThread
  BY DEF HandleMsg, OnModelStatus, OnTtsLoaded, OnWorkerTimedOut, OnChunkReadyMsg,
         OnChunkFailedMsg, Receive
<1>3. SUFFICES Sound(tts', cmds', jobThread, msgs')
  BY <1>2 DEF SoundNow
<1>4. CASE OnModelStatus
  BY <1>4, SoundDropMsg DEF OnModelStatus, Receive, Carries
<1>5. CASE OnWorkerTimedOut
  BY <1>5, SoundDropMsg DEF OnWorkerTimedOut, Receive, Carries
<1>6. CASE OnTtsLoaded
  <2>1. Receive("TtsLoaded")
    BY <1>6 DEF OnTtsLoaded
  <2>2. Sound(tts, cmds, jobThread, msgs') /\ State(tts, cmds, jobThread, msgs')
    BY <1>1, <2>1, SoundDropMsg DEF Receive, Carries, State
  <2>3. \/ StartSpeakJob(pendingSpeak, NoSpeak, TRUE, FALSE)
        \/ PumpTtsSynth(tts, cmds, TRUE)
        \/ UNCHANGED << tts, cmds >>
    BY <1>6 DEF OnTtsLoaded
  <2> QED
    BY <1>1, <2>2, <2>3, SoundStart, SoundPump DEF PumpTtsSynth
<1>7. CASE OnChunkReadyMsg
  <2> DEFINE h == Head(msgs)
             t == OnChunkReady(tts, h.job, h.index)
  <2>1. Receive("TtsChunkReady") /\ h \in Msg
    BY <1>7, ReceiveType DEF OnChunkReadyMsg
  <2>2. CASE ~Live(tts, h.job)
    <3>1. Sound(tts, cmds, jobThread, msgs')
      BY <2>1, <2>2, SoundDropMsg DEF Live, Carries
    <3> QED
      BY <1>7, <2>2, <3>1 DEF OnChunkReadyMsg
  <2>3. CASE Live(tts, h.job)
    <3>1. t \in Controller
      BY <1>1, <2>1, OnChunkReadyType DEF Msg
    <3>2. /\ t.active = tts.active /\ t.jobId = tts.jobId /\ ~t.inFlight
          /\ t.ready = Append(tts.ready, [job |-> h.job, index |-> h.index])
      BY <1>1 DEF OnChunkReady, Controller
    <3>3. Len(t.ready) <= Len(tts.ready) + 1
      <4>1. [job |-> h.job, index |-> h.index] \in Chunk /\ tts.ready \in Seq(Chunk)
        BY <1>1, <2>1 DEF Msg, Chunk, Controller
      <4>2. Len(t.ready) = Len(tts.ready) + 1 /\ Len(tts.ready) \in Nat
        BY <3>2, <4>1, AppendProperties, LenProperties
      <4> QED
        BY <4>2
    <3>4. (tts' = t /\ cmds' = cmds) \/ PumpTtsSynth(t, cmds, ttsLoaded)
      BY <1>7, <2>3 DEF OnChunkReadyMsg
    <3> HIDE DEF t
    <3>5. Sound(t, cmds, jobThread, msgs') /\ State(t, cmds, jobThread, msgs')
      BY <1>1, <2>1, <2>3, <3>1, <3>2, <3>3, SoundTakeAnswer DEF State
    <3> QED
      BY <1>1, <3>4, <3>5, SoundPump DEF PumpTtsSynth
  <2> QED
    BY <2>2, <2>3
<1>8. CASE OnChunkFailedMsg
  <2> DEFINE h == Head(msgs)
             t == OnChunkFailed(tts, h.index)
  <2>1. Receive("TtsChunkFailed") /\ h \in Msg
    BY <1>8, ReceiveType DEF OnChunkFailedMsg
  <2>2. CASE ~Live(tts, h.job)
    <3>1. Sound(tts, cmds, jobThread, msgs')
      BY <2>1, <2>2, SoundDropMsg DEF Live, Carries
    <3> QED
      BY <1>8, <2>2, <3>1 DEF OnChunkFailedMsg
  <2>3. CASE Live(tts, h.job)
    <3>1. t \in Controller
      BY <1>1, <2>1, OnChunkFailedType DEF Msg
    <3>2. /\ t.active = tts.active /\ t.jobId = tts.jobId /\ ~t.inFlight
          /\ t.ready = tts.ready
      BY <1>1 DEF OnChunkFailed, Controller
    <3>3. Len(t.ready) <= Len(tts.ready) + 1
      <4>1. Len(tts.ready) \in Nat
        BY <1>1, LenProperties DEF Controller
      <4> QED
        BY <3>2, <4>1
    <3>4. /\ IF ~ttsLoaded THEN LoadTts(cmds, ttsLoaded, ttsLoading)
                           ELSE cmds' = PumpedCmds(t, cmds, TRUE)
          /\ \/ tts' = Pumped(t, ttsLoaded)
             \/ FinalizeIfDone(Pumped(t, ttsLoaded), SetPendingQueue(transport, FALSE))
      BY <1>8, <2>3 DEF OnChunkFailedMsg
    <3> HIDE DEF t
    <3>5. Sound(t, cmds, jobThread, msgs') /\ State(t, cmds, jobThread, msgs')
      BY <1>1, <2>1, <2>3, <3>1, <3>2, <3>3, SoundTakeAnswer DEF State
    <3>6. Sound(Pumped(t, ttsLoaded), cmds', jobThread, msgs')
      <4>1. CASE ~ttsLoaded
        <5>1. Pumped(t, ttsLoaded) = t
          BY <4>1 DEF Pumped, Pumps
        <5> QED
          BY <3>4, <3>5, <4>1, <5>1, SoundLoad
      <4>2. CASE ttsLoaded
        BY <3>4, <3>5, <4>2, SoundPump
      <4> QED
        BY <4>1, <4>2
    <3>7. State(Pumped(t, ttsLoaded), cmds', jobThread, msgs')
      BY <1>1, <3>1, PumpedType DEF State, TypeOK
    <3> QED
      BY <3>4, <3>6, <3>7, SoundFinalize
  <2> QED
    BY <2>2, <2>3
<1> QED
  BY <1>4, <1>5, <1>6, <1>7, <1>8 DEF HandleMsg

(* ... by the transport poll and the hand-over loop ...                      *)

\* poll_transport and try_play_next_ready keep the invariant.
LEMMA PollSound ==
  ASSUME TypeOK, TypeOK', SoundNow, PollTransport \/ HandOver
  PROVE  SoundNow'
<1>1. State(tts, cmds, jobThread, msgs) /\ cmds' \in Seq(Cmd) /\ ttsLoaded \in BOOLEAN
  BY DEF State, TypeOK
<1>2. jobThread' = jobThread /\ msgs' = msgs
  BY DEF PollTransport, HandOver, HandOverNext, HandOverEnds, workerVars
<1>3. SUFFICES Sound(tts', cmds', jobThread, msgs)
  BY <1>2 DEF SoundNow
<1>4. CASE PollTransport
  <2> DEFINE tr   == Tick(transport)
             asks == tr.status = "playing" /\ ttsLoaded
             t    == Pumped(tts, asks)
  <2>1. /\ cmds' = PumpedCmds(tts, cmds, asks)
        /\ \/ tts' = t
           \/ \E u : FinalizeIfDone(t, u)
    BY <1>4 DEF PollTransport
  <2>2. asks \in BOOLEAN /\ t \in Controller
    BY PumpedType DEF TypeOK
  <2> HIDE DEF tr, asks
  <2>3. Sound(t, cmds', jobThread, msgs)
    BY <1>1, <2>1, <2>2, SoundPump DEF SoundNow
  <2>4. State(t, cmds', jobThread, msgs)
    BY <1>1, <2>2 DEF State
  <2> HIDE DEF t
  <2> QED
    BY <2>1, <2>3, <2>4, SoundFinalize
<1>5. CASE \E appends \in BOOLEAN, o \in StartOutcome : HandOverNext(appends, o)
  <2> DEFINE t == PopReady(tts)
  <2>1. /\ tts.ready # << >>
        /\ \/ tts' = t /\ cmds' = cmds
           \/ PumpTtsSynth(t, cmds, ttsLoaded)
           \/ (\E u : FinalizeIfDone(t, u)) /\ cmds' = cmds
    BY <1>5 DEF HandOverNext
  <2>2. t \in Controller /\ Sound(t, cmds, jobThread, msgs)
    BY <1>1, <2>1, PopReadyType, SoundPop DEF State, SoundNow
  <2>3. State(t, cmds, jobThread, msgs)
    BY <1>1, <2>2 DEF State
  <2> HIDE DEF t
  <2> QED
    BY <1>1, <2>1, <2>2, <2>3, SoundPump, SoundFinalize DEF PumpTtsSynth
<1>6. CASE HandOverEnds
  BY <1>1, <1>6, SoundPump DEF HandOverEnds, PumpTtsSynth, SoundNow
<1> QED
  BY <1>4, <1>5, <1>6 DEF HandOver

(* ... and by the job thread and the processes outside.                      *)

\* The replies of the job thread: one message, or a sequence whose last message
\* alone may be an answer (app/jobs.rs sends the answer last).
LEMMA Replies ==
  ASSUME NEW a \in Msg, NEW b \in Msg, NEW c \in Msg, NEW j
  PROVE  /\ ~Carries(a, j) => None(<< a >>, j)
         /\ Carries(a, j)  => One(<< a >>, j)
         /\ ~Carries(a, j) /\ ~Carries(b, j) => None(<< a, b >>, j)
         /\ ~Carries(a, j) /\ ~Carries(b, j) /\ ~Carries(c, j) => None(<< a, b, c >>, j)
         /\ ~Carries(a, j) /\ ~Carries(b, j) /\ Carries(c, j) => One(<< a, b, c >>, j)
<1> DEFINE s == << a, b, c >>
<1>1. /\ DOMAIN << a >> = {1} /\ << a >>[1] = a
      /\ DOMAIN << a, b >> = {1, 2} /\ << a, b >>[1] = a /\ << a, b >>[2] = b
      /\ DOMAIN s = {1, 2, 3} /\ s[1] = a /\ s[2] = b /\ s[3] = c
  OBVIOUS
<1> HIDE DEF s
<1>2. /\ ~Carries(a, j) => None(<< a >>, j)
      /\ Carries(a, j)  => One(<< a >>, j)
      /\ ~Carries(a, j) /\ ~Carries(b, j) => None(<< a, b >>, j)
  BY <1>1 DEF None, One
<1>3. /\ ~Carries(a, j) /\ ~Carries(b, j) /\ ~Carries(c, j) => None(s, j)
      /\ ~Carries(a, j) /\ ~Carries(b, j) /\ Carries(c, j) => One(s, j)
  BY <1>1 DEF None, One
<1> QED
  BY <1>2, <1>3 DEF s

\* Replies about ids handed out name ids handed out.
LEMMA RepliesHandedOut ==
  ASSUME NEW a \in Msg, NEW b \in Msg, NEW c \in Msg, NEW n \in Nat,
         a.job <= n, b.job <= n, c.job <= n
  PROVE  HandedOut(<< a >>, n) /\ HandedOut(<< a, b >>, n) /\ HandedOut(<< a, b, c >>, n)
<1> DEFINE s == << a, b, c >>
<1>1. /\ DOMAIN << a >> = {1} /\ << a >>[1] = a
      /\ DOMAIN << a, b >> = {1, 2} /\ << a, b >>[1] = a /\ << a, b >>[2] = b
      /\ DOMAIN s = {1, 2, 3} /\ s[1] = a /\ s[2] = b /\ s[3] = c
  OBVIOUS
<1> HIDE DEF s
<1>2. HandedOut(s, n)
  BY <1>1 DEF HandedOut
<1> QED
  BY <1>1, <1>2 DEF HandedOut, s

\* What the job thread posts when it finishes jobThread answers it.
LEMMA ServeSound ==
  ASSUME TypeOK, SoundNow, NEW kind \in CmdKinds, Serving(kind), NEW s \in Seq(Msg), Post(s),
         HandedOut(s, tts.jobId),
         IF Carries(jobThread, tts.active) THEN One(s, tts.active) ELSE None(s, tts.active)
  PROVE  SoundNow'
<1>1. /\ tts' = tts /\ cmds' = cmds /\ jobThread' = Idle /\ msgs' = msgs \o s
  BY DEF Serving, Post, uiVars
<1>2. State(tts, cmds, jobThread, msgs)
  BY DEF State, TypeOK
<1> QED
  BY <1>1, <1>2, SoundServe DEF SoundNow

\* The job thread keeps the invariant: it answers each synthesis once.
LEMMA JobThreadSound ==
  ASSUME TypeOK, SoundNow, JobThread
  PROVE  SoundNow'
<1>1. State(tts, cmds, jobThread, msgs) /\ tts.jobId \in Nat
  BY DEF State, TypeOK, Controller
<1>2. CASE TakeCmd
  BY <1>1, <1>2, SoundTake DEF TakeCmd, SoundNow, uiVars
<1>3. /\ \A b \in BOOLEAN : /\ ModelStatus(b) \in Msg /\ ModelStatus(b).job = NoJob
                            /\ TtsLoaded(b) \in Msg /\ TtsLoaded(b).job = NoJob
      /\ \A b, j : ~Carries(ModelStatus(b), j) /\ ~Carries(TtsLoaded(b), j)
      /\ NoJob <= tts.jobId
  BY <1>1 DEF ModelStatus, TtsLoaded, Msg, MsgKinds, Carries, NoJob
<1>4. ASSUME NEW kind \in CmdKinds, Serving(kind), kind # "Synthesize",
             NEW a \in BOOLEAN, NEW b \in BOOLEAN,
             Post(<< ModelStatus(a) >>) \/ Post(<< TtsLoaded(b), ModelStatus(a) >>)
      PROVE  SoundNow'
  <2>1. ~Carries(jobThread, tts.active)
    BY <1>4 DEF Serving, Carries, CmdKinds
  <2>2. /\ None(<< ModelStatus(a) >>, tts.active)
        /\ None(<< TtsLoaded(b), ModelStatus(a) >>, tts.active)
    BY <1>3, Replies
  <2>3. /\ HandedOut(<< ModelStatus(a) >>, tts.jobId)
        /\ HandedOut(<< TtsLoaded(b), ModelStatus(a) >>, tts.jobId)
    BY <1>1, <1>3, RepliesHandedOut
  <2>4. << ModelStatus(a) >> \in Seq(Msg) /\ << TtsLoaded(b), ModelStatus(a) >> \in Seq(Msg)
    BY <1>3
  <2> QED
    BY <1>4, <2>1, <2>2, <2>3, <2>4, ServeSound
<1>5. CASE ServeLoadTts
  BY <1>4, <1>5 DEF ServeLoadTts, CmdKinds
<1>6. CASE ServeCancelTtsWorker
  BY <1>4, <1>6 DEF ServeCancelTtsWorker, CmdKinds
<1>7. CASE ServeUnload
  <2>1. policy' \in BOOLEAN /\ Serving("Unload") /\ Post(<< ModelStatus(policy') >>)
    BY <1>7, UnloadedType DEF ServeUnload
  <2> QED
    BY <1>4, <2>1 DEF CmdKinds
<1>8. CASE ServeLoadStt
  <2>1. policy' \in BOOLEAN /\ Serving("LoadStt") /\ Post(<< ModelStatus(policy') >>)
    BY <1>8, UnloadedType DEF ServeLoadStt, TypeOK
  <2> QED
    BY <1>4, <2>1 DEF CmdKinds
<1>9. CASE ServeSynthesize
  <2>1. Serving("Synthesize") /\ jobThread \in Cmd
    BY <1>9, ServingType DEF ServeSynthesize, CmdKinds
  <2> DEFINE ready == ChunkReady(jobThread)
             failed == ChunkFailed(jobThread)
             timedOut == TimedOut(jobThread)
  <2>2. /\ ready \in Msg /\ failed \in Msg /\ timedOut \in Msg
        /\ ready.job = jobThread.job /\ failed.job = jobThread.job
        /\ timedOut.job = jobThread.job
    BY <2>1 DEF ChunkReady, ChunkFailed, TimedOut, Msg, MsgKinds, Cmd
  <2>3. /\ Carries(jobThread, tts.active) <=> Carries(ready, tts.active)
        /\ Carries(jobThread, tts.active) <=> Carries(failed, tts.active)
        /\ ~Carries(timedOut, tts.active)
    BY <2>1 DEF ChunkReady, ChunkFailed, TimedOut, Carries, Serving
  <2>4. jobThread.job <= tts.jobId
    BY DEF SoundNow, Sound, Known
  <2>5. \E a \in BOOLEAN :
          \/ Post(<< ready >>) \/ Post(<< failed >>)
          \/ Post(<< timedOut, ModelStatus(a), failed >>)
    BY <1>9 DEF ServeSynthesize
  <2>6. PICK a \in BOOLEAN :
          \/ Post(<< ready >>) \/ Post(<< failed >>)
          \/ Post(<< timedOut, ModelStatus(a), failed >>)
    BY <2>5
  <2> HIDE DEF ready, failed, timedOut
  <2>7. /\ HandedOut(<< ready >>, tts.jobId) /\ HandedOut(<< failed >>, tts.jobId)
        /\ HandedOut(<< timedOut, ModelStatus(a), failed >>, tts.jobId)
    BY <1>1, <1>3, <2>2, <2>4, RepliesHandedOut
  <2>8. /\ << ready >> \in Seq(Msg) /\ << failed >> \in Seq(Msg)
        /\ << timedOut, ModelStatus(a), failed >> \in Seq(Msg)
    BY <1>3, <2>2
  <2>9. CASE Carries(jobThread, tts.active)
    <3>1. /\ One(<< ready >>, tts.active) /\ One(<< failed >>, tts.active)
          /\ One(<< timedOut, ModelStatus(a), failed >>, tts.active)
      BY <1>3, <2>2, <2>3, <2>9, Replies
    <3> QED
      BY <2>1, <2>6, <2>7, <2>8, <2>9, <3>1, ServeSound DEF CmdKinds
  <2>10. CASE ~Carries(jobThread, tts.active)
    <3>1. /\ None(<< ready >>, tts.active) /\ None(<< failed >>, tts.active)
          /\ None(<< timedOut, ModelStatus(a), failed >>, tts.active)
      BY <1>3, <2>2, <2>3, <2>10, Replies
    <3> QED
      BY <2>1, <2>6, <2>7, <2>8, <2>10, <3>1, ServeSound DEF CmdKinds
  <2> QED
    BY <2>9, <2>10
<1> QED
  BY <1>2, <1>5, <1>6, <1>7, <1>8, <1>9 DEF JobThread

\* The processes outside do not touch what the invariant speaks of.
LEMMA OutsideSound ==
  ASSUME SoundNow, PlayerAdvances \/ PlayerDies \/ WorkerDies \/ UNCHANGED vars
  PROVE  SoundNow'
BY DEF SoundNow, PlayerAdvances, PlayerDies, WorkerDies, vars, uiVars, workerVars

\* The invariant holds initially.
LEMMA InitSound == Init => SoundNow
<1> SUFFICES ASSUME Init PROVE SoundNow
  OBVIOUS
<1>1. NewController \in Controller /\ ~NewController.inFlight /\ NewController.ready = << >>
      /\ NewController.active = NoJob /\ NewController.jobId = 0
  BY EmptySeq DEF NewController, Controller, NoJob
<1>2. Bounded(NewController)
  BY <1>1, BoundedCases, EmptySeq, PrebufferAssumption
<1>3. /\ HandedOut(<< >>, NewController.jobId)
  BY DEF HandedOut
<1> QED
  BY <1>1, <1>2, <1>3 DEF Init, SoundNow, Sound, Flight, Known, Idle, NoJob

\* Sound is an invariant of the pipeline.
THEOREM SoundCorrect == Spec => [](TypeOK /\ SoundNow)
<1>1. Init => TypeOK /\ SoundNow
  BY InitType, InitSound
<1>2. ASSUME TypeOK, SoundNow, [Next]_vars
      PROVE  TypeOK' /\ SoundNow'
  <2>1. TypeOK'
    BY <1>2, NextType
  <2> QED
    BY <1>2, <2>1, UserSound, HandleMsgSound, PollSound, JobThreadSound, OutsideSound DEF Next
<1>3. TypeOK /\ SoundNow /\ [Next]_vars => TypeOK' /\ SoundNow'
  BY <1>2
<1> QED
  BY <1>1, <1>3, PTL DEF Spec

\* A single carrier makes a single outstanding synthesis; none makes none.
LEMMA OneOutstanding ==
  ASSUME TypeOK, NEW j
  PROVE  /\ Clear(j, cmds, jobThread, msgs) => Outstanding(j) = {}
         /\ Single(j, cmds, jobThread, msgs) =>
              /\ Outstanding(j) # {}
              /\ \A p, q \in Outstanding(j) : p = q
<1>1. \A q : None(q, j) => Carriers(q, j) = {}
  BY DEF None, Carriers
<1>2. \A q : One(q, j) => \E k \in DOMAIN q : Carriers(q, j) = {k}
  BY DEF One, Carriers
<1>3. DOMAIN << jobThread >> = {1} /\ << jobThread >>[1] = jobThread
  OBVIOUS
<1>4. /\ Carries(jobThread, j) => Carriers(<< jobThread >>, j) = {1}
      /\ ~Carries(jobThread, j) => Carriers(<< jobThread >>, j) = {}
  BY <1>3 DEF Carriers
<1>5. Clear(j, cmds, jobThread, msgs) => Outstanding(j) = {}
  BY <1>1, <1>4 DEF Clear, Outstanding
<1>6. ASSUME Single(j, cmds, jobThread, msgs)
      PROVE  \E p : Outstanding(j) = {p}
  <2>1. CASE One(cmds, j) /\ ~Carries(jobThread, j) /\ None(msgs, j)
    <3>1. PICK k : Carriers(cmds, j) = {k}
      BY <1>2, <2>1
    <3>2. Outstanding(j) = {<< "cmds", k >>}
      BY <1>1, <1>4, <2>1, <3>1 DEF Outstanding
    <3> QED
      BY <3>2
  <2>2. CASE None(cmds, j) /\ Carries(jobThread, j) /\ None(msgs, j)
    <3>1. Outstanding(j) = {<< "jobThread", 1 >>}
      BY <1>1, <1>4, <2>2 DEF Outstanding
    <3> QED
      BY <3>1
  <2>3. CASE None(cmds, j) /\ ~Carries(jobThread, j) /\ One(msgs, j)
    <3>1. PICK k : Carriers(msgs, j) = {k}
      BY <1>2, <2>3
    <3>2. Outstanding(j) = {<< "msgs", k >>}
      BY <1>1, <1>4, <2>3, <3>1 DEF Outstanding
    <3> QED
      BY <3>2
  <2> QED
    BY <1>6, <2>1, <2>2, <2>3 DEF Single
<1> QED
  BY <1>5, <1>6

\* A live job has exactly the synthesis its flag tells.
THEOREM OneSynthCorrect == Spec => []OneSynthInFlight
<1>1. ASSUME TypeOK, SoundNow
      PROVE  OneSynthInFlight
  <2>1. SUFFICES ASSUME tts.active # NoJob
                 PROVE  /\ tts.inFlight <=> Outstanding(tts.active) # {}
                        /\ \A p, q \in Outstanding(tts.active) : p = q
    BY DEF OneSynthInFlight
  <2>2. tts.inFlight \in BOOLEAN
    BY <1>1 DEF TypeOK, Controller
  <2>3. CASE tts.inFlight
    BY <1>1, <2>1, <2>3, OneOutstanding DEF SoundNow, Sound, Flight
  <2>4. CASE ~tts.inFlight
    BY <1>1, <2>1, <2>4, OneOutstanding DEF SoundNow, Sound, Flight
  <2> QED
    BY <2>2, <2>3, <2>4
<1>2. TypeOK /\ SoundNow => OneSynthInFlight
  BY <1>1
<1> QED
  BY <1>2, SoundCorrect, PTL

\* The prebuffer is bounded, the chunk being made counted in.
THEOREM PrebufferCorrect == Spec => []PrebufferBounded
<1>1. TypeOK /\ SoundNow => PrebufferBounded
  BY DEF SoundNow, Sound, Bounded, PrebufferBounded
<1> QED
  BY <1>1, SoundCorrect, PTL

\* No command and no message names a job id that is still to be handed out.
THEOREM JobIdsCorrect == Spec => []JobIdsHandedOut
<1>1. TypeOK /\ SoundNow => JobIdsHandedOut
  BY DEF SoundNow, Sound, Known, JobIdsHandedOut
<1> QED
  BY <1>1, SoundCorrect, PTL
=============================================================================
