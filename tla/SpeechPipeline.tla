---------------------------- MODULE SpeechPipeline ---------------------------
(***************************************************************************)
(* Chunked text-to-speech across the threads and processes of yapper: the  *)
(* UI thread (user commands, job messages, the transport poll), the        *)
(* yapper-jobs thread that serves the command queue one command at a time, *)
(* the TTS worker process it owns, and the audio player process.           *)
(*                                                                         *)
(* A UI handler is one action, except for the loop of try_play_next_ready, *)
(* whose iterations are steps of their own (uiStep says which handler is   *)
(* in the loop): the other threads run while it starts players.  The job   *)
(* thread takes a command in one step and finishes it in another, with     *)
(* whatever the worker answered.  What can go wrong outside the program is *)
(* a disturbance; a configuration says which ones occur and how many.      *)
(***************************************************************************)
EXTENDS AudioTransport

CONSTANTS
  SegmentCounts,    \* how many segments a text may split into
  Disturbances,     \* which disturbances the environment may cause
  MaxDisturbances,  \* bound: disturbances in a behaviour
  MaxUserActions    \* bound: commands of the user (Speak, Stop, Unload, ...)

AllDisturbances ==
  { "evict",       \* loading the dictation model takes the voice model's memory
    "loadError",   \* the worker does not load the model
    "synthError",  \* the worker answers a synthesis with an error
    "synthHang",   \* a synthesis times out or the worker dies in it
    "workerDies",  \* the idle worker process dies
    "unloadError", \* the worker fails to unload
    "fallback", "noPlayer", "spawnError", "missing", \* StartOutcome, but for mpv
    "appendError", \* mpv refuses an append
    "playerDies" } \* the player process dies

\* split_for_tts of a non-empty text returns at least one segment.
ASSUME PipelineAssumption ==
  /\ SegmentCounts \subseteq Nat \ {0}
  /\ Disturbances \subseteq AllDisturbances
  /\ MaxDisturbances \in Nat /\ MaxUserActions \in Nat

VARIABLES
  tts,          \* TtsController
  transport,    \* AudioTransport with its player
  fullPath,     \* tts_last_full_path names a file
  ttsLoaded,    \* the UI's tts_loaded badge
  ttsLoading,   \* the UI's tts_loading
  pendingSpeak, \* pending_speak: the request waiting for the model
  uiStep,       \* "frame", or the handler that is in the hand-over loop
  cmds,         \* the queue of JobCmd
  msgs,         \* the queue of AppMsg
  jobThread,    \* the command being served, or Idle
  policy,       \* policy.tts.loaded
  proc,         \* the TTS worker process
  spoken,       \* history: chunks of the current job whose sound began
  dropped,      \* history: segments of the current job given up
  request,      \* history: the Speak request the current job serves
  requests,     \* history: number of Speak requests so far
  stopped,      \* history: the last request a Stop or an unload cancelled
  userActions, disturbances

uiVars     == << tts, transport, fullPath, ttsLoaded, ttsLoading, pendingSpeak, uiStep >>
workerVars == << jobThread, policy, proc >>
speechVars == << spoken, dropped, request >>
userVars   == << requests, stopped, userActions >>
vars == << uiVars, cmds, msgs, workerVars, speechVars, userVars, disturbances >>

-----------------------------------------------------------------------------
(* Commands, messages, processes.                                          *)

CmdKinds == {"LoadTts", "Synthesize", "CancelTtsWorker", "Unload", "LoadStt"}
MsgKinds == {"ModelStatus", "TtsLoaded", "TtsChunkReady", "TtsChunkFailed",
             "WorkerTimedOut"}

Cmd == [kind : CmdKinds, job : Nat, index : Nat]
Msg == [kind : MsgKinds, job : Nat, index : Nat, ok : BOOLEAN]

Command(kind)   == [kind |-> kind, job |-> NoJob, index |-> 0]
Synthesize(j, i) == [kind |-> "Synthesize", job |-> j, index |-> i]
Idle == [kind |-> "idle", job |-> NoJob, index |-> 0]

ModelStatus(loaded) == [kind |-> "ModelStatus", job |-> NoJob, index |-> 0, ok |-> loaded]
TtsLoaded(ok)       == [kind |-> "TtsLoaded", job |-> NoJob, index |-> 0, ok |-> ok]
ChunkReady(c)       == [kind |-> "TtsChunkReady", job |-> c.job, index |-> c.index, ok |-> TRUE]
ChunkFailed(c)      == [kind |-> "TtsChunkFailed", job |-> c.job, index |-> c.index, ok |-> FALSE]
TimedOut(c)         == [kind |-> "WorkerTimedOut", job |-> c.job, index |-> c.index, ok |-> FALSE]

NoSpeak == [req |-> 0, segs |-> 0]

\* A process is "fresh" while the load that spawned it runs: its pid is not
\* yet in the registry the UI kills from.  It is "empty" when it dropped a model
\* the policy still counts.
ProcStates == {"none", "fresh", "up", "empty", "dead"}
Registered == {"up", "empty"}
Killed(p)  == IF p \in Registered THEN "dead" ELSE p

Disturbed(d) ==
  /\ d \in Disturbances
  /\ disturbances < MaxDisturbances
  /\ disturbances' = disturbances + 1

Undisturbed == UNCHANGED disturbances

Init ==
  /\ tts = NewController
  /\ transport = NewTransport
  /\ fullPath = FALSE
  /\ ttsLoaded = FALSE /\ ttsLoading = FALSE
  /\ pendingSpeak = NoSpeak
  /\ uiStep = "frame"
  /\ cmds = << >> /\ msgs = << >>
  /\ jobThread = Idle /\ policy = FALSE /\ proc = "none"
  /\ spoken = << >> /\ dropped = {}
  /\ request = 0 /\ requests = 0 /\ stopped = 0
  /\ userActions = 0 /\ disturbances = 0

-----------------------------------------------------------------------------
(* Parts of the UI handlers.  Each constrains the variables it names.      *)

\* pump_tts_synth, on the controller t, the command queue q and the badge.
Pumps(t, loaded)  == loaded /\ ShouldRequestSynth(t)
Pumped(t, loaded) == IF Pumps(t, loaded) THEN MarkSynthStarted(t) ELSE t
PumpedCmds(t, q, loaded) ==
  IF Pumps(t, loaded) THEN Append(q, Synthesize(t.active, Head(t.pending).index)) ELSE q

PumpTtsSynth(t, q, loaded) ==
  /\ tts' = Pumped(t, loaded)
  /\ cmds' = PumpedCmds(t, q, loaded)

\* Mutant: no load while commands are queued.
LoadTtsWhenIdle(q, loaded, loading) ==
  IF loading \/ loaded \/ q # << >>
    THEN cmds' = q /\ ttsLoading' = loading
    ELSE cmds' = Append(q, Command("LoadTts")) /\ ttsLoading' = TRUE

\* load_tts: nothing while a load runs or the model is loaded.
LoadTts(q, loaded, loading) ==
  IF loading \/ loaded
    THEN cmds' = q /\ ttsLoading' = loading
    ELSE cmds' = Append(q, Command("LoadTts")) /\ ttsLoading' = TRUE

ForgetSpeech == spoken' = << >> /\ dropped' = {} /\ request' = 0

\* cleanup_chunk_temps_keeping_replay, on the stopped transport tr.
CleanupChunkTemps(t, tr) ==
  LET keep == fullPath \/ tr.last
  IN  /\ tts' = [t EXCEPT !.chunkPaths = IF keep THEN 1 ELSE 0]
      /\ fullPath' = keep
      /\ transport' = IF keep THEN RememberPath(tr) ELSE tr

\* start_speak_job for the request s; rest is what pending_speak holds if the
\* job starts now.  A synthesis in flight is killed and the job waits for the
\* worker to load again.
StartSpeakJob(s, rest, loaded, loading) ==
  \/ /\ tts.inFlight
     /\ CleanupChunkTemps(Cancel(tts), Stop(transport))
     /\ proc' = Killed(proc)
     /\ ttsLoaded' = FALSE
     /\ pendingSpeak' = s
     /\ LoadTts(Append(cmds, Command("CancelTtsWorker")), FALSE, loading)
     /\ ForgetSpeech
  \/ /\ ~tts.inFlight
     /\ transport' = SetPendingQueue(Stop(transport), s.segs > 1)
     /\ PumpTtsSynth(BeginJob(Cancel(tts), s.segs), cmds, loaded)
     /\ pendingSpeak' = rest
     /\ ttsLoaded' = loaded /\ ttsLoading' = loading
     /\ spoken' = << >> /\ dropped' = {} /\ request' = s.req
     /\ UNCHANGED << proc, fullPath >>

\* Mutant: an idle transport ends the job, whatever it still has to say.
FinalizeWhenIdle(t, tr) ==
  IF t.active # NoJob /\ tr.status = "idle"
    THEN /\ tts' = EndJob(t)
         /\ fullPath' = (fullPath \/ t.chunkPaths > 0)
         /\ transport' = IF t.chunkPaths > 0 THEN RememberPath(tr) ELSE tr
    ELSE tts' = t /\ transport' = tr /\ UNCHANGED fullPath

\* finalize_tts_job_if_done, on the controller t and the transport tr.
FinalizeIfDone(t, tr) ==
  IF t.active # NoJob /\ ~HasWork(t) /\ tr.status = "idle"
    THEN /\ tts' = EndJob(t)
         /\ fullPath' = (fullPath \/ t.chunkPaths > 0)
         /\ transport' = IF t.chunkPaths > 0 THEN RememberPath(tr) ELSE tr
    ELSE tts' = t /\ transport' = tr /\ UNCHANGED fullPath

-----------------------------------------------------------------------------
(* The user's commands: the Speak tab, the hotkey and the local API.       *)

UserActs ==
  /\ uiStep = "frame"
  /\ userActions < MaxUserActions
  /\ userActions' = userActions + 1
  /\ UNCHANGED << uiStep, msgs, jobThread, policy, disturbances >>

\* do_speak of a text of n segments.
Speak(n) ==
  /\ UserActs
  /\ requests' = requests + 1
  /\ LET s == [req |-> requests', segs |-> n] IN
     \/ /\ ~ttsLoaded
        /\ pendingSpeak' = s
        /\ LoadTts(cmds, ttsLoaded, ttsLoading)
        /\ UNCHANGED << tts, transport, fullPath, ttsLoaded, proc, speechVars >>
     \/ /\ ttsLoaded
        /\ StartSpeakJob(s, pendingSpeak, ttsLoaded, ttsLoading)
  /\ UNCHANGED stopped

\* cancel_tts_pipeline: the Stop button and POST /v1/stop.
StopSpeech ==
  /\ UserActs
  /\ CleanupChunkTemps(Cancel(tts), Stop(transport))
  /\ pendingSpeak' = NoSpeak
  /\ IF tts.inFlight
       THEN /\ proc' = Killed(proc)
            /\ cmds' = Append(cmds, Command("CancelTtsWorker"))
            /\ ttsLoaded' = FALSE
       ELSE UNCHANGED << proc, cmds, ttsLoaded >>
  /\ ForgetSpeech
  /\ stopped' = requests
  /\ UNCHANGED << ttsLoading, requests >>

\* Mutant: the request that waits for the model is forgotten.
DiscardPlayingAudio ==
  /\ tts' = [Cancel(tts) EXCEPT !.chunkPaths = 0]
  /\ transport' = ClearLastPath(Stop(transport))
  /\ fullPath' = FALSE
  /\ UNCHANGED pendingSpeak
  /\ ForgetSpeech
  /\ stopped' = requests

\* discard_all_tts_audio
DiscardAllAudio ==
  /\ tts' = [Cancel(tts) EXCEPT !.chunkPaths = 0]
  /\ transport' = ClearLastPath(Stop(transport))
  /\ fullPath' = FALSE
  /\ pendingSpeak' = NoSpeak
  /\ ForgetSpeech
  /\ stopped' = requests

\* unload_tts: the worker is not killed, a synthesis in flight runs on.
UnloadVoice ==
  /\ UserActs
  /\ DiscardAllAudio
  /\ cmds' = Append(cmds, Command("Unload"))
  /\ UNCHANGED << ttsLoaded, ttsLoading, proc, requests >>

\* unload_all_models, as far as it concerns the voice model.
UnloadAll ==
  /\ UserActs
  /\ DiscardAllAudio
  /\ proc' = Killed(proc)
  /\ IF tts.inFlight
       THEN /\ cmds' = cmds \o << Command("CancelTtsWorker"), Command("Unload") >>
            /\ ttsLoaded' = FALSE
       ELSE /\ cmds' = Append(cmds, Command("Unload"))
            /\ UNCHANGED ttsLoaded
  /\ UNCHANGED << ttsLoading, requests >>

\* The Load voice button.
LoadVoice ==
  /\ UserActs
  /\ ~ttsLoading
  /\ LoadTts(cmds, ttsLoaded, ttsLoading)
  /\ UNCHANGED << tts, transport, fullPath, ttsLoaded, pendingSpeak, proc,
                  speechVars, requests, stopped >>

\* A dictation that loads its model: the job thread may evict the voice model.
LoadDictation ==
  /\ UserActs
  /\ cmds' = Append(cmds, Command("LoadStt"))
  /\ UNCHANGED << tts, transport, fullPath, ttsLoaded, ttsLoading, pendingSpeak,
                  proc, speechVars, requests, stopped >>

TtsBusy ==
  \/ tts.active # NoJob
  \/ tts.inFlight
  \/ pendingSpeak # NoSpeak
  \/ transport.status # "idle"

\* What starting a player or appending costs the environment; after an append
\* that fails the player may fail to start as well.
PlayerOutcome(appends, o) ==
  \/ appends /\ o = "ipc" /\ Undisturbed
  \/ appends /\ o # "ipc" /\ Disturbed(o)
  \/ ~appends /\ Disturbed("appendError")

\* replay_last: the Replay button.  Without a file nothing happens.
Replay ==
  /\ uiStep = "frame"
  /\ userActions < MaxUserActions
  /\ userActions' = userActions + 1
  /\ ~TtsBusy
  /\ fullPath \/ transport.last
  /\ \E o \in StartOutcome :
       /\ PlayerOutcome(TRUE, o)
       /\ IF o = "missing"
            THEN UNCHANGED << transport, fullPath >>
            ELSE transport' = PlayFile(transport, ReplayItem, o) /\ fullPath' = TRUE
  /\ UNCHANGED << tts, ttsLoaded, ttsLoading, pendingSpeak, uiStep, cmds, msgs,
                  workerVars, speechVars, requests, stopped >>

\* The Pause/Resume button, enabled only over mpv's IPC.
PauseResume ==
  /\ uiStep = "frame"
  /\ transport.backend = "ipc"
  /\ transport.status \in {"playing", "paused"}
  /\ transport' = TogglePause(transport)
  /\ UNCHANGED << tts, fullPath, ttsLoaded, ttsLoading, pendingSpeak, uiStep,
                  cmds, msgs, workerVars, speechVars, userVars, disturbances >>

-----------------------------------------------------------------------------
(* handle_app_msg, one action per message.                                 *)

Receive(kind) ==
  /\ uiStep = "frame"
  /\ msgs # << >>
  /\ Head(msgs).kind = kind
  /\ msgs' = Tail(msgs)
  /\ UNCHANGED << jobThread, policy, userVars, disturbances >>

OnModelStatus ==
  /\ Receive("ModelStatus")
  /\ ttsLoaded' = Head(msgs).ok
  /\ UNCHANGED << tts, transport, fullPath, ttsLoading, pendingSpeak, uiStep,
                  cmds, proc, speechVars >>

OnTtsLoaded ==
  /\ Receive("TtsLoaded")
  /\ \/ /\ Head(msgs).ok
        /\ pendingSpeak # NoSpeak
        /\ StartSpeakJob(pendingSpeak, NoSpeak, TRUE, FALSE)
     \/ /\ Head(msgs).ok
        /\ pendingSpeak = NoSpeak
        /\ ttsLoaded' = TRUE /\ ttsLoading' = FALSE
        /\ PumpTtsSynth(tts, cmds, TRUE)
        /\ UNCHANGED << transport, fullPath, pendingSpeak, proc, speechVars >>
     \/ /\ ~Head(msgs).ok
        /\ ttsLoading' = FALSE
        /\ pendingSpeak' = NoSpeak
        /\ UNCHANGED << tts, transport, fullPath, ttsLoaded, cmds, proc, speechVars >>
  /\ UNCHANGED uiStep

\* A synthesis of the live job failed: the badge goes out.  A stale one is
\* the expected end of a kill and changes nothing.
OnWorkerTimedOut ==
  /\ Receive("WorkerTimedOut")
  /\ IF Live(tts, Head(msgs).job)
       THEN ttsLoaded' = FALSE /\ ttsLoading' = FALSE
       ELSE UNCHANGED << ttsLoaded, ttsLoading >>
  /\ UNCHANGED << tts, transport, fullPath, pendingSpeak, uiStep, cmds, proc, speechVars >>

OnChunkReadyMsg ==
  /\ Receive("TtsChunkReady")
  /\ LET m  == Head(msgs)
         t  == OnChunkReady(tts, m.job, m.index)
         tr == SetPendingQueue(transport, TRUE)   \* ready is not empty
     IN \/ /\ ~Live(tts, m.job)
           /\ UNCHANGED << tts, transport, uiStep, cmds >>
        \/ /\ Live(tts, m.job)
           /\ transport' = tr
           /\ IF CanHandOver(tr)
                THEN tts' = t /\ uiStep' = "ready" /\ UNCHANGED cmds
                ELSE PumpTtsSynth(t, cmds, ttsLoaded) /\ UNCHANGED uiStep
  /\ UNCHANGED << fullPath, ttsLoaded, ttsLoading, pendingSpeak, proc, speechVars >>

\* on_chunk_failed, a reload or the next synthesis, then try_play_next_ready
\* on the controller that leaves.
OnChunkFailedMsg ==
  /\ Receive("TtsChunkFailed")
  /\ LET m == Head(msgs)
         t == OnChunkFailed(tts, m.index)
     IN \/ /\ ~Live(tts, m.job)
           /\ UNCHANGED << tts, transport, fullPath, ttsLoading, uiStep, cmds, dropped >>
        \/ /\ Live(tts, m.job)
           /\ dropped' = IF Skips(tts, m.index) THEN dropped \union {m.index} ELSE dropped
           /\ IF ~ttsLoaded
                THEN LoadTts(cmds, ttsLoaded, ttsLoading)
                ELSE cmds' = PumpedCmds(t, cmds, TRUE) /\ UNCHANGED ttsLoading
           /\ LET t1   == Pumped(t, ttsLoaded)
                  over == CanStart(transport) /\ ~HasWork(t1)
              IN /\ uiStep' = IF t1.ready # << >> /\ CanHandOver(transport)
                                THEN "failed" ELSE uiStep
                 /\ IF over
                      THEN FinalizeIfDone(t1, SetPendingQueue(transport, FALSE))
                      ELSE tts' = t1 /\ UNCHANGED << transport, fullPath >>
  /\ UNCHANGED << ttsLoaded, pendingSpeak, proc, spoken, request >>

-----------------------------------------------------------------------------
(* poll_transport, once per frame, and the hand-over loop.                 *)

PollTransport ==
  /\ uiStep = "frame"
  /\ LET tr    == Tick(transport)
         asks  == tr.status = "playing" /\ ttsLoaded
         t     == Pumped(tts, asks)
     IN /\ cmds' = PumpedCmds(tts, cmds, asks)
        /\ IF t.ready # << >> /\ CanHandOver(tr)
             THEN /\ uiStep' = "poll"
                  /\ tts' = t /\ transport' = tr /\ UNCHANGED fullPath
             ELSE /\ UNCHANGED uiStep
                  /\ LET done == CanStart(tr) /\ t.ready = << >> /\ t.pending = << >> /\ ~t.inFlight
                     IN  FinalizeIfDone(t, IF done THEN SetPendingQueue(tr, FALSE) ELSE tr)
  /\ UNCHANGED << ttsLoaded, ttsLoading, pendingSpeak, msgs, workerVars,
                  speechVars, userVars, disturbances >>

Indices(items) == {items[k].index : k \in {n \in DOMAIN items : items[n].job # NoJob}}

\* One iteration: pop a chunk and hand it to the player.  A failure ends the
\* loop, and the handler that was in it runs to its end.
HandOverNext(appends, o) ==
  /\ uiStep # "frame"
  /\ tts.ready # << >> /\ CanHandOver(transport)
  /\ PlayerOutcome(appends, o)
  /\ LET chunk == Head(tts.ready)
         t     == PopReady(tts)
         tr    == SetPendingQueue(transport, HasWork(t))
         next  == EnqueueOrPlay(tr, chunk, appends, o)
         failed == Fails(tr, appends, o)
         lost  == IF CanAppend(tr) /\ ~appends
                    THEN Indices(Tail(tr.playlist)) ELSE {}
     IN /\ spoken' = IF failed \/ Appends(tr, appends, o)
                       THEN spoken ELSE Append(spoken, chunk.index)
        /\ dropped' = dropped \union lost
                        \union (IF failed THEN {chunk.index} ELSE {})
        /\ \/ /\ ~failed
              /\ tts' = t /\ transport' = next
              /\ UNCHANGED << fullPath, uiStep, cmds >>
           \/ /\ failed /\ uiStep = "ready"
              /\ uiStep' = "frame"
              /\ transport' = next
              /\ PumpTtsSynth(t, cmds, ttsLoaded)
              /\ UNCHANGED fullPath
           \/ /\ failed /\ uiStep = "failed"
              /\ uiStep' = "frame"
              /\ tts' = t /\ transport' = next
              /\ UNCHANGED << fullPath, cmds >>
           \/ /\ failed /\ uiStep = "poll"
              /\ uiStep' = "frame"
              /\ FinalizeIfDone(t, next)
              /\ UNCHANGED cmds
  /\ UNCHANGED << ttsLoaded, ttsLoading, pendingSpeak, msgs, workerVars,
                  request, userVars >>

HandOverEnds ==
  /\ uiStep # "frame"
  /\ tts.ready = << >> \/ ~CanHandOver(transport)
  /\ uiStep' = "frame"
  /\ PumpTtsSynth(tts, cmds, ttsLoaded)
  /\ UNCHANGED << transport, fullPath, ttsLoaded, ttsLoading, pendingSpeak, msgs,
                  workerVars, speechVars, userVars, disturbances >>

HandOver ==
  \/ \E appends \in BOOLEAN, o \in StartOutcome : HandOverNext(appends, o)
  \/ HandOverEnds

-----------------------------------------------------------------------------
(* The yapper-jobs thread: job_loop and handle_cmd.                        *)

\* Taking a load of a model that is not loaded spawns a worker if none runs.
TakeCmd ==
  /\ jobThread = Idle
  /\ cmds # << >>
  /\ jobThread' = Head(cmds)
  /\ cmds' = Tail(cmds)
  /\ proc' = IF Head(cmds).kind = "LoadTts" /\ ~policy /\ proc \notin Registered
               THEN "fresh" ELSE proc
  /\ UNCHANGED << uiVars, msgs, policy, speechVars, userVars, disturbances >>

Serving(kind) ==
  /\ jobThread.kind = kind
  /\ jobThread' = Idle
  /\ UNCHANGED << uiVars, cmds, speechVars, userVars >>

Post(ms) == msgs' = msgs \o ms

\* The worker is killed and reaped, the model counts as unloaded.
KillWorker == proc' = "none" /\ policy' = FALSE

\* LoadTts: a loaded model is kept; otherwise the worker loads it, or fails
\* and lives on, or is killed on the load timeout, or was killed meanwhile.
ServeLoadTts ==
  /\ Serving("LoadTts")
  /\ \/ /\ policy
        /\ Post(<< TtsLoaded(TRUE), ModelStatus(TRUE) >>)
        /\ Undisturbed /\ UNCHANGED << policy, proc >>
     \/ /\ ~policy /\ proc \in {"up", "fresh"}
        /\ policy' = TRUE /\ proc' = "up"
        /\ Post(<< TtsLoaded(TRUE), ModelStatus(TRUE) >>)
        /\ Undisturbed
     \/ /\ ~policy /\ proc \in {"up", "fresh"}
        /\ Disturbed("loadError")
        /\ proc' \in {"up", "none"}
        /\ Post(<< TtsLoaded(FALSE), ModelStatus(FALSE) >>)
        /\ UNCHANGED policy
     \/ /\ ~policy /\ proc = "dead"
        /\ Post(<< TtsLoaded(FALSE), ModelStatus(FALSE) >>)
        /\ Undisturbed /\ UNCHANGED << policy, proc >>

\* Synthesize: refused when no model is loaded; any request error kills the
\* worker, an error the worker answers does not, and an empty worker has no other
\* answer.
ServeSynthesize ==
  /\ Serving("Synthesize")
  /\ \/ /\ ~policy
        /\ Post(<< ChunkFailed(jobThread) >>)
        /\ Undisturbed /\ UNCHANGED << policy, proc >>
     \/ /\ policy /\ proc = "up"
        /\ Post(<< ChunkReady(jobThread) >>)
        /\ Undisturbed /\ UNCHANGED << policy, proc >>
     \/ /\ policy
        /\ \/ proc = "up" /\ Disturbed("synthError")
           \/ proc = "empty" /\ Undisturbed
        /\ Post(<< TimedOut(jobThread), ModelStatus(TRUE), ChunkFailed(jobThread) >>)
        /\ UNCHANGED << policy, proc >>
     \/ /\ policy
        /\ \/ proc \in Registered /\ Disturbed("synthHang")
           \/ proc = "dead" /\ Undisturbed
        /\ KillWorker
        /\ Post(<< TimedOut(jobThread), ModelStatus(FALSE), ChunkFailed(jobThread) >>)

\* Mutant: the kill is not reported.
ServeCancelSilently ==
  /\ Serving("CancelTtsWorker")
  /\ KillWorker
  /\ UNCHANGED msgs
  /\ Undisturbed

ServeCancelTtsWorker ==
  /\ Serving("CancelTtsWorker")
  /\ KillWorker
  /\ Post(<< ModelStatus(FALSE) >>)
  /\ Undisturbed

\* unload_timeout: the worker drops the model and stays up; one that is dead is
\* killed and reaped.
UnloadDone ==
  /\ policy' = FALSE
  /\ proc' = CASE proc = "dead"  -> "none"
              [] proc = "empty" -> "up"
              [] OTHER          -> proc

\* A worker that answers an error dropped the model too, but is not marked
\* unloaded; one that does not answer in time is killed.
UnloadFails ==
  /\ proc \in Registered
  /\ \/ /\ proc' = IF policy THEN "empty" ELSE proc
        /\ UNCHANGED policy
     \/ KillWorker

\* Unload, and UnloadAll as far as it concerns the voice model.
ServeUnload ==
  /\ Serving("Unload")
  /\ \/ UnloadDone /\ Undisturbed
     \/ UnloadFails /\ Disturbed("unloadError")
  /\ Post(<< ModelStatus(policy') >>)

\* LoadStt under memory pressure unloads the voice model and, if it could, tries
\* again.
ServeLoadStt ==
  /\ Serving("LoadStt")
  /\ \/ Undisturbed /\ UNCHANGED << policy, proc >>
     \/ /\ policy
        /\ Disturbed("evict")
        /\ UnloadDone \/ UnloadFails
  /\ Post(<< ModelStatus(policy') >>)

JobThread ==
  \/ TakeCmd
  \/ ServeLoadTts \/ ServeSynthesize \/ ServeCancelTtsWorker
  \/ ServeUnload \/ ServeLoadStt

-----------------------------------------------------------------------------
(* The processes outside.                                                  *)

\* The player finishes what it plays and goes on to the next item, or exits.
PlayerAdvances ==
  /\ transport.playlist # << >>
  /\ transport.status # "paused"
  /\ LET rest == Tail(transport.playlist)
     IN /\ transport' = [transport EXCEPT !.playlist = rest]
        /\ spoken' = IF rest # << >> THEN Append(spoken, Head(rest).index) ELSE spoken
  /\ UNCHANGED << tts, fullPath, ttsLoaded, ttsLoading, pendingSpeak, uiStep, cmds,
                  msgs, workerVars, dropped, request, userVars, disturbances >>

PlayerDies ==
  /\ transport.playlist # << >>
  /\ Disturbed("playerDies")
  /\ transport' = [transport EXCEPT !.playlist = << >>]
  /\ dropped' = dropped \union Indices(Tail(transport.playlist))
  /\ UNCHANGED << tts, fullPath, ttsLoaded, ttsLoading, pendingSpeak, uiStep, cmds,
                  msgs, workerVars, spoken, request, userVars >>

WorkerDies ==
  /\ proc \in Registered
  /\ Disturbed("workerDies")
  /\ proc' = "dead"
  /\ UNCHANGED << uiVars, cmds, msgs, jobThread, policy, speechVars, userVars >>

-----------------------------------------------------------------------------
User ==
  \/ \E n \in SegmentCounts : Speak(n)
  \/ StopSpeech \/ UnloadVoice \/ UnloadAll \/ LoadVoice \/ LoadDictation
  \/ Replay \/ PauseResume

HandleMsg ==
  \/ OnModelStatus \/ OnTtsLoaded \/ OnWorkerTimedOut
  \/ OnChunkReadyMsg \/ OnChunkFailedMsg

Next ==
  \/ User \/ HandleMsg \/ PollTransport \/ HandOver
  \/ JobThread \/ PlayerAdvances \/ PlayerDies \/ WorkerDies

\* Frames repeat while the window lives: messages are drained and the
\* transport is polled in every one.  The job thread's requests all have
\* timeouts, so each command it takes ends.  A player that is not paused
\* gets to the end of its playlist.  The user owes nothing.
Fairness ==
  /\ WF_vars(HandleMsg)
  /\ WF_vars(PollTransport)
  /\ WF_vars(HandOver)
  /\ WF_vars(JobThread)
  /\ WF_vars(PlayerAdvances)

Spec     == Init /\ [][Next]_vars
FairSpec == Spec /\ Fairness

-----------------------------------------------------------------------------
(* Properties.                                                             *)

TypeOK ==
  /\ tts \in Controller
  /\ transport \in Transport
  /\ fullPath \in BOOLEAN /\ ttsLoaded \in BOOLEAN /\ ttsLoading \in BOOLEAN
  /\ pendingSpeak \in [req : Nat, segs : Nat]
  /\ uiStep \in {"frame", "ready", "failed", "poll"}
  /\ cmds \in Seq(Cmd) /\ msgs \in Seq(Msg)
  /\ jobThread \in Cmd \union {Idle}
  /\ policy \in BOOLEAN /\ proc \in ProcStates
  /\ spoken \in Seq(Nat) /\ dropped \subseteq Nat
  /\ request \in Nat /\ requests \in Nat /\ stopped \in Nat
  /\ userActions \in Nat /\ disturbances \in Nat

\* A command, the command being served or a message that carries a synthesis
\* of job j: asked for, with the worker, or answered.
Carries(x, j) ==
  x.kind \in {"Synthesize", "TtsChunkReady", "TtsChunkFailed"} /\ x.job = j

Carriers(q, j) == {k \in DOMAIN q : Carries(q[k], j)}

Outstanding(j) ==
  ({"cmds"} \X Carriers(cmds, j)) \union ({"msgs"} \X Carriers(msgs, j))
    \union ({"jobThread"} \X Carriers(<< jobThread >>, j))

\* synth_in_flight tells the truth: a live job has one synthesis outstanding
\* while it is set and none otherwise, whatever was killed, cancelled,
\* restarted or refused before (a second one would speak a segment twice, a
\* missing one would stop the job for good).
OneSynthInFlight ==
  tts.active # NoJob =>
    /\ tts.inFlight <=> Outstanding(tts.active) # {}
    /\ \A p, q \in Outstanding(tts.active) : p = q

\* The prebuffer is bounded with the chunk being made counted in: disk and
\* VRAM never hold more than MAX_READY_CHUNKS chunks ahead of the player.
PrebufferBounded ==
  Len(tts.ready) + (IF tts.inFlight THEN 1 ELSE 0) <= MaxReady

\* What the player still has to play belongs to the active job, or is a
\* replay while no job is active: a late answer of a stopped or restarted job
\* never reaches the player.
OnlyLiveSpeechPlays ==
  \A k \in DOMAIN transport.playlist :
    \/ transport.playlist[k].job = tts.active
    \/ transport.playlist[k] = ReplayItem /\ tts.active = NoJob

IndexSeq(items) == [k \in DOMAIN items |-> items[k].index]

\* The chunks the player has queued behind the one that is heard.
QueuedItems == IF transport.playlist = << >> THEN << >> ELSE Tail(transport.playlist)

InHandOrder ==
  spoken \o IndexSeq(QueuedItems) \o IndexSeq(tts.ready) \o IndexSeq(tts.pending)

\* The segments of a job are heard in the order of the text, none twice, and
\* each is heard, on its way, or accounted as given up: heard, queued in the
\* player, ready and pending ones follow each other in increasing order and
\* with the dropped ones make up the whole text.
SpeechInOrder ==
  tts.active # NoJob =>
    LET s == InHandOrder
    IN /\ \A a, b \in DOMAIN s : a < b => s[a] < s[b]
       /\ {s[k] : k \in DOMAIN s} \union dropped = 0 .. tts.total - 1
       /\ {s[k] : k \in DOMAIN s} \intersect dropped = {}

Quiet == cmds = << >> /\ jobThread = Idle /\ msgs = << >>

\* When the job thread and both queues are at rest the badge the UI shows is
\* the policy's state: kills, stale snapshots and refused commands leave no
\* lasting disagreement.
BadgeAgreesWhenQuiet == Quiet => ttsLoaded = policy

\* What makes BadgeAgreesWhenQuiet inductive: a command that will post the
\* model's state is on its way, or the last message about the badge says it.
Telling   == {"LoadTts", "CancelTtsWorker", "Unload", "LoadStt"}
BadgeMsgs == {"ModelStatus", "TtsLoaded", "WorkerTimedOut"}

\* A badge that reads l reads p when the messages q are handled.
WillRead(q, l, p) ==
  \E k \in 0 .. Len(q) :
    /\ k = 0 => l = p
    /\ k # 0 => q[k].kind = "ModelStatus" /\ q[k].ok = p
    /\ \A n \in k + 1 .. Len(q) : q[n].kind \notin BadgeMsgs

BadgeTold ==
  \/ jobThread.kind \in Telling
  \/ \E k \in DOMAIN cmds : cmds[k].kind \in Telling
  \/ WillRead(msgs, ttsLoaded, policy)

LoadOutstanding ==
  \/ jobThread.kind = "LoadTts"
  \/ \E k \in DOMAIN cmds : cmds[k].kind = "LoadTts"
  \/ \E k \in DOMAIN msgs : msgs[k].kind = "TtsLoaded"

\* A text that waits for the voice model has a load on its way whose answer
\* will start it or give it up: no Speak waits for nothing.
WaitingSpeechHasLoad == pendingSpeak # NoSpeak => LoadOutstanding

\* What makes WaitingSpeechHasLoad and StoppedStaysStopped inductive: a set
\* ttsLoading has a load on its way too (a text that starts to wait while it is
\* set asks for none), and a waiting text is newer than the last Stop or unload.
LoadOnItsWay == ttsLoading \/ pendingSpeak # NoSpeak => LoadOutstanding
WaitingIsNew ==
  /\ pendingSpeak # NoSpeak => pendingSpeak.req > stopped
  /\ pendingSpeak.req <= requests /\ stopped <= requests

\* What makes OneSynthInFlight and PrebufferBounded inductive: no command and
\* no message names a job id that is still to be handed out, and only a live
\* job has a synthesis in flight.
HandedOut(q, n) == \A k \in DOMAIN q : q[k].job <= n

JobIdsHandedOut ==
  /\ tts.active <= tts.jobId /\ jobThread.job <= tts.jobId
  /\ HandedOut(cmds, tts.jobId) /\ HandedOut(msgs, tts.jobId)
  /\ tts.inFlight => tts.active # NoJob

\* The facts the proofs carry along with the properties they prove.
SpeechSupport == LoadOnItsWay /\ WaitingIsNew /\ JobIdsHandedOut /\ BadgeTold

\* A job is started only for a request made after the last Stop or unload: a
\* load that ends later does not bring a cancelled text back.
StoppedStaysStopped ==
  [][tts'.active \notin {NoJob, tts.active} => request' > stopped']_vars

\* A job that starts is the newest request: "a new request
\* interrupts/restarts an existing utterance" (docs/tts-api.md), an older
\* text never replaces a newer one.
NewestRequestStarts ==
  [][tts'.active \notin {NoJob, tts.active} => request' = requests']_vars

Promise == INSTANCE SpeechPromise WITH
  last <- tts.jobId, job <- tts.active, total <- tts.total,
  heard <- spoken, lost <- dropped

\* The pipeline keeps the promise of module SpeechPromise: a job is heard in
\* order and completes only when every segment was heard or given up.
KeepsPromise == Promise!Spec

\* The transport waits for a next chunk, and no segment is left to become one.
WaitsForNothing == transport.status = "buffering" /\ ~HasWork(tts)

\* The job has segments to synthesize, but its model did not load again.
WaitsForModel ==
  /\ tts.active # NoJob /\ tts.pending # << >> /\ ~tts.inFlight
  /\ ~ttsLoaded /\ ~LoadOutstanding

\* A job in progress ends or is paused, or it hangs in one of two ways: whatever
\* else fails, worker, player or file, is retried, skipped or given up.
JobEnds ==
  \A j \in 1 .. 3 * MaxUserActions :
    tts.active = j ~> (\/ tts.active # j
                       \/ transport.status = "paused"
                       \/ WaitsForNothing \/ WaitsForModel)

\* The transport buffers only for a queue that "is still synthesizing more
\* segments" (src/transport_machine.rs): with nothing left to synthesize or to
\* hand over it leaves the buffering state.
BufferingEndsWithTheQueue == WaitsForNothing ~> ~WaitsForNothing

\* A text that waits for the voice model is started or given up.
WaitingSpeechResolved ==
  \A r \in 1 .. MaxUserActions : pendingSpeak.req = r ~> pendingSpeak.req # r

\* The application comes to rest, with both queues empty: the Speak tab is idle
\* again, or paused, or its job hangs in one of the two ways.
ComesToRest ==
  []<>(Quiet /\ (~TtsBusy \/ transport.status = "paused" \/ WaitsForNothing \/ WaitsForModel))
=============================================================================
