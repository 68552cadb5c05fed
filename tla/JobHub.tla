-------------------------------- MODULE JobHub --------------------------------
(***************************************************************************)
(* The yapper-jobs thread (app/jobs.rs) with its WorkerManager, the two    *)
(* worker processes, and the UI thread, which queues commands and kills    *)
(* workers over the job thread's head by the pids registered in            *)
(* LiveWorkerPids (app/live_pids.rs).                                      *)
(*                                                                         *)
(* The job thread is in a request to one worker at a time: a command is    *)
(* taken in one step, each request it makes ends in another (job.at says   *)
(* which one it waits for), and the sync of the registry that follows      *)
(* every command is a step of its own.  A handler of the UI that kills is  *)
(* a list of steps (uiTodo), each atomic in the code: the swap of a        *)
(* registered pid, the signal to the pid swapped out, the send of a        *)
(* command.  The job thread runs between them.                             *)
(*                                                                         *)
(* When the UI stops a speech is the subject of module SpeechPipeline;     *)
(* here it may do so at any time.                                          *)
(***************************************************************************)
EXTENDS WorkerManager

CONSTANTS
  Handlers,         \* which handlers the UI runs
  Disturbances,     \* which disturbances the environment may cause
  MaxUserActions,   \* bound: handlers run in a behaviour
  MaxDisturbances   \* bound: disturbances in a behaviour

AllHandlers == {"load", "unload", "work", "stop", "unloadAll", "quit"}

AllDisturbances ==
  ErrorAnswers \union \* a worker answers an error
  UnreadAnswers \union \* a request fails and its worker runs on
  { "timeout",     \* a request times out
    "spawnError",  \* a worker process does not start
    "workerDies",  \* a worker process dies
    "pidReused" }  \* a process that is none of ours gets a free pid

ASSUME HubAssumption ==
  /\ Handlers \subseteq AllHandlers
  /\ Disturbances \subseteq AllDisturbances
  /\ MaxUserActions \in Nat /\ MaxDisturbances \in Nat

VARIABLES
  workers,   \* WorkerManager and the processes
  live,      \* LiveWorkerPids
  job,       \* what the job thread does
  cmds,      \* the queue of JobCmd
  told,      \* the last ModelStatus posted to the UI
  uiTodo,    \* what is left of the UI handler that runs
  app,       \* "up", "quitting" (on_exit runs or is to come), "gone"
  foreignHit,\* history: a signal was sent to a process that is none of ours
  unloadErr, \* history: roles whose worker answered the last unload by an error
  userActions, disturbances

uiVars   == << uiTodo, app, foreignHit, userActions >>
vars == << workers, live, job, cmds, told, uiVars, unloadErr, disturbances >>

-----------------------------------------------------------------------------
(* Commands, steps of the UI, positions of the job thread.                 *)

Command(kind, r, model) == [kind |-> kind, role |-> r, model |-> model]

Load(r, model) == Command("Load", r, model)      \* LoadStt, LoadTts
Unload(r)      == Command("Unload", r, NoModel)
Work(r)        == Command("Work", r, NoModel)    \* Transcribe, Synthesize
CancelTtsWorker == Command("CancelTtsWorker", "tts", NoModel)
ListTones      == Command("ListTones", "tts", NoModel)
UnloadAllCmd   == Command("UnloadAll", "stt", NoModel)
Shutdown       == Command("Shutdown", "stt", NoModel)
NoCmd          == Command("none", "stt", NoModel)

Cmds == [kind : {"Load", "Unload", "Work", "CancelTtsWorker", "ListTones",
                 "UnloadAll", "Shutdown", "none"},
         role : Roles, model : Models \union {NoModel}]

Swap(r)  == [step |-> "swap", role |-> r, pid |-> NoPid, cmd |-> NoCmd]
Signal(p) == [step |-> "signal", role |-> "stt", pid |-> p, cmd |-> NoCmd]
Send(c)  == [step |-> "send", role |-> "stt", pid |-> NoPid, cmd |-> c]
Exit     == [step |-> "exit", role |-> "stt", pid |-> NoPid, cmd |-> NoCmd]

UiSteps == [step : {"swap", "signal", "send", "exit"}, role : Roles,
            pid : Pids \union {NoPid}, cmd : Cmds]

KillAllNow == << Swap("tts"), Swap("stt") >>

\* Where the job thread is: between commands, about to sync the registry, in a
\* request, or gone.
Requests == {"unloadOld", "load", "evict", "retry", "unload", "unloadStt",
             "unloadTts", "work", "list", "downStt", "downTts"}
Positions == Requests \union {"idle", "sync", "exited"}

\* The role whose worker the request is for.
RequestRole ==
  CASE job.at = "evict" -> Peer(job.cmd.role)
    [] job.at \in {"unloadStt", "downStt"} -> "stt"
    [] job.at \in {"unloadTts", "downTts"} -> "tts"
    [] OTHER -> job.cmd.role

RequestCmd ==
  CASE job.at \in {"load", "retry"} -> "load"
    [] job.at \in {"unloadOld", "evict", "unload", "unloadStt", "unloadTts"} -> "unload"
    [] OTHER -> "other"

Disturbed(d) ==
  /\ d \in Disturbances
  /\ disturbances < MaxDisturbances
  /\ disturbances' = disturbances + 1

Undisturbed == UNCHANGED disturbances

Init ==
  /\ workers = NewManager
  /\ live = [r \in Roles |-> NoPid]
  /\ job = [at |-> "idle", cmd |-> NoCmd]
  /\ cmds = << ListTones >>    \* YapperApp::new
  /\ told = [r \in Roles |-> NoModel]
  /\ uiTodo = << >> /\ app = "up"
  /\ foreignHit = FALSE /\ unloadErr = {}
  /\ userActions = 0 /\ disturbances = 0

-----------------------------------------------------------------------------
(* Parts of handle_cmd.                                                    *)

SetWorkers(m, failed) ==
  /\ workers' = m
  /\ unloadErr' = {r \in unloadErr \union failed : m.loaded[r] # NoModel}

\* The job thread waits for the answer to its next request.
Asks(m, at, cmd) ==
  /\ SetWorkers(m, {})
  /\ job' = [at |-> at, cmd |-> cmd]
  /\ UNCHANGED << live, told >>

\* The command is done: sync_live_pids and push_status, then job_loop.
EndsFailing(m, failed) ==
  /\ SetWorkers(m, failed)
  /\ live' = WorkerPids(m)
  /\ told' = m.loaded
  /\ job' = [at |-> "sync", cmd |-> NoCmd]

Ends(m) == EndsFailing(m, {})

\* ensure_worker, then the request at; a spawn that fails ends the command.
EnsureThen(m, r, at, cmd) ==
  \/ Undisturbed /\ \E m2 \in Ensured(m, r) : Asks(m2, at, cmd)
  \/ ~Running(m, r) /\ Disturbed("spawnError") /\ Ends(Reap(m, r))

Takes(kind) ==
  /\ app # "gone"
  /\ job.at = "idle" /\ cmds # << >> /\ Head(cmds).kind = kind
  /\ cmds' = Tail(cmds)
  /\ UNCHANGED uiVars

-----------------------------------------------------------------------------
(* The job thread takes a command.                                         *)

\* Mutant: the model that is there is unloaded and loaded again.
TakeLoadAnew ==
  /\ Takes("Load")
  /\ LET c == Head(cmds)
         r == c.role IN
     \/ /\ workers.loaded[r] # NoModel
        /\ Asks(workers, "unloadOld", c)
        /\ Undisturbed
     \/ /\ workers.loaded[r] = NoModel
        /\ EnsureThen(workers, r, "load", c)

\* load_timeout: nothing if the model is loaded already, another model is
\* unloaded first.
TakeLoad ==
  /\ Takes("Load")
  /\ LET c == Head(cmds)
         r == c.role IN
     \/ /\ workers.loaded[r] = c.model
        /\ Ends(workers)
        /\ Undisturbed
     \/ /\ workers.loaded[r] \notin {NoModel, c.model}
        /\ Asks(workers, "unloadOld", c)
        /\ Undisturbed
     \/ /\ workers.loaded[r] = NoModel
        /\ EnsureThen(workers, r, "load", c)

\* Mutant: only the mark goes, the worker is not asked.
TakeUnloadMarkOnly ==
  /\ Takes("Unload")
  /\ Ends(MarkUnloaded(workers, Head(cmds).role))
  /\ Undisturbed

\* unload: without a worker only the mark goes.
TakeUnload ==
  /\ Takes("Unload")
  /\ LET c == Head(cmds) IN
     IF HasClient(workers, c.role)
       THEN Asks(workers, "unload", c)
       ELSE Ends(MarkUnloaded(workers, c.role))
  /\ Undisturbed

\* The second half of unload_all, on m.
UnloadTtsNext(m, failed, c) ==
  IF HasClient(m, "tts")
    THEN /\ SetWorkers(m, failed)
         /\ job' = [at |-> "unloadTts", cmd |-> c]
         /\ UNCHANGED << live, told >>
    ELSE EndsFailing(MarkUnloaded(m, "tts"), failed)

TakeUnloadAll ==
  /\ Takes("UnloadAll")
  /\ IF HasClient(workers, "stt")
       THEN Asks(workers, "unloadStt", Head(cmds))
       ELSE UnloadTtsNext(MarkUnloaded(workers, "stt"), {}, Head(cmds))
  /\ Undisturbed

\* Transcribe and Synthesize: refused unless the model is loaded.
TakeWork ==
  /\ Takes("Work")
  /\ LET c == Head(cmds) IN
     IF workers.loaded[c.role] = NoModel
       THEN /\ job' = [at |-> "sync", cmd |-> NoCmd]
            /\ UNCHANGED live
       ELSE /\ job' = [at |-> "work", cmd |-> c]
            /\ live' = WorkerPids(workers)
  /\ Undisturbed
  /\ UNCHANGED << workers, told, unloadErr >>

TakeCancelTtsWorker ==
  /\ Takes("CancelTtsWorker")
  /\ Ends(KillWorker(workers, "tts"))
  /\ Undisturbed

TakeListTones ==
  /\ Takes("ListTones")
  /\ EnsureThen(workers, "tts", "list", Head(cmds))

\* shutdown_all, one worker after the other.
DownTtsNext(m) ==
  IF HasClient(m, "tts")
    THEN Asks(m, "downTts", Shutdown)
    ELSE /\ SetWorkers([m EXCEPT !.loaded = NewManager.loaded], {})
         /\ job' = [at |-> "exited", cmd |-> NoCmd]
         /\ live' = [r \in Roles |-> NoPid]
         /\ UNCHANGED told

TakeShutdown ==
  /\ Takes("Shutdown")
  /\ IF HasClient(workers, "stt")
       THEN Asks(workers, "downStt", Shutdown)
       ELSE DownTtsNext(workers)
  /\ Undisturbed

\* sync_live_pids at the end of job_loop's body.
SyncLivePids ==
  /\ app # "gone" /\ job.at = "sync"
  /\ live' = WorkerPids(workers)
  /\ job' = [at |-> "idle", cmd |-> NoCmd]
  /\ UNCHANGED << workers, cmds, told, uiVars, unloadErr, disturbances >>

-----------------------------------------------------------------------------
(* A request ends with the answer a; m is what the answer leaves behind.   *)

InRequest(at) ==
  /\ job.at = at
  /\ UNCHANGED << cmds, uiVars >>

\* The environment's part in the answer.
Outcome(a) == IF a \in {"done", "lost"} THEN Undisturbed ELSE Disturbed(a)

\* The role that still counts as loaded because its worker refused to unload.
Refusing(r, a) == IF a \in ErrorAnswers THEN {r} ELSE {}

UnloadOldAnswered(a, m) ==
  /\ InRequest("unloadOld")
  /\ LET r == job.cmd.role
         u == UnloadAnswered(m, r, a) IN
     IF u.ok
       THEN EnsureThen(u.m, r, "load", job.cmd)
       ELSE EndsFailing(u.m, Refusing(r, a)) /\ Outcome(a)

LoadRequestAnswered(a, m) ==
  /\ InRequest("load")
  /\ LET r == job.cmd.role IN
     IF EvictsPeer(m, r, a)
       THEN IF HasClient(m, Peer(r))
              THEN Asks(m, "evict", job.cmd)
              ELSE Asks(MarkUnloaded(m, Peer(r)), "retry", job.cmd)
       ELSE Ends(LoadAnswered(m, r, job.cmd.model, a))
  /\ Outcome(a)

EvictAnswered(a, m) ==
  /\ InRequest("evict")
  /\ LET u == UnloadAnswered(m, RequestRole, a) IN
     IF u.ok
       THEN Asks(u.m, "retry", job.cmd)
       ELSE EndsFailing(u.m, Refusing(RequestRole, a))
  /\ Outcome(a)

\* The second try_load: whatever goes wrong now is only reported.
RetryAnswered(a, m) ==
  /\ InRequest("retry")
  /\ Ends(IF a = "done" THEN MarkLoaded(m, job.cmd.role, job.cmd.model) ELSE m)
  /\ Outcome(a)

UnloadRequestAnswered(a, m) ==
  /\ InRequest("unload")
  /\ EndsFailing(UnloadAnswered(m, job.cmd.role, a).m, Refusing(job.cmd.role, a))
  /\ Outcome(a)

\* Mutant: an unload that fails ends the command.
UnloadAllStops(a, m) ==
  /\ \/ /\ InRequest("unloadStt")
        /\ LET u == UnloadAnswered(m, "stt", a) IN
           IF u.ok THEN UnloadTtsNext(u.m, {}, job.cmd)
                   ELSE EndsFailing(u.m, Refusing("stt", a))
     \/ /\ InRequest("unloadTts")
        /\ EndsFailing(UnloadAnswered(m, "tts", a).m, Refusing("tts", a))
  /\ Outcome(a)

\* unload_all goes on whatever comes of the first unload.
UnloadAllAnswered(a, m) ==
  /\ \/ /\ InRequest("unloadStt")
        /\ UnloadTtsNext(UnloadAnswered(m, "stt", a).m, Refusing("stt", a), job.cmd)
     \/ /\ InRequest("unloadTts")
        /\ EndsFailing(UnloadAnswered(m, "tts", a).m, Refusing("tts", a))
  /\ Outcome(a)

\* Does the failed request cost the worker its life?  A transcription that
\* times out, or reads so, any synthesis whose request fails.
WorkKills(r, a) ==
  \/ a \in {"timeout", "unreadTimedOut"}
  \/ r = "tts" /\ a \in {"lost"} \union UnreadAnswers

\* Mutant: a failed synthesis is reported without the new status.
WorkAnsweredQuietly(a, m) ==
  /\ InRequest("work")
  /\ LET r  == job.cmd.role
         m2 == IF WorkKills(r, a) THEN KillWorker(m, r) ELSE m
     IN  /\ SetWorkers(m2, {})
         /\ live' = WorkerPids(m2)
         /\ job' = [at |-> "sync", cmd |-> NoCmd]
         /\ UNCHANGED told
  /\ Outcome(a)

\* Only a failure posts the status.
WorkAnswered(a, m) ==
  /\ InRequest("work")
  /\ LET r  == job.cmd.role
         m2 == IF WorkKills(r, a) THEN KillWorker(m, r) ELSE m
     IN  /\ SetWorkers(m2, {})
         /\ live' = WorkerPids(m2)
         /\ job' = [at |-> "sync", cmd |-> NoCmd]
         /\ told' = IF a = "done" THEN told ELSE m2.loaded
  /\ Outcome(a)

ListAnswered(a, m) ==
  /\ InRequest("list")
  /\ Ends(m)
  /\ Outcome(a)

\* WorkerClient::shutdown ignores the answer.
DownAnswered(a, m) ==
  /\ \/ /\ InRequest("downStt")
        /\ DownTtsNext(ShutDown(m, "stt"))
     \/ /\ InRequest("downTts")
        /\ DownTtsNext(ShutDown(m, "tts"))
  /\ Outcome(a)

\* How the error reads matters to a load, to a failed request also of a speech.
Matters(a) ==
  /\ a \in {"oom", "saysTimeout", "unreadOom"} => RequestCmd = "load"
  /\ a = "unreadTimedOut" => RequestCmd = "load" \/ job.at = "work"

\* The request the job thread is in ends with the answer a.
Answered(a) ==
  /\ app # "gone" /\ job.at \in Requests
  /\ Possible(workers, RequestRole, a)
  /\ Matters(a)
  /\ \E m \in AfterAnswer(workers, RequestRole, RequestCmd, job.cmd.model, a) :
       \/ UnloadOldAnswered(a, m)
       \/ LoadRequestAnswered(a, m)
       \/ EvictAnswered(a, m)
       \/ RetryAnswered(a, m)
       \/ UnloadRequestAnswered(a, m)
       \/ UnloadAllAnswered(a, m)
       \/ WorkAnswered(a, m)
       \/ ListAnswered(a, m)
       \/ DownAnswered(a, m)

-----------------------------------------------------------------------------
(* The UI thread.                                                          *)

Handles(handler, steps) ==
  /\ handler \in Handlers
  /\ app = "up" /\ uiTodo = << >>
  /\ userActions < MaxUserActions
  /\ userActions' = userActions + 1
  /\ uiTodo' = steps
  /\ UNCHANGED << workers, live, job, cmds, told, foreignHit, unloadErr, disturbances >>

LoadModel(r, model) == Handles("load", << Send(Load(r, model)) >>) /\ UNCHANGED app
UnloadModel(r)      == Handles("unload", << Send(Unload(r)) >>) /\ UNCHANGED app
StartWork(r)        == Handles("work", << Send(Work(r)) >>) /\ UNCHANGED app

\* cancel_tts_pipeline with a synthesis in flight.
StopSpeech ==
  Handles("stop", << Swap("tts"), Send(CancelTtsWorker) >>) /\ UNCHANGED app

\* unload_all_models, with or without a synthesis in flight.
UnloadAllModels(inFlight) ==
  /\ Handles("unloadAll",
       (IF inFlight THEN << Swap("tts"), Send(CancelTtsWorker) >> ELSE << >>)
         \o KillAllNow \o << Send(UnloadAllCmd) >>)
  /\ UNCHANGED app

\* arm_hard_quit_and_close, then on_exit with shutdown_bounded.  Its join waits
\* a bounded time, so nothing the job thread does can hold the exit back.
Quit ==
  /\ Handles("quit",
       KillAllNow \o << Send(UnloadAllCmd), Send(Shutdown) >> \o
       KillAllNow \o << Send(UnloadAllCmd), Send(Shutdown), Exit >>)
  /\ app' = "quitting"

UiTakes(step) ==
  /\ uiTodo # << >> /\ Head(uiTodo).step = step
  /\ UNCHANGED << told, unloadErr, userActions, disturbances >>

\* Mutant: the pid is taken out and never signalled.
SwapPidOnly ==
  /\ UiTakes("swap")
  /\ live' = [live EXCEPT ![Head(uiTodo).role] = NoPid]
  /\ uiTodo' = Tail(uiTodo)
  /\ UNCHANGED << workers, job, cmds, app, foreignHit >>

\* kill_tts_now, kill_stt_now: the registered pid is taken out,
SwapPid ==
  /\ UiTakes("swap")
  /\ LET r == Head(uiTodo).role IN
     /\ live' = [live EXCEPT ![r] = NoPid]
     /\ uiTodo' = IF live[r] = NoPid THEN Tail(uiTodo)
                                     ELSE << Signal(live[r]) >> \o Tail(uiTodo)
  /\ UNCHANGED << workers, job, cmds, app, foreignHit >>

\* then kill_os_pid signals it.
SignalPid ==
  /\ UiTakes("signal")
  /\ LET p == Head(uiTodo).pid IN
     /\ workers' = Sigkill(workers, p)
     /\ foreignHit' = (foreignHit \/ workers.procs[p].st = "foreign")
  /\ uiTodo' = Tail(uiTodo)
  /\ UNCHANGED << live, job, cmds, app >>

SendCmd ==
  /\ UiTakes("send")
  /\ cmds' = Append(cmds, Head(uiTodo).cmd)
  /\ uiTodo' = Tail(uiTodo)
  /\ UNCHANGED << workers, live, job, app, foreignHit >>

\* The application ends, the job thread with it.
ExitApp ==
  /\ UiTakes("exit")
  /\ uiTodo' = << >> /\ app' = "gone"
  /\ UNCHANGED << workers, live, job, cmds, foreignHit >>

-----------------------------------------------------------------------------
(* The processes.                                                          *)

SetProc(p, st) ==
  /\ workers' = [workers EXCEPT !.procs[p] = InState(st)]
  /\ UNCHANGED << live, job, cmds, told, uiVars, unloadErr >>

WorkerDies(p) ==
  /\ app # "gone" /\ workers.procs[p].st = "running"
  /\ Disturbed("workerDies")
  /\ SetProc(p, "zombie")

\* A free pid is handed out to a process that is none of ours, and comes back.
PidReused(p) ==
  /\ workers.procs[p].st = "free"
  /\ Disturbed("pidReused")
  /\ SetProc(p, "foreign")

ForeignEnds(p) ==
  /\ workers.procs[p].st = "foreign"
  /\ Undisturbed
  /\ SetProc(p, "free")

\* A worker whose parent is gone reads the end of its input and exits.
WorkerSeesEof(p) ==
  /\ app = "gone" /\ workers.procs[p].st = "running"
  /\ Undisturbed
  /\ SetProc(p, "free")

-----------------------------------------------------------------------------
TakeCmd ==
  \/ TakeLoad \/ TakeUnload \/ TakeUnloadAll \/ TakeWork
  \/ TakeCancelTtsWorker \/ TakeListTones \/ TakeShutdown

UiHandler ==
  \/ \E r \in Roles : \E model \in ModelsOf(r) : LoadModel(r, model)
  \/ \E r \in Roles : UnloadModel(r) \/ StartWork(r)
  \/ StopSpeech
  \/ \E inFlight \in BOOLEAN : UnloadAllModels(inFlight)
  \/ Quit

UiStep == SwapPid \/ SignalPid \/ SendCmd \/ ExitApp

Environment ==
  \E p \in Pids : WorkerDies(p) \/ PidReused(p) \/ ForeignEnds(p) \/ WorkerSeesEof(p)

Next ==
  \/ TakeCmd \/ SyncLivePids \/ (\E a \in Answers : Answered(a))
  \/ UiHandler \/ UiStep
  \/ Environment

Spec == Init /\ [][Next]_vars

\* The UI thread goes on with the handler it runs; the poll of a request finds
\* out that its worker is gone.  No worker owes an answer, and nothing waits for a
\* timeout.
FairSpec ==
  /\ Spec
  /\ WF_vars(UiStep)
  /\ WF_vars(Answered("lost"))

-----------------------------------------------------------------------------
TypeOK ==
  /\ workers \in Manager
  /\ \A r \in Roles : workers.loaded[r] \in ModelsOf(r) \union {NoModel}
  /\ live \in [Roles -> Pids \union {NoPid}]
  /\ job \in [at : Positions, cmd : Cmds]
  /\ cmds \in Seq(Cmds)
  /\ told \in [Roles -> Models \union {NoModel}]
  /\ uiTodo \in Seq(UiSteps)
  /\ app \in {"up", "quitting", "gone"}
  /\ foreignHit \in BOOLEAN
  /\ unloadErr \subseteq Roles
  /\ userActions \in Nat /\ disturbances \in Nat

RunningPids == {p \in Pids : workers.procs[p].st = "running"}

\* While the application is there each worker that runs is the one of its
\* role's client: no load, eviction, kill or restart leaves a second voice
\* model in memory, and once the job thread has shut down none runs at all.
NoStrayWorker ==
  app # "gone" =>
    /\ \A p \in RunningPids :
         \E r \in Roles : workers.client[r] = [pid |-> p, live |-> TRUE]
    /\ \A r \in Roles : workers.client[r].live =>
         workers.client[Peer(r)] # workers.client[r]

\* The job thread is not in a request that changes what the worker of r holds.
Settled(r) == ~(job.at \in Requests /\ RequestRole = r /\ RequestCmd \in {"load", "unload"})

\* What a worker holds is what the policy says it holds: after errors, kills
\* and timeouts no memory is in use that the UI shows as free and that an
\* out-of-memory load would not know to take back.  One thing only breaks this, a
\* load whose request failed while its worker ran on; until the worker is asked
\* to load or unload once more the policy then counts nothing for it, so that it
\* never answers a load from a mark that may be wrong.
MemoryAccounted ==
  \A r \in Roles :
    Running(workers, r) =>
      \/ ProcOf(workers, r).model \in {NoModel, workers.loaded[r]}
      \/ ProcOf(workers, r).model = Adrift /\ workers.loaded[r] = NoModel

\* A model the policy counts as loaded is there while its worker runs, unless
\* the worker failed to unload: load answers at once for it and a request that
\* follows must not meet an empty worker.
LoadedMeansHeld ==
  \A r \in Roles \ unloadErr :
    /\ workers.loaded[r] # NoModel => HasClient(workers, r)
    /\ workers.loaded[r] # NoModel /\ Running(workers, r) /\ Settled(r) =>
         ProcOf(workers, r).model = workers.loaded[r]

InSynthesis == job.at = "work" /\ job.cmd.role = "tts"

\* "unblocks an in-flight synthesize without waiting": while a synthesis runs
\* its worker's pid is registered, or the UI has already taken it to kill it.
StopReachesSynthesis ==
  InSynthesis /\ Running(workers, "tts") /\ app # "gone" =>
    LET p == workers.client["tts"].pid
    IN  live["tts"] = p \/ (uiTodo # << >> /\ Head(uiTodo) = Signal(p))

\* With the job thread idle the last status posted is the policy's state.
StatusCurrent == job.at = "idle" => told = workers.loaded

\* What the worker of r has in memory, if one runs, and the command at hand.
Holding == [r \in Roles |-> IF Running(workers, r) THEN ProcOf(workers, r).model ELSE "gone"]
AtHand == IF job.at = "idle" /\ cmds # << >> THEN Head(cmds) ELSE job.cmd

Slots == INSTANCE ModelSlots
           WITH counted <- workers.loaded, held <- Holding, serving <- AtHand, Gone <- "gone"

\* The two slots keep the promise of module ModelSlots: through evictions, swaps,
\* second tries, kills and timeouts a model is counted when its load is done and
\* not before, and leaves only for a command that wants it out or with its worker.
KeepsSlots == Slots!Spec

\* A Stop ends the synthesis in progress even if its worker would never answer.
StopUnblocks ==
  (InSynthesis /\ app = "up" /\ uiTodo # << >> /\ Head(uiTodo) = Swap("tts"))
    ~> ~InSynthesis \/ app = "gone"

\* Every request has a deadline, so the job thread gets on with its queue.
JobThread == TakeCmd \/ SyncLivePids \/ \E a \in Answers : Answered(a)

MemoryFree == \A r \in Roles : Running(workers, r) => ProcOf(workers, r).model = NoModel

\* Unload all frees both workers, if every request meets its deadline: the kills
\* that come with it miss a worker whose spawn is not registered yet, and a model
\* that such a worker still loads goes by the queued unload, whether or not the
\* other worker's unload fails.
UnloadAllFrees ==
  WF_vars(JobThread) =>
    ((\E i \in DOMAIN cmds : cmds[i].kind = "UnloadAll") ~> MemoryFree \/ app = "gone")

\* "SIGKILL an OS pid we own" (src/ipc.rs): no process that is none of ours is
\* ever signalled.
SignalsOnlyOwn == ~foreignHit

\* "Unload = kill worker process" (docs/design.md): a model that leaves the
\* policy leaves no process of its role behind.
UnloadEndsProcess ==
  [][\A r \in Roles :
       workers.loaded[r] # NoModel /\ workers'.loaded[r] = NoModel
         => ~Running(workers', r)]_workers

\* Quit "unloads models" (README.md): no worker outlives the application.
NoWorkerOutlivesQuit == app = "gone" => RunningPids = {}
=============================================================================
