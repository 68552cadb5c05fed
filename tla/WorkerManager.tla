----------------------------- MODULE WorkerManager ----------------------------
(***************************************************************************)
(* WorkerManager and its DualModelPolicy (workers.rs, policy.rs) over the  *)
(* worker processes it owns, as a record m:                                *)
(*   m.client[r]  the WorkerClient of role r: the pid of its child and     *)
(*                whether the child is still to be reaped (Rust's Child    *)
(*                remembers the exit status of a child it waited for)      *)
(*   m.loaded[r]  the policy's slot: the model it believes loaded          *)
(*   m.procs[p]   what the operating system runs under pid p, and the      *)
(*                model that process holds in memory                       *)
(* A pid is free again as soon as its process is reaped, and may then name *)
(* a process that is none of ours.                                         *)
(*                                                                         *)
(* The policy's last_used stamps are left out: the one reader,             *)
(* lru_to_unload, is asked only when the peer is not loaded, and the role  *)
(* that loads never is.                                                    *)
(***************************************************************************)
EXTENDS Naturals, Sequences, FiniteSets

CONSTANTS
  Pids,   \* the pids the operating system hands out
  NoPid   \* the registry's 0

ASSUME PidAssumption == NoPid \notin Pids

Roles == {"stt", "tts"}
Peer(r) == IF r = "stt" THEN "tts" ELSE "stt"

NoModel == "none"
ModelsOf(r) == IF r = "stt" THEN {"small", "medium"} ELSE {"chatterbox"}
Models == UNION {ModelsOf(r) : r \in Roles}

\* What a worker holds that goes on with a load nobody waits for any more: the
\* old model, the new one or none, and no answer of it tells which.
Adrift == "adrift"

NoClient == [pid |-> NoPid, live |-> FALSE]
Client == [pid : Pids, live : BOOLEAN] \union {NoClient}

Process == [st : {"free", "running", "zombie", "foreign"}, model : Models \union {NoModel, Adrift}]
InState(s) == [st |-> s, model |-> NoModel]

Manager == [client : [Roles -> Client],
            loaded : [Roles -> Models \union {NoModel}],
            procs  : [Pids -> Process]]

NewManager == [client |-> [r \in Roles |-> NoClient],
               loaded |-> [r \in Roles |-> NoModel],
               procs  |-> [p \in Pids |-> InState("free")]]

FreePids(m) == {p \in Pids : m.procs[p].st = "free"}

HasClient(m, r) == m.client[r].pid # NoPid

\* The process behind the client of role r.
ProcOf(m, r) == m.procs[m.client[r].pid]

\* is_running: the child has not exited.
Running(m, r) == m.client[r].live /\ ProcOf(m, r).st = "running"

\* Mutant: the other role's slot is marked.
MarkPeerLoaded(m, r, model) == [m EXCEPT !.loaded[Peer(r)] = model]

\* The policy's marks.
MarkLoaded(m, r, model) == [m EXCEPT !.loaded[r] = model]
MarkUnloaded(m, r) == [m EXCEPT !.loaded[r] = NoModel]

\* wait, after a kill or an exit: the child is reaped and its pid is free.
Reap(m, r) ==
  IF m.client[r].live
    THEN [m EXCEPT !.client[r].live = FALSE, !.procs[m.client[r].pid] = InState("free")]
    ELSE m

\* Mutant: the killed worker's model stays marked as loaded.
KillKeepingMark(m, r) == [Reap(m, r) EXCEPT !.client[r] = NoClient]

\* kill_worker: take the client, kill and reap its child, mark unloaded.
KillWorker(m, r) ==
  MarkUnloaded([Reap(m, r) EXCEPT !.client[r] = NoClient], r)

\* WorkerClient::spawn under each pid that may be handed out; assigning the
\* new client drops the old one, which reaps its child.
Spawned(m, r) ==
  {[Reap(m, r) EXCEPT !.client[r] = [pid |-> p, live |-> TRUE],
                      !.procs[p] = InState("running")] : p \in FreePids(Reap(m, r))}

\* Mutant: a fresh worker each time, the old one left to itself.
EnsuredAnew(m, r) ==
  {[m EXCEPT !.client[r] = [pid |-> p, live |-> TRUE],
             !.procs[p] = InState("running")] : p \in FreePids(m)}

\* ensure_worker, where a spawn that is needed succeeds.
Ensured(m, r) == IF Running(m, r) THEN {m} ELSE Spawned(m, r)

\* What a request to the worker of role r may come to.
\*   "done", "error"       the worker answered
\*   "oom", "saysTimeout"  it answered an error whose text contains "oom" or
\*                         "timed out", which is how the manager tells errors
\*   "timeout"             request_timeout gave up: it kills and reaps
\*   "lost"                the child is gone: try_wait found it (and reaped
\*                         it), or the pipe did (and it is not reaped yet)
\*   "unread"              a line that is no response, or the end of the thread
\*                         that reads them, fails the request while its worker
\*                         runs on; "unreadOom", "unreadTimedOut": the line is
\*                         part of the error, and this is how that reads
ErrorAnswers == {"error", "oom", "saysTimeout"}
UnreadAnswers == {"unread", "unreadOom", "unreadTimedOut"}
Answers == {"done", "timeout", "lost"} \union ErrorAnswers \union UnreadAnswers

\* The model the worker holds once it answered a request: load drops the old
\* model before it builds the new one, but refuses bad arguments before that;
\* unload drops it whatever comes after.  A worker serves one request after the
\* other, so what it does with one that was given up comes before the next.
ModelAfter(cmd, wanted, answer, held) ==
  CASE cmd = "load" -> IF answer = "done" THEN wanted
                       ELSE IF answer \in UnreadAnswers \/ held = Adrift THEN Adrift
                       ELSE NoModel
    [] cmd = "unload" -> NoModel
    [] OTHER          -> held

\* is_oom_error, is_timeout_error: by the text of the error.
OomAnswers == {"oom", "unreadOom"}
TimedOutAnswers == {"timeout", "saysTimeout", "unreadTimedOut"}

Possible(m, r, answer) == (answer = "lost") = ~Running(m, r)

AfterAnswer(m, r, cmd, wanted, answer) ==
  CASE answer = "timeout" -> {Reap(m, r)}
    [] answer = "lost"    -> {m, Reap(m, r)}
    [] OTHER -> {[m EXCEPT !.procs[m.client[r].pid].model =
                    ModelAfter(cmd, wanted, answer, ProcOf(m, r).model)]}

\* unload_timeout once the worker's answer is there: the new manager and
\* whether the unload succeeded.
UnloadAnswered(m, r, answer) ==
  CASE answer = "done" -> [m |-> MarkUnloaded(m, r), ok |-> TRUE]
    [] answer \in ErrorAnswers -> [m |-> m, ok |-> FALSE]
    [] OTHER -> [m |-> KillWorker(m, r), ok |-> FALSE]

\* What a load, once answered, leaves behind if it is not retried.
LoadAnswered(m, r, model, answer) ==
  CASE answer = "done" -> MarkLoaded(m, r, model)
    [] answer \in TimedOutAnswers -> KillWorker(m, r)
    [] OTHER -> m

\* peer_to_unload_on_pressure: out of memory, and the peer holds some.
EvictsPeer(m, r, answer) == answer \in OomAnswers /\ m.loaded[Peer(r)] # NoModel

\* shutdown of one worker: it is asked to end, then killed and reaped anyway.
ShutDown(m, r) == [Reap(m, r) EXCEPT !.client[r] = NoClient]

\* Mutant: the pids of the two roles swapped.
WorkerPidsSwapped(m) == [r \in Roles |-> m.client[Peer(r)].pid]

\* What sync_live_pids registers.
WorkerPids(m) == [r \in Roles |-> m.client[r].pid]

\* kill -KILL: the process under p dies, whoever owns it now.  A worker stays
\* a zombie until its client waits for it.
Sigkill(m, p) ==
  CASE m.procs[p].st = "running" -> [m EXCEPT !.procs[p] = InState("zombie")]
    [] m.procs[p].st = "foreign" -> [m EXCEPT !.procs[p] = InState("free")]
    [] OTHER -> m
=============================================================================
