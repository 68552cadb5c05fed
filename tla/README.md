# A verification project for yapper

yapper is a Linux tray application for local text to speech and dictation: a
Rust program (`src/src`, one crate) with an egui window, two Python worker
processes that hold the models, an external audio player, global hotkeys and a
small local HTTP API. This directory holds TLA+ models of it, the TLC runs that
check them and theorems about them that TLAPS proves.

Paths below are relative to the repository's root directory, which holds `src/`
(the crate), `python/` and `docs/`; `PROJECT.json` maps every definition to the
lines it models (there with one more leading `src/`).

1. [The system](#1-the-system)
2. [What is modelled](#2-what-is-modelled)
3. [What the runs check](#3-what-the-runs-check)
4. [What is proved](#4-what-is-proved)
5. [Where code and documents disagree](#5-where-code-and-documents-disagree)
6. [What is not modelled](#6-what-is-not-modelled)
7. [Plan](#7-plan)

## 1. The system

### Threads and processes

| Actor | Code | Runs |
| --- | --- | --- |
| UI thread | `src/app/*`, `src/app/pipeline/*` | one frame after the other: viewport, hotkeys, tray, API commands, record level, job messages, transport poll, autosave, then the buttons (`src/app/frame.rs:16`) |
| Job thread `yapper-jobs` | `src/app/jobs.rs`, `src/workers.rs` | one `JobCmd` at a time, each a blocking request to a worker with a timeout |
| API listener | `src/app/tts_api.rs` | one connection at a time, a bounded channel of 16 commands to the UI |
| STT and TTS workers | `python/yapper_stt`, `python/yapper_tts` | JSON lines over stdin and stdout, one request at a time |
| Player | `src/mpv_backend.rs` | mpv with an IPC socket, or ffplay, paplay, aplay |
| X11 hotkeys, tray | `src/hotkeys.rs`, `src/tray.rs` | events polled by the UI |

The UI never blocks on a worker. It talks to the job thread over an unbounded
command channel (`JobCmd`) and an unbounded message channel (`AppMsg`), and
reaches over its head in one way only: it may kill a worker process by the pid
the job thread registered (`src/app/live_pids.rs`), so that a stop does not wait
for a synthesis of many seconds. Everything hard in the program follows from
that: what the UI believes (`tts_loaded`, `synth_in_flight`) is a copy of what
the job thread did some messages ago, or of what the UI killed some messages
ahead.

### Components, their state, their operations

| Component | State | Operations | What makes it correct |
| --- | --- | --- | --- |
| TTS controller (`app/tts_controller.rs`) | last job id, active job, pending segments with retries, ready chunks, `synth_in_flight`, chunk files | begin, cancel, mark started, chunk ready, chunk failed, pop | one synthesis at a time; bounded prebuffer; answers of dead jobs ignored; segments in order, retried, then skipped |
| Audio transport (`transport.rs`, `transport_machine.rs`, `mpv_backend.rs`) | status, `has_pending_queue`, last path, player process | play, append, pause, stop, replay, seek, tick | status follows the player; buffers only while more is to come |
| Speech pipeline (`app/pipeline/*.rs`) | `pending_speak`, `tts_loaded`, `tts_loading`, last full path | Speak, Stop, Replay, load, unload, message handlers, transport poll | a stopped text stays stopped; a waiting text is started or given up; the newest request wins |
| Job thread, messages (`app/jobs.rs`, `app/messages.rs`) | two queues, the command served | load, unload, transcribe, synthesize, cancel, list tones, shutdown | each command is answered; stale timeouts change nothing |
| Worker manager, policy (`workers.rs`, `policy.rs`, `timeouts.rs`) | a client per role, loaded flags, use stamps | ensure, load with eviction, unload, request, kill | policy and processes agree; the less used model is evicted |
| Worker IPC (`ipc.rs`) | child, reader thread, next request id | request with timeout, shutdown, kill | an answer goes to its request; a timed-out one is never taken for a later one |
| Live pids (`app/live_pids.rs`) | a pid per role | sync, kill | only a process of ours is killed |
| Dictation (`app/pipeline/record.rs`, `mic.rs`, `audio.rs`) | recording, intent, live STT job, pending transcription | begin, end, push to talk, transcribe, paste | a release ends what its press began; a text reaches its target |
| Local API (`app/tts_api.rs`) | listener, bounded queue | speak, stop, health | accepted commands reach the UI in order |
| Hotkeys (`hotkeys.rs`, `hotkey_apply.rs`) | registered set, draft, capture | register, capture, commit, re-register | what is shown is what is registered |
| Window, tray, quit (`lifecycle.rs`, `tray.rs`, `app/shell.rs`) | visibility, tray, quit deadline | hide, show, quit, hard quit | the window can be brought back; quit ends |
| Preferences (`config.rs`, `app/state.rs`) | dirty flag, file | change, autosave, persist | the last change is saved |
| Segmentation, text preparation (`segment.rs`, `textprep/*`) | none | pure functions | nothing lost, limits kept |
| Python workers | loaded model, voices, tones | load, unload, synthesize, transcribe, shutdown | one answer per request |

### The hard behaviours

`PROJECT.json` lists each hazard at the line where it bites. The ones the core
is exposed to:

- An answer of a stopped or restarted job arrives during the next one.
- A worker is killed out of band while the job thread is in a request to it; the
  error of that request and the `WorkerTimedOut` it raises are those of a dead
  job, and the command that makes the policy know of the kill comes later.
- A `ModelStatus` posted before a kill arrives after the UI cleared the badge.
- A text waits for a load that is cancelled, fails, or was asked for by another.
- Loading the dictation model evicts the voice model in the middle of a job.
- The worker, the player or both die between two chunks; a player does not
  start or refuses an append and takes its playlist with it.
- A segment fails, is retried, is skipped; the last one is skipped while the
  chunk before it is heard.
- A load meets a full GPU: the peer is asked to unload, which may fail, time out
  or find its worker dead, and the load is tried once more.
- A pid is registered, swapped out and signalled by one thread while another
  reaps the process, spawns the next one and registers again.
- The application ends while the job thread is in a request of minutes.
- A dictation waits for a model while other loads, unloads, selections and newer
  dictations overtake it; the microphone is opened again before its text is there.
- The clipboard is borrowed for a paste: saved, overwritten, pasted, restored, by
  two tools that may each fail.
- The grabs of the hotkeys are dropped and made anew while a key is held down.
- The window is hidden before it is known whether there will be a tray.
- An HTTP request arrives cut into any pieces; the queue behind it is bounded and
  emptied by another thread.
- Preferences are saved by a frame loop whose saves may fail.
- In a text every boundary may meet every other: sentence end, quote, abbreviation,
  line, clause, limit.

## 2. What is modelled

| Module | Models | Form |
| --- | --- | --- |
| `TtsController` | `app/tts_controller.rs` | a record and an operator per method |
| `AudioTransport` | `transport.rs` over `transport_machine.rs` and one player | a record, an operator per method, the player's playlist |
| `SpeechPipeline` | `app/pipeline/*` with the job thread, the TTS worker, the player and the user | the state machine, the properties |
| `WorkerManager` | `workers.rs`, `policy.rs`, what `ipc.rs` does to a child, pids | a record and an operator per method |
| `JobHub` | `app/jobs.rs`, `app/live_pids.rs`, the UI handlers that kill, quit | the state machine, the properties |
| `MCJobHub` | - | the symmetry of pids, for TLC |
| `SpeechPromise` | nothing of the code: what the pipeline promises | abstract specification |
| `Dictation` | `app/pipeline/record.rs`, `models.rs`, the STT arms of `app/pipeline/jobs.rs` and `app/jobs.rs`, `x11util.rs`, `audio.rs` as outcomes | the state machine, the properties |
| `DictationPromise` | nothing of the code: what dictation promises | abstract specification |
| `ModelSlots` | nothing of the code: what the worker manager promises of the memory | abstract specification |
| `Hotkeys` | `hotkeys.rs`, `hotkey_apply.rs`, capture and drafts | actions and operators, composed by `Desktop` |
| `WindowShell` | `lifecycle.rs`, `tray.rs`, window and tray in `app/shell.rs` | actions, composed by `Desktop` |
| `Desktop` | the UI thread with `Dictation`, `Hotkeys`, `WindowShell`, the preferences of `app/state.rs` | the composition, its fairness, the properties |
| `SpeechText` | `segment.rs`, `textprep/*`, the API's clean-up | operators on sequences |
| `LocalApi` | `app/tts_api.rs`, over `SpeechText` | the state machine, the properties |
| `MCDictation`, `MCDesktop`, `MCLocalApi` | - | bounds and inputs for TLC |
| `SpeechProofs` | - | types, one synthesis in flight, bounded prebuffer, no job id ahead of its time |
| `SpeechWaitingProofs` | - | waiting texts have a load, stopped texts stay stopped, the badge is right when quiet |
| `SpeechOrderProofs` | - | the order of speech, and that the pipeline implements `SpeechPromise` |
| `DictationProofs` | - | types of dictation; what it waits for is under way |
| `DictationSafetyProofs` | - | only what was dictated by hotkey is pasted, texts come in order, the clipboard is restored, dictation implements `DictationPromise` |
| `DesktopProofs` | - | the desktop implements `Dictation`; types, held microphone, grabbed keys, clean exit, window and saves |
| `JobHubProofs` | - | types, workers owned, memory accounted, models held, a Stop finds its worker, status current, the job hub implements `ModelSlots` |
| `LocalApiProofs` | - | an answer fits its request, an accepted command is applied once and in order, a stop holds |

`SpeechPipeline` EXTENDS `AudioTransport`, which EXTENDS `TtsController`: the
Rust structs are owned by the UI and changed by its handlers, several in a row,
so they are values here and their methods are operators that the handlers
compose in the order of the code.

### State and code

| Variable | Code |
| --- | --- |
| `tts` | `YapperApp.tts`: `TtsController` |
| `transport` | `YapperApp.transport`, with the status and `has_pending_queue` of its machine; `backend` and `playlist` are the player process |
| `fullPath`, `ttsLoaded`, `ttsLoading`, `pendingSpeak` | fields of the same name |
| `uiStep` | which handler is inside the loop of `try_play_next_ready` |
| `cmds`, `msgs` | the channels of `JobHub` |
| `jobThread` | the command `handle_cmd` is serving |
| `policy` | `DualModelPolicy`: is the voice model loaded |
| `proc` | the TTS worker: none, fresh (spawned, pid not registered yet), up, empty (it dropped a model the policy still counts), dead (not reaped yet) |
| `spoken`, `dropped`, `request`, `requests`, `stopped` | history, read by properties only |
| `userActions`, `disturbances` | counters of the bounds |

### Actions and code

A handler of the UI is one action, for the UI thread runs it to its end and
shares only the channels and the pid registry with the others. The exception is
the loop of `try_play_next_ready`: an iteration may start a player and wait for
its socket, so each is a step of its own (`HandOverNext`), the loop's end another
(`HandOverEnds`), and `uiStep` remembers what the handler has left to do. The
job thread takes a command in one step (`TakeCmd`) and ends it in another
(`Serve...`); between them the worker computes, and the UI may kill it.

| Action | Code |
| --- | --- |
| `Speak`, `StopSpeech`, `Replay` | `do_speak` with `start_speak_job`, `cancel_tts_pipeline`, `replay_last` (the button, the hotkey, the API) |
| `UnloadVoice`, `UnloadAll`, `LoadVoice`, `LoadDictation` | `unload_tts`, `unload_all_models`, `load_tts`, `load_stt` |
| `PauseResume` | the Pause/Resume button |
| `OnModelStatus` ... `OnChunkFailedMsg` | the arms of `handle_app_msg`, including the play and pump calls at their ends |
| `PollTransport`, `HandOver` | `poll_transport`, `try_play_next_ready` |
| `TakeCmd`, `Serve...` | `job_loop`, `handle_cmd` and the `WorkerManager` calls in it |
| `PlayerAdvances`, `PlayerDies`, `WorkerDies` | the processes outside |

### The job thread and its workers

`SpeechPipeline` sees one command of the job thread as one step, and of its two
workers the voice. `JobHub` opens that up: both roles, each request a step of its
own, the operating system's pids, the registry and the UI's kills. It leaves out
what `SpeechPipeline` has: when the UI stops a speech. There a Stop may come at
any time, which is more than the UI does.

| Variable | Code |
| --- | --- |
| `workers` | `WorkerManager`: the clients, the policy, and the processes behind them |
| `live` | `LiveWorkerPids` |
| `job` | the command in `handle_cmd` and the request it waits for |
| `cmds` | the command channel; it starts with the `ListTones` of `YapperApp::new` |
| `told` | the last `ModelStatus` posted |
| `uiTodo`, `app` | what is left of the UI handler that runs; up, quitting, gone |
| `foreignHit`, `unloadErr` | history, read by properties only |

A handler of the UI that kills is a list of steps, each atomic in the code: the
swap of a pid (`SwapPid`), the signal to the pid swapped out (`SignalPid`), the
send of a command (`SendCmd`). The job thread runs between them, and the sync of
the registry at the end of `job_loop`'s body is a step too (`SyncLivePids`): the
registry is the one piece of state the two threads share without a queue.

A client is a pid and whether its child is still to be reaped. A reaped pid is
free, and may be handed out to a new worker or to a process of another program
(`PidReused`). A request ends (`Answered`) with an answer, with the timeout that
kills and reaps, or because the child is gone: found by `try_wait`, which reaps
it, or by a broken pipe, which does not. An error answer is told by its text, so
an error of a load may read as out of memory or as a timeout. And a request fails
while its worker runs on, if a line is no response or the reader thread has ended
(`src/ipc.rs:183`): `unread`, or `unreadOom` and `unreadTimedOut`, for the line is part
of the error text. A load that failed so goes on in the worker, which then holds the
old model, the new one or none: it is `Adrift` until it is asked to load or unload
again, and answers that come later are dropped by their ids.

The stamps of the policy (`last_used`, `touch`) are left out because no decision
depends on them: `lru_to_unload` is reached only when the peer is not loaded, and
the role that loads never is, so it finds nothing.

### Dictation

| Variable | Code |
| --- | --- |
| `mic` | `recording` (open or not), `recording_intent`; `by`, with which intent it was opened, is history |
| `stt` | `stt_loaded`, `stt_model_id`, `stt_loading`, `stt_model`, `pending_transcribe`, `live_stt_job`, `next_stt_job_id` |
| `cmds`, `msgs`, `thread` | the channels, and whether `job_loop` still receives |
| `worker` | the policy's STT slot and the worker's process |
| `copy`, `clipboard`, `transcript` | `copy_transcript`, the CLIPBOARD selection, the panel |
| `by`, `shown`, `pasted`, `switched`, `kept` | history |

| Action | Code |
| --- | --- |
| `BeginRecording`, `EndRecording` | `begin_recording`, `end_recording` (Record button, push-to-talk) with `stop_recording`'s outcomes |
| `PickFile` | Transcribe file; it and a release share `FileOver`, `do_transcribe_file` |
| `SelectModel`, `AskLoad`, `AskUnload`, `UnloadAllModels`, `AskVoice` | the model box, `load_stt`, `unload_stt`, `unload_all_models`, `load_tts` |
| `SetCopy`, `CopyTranscript`, `ClearTranscript` | the checkbox and the two buttons |
| `ArmQuit`, `OnExit` | `arm_hard_quit_and_close`, `on_exit` |
| `HandleCmd` | `job_loop` with `handle_cmd` and the requests in it, in one step: the set of slots and messages each command may leave (`Results`) |
| `HandleMsg` | the arms of `handle_app_msg`, with `insert_transcript_at_cursor` in `Shows` |

`JobHub` has the requests of a command one by one, and the registry; here a
command is one step, for the UI learns of it by messages only. The one thing
between them, the kill of a quit or of Unload all, sets the process dead at any
time before a command. A file is the number under which it was handed over, a
text the number of its file, 0 the empty one.

### The desktop

`Desktop` EXTENDS `Dictation`, `Hotkeys` and `WindowShell` and joins their actions
where one handler of the UI thread touches several: a hotkey event begins or ends
a recording, a tray choice loads a model, a quit closes the window and arms the
kills, `on_exit` stops the microphone and drops the grabs. The actions of a frame
come in any order, which includes the order of `update`.

| Variable | Code |
| --- | --- |
| `hub` | `YapperApp.hotkeys`: what each action is bound to, and which the grab saw pressed |
| `live`, `draft`, `capture`, `hotkeyError` | `cfg.hotkeys`, the two draft fields, `hotkey_capture`, `hotkey_error` |
| `events`, `held` | the event channel of the hotkey crate; the combination held down |
| `visible`, `tray`, `tried`, `startHidden` | the viewport, `tray`, `tray_tried`, `start_hidden_pending` |
| `exitPrompt`, `armed`, `phase`, `menu` | `exit_prompt`, `hard_quit_armed`, how far the viewport is closed, the tray's channel |
| `lastSaved`, `disk` | `last_saved_prefs`, the config file |
| `grabbed`, `lost`, `hidBy` | history |

A hotkey text is a sequence of tokens, and `Parse` and `Format` are
`parse_hotkey` and `format_hotkey`: modifiers under all their names and in any
order, the last key counts, an unknown token spoils the text. The constant `Tokens`
is what tokens there are: of its members only the names of the modifiers and three
keys are told apart, so the theorems hold with any other keys and any other
nonsense.

### Texts and the API

`SpeechText` translates the pure functions over character classes (a letter, an
upper-case letter, an abbreviation, an acronym, a closing quote, a pause, a
space, ...), one operator per function, the loops as folds. `LocalApi` uses it at
both ends: `SanitizeSpeakText` decides the answer, `SanitizeForTts` and
`SplitForTts` what is spoken.

| Variable | Code |
| --- | --- |
| `listener` | where `listener_loop` and `read_request` are: accept, header, body; which client, how much is read |
| `path`, `safeDir` | the file at the socket's path, whether its directory may be used |
| `queue` | the `sync_channel` |
| `batch`, `applying` | the commands `drain_commands` took, whether `poll_tts_api` applies them already |
| `speech` | the text handed to the speech pipeline last; what happens to it there is `SpeechPipeline` |
| `conns`, `served`, `applied` | the clients' requests; history |

Reads are steps of any length up to the buffer, the clients connect at any time,
and `drain_commands` takes one command a step while the listener runs.

### What is abstracted

- A text is the number of its segments (`split_for_tts` of a non-empty text
  returns at least one); a segment is its index; a file is told only by whether
  there is one to replay.
- Positions, durations, volume and seeking: seeking is offered only when the
  transport is not idle and never changes its status then.
- The concatenation at a job's end is counted as one file. When it fails the
  code keeps the chunk files and remembers the last one; no property tells
  these apart.
- In `SpeechPipeline` the dictation side of the job thread is `LoadDictation` only,
  for what it does to the voice model: it may evict it. In `Dictation` the voice
  side is `LoadTts` only, for the same reason. `ListTones` runs once, at start-up, before
  anything is spoken.
- The voice worker of `SpeechPipeline` serves one request after the other and holds
  its model or not. A failed unload (`unloadError`) either leaves it `empty` under a
  mark that stays, or has it killed; a request that fails while the worker runs on
  belongs to `JobHub`.
- Disturbances: what the environment may do wrong (`AllDisturbances`). Each
  configuration says which ones occur and how many. They are counted so that TLC
  ends; the proofs hold for any number.
- Recording is its outcomes: `arecord` starts or not, stops with a file worth
  transcribing, a short one, or an error. The level meter and the list of
  microphones are left out.
- Of the preferences `PrefsSnapshot` compares, the dictation model and Copy
  transcript are modelled.
- An HTTP request is what the code asks of it; header names, JSON syntax and the
  words of an answer are left out, lengths are in a unit of bytes.

## 3. What the runs check

| Run | Configuration | Result |
| --- | --- | --- |
| `speech_safety` | `SpeechSafety.cfg`: 3 user commands, 2 disturbances of any of the 12 kinds, texts of 1 and 4 segments, `MaxReady` 2, 1 retry | 936 758 states, no error |
| `speech_liveness` | `SpeechLiveness.cfg`: 2 commands, 2 disturbances of any of the 12 kinds, texts of 1 and 3 segments, fairness | 50 854 states, no error |
| `speech_newest_request` | `SpeechNewestRequest.cfg`: 3 commands, no disturbance | violated, see section 5 |
| `speech_stuck_buffering` | `SpeechStuckBuffering.cfg`: 1 command, 2 synthesis errors | violated, see section 5 |
| `job_hub_safety` | `JobHubSafety.cfg`: 3 UI handlers, 2 disturbances of any of the 10 kinds, 3 pids up to symmetry | 844 070 states, no error |
| `job_hub_liveness` | `JobHubLiveness.cfg`: 3 UI handlers, 1 disturbance of 4 kinds, 2 pids, fairness | 299 338 states, no error |
| `job_hub_foreign_pid` | `JobHubForeign.cfg`: a worker dies, its pid is handed out again | violated, see section 5 |
| `job_hub_unload_process` | `JobHubUnload.cfg`: no disturbance | violated, see section 5 |
| `job_hub_quit_worker` | `JobHubQuit.cfg`: no disturbance | violated, see section 5 |
| `dictation` | `Dictation.cfg`: 3 things the user starts, any number that end one, 2 models, 5 ways the X11 tools fare, fairness | 360 689 states, no error |
| `desktop` | `Desktop.cfg`: 2 acts in the window or the tray, 1 press of a hotkey, tools that work, fairness | 393 000 states, no error |
| `local_api` | `LocalApi.cfg`: one client with any text of up to 5 units over 4 alphabets, or 3 clients with 18 requests; queue of 1 | 798 000 states, no error |

Safety properties (`speech_safety`):

- `OneSynthInFlight` - `synth_in_flight` tells the truth: while it is set a live
  job has exactly one synthesis in the command queue, with the worker, or
  answered; while it is not, none. Two would speak a segment twice, none would
  stop the job for good.
- `PrebufferBounded` - no more than `MAX_READY_CHUNKS` chunks ahead of the
  player, the one being made counted in.
- `OnlyLiveSpeechPlays` - what the player has belongs to the active job, or is a
  replay while there is none.
- `SpeechInOrder` - the chunks heard, queued, ready and pending follow each other
  in the order of the text and with the dropped ones make up all of it.
- `BadgeAgreesWhenQuiet` - with the queues empty and the job thread idle the
  badge is the policy's state, whatever was killed and whatever came late.
- `WaitingSpeechHasLoad` - a waiting text has a load on its way.
- `StoppedStaysStopped` - a job starts only for a request newer than the last
  Stop or unload.
- `KeepsPromise` - the pipeline implements `SpeechPromise` under the refinement
  mapping `last <- tts.jobId, job <- tts.active, total <- tts.total,
  heard <- spoken, lost <- dropped`: every step is a step of the promise or
  stutters. A job completes only when each of its segments was heard or is
  accounted as lost.
- `SpeechSupport` - the facts the proofs need (section 4), checked first.

Liveness properties (`speech_liveness`):

- `JobEnds` - a job in progress ends or is paused, or it hangs in one of two named
  ways: `WaitsForNothing`, the transport buffers with no segment left, and
  `WaitsForModel`, segments are left and no load is under way. Every other failure is
  retried, skipped or given up.
- `WaitingSpeechResolved` - a waiting text is started or given up.
- `ComesToRest` - again and again both queues are empty and the Speak tab is idle, or
  paused, or its job hangs in one of the two ways.

Safety properties (`job_hub_safety`):

- `NoStrayWorker` - a worker that runs is the one of its role's client, and the
  two clients have different ones: no eviction, kill or respawn leaves a second
  worker of a role, and after the shutdown there is none.
- `MemoryAccounted` - at every moment, in the middle of a request too, a worker holds
  nothing but the model the policy counts: no memory in use that the UI shows as free.
  One thing breaks this in the code, a load whose request failed while its worker ran
  on; the property says that then nothing is counted for the role, until the worker is
  asked to load or unload again, so no load is answered from a mark that may be wrong.
- `LoadedMeansHeld` - the other direction: a model counted as loaded has a client,
  and its worker, while it runs, holds it; except after an unload that the worker
  answered with an error (its `_unload` drops the model first, and the error keeps
  the mark).
- `StopReachesSynthesis` - while a synthesis runs its worker is registered, or the
  UI is about to signal it: a Stop at any moment finds the right pid.
- `StatusCurrent` - when the job thread is idle the last status posted is the
  policy's state.
- `KeepsSlots` - the job hub implements `ModelSlots`. What the policy counts for a
  role and what the role's worker holds change in eight ways only: a worker starts
  empty for a role that counts nothing; a load, and no other command, fills it and is
  counted in the same step; a load that fails leaves it unknown what the worker holds,
  and counts nothing (`Mislay`); a command that wants the model out empties it (`Empty`),
  or empties it and is told of an error, so that the count stays (`Refuse`); the
  worker dies and the count stays (`Die`); the worker is given up and the count goes
  (`GiveUp`); nothing. A load wants out its own role's model only if it asks for
  another, and the other role's only while its own slot is empty. The mutant is a load
  that unloads the model it was asked for and loads it again.

Liveness properties (`job_hub_liveness`):

- `StopUnblocks` - a Stop ends the synthesis in progress although its worker never
  answers and no timeout is waited for.
- `UnloadAllFrees` - once an Unload all is in the queue both workers come to hold no
  model, if every request meets its deadline (`WF(JobThread)` is the premise of the
  property, for `StopUnblocks` must not have it). The kills that come with the command
  miss a worker whose spawn is not registered yet; what that one still loads goes by
  the queued unload. The mutant is an unload of one role that fails and ends the
  command.

Properties of `dictation`:

- `WaitsHaveWork` - `stt_loading`, `pending_transcribe` and `live_stt_job` are
  never set without the load, the transcription or its answer under way.
- `PasteOnlyDictated` - what is pasted at the cursor was recorded by holding the
  hotkey, whatever the microphone has done since.
- `TextInOrder` - no text reaches the panel twice, and with one model selected the
  texts come in the order of the recordings, although reloads hold some back.
- `ClipboardUntouched` - with Copy off at every text, and a clipboard that takes
  the old contents back, no transcript stays in the clipboard.
- `DictationKeepsPromise` - refinement: without models, commands and messages,
  dictation is `DictationPromise`. At most one file waits and at most one is asked
  for; a newer file may take either place; what lost its place, or was given up, is
  never shown, whatever answers are still under way. `WaitingFiles` and
  `AskedFiles` are the mapping: the second is the file in the command or the text
  that carries the live job. The mutant, which takes any text for the live one,
  shows a file that was replaced.
- `Settles` (liveness) - what dictation waits for is resolved, or the program quits.

Properties of `desktop`:

- `TypeOK` - the types of the composition, and what the drafts, the file and the
  grabs may hold.
- `DictatesAsAlone` - refinement: whatever hotkeys, tray, tabs and quit do to the
  dictation, it is what `Dictation` allows, or nothing. The mutant, a press that
  takes over a session the Record button opened, is a step `Dictation` has not.
- `HeldOpen` - a microphone opened by the hotkey has that hotkey down, or its
  release waiting to be polled, unless an Apply took the grabs away meanwhile.
- `OnlyGrabbedKeys` - the grabs are those of the live configuration; a
  configuration becomes live, or reaches the disk, only after it was grabbed; and
  then it is written in canonical form.
- `QuitIsClean` - the program ends by a quit only, with the microphone closed.
- `HiddenIsRecoverable` (liveness) - a window the program hid (a hidden start)
  comes back or has a tray.
- `PrefsReachDisk` (liveness) - what the user set reaches the disk, although saves
  fail.

Properties of `local_api`:

- `AnswerFitsRequest` - a request is answered as if it came in one piece, however
  it is cut; only a full queue turns a 202 into a 429.
- `AcceptedOnce` - the commands answered 202 are applied exactly once and in the
  order of their answers, the others never.
- `StopHolds` - what is spoken was accepted, and a newer stop that was accepted is
  still in the queue or in the batch: an older text is never spoken after a newer
  stop was applied.
- `SpokenWhole` - `SanitizeForTts` keeps every letter of a text without handles,
  tags and links, and spells acronyms; `SplitForTts` puts each character into
  exactly one segment in order, adds nothing but periods, and makes no segment
  blank or too long. It is stated of what the API hands over and of the raw text.

**Bounds.** Three commands are what the races need: one job, a second that
interrupts it, a third that meets the second while it waits; with two a Stop
cannot follow a restart. A text of four segments with `MaxReady` 2 fills the
prebuffer with one segment still pending, so that every guard of
`ShouldRequestSynth` is decisive in some state; a text of one segment gives the
case in which `set_pending_queue` stays off. Two disturbances give a retry that
fails, a reload that fails, a player that dies while the worker is being
replaced. Both queues are unbounded; their lengths follow from the commands.
The liveness run is smaller because its graph is searched for cycles. In
`JobHub` three handlers are a load of each role and a third that meets them (an
eviction needs two loads); a quit alone is eleven steps of the UI. Three pids are
both workers and one for a process of another program. Two disturbances are a
full GPU and an eviction that fails, a load left running and a second one that meets
it, or a worker that dies and a pid handed out again. In `MCDictation` three things started are two dictations and a change of
model, an unload or a Copy in between; with two no dictation overtakes another
that waits. Ending a recording, the worker's death and every outcome of a request
are not counted. In `Desktop` two acts are an edit and its Apply, a hide and a
quit, or a change of preference and a quit; the tools always work, since
`dictation` has their failures. In `LocalApi` the constants keep the order of the
real ones (`ClauseMin < MaxChunk`, a read that may pass a limit) at the size of
one digit, so that five units reach every limit and three clients find a queue of
one full, half drained and empty.

**Fairness.** Weak fairness of the message handlers, the transport poll and the
hand-over loop: a frame is drawn again and again while the window lives and
does each of them. Of the job thread: every request it makes has a timeout
(`timeouts.rs`), so each command ends and the next is taken. Of the player: it
gets to the end of what it plays unless it is paused. The user owes nothing, and
no fairness is asked of any disturbance. In `JobHub` much less is assumed: the UI
finishes the handler it runs, and the poll in `request_timeout` (every 100 ms) finds
out that its worker is gone. A worker owes no answer there, and no timeout comes,
which is what makes `StopUnblocks` say something. An orphaned worker may read the end
of its input (`WorkerSeesEof`) and is not obliged to: one that hangs in a load
outlives the application.

For `dictation`: the job thread's loop takes commands as long as there are any
(every request has a timeout), and the frame drains its messages. For `desktop`:
a frame asks for the tray, which need not come, decides about a hidden start, and
saves that are tried every 30 s succeed in the end; nothing is assumed of the
user. The invariants need no fairness.

**Where liveness stops.** `speech_liveness` has two disturbances of every kind, and
the two ways in which a job hangs are facts about the code. `WaitsForNothing`: the
last segment is skipped while the chunk before it is heard, or the player or the file
of the last chunk is missing, and nothing takes the transport out of `Buffering`
(section 5); a worker that failed to unload gets there by one failure, for every
segment is refused and skipped, and the policy's mark makes a load of the model do
nothing. `WaitsForModel`: a worker dies and the reload fails; the
handler of a failed `TtsLoaded` only forgets `pending_speak`, and the job is left with
segments and no synthesis. In both Stop works. The properties name these states, and
no others: that a third way to hang would be found is what the mutants show.

Every property of a passing run has a mutant in `PROJECT.json`: a plausible bug
in one mapped definition (a dropped guard, an off-by-one, a forgotten reset)
under which TLC finds that property violated. The mutated operators stand before
the definitions they would replace, marked `Mutant:`; nothing uses them.

## 4. What is proved

The theorems about speech hold for every `MaxReady >= 1`, every `MaxRetries`, every set of
segment counts above zero, every set of disturbances, and any bounds on user
commands and disturbances (`PrebufferAssumption`, `PipelineAssumption`; TLC
evaluates both in every run). Those about dictation hold for every set of models
that does not contain `NoModel` and every set of ways the X11 tools fare
(`SttModelAssumption`, `ToolAssumption`), with no bound on anything. Those about
the job hub hold for every set of pids without `NoPid`, every choice of handlers
and disturbances, and any bounds on both (`PidAssumption`, `HubAssumption`). Those
about the desktop hold for every set of tokens with the modifiers and three keys in
it, all texts, key strokes and configurations made of them (`TokenAssumption`,
`HotkeyAssumption`), any number of acts and presses, and the assumptions of
dictation. Those about the API hold for any clients with any requests, and all
limits and lengths above zero (`ApiAssumption`, `LengthAssumption`).

| Theorem | Module | States |
| --- | --- | --- |
| `TypeCorrect` | `SpeechProofs` | `Spec => []TypeOK` |
| `OneSynthCorrect` | `SpeechProofs` | `Spec => []OneSynthInFlight` |
| `PrebufferCorrect` | `SpeechProofs` | `Spec => []PrebufferBounded` |
| `WaitingHasLoad` | `SpeechWaitingProofs` | `Spec => []WaitingSpeechHasLoad` |
| `StoppedStays` | `SpeechWaitingProofs` | `Spec => StoppedStaysStopped` |
| `BadgeAgrees` | `SpeechWaitingProofs` | `Spec => []BadgeAgreesWhenQuiet` |
| `SupportCorrect` | `SpeechWaitingProofs` | `Spec => []SpeechSupport` |
| `OnlyLiveSpeech` | `SpeechOrderProofs` | `Spec => []OnlyLiveSpeechPlays` |
| `OrderOfSpeech` | `SpeechOrderProofs` | `Spec => []SpeechInOrder` |
| `PromiseKept` | `SpeechOrderProofs` | `Spec => KeepsPromise` |
| `DictationTypeCorrect` | `DictationProofs` | `DictationSpec => []DictationTypeOK` |
| `OnlyDictatedPasted` | `DictationSafetyProofs` | `DictationSpec => []PasteOnlyDictated` |
| `TextsInOrder` | `DictationSafetyProofs` | `DictationSpec => []TextInOrder` |
| `DictationImplementsPromise` | `DictationSafetyProofs` | `DictationSpec => DictationKeepsPromise` |
| `PromiseKeepsOrder` | `DictationSafetyProofs` | `DictationKeepsPromise => []TextInOrder` |
| `WaitingHasWork` | `DictationProofs` | `DictationSpec => []WaitsHaveWork` |
| `ClipboardRestored` | `DictationSafetyProofs` | `DictationSpec => []ClipboardUntouched` |
| `DesktopDictates` | `DesktopProofs` | `Spec => DictatesAsAlone` |
| `DesktopKeepsDictation` | `DesktopProofs` | the four invariants of dictation and its promise, of the desktop's `Spec` |
| `DesktopTypes` | `DesktopProofs` | `Spec => []TypeOK` |
| `CanonicalSays` | `DesktopProofs` | of a valid configuration the canonical form is valid, says the same, and is its own |
| `HotkeyHoldsMicrophone` | `DesktopProofs` | `Spec => []HeldOpen` |
| `GrabbedIsConfigured` | `DesktopProofs` | `Spec => []OnlyGrabbedKeys` |
| `ExitsCleanly` | `DesktopProofs` | `Spec => QuitIsClean` |
| `HiddenIsDecided` | `DesktopProofs` | a hidden window has a tray, or its start is still to be decided |
| `UnsavedIsDirty` | `DesktopProofs` | a preference not on the disk makes the autosave due |
| `JobHubTypes` | `JobHubProofs` | `Spec => []TypeOK` |
| `NoWorkerStrays` | `JobHubProofs` | `Spec => []NoStrayWorker` |
| `MemoryIsAccounted` | `JobHubProofs` | `Spec => []MemoryAccounted` |
| `StopFindsSynthesis` | `JobHubProofs` | `Spec => []StopReachesSynthesis` |
| `StatusIsCurrent` | `JobHubProofs` | `Spec => []StatusCurrent` |
| `LoadedIsHeld` | `JobHubProofs` | `Spec => []LoadedMeansHeld` |
| `SlotsKept` | `JobHubProofs` | `Spec => KeepsSlots` |
| `SlotsAreTrue` | `JobHubProofs` | `KeepsSlots => []HeldIsCounted` |
| `AnswersFit` | `LocalApiProofs` | `ApiSpec => []AnswerFitsRequest` |
| `AcceptedAppliedOnce` | `LocalApiProofs` | `ApiSpec => []AcceptedOnce` |
| `StopsHold` | `LocalApiProofs` | `ApiSpec => []StopHolds` |

**One synthesis.** The property is not inductive: a job that begins must find no
synthesis that carries its id, and nothing in the property says that the ids in
the queues are old. The invariant `Sound` adds that (`Known`: no command and no
message names an id not handed out yet, and only a live job has a synthesis in
flight) and states the rest so that it can be carried through a handler: `Single`
says which of the command queue, the job thread and the message queue has the
one synthesis, `Clear` that none has. `Sound` is stated on a controller and three
queues, not on the variables, because a handler cancels, begins, pumps and
finalizes in a row: each part has a lemma that it keeps `Sound`
(`SoundCancel`, `SoundBegin`, `SoundPump`, ...), and the proof about a handler
follows its calls. The bound on the prebuffer needs the same invariant: a chunk
joins the ready queue only when its synthesis was in flight, and so was counted.

**Waiting texts.** `LoadOnItsWay` also covers `tts_loading`, because a text that
starts to wait while it is set asks for no load of its own: the flag must never
be set without a load under way. The job thread hands the load on from the
command queue to its answer, and the answer clears both the flag and the text.

**Stopped texts.** `WaitingIsNew`: a waiting text is newer than the last Stop or
unload, for both forget it. Only `start_speak_job` starts a job, for the text
just asked for or the one that waits.

**The badge of the voice model.** That the badge is right at rest says nothing of the
times between. `BadgeTold` does: either a command that ends with the model's state
posted is queued or being served, or the last message about the badge in the queue
is a `ModelStatus` that says what the policy holds, or there is none and the badge
is right already (`WillRead`). A handler that puts the badge out on its own account
(a Stop, a restart, an unload that kills the worker) queues a `CancelTtsWorker` in
the same step; a `TtsLoaded` or a `WorkerTimedOut` never comes last, for a
`ModelStatus` was posted behind it.

`SpeechSupport` names these facts; `speech_safety` checks them, `SupportCorrect` has
them for any number of requests.

**The order of speech.** Heard, queued, ready and pending segments form one row
(`Row`), and most steps move the head of one part of it to the end of the part
before: an answer moves the head of the pending ones to the ready ones, the hand-over
a ready one to the player, the player a queued one to what was heard. `RowMoves`
says that the row stays the same, so nothing has to be shown of its order again. A
failure takes a piece out of the row (a skipped segment, a chunk whose player did not
start, what a dead player held) and counts it as dropped: `RowDrops`. That an answer
is about the head, and not about a segment made before, is not in the property: it
needs `IndexNow`, every synthesis of the live job on its way, in either queue or with
the job thread, carries the index of the pending head; which in turn needs that there
is one at most (`Sound`). `Playable` adds that a transport which may start a player
holds nothing, so that a fresh start loses nothing that is not accounted. The same
case analysis gives `Proceeds`: the job goes on, ends with its row all heard or
dropped, or is replaced; from it follows that every step is one of `SpeechPromise` or
stutters. A text has a segment to speak (`PipelineAssumption`, `TextWaits`), else a
job would begin that the promise does not allow.

**Only what was dictated is pasted.** That the pasted files were recorded by hotkey
says nothing about the files to come. `PasteInv` follows the intent along its way:
the open microphone's intent is the one it was opened with, and wherever a file
is (waiting in `pending_transcribe`, in a `Transcribe` command, in a `Transcribed`
message) the intent beside it wants an insert only if that file was recorded with
the hotkey, and the file is one that was handed over. Each handler moves a file
from one place to the next with its intent; the mutant, which asks the microphone
instead, breaks exactly that.

**What waits is under way.** The invariant ties the three fields to the two
channels: `stt_loading` to a `LoadStt` command or an `SttLoaded` message, a waiting
file to the same, the live job to its `Transcribe`, `Transcribed` or
`TranscribeFailed`. The work of the proof is that a step moves such a thing from
one place to the next and drops none of the others. `Meets(q, X)` says that the queue
`q` holds a member of `X`; the lemmas `MeetsConcat` and `MeetsTail` say what a send
and a take do to it, and `WaitInv` states the property in these terms. Once the
shutdown is in the queue nothing is claimed.

**The order of the texts.** One file waits in `pending_transcribe` while others are
under way, and a file that was handed over later may already be with the worker when
the waiting one is sent. It is harmless only because the waiting file then takes over
the live job before the later text is read. `OrderInv` says so in three parts. Every
job and file under way is an old one, and a text of the live job is new to the panel
and is not the file that waits (`Base`). A text of the live job that would overtake
the waiting file (`Overtakes`) comes behind what makes that file go on, a load, its
answer or the shutdown, in the messages followed by the commands (`Behind`, `InTurn`).
And as long as no model was selected every load is of the selected one, so the answer
to it does send the file. That such a turn is under way at all is `WaitInv`: the
order cannot be shown without what waits being under way, and the module builds on
`DictationProofs`.

**The promise of dictation.** The refinement rests on `OrderInv`: jobs and files under
way are old ones, so a new job is asked for by nobody else (`AskedNone`), and a text of
the live job that is shown does not overtake the file that waits. `AskedIn` is
`AskedFiles` as a function of the two channels and the live job, and its lemmas say
what a send and a take do to it: `AskedSend` and `AskedFileOver` for a file handed
over, `AskedHandled` for the job thread, which turns a command into a text of the same
file or into none, `AskedDrained` for the message taken. `PromiseKeepsOrder` goes the
other way, from the abstract specification alone: its invariant `PromiseInv` says that
what was shown, waits and is asked for are different files, and that with one model
selected what was shown is older than what may still come (`Rising`, `After`). So
`DictationPromise` is not too weak for the property users see. It allows what the code
does when a late `ModelStatus` sets `stt_loaded` again: an older file that still waits
takes the place of a newer one asked for meanwhile, whose text is then lost.

**The clipboard.** The property is inductive once it is known what a step does to the
clipboard: only a text that arrives and the Copy button touch it, and `Shows` leaves
it with the old contents, with a text that was to be copied, or with one whose
restore failed; all but the first are what `kept` and the property exempt.

**Workers and their clients.** One invariant, `HubInv`, carries the types,
`NoStrayWorker`, `StopReachesSynthesis` and `StatusCurrent`. `NoStrayWorker`
is not inductive: it does not speak of a client whose child is reaped but still
counted as live, and a pid handed out again would give its new process two owners;
`Owned` adds that what a client owns is still to be reaped. `SttDown` (when
`shutdown_all` comes to the TTS worker the STT worker is gone) is for the two
invariants that build on this one. That the status is current (`Told`) must also hold
in the requests that load nothing. A command passes one manager through several
operators, so the lemmas are about an operator on any manager: `Kept(m, n, r)` says
that it touched the role `r` only and left it sound, and `KeptTwice` chains them
along the calls of `load`, `unload` and `restart_worker`. `Owned` is claimed until the
application is gone, for nobody reaps after that. `StopReachesSynthesis` needs that
a pid leaves `live` only into the hands of the handler that signals it.

**Models that count are held.** A load that finds its model counted asks no worker, so
the worker must have it. `HeldInv` adds three things to `LoadedMeansHeld`. `Stages`:
in a load, its eviction and its second try the role counts nothing, so what the
worker answers decides; at the second unload of `unload_all` the first role is empty
or refused; in a shutdown both are (`Emptied`). `shutdown_all` is where the property
would break: it sends each worker away and clears the marks only at the end, and a
worker that is gone with its mark still set is a model counted and not held. It does
not happen, because a `Shutdown` is only ever sent behind an `UnloadAll`, and that is
a fact about two threads: `TodoInv` has it of the steps of the handlers (`Paired`),
`CmdsInv` of the queue, `Cued` of the moment between the two, when the `UnloadAll`
may be queued, being served, or already done (`MayShutDown`). The same invariant says
that the tones of the start-up are listed before any load: `ListTones` spawns a
worker without asking what is counted, and an empty worker under a set mark would be
the second way to break the property. What refused to unload stays exempt
(`unloadErr`), as in the property.

**The promise of the worker manager.** A request of the job thread is one step of
`ModelSlots` with two slots. `Moves(c, m, n, r)` says on managers what `SlotStep` says
on the abstract variables, so that the lemmas follow the calls of a handler as those
of `HubInv` do: a change of one role leaves the other's slot (`PeerMem`, `OneMoves`,
`StillMoves`). What a request has to know of its command is `ServingInv`: which kind it
is of (`KindAt`), and that only a load of another model unloads the old one, which
makes that unload one the promise allows. An eviction is allowed because the role that
loads counts nothing (`Stages`), and the tones of the start-up because no role does
(`CmdsInv`). That a load finds an empty worker or one adrift, not one with a model
nobody counts, is `TrueSlot`: what is held is counted, or it is adrift and nothing is
counted. `SlotsAreTrue` gets this back from the abstract specification alone
(`HeldIsCounted`), so `ModelSlots` is not too weak for the memory, and
`MemoryIsAccounted` is what it says of the workers that run: the accounting is proved
through the refinement. `ModelSlots` does not promise the other direction, that a model
which counts is held: after `Refuse` and `Die` it is not, and `LoadedIsHeld` says when
it is.

**Dictation in the desktop.** Each action of `Desktop` conjoins an action of
`Dictation` or leaves `dictationVars` alone, so `DictatesAsAlone` is shown action by
action, and with it every invariant of dictation holds in the composition
(`DesktopKeepsDictation`): none of it is proved twice.

**The held microphone.** `HeldOpen` needs `GrabInv`. `Pressed` says what the event
channel may hold: behind each press of push-to-talk its release follows, unless the
key is still down, and at most one action is down at a time. That is what
makes the poll of a press safe: the microphone it opens has its release to come. It
holds because the two combinations of a configuration that is grabbed differ (part
of `Grabs`), and because an Apply, which drops events and pressed keys together, sets
`lost` if push-to-talk was waiting for its release.

**Grabbed keys and canonical texts.** A configuration goes live as
`Canonical(keys)`, the format of what was parsed, and `OnlyGrabbedKeys` says it is
its own canonical form: so what is saved is what is read at the next start.
`CanonicalSays` shows that `Parse` of `Format` of a combination is the combination.
`Parse` is about the last key of a text and the set of its modifiers; that
there is a last position of a key is shown by its least counterexample
(`WellFoundedInduction` on positions), and `Naming` says what the text of a set of
modifiers is, for `Format` writes them in one fixed order.

**The end, the window, the saves.** `QuitIsClean` is about one step, `Exit`, and the
proof is that no other ends the program. `HiddenIsDecided` and `UnsavedIsDirty` are
the safety halves of the two liveness properties: a hidden window with no tray is one
`initial_visibility` has still to decide about, and what the frame compares the
preferences with is what the disk has, so that a difference always makes a save due.
What remains to TLC is that the frame gets there.

**The API.** `ServedInv` counts: as many clients were answered as were accepted,
without the one being read. `ReadInv` says what has been read of that one: in the
header less than the header, in the body at least all of it, never more than was
sent. Then each read either goes on or ends where the answer is the one of the whole
request (`Fits`); the limits are met inside a read as at its end. `AcceptedOnce` is
inductive with the types of the queues: answered 202, applied, batched and queued
commands are one sequence, whatever part of it a step moves. `StopHolds` speaks
of accepted stops; `SpeechInv` says that what is spoken was applied and every stop
applied is older. The order of `AcceptedOnce` makes that inductive, for the next
command of the batch is newer than all applied ones, and gives the property, for an
accepted stop that was not applied is in the batch or the queue (`TakenParts`).

**Only model-checked.** `SpokenWhole`: the text functions are folds, and what a fold
computes for every input is an induction over data, whose theorems the provers
cannot instantiate. All liveness (`JobEnds`, `WaitingSpeechResolved`, `ComesToRest`,
`StopUnblocks`, `UnloadAllFrees`, `Settles`, `HiddenIsRecoverable`,
`PrefsReachDisk`), which rests on fairness. All other properties of the passing runs
are theorems.

## 5. Where code and documents disagree

- `speech_newest_request`. `docs/tts-api.md:29` says that a new request
  "interrupts/restarts an existing utterance". An older one can come back, with
  nothing failing: Speak; Speak again while a chunk is made, so that the worker
  is killed and the second text waits; a `ModelStatus` posted before the kill
  sets `tts_loaded` again; a third Speak finds it set and starts at once, without
  touching `pending_speak`; then the reload ends and the second text replaces the
  third.
- `speech_stuck_buffering`. `src/transport_machine.rs:37` says of
  `has_pending_queue`: "True when a queue is still synthesizing more segments."
  The last segment fails twice and is skipped while the chunk before it is heard;
  nothing clears the flag then, the end of the player turns it into `Buffering`,
  and no code path leaves that state: the job never ends until the user stops it. A
  player that does not start for the last chunk and a chunk whose file is missing
  (`src/transport.rs:145`) leave the same state.

- `job_hub_foreign_pid`. `src/ipc.rs:230`: "SIGKILL an OS pid we own". The
  registry also holds pids of workers already reaped: after an error of
  `list_tones`, or a worker that exits during a transcription, the client is kept
  and `sync_live_pids` registers its pid again and again. When the system has
  given the pid to another program, Unload all or Quit kills that program.
- `job_hub_unload_process`. `docs/design.md:132`: "Unload = kill worker process".
  `unload_timeout` asks the worker to drop the model and keeps the process
  (`docs/ipc.md:49` and the Python workers agree with the code).
- `job_hub_quit_worker`. `src/app/jobs.rs:58`: "Out-of-band kill of STT + TTS
  worker processes (hard quit)." A worker is registered only when the command that
  spawned it ends, so a quit during a load misses it; the join is given up after
  1.5 s and the worker outlives the application until its request ends.

The following met while modelling are not runs of their own: each property that
would be violated is stated without that case, as named here, or no document of
the repository promises anything.

- Close and minimize hide the window whether or not there is a tray
  (`src/app/shell.rs:139`); the hint of `src/tray.rs:161` and `README.md:91` count
  on one. `HiddenIsRecoverable` speaks of what the program hides itself.
- A load whose request fails on a line that is no response leaves its worker running
  (`src/workers.rs:172` only reports), perhaps with the model in memory and nothing
  counted: a load of the other role that meets a full GPU does not evict it
  (`src/policy.rs:57`). `MemoryAccounted` names the case (`Adrift`).
- A worker that answers an unload with an error has dropped its model, and the mark
  stays: the next load does nothing and every segment is refused.
  `LoadedMeansHeld` exempts it (`unloadErr`), the pipeline has it (`empty`).
- Push-to-talk held during Apply: `drain_global_hotkey_events` takes its release,
  the microphone stays open, and the Stop button is ignored, the open intent being
  `Hotkey`. `HeldOpen` exempts it (`lost`).
- A second push-to-talk released while the model loads overwrites
  `pending_transcribe`: the first text is lost. `WaitsHaveWork` and `Settles` hold
  of the newer one.
- The waiting file is transcribed by the model selected when its load ends, so
  after a change of model an older dictation may be asked for after a newer one.
  `TextInOrder` exempts it (`switched`).
- `WorkerTimedOut` of the STT role clears `stt_loading` whatever load is under way,
  so a second load can be asked for.
- A clipboard that holds no text (an image) is taken for empty and lost on insert,
  with Copy off too (`docs/design.md:113`).
- A failed save of an Apply is reported and never retried: the hotkeys are not
  among the preferences the autosave compares.
- `super_modifier_down` is false when its query fails: the capture then binds the
  combination without Super.
- "Space" and the other named keys never parse: `to_code_name` upper-cases the
  token before it is looked up.
- A second instance of the API removes the socket of the first
  (`remove_stale_socket`), and an accept error other than `WouldBlock` ends the
  listener for good.
- A text of zero-width characters with a space between passes the check for
  emptiness: 202, and nothing to speak. `docs/tts-api.md:51` names
  `code: queue_full` for a 429; the body has no code (`src/app/tts_api.rs:332`).
- `src/segment.rs:38` does not list the closing curly quotes that line 42 takes
  along: a sentence that ends with one is not cut there.
- The line-break rule of `split_for_tts` never fires in the speech pipeline, for
  `sanitize_for_tts` joins the lines before.
- The Python worker sanitizes a second time (`python/yapper_tts/sanitize.py:3`:
  "Must stay aligned") with rules that differ for a bare `@`, Unicode handles and
  acronyms beside an underscore; and the sanitizer is not idempotent: `(#tag)` loses its
  parentheses first and the tag the second time.

## 6. What is not modelled

Request ids and the reader thread of the IPC client, the files of a speech on the
disk, and of the Python workers all but load, unload and the end of their input:
not yet, see the plan. Level meter, microphone list, WAV headers, seeking and
volume: data without protocol state. Widgets, themes, layout and wording: the
conditions that enable the buttons are guards of the actions. `main.rs`,
`python_paths.rs`, the installer and the soak scripts: sequential I/O.

## 7. Plan

Most important first. Each module is written to be proved about: operators on
records, no `RECURSIVE`, one action per operation, named assumptions.

1. **Speech core**, **worker manager and job thread**, **dictation**, **desktop**,
   **API and texts** - modelled and checked: sections 2 to 5.
2. **An abstract API**: a queue of accepted commands, each handed to the speech once,
   and the proof that `LocalApi` implements it; `SpeechPipeline`, `JobHub` and
   `Dictation` have their abstract specifications. Every invariant that is no
   induction over data is proved.
3. **Replay files** (`speak.rs`, `playback.rs`, `ui/helpers.rs`): which files exist
   and which path names them; none is leaked, none played after its deletion.
4. **Ipc** (`ipc.rs`): request ids, the reader thread, a late answer after a
   timeout, EOF. Property: an answer is given to its request.
