------------------------------ MODULE Dictation ------------------------------
(***************************************************************************)
(* Dictation: the microphone session, the dictation model as the UI thread *)
(* sees it, the commands and messages it exchanges with the job thread,    *)
(* and what becomes of a transcript (pipeline/record.rs, models.rs, the    *)
(* STT arms of pipeline/jobs.rs and of app/jobs.rs, x11util.rs).           *)
(*                                                                         *)
(*   mic     recording (open or not) and recording_intent                  *)
(*   stt     stt_loaded, stt_model_id, stt_loading, stt_model (selected),  *)
(*           pending_transcribe, live_stt_job, next_stt_job_id             *)
(*   cmds    JobCmds the job thread has not handled; thread tells whether  *)
(*           it still receives any                                         *)
(*   msgs    AppMsgs the UI thread has not drained                         *)
(*   worker  the policy's STT slot and the state of the worker's process   *)
(*   copy    copy_transcript; clipboard is the CLIPBOARD selection         *)
(*   transcript  the file whose text the transcript panel shows            *)
(*                                                                         *)
(* An audio file is a number: files are numbered in the order in which     *)
(* they are handed over for transcription, and a text is named by the file *)
(* it comes from, 0 being the empty text.  The job thread's other work is  *)
(* in JobHub; of it only what touches the STT slot is here.                *)
(*                                                                         *)
(* History: by[f] is the intent the session of file f was opened with;     *)
(* shown lists the files whose texts reached the panel and pasted those    *)
(* that reached the cursor; switched says that a model was ever selected,  *)
(* kept that a transcript was ever left in the clipboard on purpose or     *)
(* because xclip could not write the old contents back.                    *)
(***************************************************************************)
EXTENDS Naturals, Sequences

CONSTANTS
  SttModels,  \* the selectable dictation models
  NoModel,    \* no model loaded
  Tools       \* the ways xclip and xdotool may fare in one insertion

ASSUME SttModelAssumption == NoModel \notin SttModels
ASSUME ToolAssumption ==
  Tools # {} /\ Tools \subseteq {"ok", "noXclip", "readFails", "noPaste", "restoreFails"}

VARIABLES mic, stt, cmds, thread, msgs, worker, copy, clipboard, transcript,
          by, shown, pasted, switched, kept

history == << by, shown, pasted, switched, kept >>
screen  == << copy, clipboard, transcript, shown, pasted, kept >>
dictationVars ==
  << mic, stt, cmds, thread, msgs, worker, copy, clipboard, transcript, history >>

(***************************************************************************)
(* Types.                                                                  *)
(***************************************************************************)
Intents == {"idle", "gui", "hotkey"}
NoFile  == 0
NoJob   == 0

IsOpenMic(i)      == i \in {"gui", "hotkey"}
WantsInsert(i)    == i = "hotkey"

ReleaseMatches(open, release) == IsOpenMic(open) /\ open = release

ClosedMic == [open |-> FALSE, intent |-> "idle", by |-> "idle"]
Mic       == [open : BOOLEAN, intent : Intents, by : Intents]

Pending   == [file : Nat, intent : Intents]
NoPending == [file |-> NoFile, intent |-> "idle"]
Stt == [ loaded : BOOLEAN, id : SttModels \union {NoModel}, loading : BOOLEAN,
         selected : SttModels, pending : Pending, live : Nat, next : Nat \ {0} ]

Worker == [model : SttModels \union {NoModel}, proc : {"none", "up", "dead"}]
NoWorker == [model |-> NoModel, proc |-> "none"]

\* What CLIPBOARD holds: nothing, text of the user's, something that is not
\* text, or a transcript.
Clipboard == [kind : {"none", "user", "image", "text"}, of : Nat]
EmptyClip == [kind |-> "none", of |-> NoFile]
TextClip(f) == IF f = NoFile THEN EmptyClip ELSE [kind |-> "text", of |-> f]

LoadStt(m)             == [kind |-> "LoadStt", model |-> m]
UnloadStt              == [kind |-> "Unload"]
UnloadAll              == [kind |-> "UnloadAll"]
LoadTts                == [kind |-> "LoadTts"]
Shutdown               == [kind |-> "Shutdown"]
Transcribe(j, i, f)    == [kind |-> "Transcribe", job |-> j, intent |-> i, file |-> f]

ModelStatus(m)         == [kind |-> "ModelStatus", model |-> m]
SttLoaded(m, ok)       == [kind |-> "SttLoaded", model |-> m, ok |-> ok]
Unloaded               == [kind |-> "Unloaded"]
TtsLoaded              == [kind |-> "TtsLoaded"]
Transcribed(j, i, t)   == [kind |-> "Transcribed", job |-> j, intent |-> i, text |-> t]
TranscribeFailed(j)    == [kind |-> "TranscribeFailed", job |-> j]
SttTimedOut            == [kind |-> "WorkerTimedOut"]

Cmd == {LoadStt(m) : m \in SttModels} \union {UnloadStt, UnloadAll, LoadTts, Shutdown}
       \union [kind : {"Transcribe"}, job : Nat, intent : Intents, file : Nat]
Msg == {ModelStatus(m) : m \in SttModels \union {NoModel}}
       \union [kind : {"SttLoaded"}, model : SttModels, ok : BOOLEAN]
       \union {Unloaded, TtsLoaded, SttTimedOut}
       \union [kind : {"Transcribed"}, job : Nat, intent : Intents, text : Nat]
       \union [kind : {"TranscribeFailed"}, job : Nat]

(***************************************************************************)
(* Handing a file over.  Both the release of a recording and the message   *)
(* that a model is loaded come here.                                       *)
(***************************************************************************)
Ready(u) == u.loaded /\ u.id = u.selected

\* load_stt: at most one load asked for at a time.
LoadAsked(u) ==
  IF u.loading THEN [stt |-> u, sent |-> << >>]
  ELSE [stt |-> [u EXCEPT !.loading = TRUE], sent |-> << LoadStt(u.selected) >>]

\* Mutant: the two counters swapped.
FileQueuedSwapped(u, f, i) ==
  [ stt  |-> [u EXCEPT !.live = u.next, !.next = u.live],
    sent |-> << Transcribe(u.next, i, f) >> ]

FileQueued(u, f, i) ==
  [ stt  |-> [u EXCEPT !.live = u.next, !.next = u.next + 1],
    sent |-> << Transcribe(u.next, i, f) >> ]

\* Mutant: a dictation that waits for its model never asks for it.
FileOverSilently(u, f, i) ==
  IF Ready(u) THEN FileQueued(u, f, i)
  ELSE [stt |-> [u EXCEPT !.pending = [file |-> f, intent |-> i], !.loading = TRUE], sent |-> << >>]

\* do_transcribe_file.
FileOver(u, f, i) ==
  IF Ready(u) THEN FileQueued(u, f, i)
  ELSE LoadAsked([u EXCEPT !.pending = [file |-> f, intent |-> i]])

\* JobHub::send: after Shutdown was handled there is nobody to receive.
Send(c) == cmds' = IF thread THEN cmds \o c ELSE cmds

(***************************************************************************)
(* The user.                                                               *)
(***************************************************************************)
BeginRecording(intent, starts) ==
  /\ mic' = IF mic.open \/ ~IsOpenMic(intent) THEN mic
            ELSE IF starts THEN [open |-> TRUE, intent |-> intent, by |-> intent]
            ELSE ClosedMic
  /\ UNCHANGED << stt, cmds, thread, msgs, worker, copy, clipboard, transcript, history >>

\* stop_recording comes to a file long enough to hold speech or not; an arecord
\* that wrote no proper WAV, or a file that is too short, ends the matter.
Discarded(release, outcome) ==
  ~ReleaseMatches(mic.intent, release) \/ ~mic.open \/ outcome # "speech"

StopOutcomes == {"speech", "tooShort", "error"}

EndRecording(release, outcome) ==
  /\ mic' = IF ReleaseMatches(mic.intent, release) THEN ClosedMic ELSE mic
  /\ IF Discarded(release, outcome)
       THEN UNCHANGED << stt, cmds, by >>
       ELSE LET over == FileOver(stt, Len(by) + 1, mic.intent)
            IN  /\ stt' = over.stt
                /\ Send(over.sent)
                /\ by' = Append(by, mic.by)
  /\ UNCHANGED << thread, msgs, worker, screen, switched >>

\* Transcribe file: shown in the panel only.  Disabled while a model loads.
PickFile ==
  /\ ~stt.loading
  /\ LET over == FileOver(stt, Len(by) + 1, "idle")
     IN  stt' = over.stt /\ Send(over.sent)
  /\ by' = Append(by, "idle")
  /\ UNCHANGED << mic, thread, msgs, worker, screen, switched >>

SelectModel(m) ==
  /\ m # stt.selected
  /\ stt' = [stt EXCEPT !.selected = m]
  /\ switched' = TRUE
  /\ UNCHANGED << mic, cmds, thread, msgs, worker, screen, by >>

AskLoad ==
  /\ stt' = LoadAsked(stt).stt
  /\ Send(LoadAsked(stt).sent)
  /\ UNCHANGED << mic, thread, msgs, worker, screen, by, switched >>

AskUnload ==
  /\ Send(<< UnloadStt >>)
  /\ UNCHANGED << mic, stt, thread, msgs, worker, screen, by, switched >>

\* kill -KILL of the registered STT worker (the registry itself is in JobHub).
Killed(w) == IF w.proc = "up" THEN [w EXCEPT !.proc = "dead"] ELSE w

Forgotten(u) == [u EXCEPT !.live = NoJob, !.pending = NoPending]

UnloadAllModels ==
  /\ worker' = Killed(worker)
  /\ mic' = ClosedMic
  /\ stt' = Forgotten(stt)
  /\ Send(<< UnloadAll >>)
  /\ UNCHANGED << thread, msgs, screen, by, switched >>

\* Speaking, or loading the voice model, may evict the dictation model.
AskVoice ==
  /\ Send(<< LoadTts >>)
  /\ UNCHANGED << mic, stt, thread, msgs, worker, screen, by, switched >>

SetCopy(on) ==
  /\ copy' = on
  /\ UNCHANGED << mic, stt, cmds, thread, msgs, worker, clipboard, transcript, history >>

\* The Copy button, and Clear.
CopyTranscript ==
  /\ transcript # NoFile
  /\ clipboard' = TextClip(transcript)
  /\ kept' = TRUE
  /\ UNCHANGED << mic, stt, cmds, thread, msgs, worker, copy, transcript, by, shown, pasted, switched >>

ClearTranscript ==
  /\ transcript' = NoFile
  /\ UNCHANGED << mic, stt, cmds, thread, msgs, worker, copy, clipboard, history >>

\* arm_hard_quit_and_close; recording_intent stays what it was.
ArmQuit ==
  /\ worker' = Killed(worker)
  /\ Send(<< UnloadAll, Shutdown >>)
  /\ mic' = [mic EXCEPT !.open = FALSE]
  /\ UNCHANGED << stt, thread, msgs, screen, by, switched >>

\* on_exit: whatever session is open is stopped.
OnExit ==
  /\ mic' = [mic EXCEPT !.open = FALSE]
  /\ UNCHANGED << stt, cmds, thread, msgs, worker, screen, by, switched >>

(***************************************************************************)
(* The job thread.  A result is [w, said]: the STT slot a command leaves   *)
(* and the messages it sends.                                              *)
(***************************************************************************)
\* unload_timeout with a client: done; the worker's error; a timeout or a lost
\* worker, which kill it.
UnloadResults(w) ==
  IF w.proc = "none" THEN {[w EXCEPT !.model = NoModel]}
  ELSE {NoWorker} \union (IF w.proc = "up" THEN {w, [w EXCEPT !.model = NoModel]} ELSE {})

\* load: what the slot may be afterwards and whether the load succeeded.  A
\* slot that holds the model is not asked again; one that holds another is
\* unloaded first; a worker that is not running is spawned.
LoadResults(w, m) ==
  IF w.model = m THEN {[w |-> w, ok |-> TRUE]}
  ELSE {[w |-> u, ok |-> FALSE] : u \in {NoWorker}
                         \union (IF w.model # NoModel /\ w.proc = "up" THEN {w} ELSE {})}
       \union (IF w.model # NoModel /\ w.proc # "up" THEN {}
               ELSE {[w |-> [model |-> m, proc |-> "up"], ok |-> TRUE],
                     [w |-> [model |-> NoModel, proc |-> "up"], ok |-> FALSE],
                     [w |-> [model |-> NoModel, proc |-> "dead"], ok |-> FALSE]})

LoadSttResults(c) ==
  {[w |-> r.w, said |-> << SttLoaded(c.model, r.ok), ModelStatus(r.w.model) >>] :
     r \in LoadResults(worker, c.model)}

UnloadSaid(w) == [w |-> w, said |-> << Unloaded, ModelStatus(w.model) >>]

\* Loading the voice model unloads the dictation model when memory runs out.
LoadTtsResults ==
  {[w |-> w, said |-> << TtsLoaded, ModelStatus(w.model) >>] :
     w \in {worker} \union (IF worker.model = NoModel THEN {} ELSE UnloadResults(worker))}

\* Mutant: a file that finds no model is dropped without a word.
NotLoadedSilent(c) == [w |-> worker, said |-> << >>]

NotLoaded(c) == [w |-> worker, said |-> << TranscribeFailed(c.job) >>]

\* A failed transcription: a timeout kills the worker; an answer that merely
\* says "timed out" is taken for one; a worker that is gone is not noticed.
Failure(c, w, first) ==
  [w |-> w, said |-> first \o << ModelStatus(w.model), TranscribeFailed(c.job) >>]

TranscribeErrors(c) ==
  {Failure(c, Killed(worker), << >>)}
  \union (IF worker.proc # "up" THEN {}
          ELSE {Failure(c, NoWorker, << SttTimedOut >>), Failure(c, worker, << SttTimedOut >>),
                Failure(c, worker, << >>)})

TranscribeResults(c) ==
  IF worker.model = NoModel THEN {NotLoaded(c)}
  ELSE TranscribeErrors(c)
       \union (IF worker.proc # "up" THEN {}
               ELSE {[w |-> worker, said |-> << Transcribed(c.job, c.intent, t) >>] : t \in {c.file, NoFile}})

Results(c) ==
  CASE c.kind = "LoadStt"    -> LoadSttResults(c)
    [] c.kind = "Transcribe" -> TranscribeResults(c)
    [] c.kind = "LoadTts"    -> LoadTtsResults
    [] c.kind \in {"Unload", "UnloadAll"} -> {UnloadSaid(w) : w \in UnloadResults(worker)}
    [] c.kind = "Shutdown"   -> {[w |-> NoWorker, said |-> << >>]}

HandleCmd ==
  /\ thread /\ cmds # << >>
  /\ \E r \in Results(Head(cmds)) : worker' = r.w /\ msgs' = msgs \o r.said
  /\ thread' = (Head(cmds).kind # "Shutdown")
  /\ cmds' = IF thread' THEN Tail(cmds) ELSE << >>
  /\ UNCHANGED << mic, stt, screen, by, switched >>

WorkerDies ==
  /\ worker.proc = "up"
  /\ worker' = Killed(worker)
  /\ UNCHANGED << mic, stt, cmds, thread, msgs, screen, by, switched >>

(***************************************************************************)
(* The UI thread drains the job thread's messages.                         *)
(***************************************************************************)
Took(kind) == msgs # << >> /\ Head(msgs).kind = kind /\ msgs' = Tail(msgs)

GotModelStatus ==
  /\ Took("ModelStatus")
  /\ stt' = [stt EXCEPT !.loaded = (Head(msgs).model # NoModel), !.id = Head(msgs).model]
  /\ UNCHANGED << mic, cmds, thread, worker, screen, by, switched >>

\* Mutant: the waiting file is used and stays waiting.
AfterLoadKept(u, m) ==
  LET up == [u EXCEPT !.loading = FALSE, !.loaded = TRUE, !.id = m]
  IN  IF u.pending = NoPending THEN [stt |-> up, sent |-> << >>]
      ELSE FileOver(up, u.pending.file, u.pending.intent)

\* The waiting file goes on with the model that is selected now, which need not
\* be the one that was loaded for it.
AfterLoad(u, m) ==
  LET up == [u EXCEPT !.loading = FALSE, !.loaded = TRUE, !.id = m, !.pending = NoPending]
  IN  IF u.pending = NoPending THEN [stt |-> up, sent |-> << >>]
      ELSE FileOver(up, u.pending.file, u.pending.intent)

GotSttLoaded ==
  /\ Took("SttLoaded")
  /\ IF Head(msgs).ok
       THEN LET after == AfterLoad(stt, Head(msgs).model)
            IN  stt' = after.stt /\ Send(after.sent)
       ELSE /\ stt' = [Forgotten(stt) EXCEPT !.loading = FALSE]
            /\ UNCHANGED cmds
  /\ UNCHANGED << mic, thread, worker, screen, by, switched >>

\* Unloaded and TtsLoaded touch the status line and the speech pipeline only.
GotOther ==
  /\ Took("Unloaded") \/ Took("TtsLoaded")
  /\ UNCHANGED << mic, stt, cmds, thread, worker, screen, by, switched >>

GotTimedOut ==
  /\ Took("WorkerTimedOut")
  /\ stt' = [stt EXCEPT !.loaded = FALSE, !.id = NoModel, !.loading = FALSE]
  /\ UNCHANGED << mic, cmds, thread, worker, screen, by, switched >>

GotFailed ==
  /\ Took("TranscribeFailed")
  /\ stt' = IF Head(msgs).job = stt.live THEN [stt EXCEPT !.live = NoJob] ELSE stt
  /\ UNCHANGED << mic, cmds, thread, worker, screen, by, switched >>

\* read_selection: xclip -o fails for contents that are not text, and contents
\* that cannot be read are taken for empty.
Prior(tool) ==
  IF tool \in {"noXclip", "readFails"} \/ clipboard.kind = "image" THEN EmptyClip ELSE clipboard

\* Mutant: a failed paste returns before the old contents are written back.
InsertedNoRestore(text, tool) ==
  CASE tool = "noXclip" -> clipboard
    [] copy \/ tool \in {"restoreFails", "noPaste"} -> TextClip(text)
    [] OTHER -> Prior(tool)

\* insert_transcript_at_cursor: save, write, paste, and with Copy off restore,
\* whether or not the paste succeeded.
Inserted(text, tool) ==
  CASE tool = "noXclip" -> clipboard
    [] copy \/ tool = "restoreFails" -> TextClip(text)
    [] OTHER -> Prior(tool)

\* Mutant: what the microphone is doing now decides, not what the file was for.
FollowUpNow(m) == WantsInsert(mic.intent) /\ m.text # NoFile

FollowUp(m) == WantsInsert(m.intent) /\ m.text # NoFile

\* Mutant: any text that comes is shown.
IsLiveSttAny(m) == m.job # NoJob

IsLiveStt(m) == stt.live = m.job

Shows(m) ==
  /\ stt' = [stt EXCEPT !.live = NoJob]
  /\ transcript' = m.text
  /\ shown' = IF m.text = NoFile THEN shown ELSE Append(shown, m.text)
  /\ \E tool \in Tools :
       IF FollowUp(m)
         THEN /\ clipboard' = Inserted(m.text, tool)
              /\ pasted' = pasted \union (IF tool \in {"noXclip", "noPaste"} THEN {} ELSE {m.text})
              /\ kept' = (kept \/ copy \/ tool = "restoreFails")
         ELSE /\ clipboard' = IF copy /\ tool # "noXclip" THEN TextClip(m.text) ELSE clipboard
              /\ kept' = (kept \/ copy)
              /\ UNCHANGED pasted

GotTranscribed ==
  /\ Took("Transcribed")
  /\ IF IsLiveStt(Head(msgs)) THEN Shows(Head(msgs))
     ELSE UNCHANGED << stt, clipboard, transcript, shown, pasted, kept >>
  /\ UNCHANGED << mic, cmds, thread, worker, copy, by, switched >>

HandleMsg ==
  GotModelStatus \/ GotSttLoaded \/ GotOther \/ GotTimedOut \/ GotFailed \/ GotTranscribed

(***************************************************************************)
(* Dictation by itself: every operation in any order.                      *)
(***************************************************************************)
DictationInit ==
  /\ mic = ClosedMic
  /\ \E m \in SttModels :
       stt = [ loaded |-> FALSE, id |-> NoModel, loading |-> FALSE, selected |-> m,
               pending |-> NoPending, live |-> NoJob, next |-> 1 ]
  /\ cmds = << >> /\ msgs = << >> /\ thread = TRUE
  /\ worker = NoWorker
  /\ copy \in BOOLEAN
  /\ clipboard \in {EmptyClip, [kind |-> "user", of |-> NoFile], [kind |-> "image", of |-> NoFile]}
  /\ transcript = NoFile
  /\ by = << >> /\ shown = << >> /\ pasted = {} /\ switched = FALSE /\ kept = FALSE

\* What the user starts, and what ends a thing the user started.
Start ==
  \/ \E i \in Intents, starts \in BOOLEAN : BeginRecording(i, starts)
  \/ PickFile \/ AskLoad \/ AskUnload \/ UnloadAllModels \/ AskVoice
  \/ \E m \in SttModels : SelectModel(m)
  \/ \E on \in BOOLEAN : SetCopy(on)
  \/ CopyTranscript \/ ClearTranscript \/ ArmQuit

Finish == \/ \E i \in Intents, o \in StopOutcomes : EndRecording(i, o)
          \/ OnExit

DictationNext == Start \/ Finish \/ HandleCmd \/ WorkerDies \/ HandleMsg

DictationSpec == DictationInit /\ [][DictationNext]_dictationVars

(***************************************************************************)
(* Properties.                                                             *)
(***************************************************************************)
DictationTypeOK ==
  /\ mic \in Mic /\ stt \in Stt /\ cmds \in Seq(Cmd) /\ msgs \in Seq(Msg)
  /\ thread \in BOOLEAN /\ worker \in Worker /\ copy \in BOOLEAN
  /\ clipboard \in Clipboard /\ transcript \in Nat
  /\ by \in Seq(Intents) /\ shown \in Seq(Nat) /\ pasted \subseteq Nat
  /\ switched \in BOOLEAN /\ kept \in BOOLEAN

LoadInFlight ==
  (\E k \in DOMAIN cmds : cmds[k].kind = "LoadStt") \/ (\E k \in DOMAIN msgs : msgs[k].kind = "SttLoaded")

AnswerInFlight(j) ==
  \/ \E k \in DOMAIN cmds : cmds[k].kind = "Transcribe" /\ cmds[k].job = j
  \/ \E k \in DOMAIN msgs : msgs[k].kind \in {"Transcribed", "TranscribeFailed"} /\ msgs[k].job = j

Quitting == ~thread \/ \E k \in DOMAIN cmds : cmds[k].kind = "Shutdown"

\* While Yapper runs, a dictation that waits (for its model in
\* pending_transcribe, for its text in live_stt_job) has its command or its
\* answer under way, and so has a badge that says "loading": no combination of
\* loads, timeouts, unloads, stale statuses and newer dictations leaves the UI
\* waiting for something nobody will send.
WaitsHaveWork ==
  ~Quitting => /\ stt.loading => LoadInFlight
               /\ stt.pending # NoPending => LoadInFlight
               /\ stt.live # NoJob => AnswerInFlight(stt.live)

\* Only what was recorded by holding the hotkey is ever pasted at the cursor.
PasteOnlyDictated == \A f \in pasted : by[f] = "hotkey"

\* A text reaches the panel at most once, and as long as no other model was
\* selected the texts come in the order in which their files were handed over.
TextInOrder ==
  \A j \in DOMAIN shown : \A i \in 1 .. j - 1 :
    shown[i] # shown[j] /\ (~switched => shown[i] < shown[j])

\* With Copy off at every text and the clipboard writable, a transcript never
\* stays in the clipboard, whatever fails between the write and the restore.
ClipboardUntouched == ~kept => clipboard.kind # "text"

\* The file that waits for its model, and the one whose text was asked for and
\* may still come: it is in the command or in the text that carries the live job.
WaitingFiles == {stt.pending.file} \ {NoFile}
AskedFiles ==
  {f \in 1 .. Len(by) :
     \/ \E k \in DOMAIN cmds : cmds[k].kind = "Transcribe" /\ cmds[k].job = stt.live /\ cmds[k].file = f
     \/ \E k \in DOMAIN msgs : msgs[k].kind = "Transcribed" /\ msgs[k].job = stt.live /\ msgs[k].text = f}

Promise == INSTANCE DictationPromise
             WITH handed <- Len(by), waits <- WaitingFiles, asked <- AskedFiles

\* The pipeline as a whole keeps the promise of module DictationPromise: a file
\* that was replaced by a newer one, or given up, stays so, whatever answers are
\* still under way, and a text is shown only of the file asked for last.
DictationKeepsPromise == Promise!Spec

Waiting == stt.live # NoJob \/ stt.pending # NoPending

\* Every dictation handed over comes to an end: a text, an error, or a newer
\* dictation in its place; the UI is never left waiting for good.
Settles == Waiting ~> (~Waiting \/ Quitting)
=============================================================================
