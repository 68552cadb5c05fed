--------------------------- MODULE DictationProofs ---------------------------
(***************************************************************************)
(* Theorems about Dictation, for every set of dictation models and every   *)
(* way the X11 tools may fare: its types, and that whatever waits has its  *)
(* answer under way.                                                       *)
(***************************************************************************)
EXTENDS Dictation, SequenceTheorems, TLAPS

-----------------------------------------------------------------------------
(* Types.                                                                    *)

\* load_stt leaves a dictation state and asks for at most one load.
LEMMA LoadAskedType ==
  ASSUME NEW u \in Stt
  PROVE  LoadAsked(u).stt \in Stt /\ LoadAsked(u).sent \in Seq(Cmd)
<1>1. LoadStt(u.selected) \in Cmd
  BY DEF Stt, Cmd
<1>2. << LoadStt(u.selected) >> \in Seq(Cmd) /\ << >> \in Seq(Cmd)
  BY <1>1
<1>3. [u EXCEPT !.loading = TRUE] \in Stt
  BY DEF Stt
<1> QED
  BY <1>2, <1>3 DEF LoadAsked

\* do_transcribe_file leaves a dictation state and sends commands.
LEMMA FileOverType ==
  ASSUME NEW u \in Stt, NEW f \in Nat, NEW i \in Intents
  PROVE  FileOver(u, f, i).stt \in Stt /\ FileOver(u, f, i).sent \in Seq(Cmd)
<1>1. Transcribe(u.next, i, f) \in Cmd
  BY DEF Stt, Cmd, Transcribe
<1>2. FileQueued(u, f, i).stt \in Stt /\ FileQueued(u, f, i).sent \in Seq(Cmd)
  <2>1. << Transcribe(u.next, i, f) >> \in Seq(Cmd)
    BY <1>1
  <2>2. u.next \in Nat \ {0} /\ u.next \in Nat
    BY DEF Stt
  <2>3. u.next + 1 \in Nat \ {0}
    BY <2>2
  <2>4. [u EXCEPT !.live = u.next, !.next = u.next + 1] \in Stt
    BY <2>2, <2>3 DEF Stt
  <2> QED
    BY <2>1, <2>4 DEF FileQueued
<1>3. [u EXCEPT !.pending = [file |-> f, intent |-> i]] \in Stt
  BY DEF Stt, Pending
<1> QED
  BY <1>2, <1>3, LoadAskedType DEF FileOver

\* The answer to a load, with what waited for it, leaves a dictation state.
LEMMA AfterLoadType ==
  ASSUME NEW u \in Stt, NEW m \in SttModels
  PROVE  AfterLoad(u, m).stt \in Stt /\ AfterLoad(u, m).sent \in Seq(Cmd)
<1> DEFINE up == [u EXCEPT !.loading = FALSE, !.loaded = TRUE, !.id = m, !.pending = NoPending]
<1>1. up \in Stt
  BY DEF Stt, Pending, NoPending, NoFile, Intents
<1>2. u.pending.file \in Nat /\ u.pending.intent \in Intents
  BY DEF Stt, Pending
<1>3. FileOver(up, u.pending.file, u.pending.intent).stt \in Stt
      /\ FileOver(up, u.pending.file, u.pending.intent).sent \in Seq(Cmd)
  BY <1>1, <1>2, FileOverType
<1> QED
  BY <1>1, <1>3 DEF AfterLoad

\* JobHub::send leaves a queue of commands.
LEMMA SendType ==
  ASSUME NEW S, NEW c \in Seq(S), cmds \in Seq(S), Send(c)
  PROVE  cmds' \in Seq(S)
BY ConcatProperties DEF Send

\* A killed worker is a worker.
LEMMA KilledType ==
  ASSUME NEW w \in Worker
  PROVE  Killed(w) \in Worker
BY DEF Killed, Worker

\* What an unload leaves in the STT slot.
LEMMA UnloadResultsType ==
  ASSUME NEW w \in Worker
  PROVE  UnloadResults(w) \subseteq Worker
BY DEF UnloadResults, Worker, NoWorker

\* What a load leaves in the STT slot, and whether it succeeded.
LEMMA LoadResultsType ==
  ASSUME NEW w \in Worker, NEW m \in SttModels, NEW r \in LoadResults(w, m)
  PROVE  r.w \in Worker /\ r.ok \in BOOLEAN
<1>1. NoWorker \in Worker
  BY DEF Worker, NoWorker
<1>2. CASE w.model = m
  <2>1. r = [w |-> w, ok |-> TRUE]
    BY <1>2 DEF LoadResults
  <2> QED
    BY <2>1
<1>3. CASE w.model # m
  <2>1. \/ \E u \in {NoWorker, w} : r = [w |-> u, ok |-> FALSE]
        \/ \E u \in {[model |-> m, proc |-> "up"], [model |-> NoModel, proc |-> "up"],
                     [model |-> NoModel, proc |-> "dead"]}, b \in BOOLEAN : r = [w |-> u, ok |-> b]
    BY <1>3 DEF LoadResults
  <2>2. {[model |-> m, proc |-> "up"], [model |-> NoModel, proc |-> "up"],
         [model |-> NoModel, proc |-> "dead"]} \subseteq Worker
    BY DEF Worker
  <2> QED
    <3>1. CASE \E u \in {NoWorker, w} : r = [w |-> u, ok |-> FALSE]
      BY <1>1, <3>1
    <3>2. CASE \E u \in {[model |-> m, proc |-> "up"], [model |-> NoModel, proc |-> "up"],
                     [model |-> NoModel, proc |-> "dead"]}, b \in BOOLEAN : r = [w |-> u, ok |-> b]
      BY <2>2, <3>2
    <3> QED
      BY <2>1, <3>1, <3>2
<1> QED
  BY <1>2, <1>3

\* A status is a message.
LEMMA ModelStatusType ==
  ASSUME NEW m \in SttModels \union {NoModel}
  PROVE  ModelStatus(m) \in Msg
BY DEF Msg

\* Every message but the texts.
NoText == {m \in Msg : m.kind # "Transcribed"}

\* The answer of a transcription that succeeded.
TextOf(c, t) == << Transcribed(c.job, c.intent, t) >>

\* The answer to a load.
LoadSaid(c, ok, w) == << SttLoaded(c.model, ok), ModelStatus(w.model) >>

\* The messages that bring neither a text nor the end of a load.
PlainMsg == {m \in Msg : m.kind \notin {"Transcribed", "SttLoaded"}}

\* Whatever a command does leaves a worker; a load is answered by its outcome and
\* the status; a text is said only in answer to a transcription, of its file and
\* under its intent (app/jobs.rs).
LEMMA ResultsSay ==
  ASSUME worker \in Worker, NEW c \in Cmd, NEW r \in Results(c)
  PROVE  /\ r.w \in Worker
         /\ \/ r.said \in Seq(PlainMsg) /\ c.kind # "LoadStt"
            \/ /\ c.kind = "LoadStt" /\ c.model \in SttModels
               /\ \E ok \in BOOLEAN, w \in Worker : r.said = LoadSaid(c, ok, w)
            \/ c.kind = "Transcribe" /\ \E t \in {c.file, NoFile} : r.said = TextOf(c, t)
<1>0. \A w \in Worker : ModelStatus(w.model) \in PlainMsg
  BY ModelStatusType DEF Worker, PlainMsg, ModelStatus
<1>1. CASE c.kind = "LoadStt"
  <2>1. c.model \in SttModels
    BY <1>1 DEF Cmd, LoadStt, UnloadStt, UnloadAll, LoadTts, Shutdown
  <2>2. PICK p \in LoadResults(worker, c.model) :
          r = [w |-> p.w, said |-> << SttLoaded(c.model, p.ok), ModelStatus(p.w.model) >>]
    <3>1. r \in LoadSttResults(c)
      BY <1>1 DEF Results
    <3> QED
      BY <3>1 DEF LoadSttResults
  <2>3. p.w \in Worker /\ p.ok \in BOOLEAN
    BY <2>1, LoadResultsType
  <2>4. r.said = LoadSaid(c, p.ok, p.w) /\ r.w = p.w
    BY <2>2 DEF LoadSaid
  <2> QED
    BY <1>1, <2>1, <2>3, <2>4
<1>2. CASE c.kind \in {"Unload", "UnloadAll"}
  <2>1. PICK w \in UnloadResults(worker) : r = UnloadSaid(w)
    BY <1>2 DEF Results
  <2>2. w \in Worker /\ Unloaded \in PlainMsg
    BY UnloadResultsType DEF Msg, PlainMsg, Unloaded
  <2> QED
    BY <1>0, <1>2, <2>1, <2>2 DEF UnloadSaid
<1>3. CASE c.kind = "LoadTts"
  <2>1. PICK w \in Worker : r = [w |-> w, said |-> << TtsLoaded, ModelStatus(w.model) >>]
    <3>1. r \in LoadTtsResults
      BY <1>3 DEF Results
    <3> QED
      BY <3>1, UnloadResultsType DEF LoadTtsResults
  <2>2. TtsLoaded \in PlainMsg
    BY DEF Msg, PlainMsg, TtsLoaded
  <2> QED
    BY <1>0, <1>3, <2>1, <2>2
<1>4. CASE c.kind = "Transcribe"
  <2>1. c.job \in Nat /\ c.intent \in Intents /\ c.file \in Nat
    BY <1>4 DEF Cmd, LoadStt, UnloadStt, UnloadAll, LoadTts, Shutdown
  <2>2. TranscribeFailed(c.job) \in PlainMsg
    BY <2>1 DEF TranscribeFailed, Msg, PlainMsg
  <2>3. CASE r = NotLoaded(c)
    BY <1>4, <2>2, <2>3 DEF NotLoaded
  <2>4. CASE r \in TranscribeErrors(c)
    <3>1. Killed(worker) \in Worker /\ NoWorker \in Worker
      BY KilledType DEF NoWorker, Worker
    <3>2. PICK w \in Worker : r = Failure(c, w, << >>) \/ r = Failure(c, w, << SttTimedOut >>)
      BY <2>4, <3>1 DEF TranscribeErrors
    <3>3. SttTimedOut \in PlainMsg
      BY DEF Msg, PlainMsg, SttTimedOut
    <3>4. << ModelStatus(w.model), TranscribeFailed(c.job) >> \in Seq(PlainMsg)
      BY <1>0, <2>2
    <3>5. << >> \in Seq(PlainMsg) /\ << SttTimedOut >> \in Seq(PlainMsg)
      BY <3>3
    <3>6. \A first \in Seq(PlainMsg) : first \o << ModelStatus(w.model), TranscribeFailed(c.job) >> \in Seq(PlainMsg)
      BY <3>4, ConcatProperties
    <3>7. PICK first \in Seq(PlainMsg) : r = Failure(c, w, first)
      BY <3>2, <3>5
    <3> DEFINE said == first \o << ModelStatus(w.model), TranscribeFailed(c.job) >>
    <3>8. r = [w |-> w, said |-> said]
      BY <3>7 DEF Failure
    <3>9. said \in Seq(PlainMsg)
      BY <3>6, <3>7
    <3> HIDE DEF said
    <3> QED
      BY <1>4, <3>7, <3>8, <3>9
  <2>5. CASE \E t \in {c.file, NoFile} : r = [w |-> worker, said |-> << Transcribed(c.job, c.intent, t) >>]
    BY <1>4, <2>5 DEF TextOf
  <2> QED
    <3>1. r \in TranscribeResults(c)
      BY <1>4 DEF Results
    <3> QED
      BY <2>3, <2>4, <2>5, <3>1 DEF TranscribeResults
<1>5. CASE c.kind = "Shutdown"
  <2>1. r = [w |-> NoWorker, said |-> << >>]
    BY <1>5 DEF Results
  <2>2. NoWorker \in Worker /\ << >> \in Seq(PlainMsg)
    BY DEF NoWorker, Worker
  <2> QED
    BY <1>5, <2>1, <2>2
<1>6. c.kind \in {"LoadStt", "Unload", "UnloadAll", "LoadTts", "Transcribe", "Shutdown"}
  BY DEF Cmd, LoadStt, UnloadStt, UnloadAll, LoadTts, Shutdown
<1> QED
  BY <1>1, <1>2, <1>3, <1>4, <1>5, <1>6

\* No text is said but in answer to a transcription.
LEMMA ResultsSaid ==
  ASSUME worker \in Worker, NEW c \in Cmd, NEW r \in Results(c)
  PROVE  /\ r.w \in Worker
         /\ \/ r.said \in Seq(NoText)
            \/ c.kind = "Transcribe" /\ \E t \in {c.file, NoFile} : r.said = TextOf(c, t)
<1>1. Seq(PlainMsg) \subseteq Seq(NoText)
  <2>1. PlainMsg \subseteq NoText
    BY DEF PlainMsg, NoText
  <2> QED
    BY <2>1
<1>2. ASSUME c.model \in SttModels, NEW ok \in BOOLEAN, NEW w \in Worker
      PROVE  LoadSaid(c, ok, w) \in Seq(NoText)
  <2>1. SttLoaded(c.model, ok) \in NoText
    BY <1>2 DEF SttLoaded, Msg, NoText
  <2>2. ModelStatus(w.model) \in NoText
    BY ModelStatusType DEF Worker, NoText, ModelStatus
  <2> QED
    BY <2>1, <2>2 DEF LoadSaid
<1> QED
  BY <1>1, <1>2, ResultsSay

\* Whatever a command does leaves a worker and says messages.
LEMMA ResultsType ==
  ASSUME worker \in Worker, NEW c \in Cmd, NEW r \in Results(c)
  PROVE  r.w \in Worker /\ r.said \in Seq(Msg)
<1>1. CASE r.said \in Seq(NoText)
  <2>1. NoText \subseteq Msg
    BY DEF NoText
  <2>2. Seq(NoText) \subseteq Seq(Msg)
    BY <2>1
  <2> QED
    BY <1>1, <2>2, ResultsSaid
<1>2. CASE c.kind = "Transcribe" /\ \E t \in {c.file, NoFile} : r.said = TextOf(c, t)
  <2>1. c.job \in Nat /\ c.intent \in Intents /\ c.file \in Nat
    BY <1>2 DEF Cmd, LoadStt, UnloadStt, UnloadAll, LoadTts, Shutdown
  <2>2. \A t \in {c.file, NoFile} : Transcribed(c.job, c.intent, t) \in Msg
    BY <2>1 DEF Transcribed, Msg, NoFile
  <2>3. \A t \in {c.file, NoFile} : TextOf(c, t) \in Seq(Msg)
    BY <2>2 DEF TextOf
  <2> QED
    BY <1>2, <2>3, ResultsSaid
<1> QED
  BY <1>1, <1>2, ResultsSaid

\* What is drained is a message, and the rest are messages.
LEMMA TookType ==
  ASSUME msgs \in Seq(Msg), NEW kind, Took(kind)
  PROVE  msgs' \in Seq(Msg) /\ Head(msgs) \in Msg /\ Head(msgs).kind = kind
BY HeadTailProperties DEF Took

\* Commands whose sending keeps the queue typed.
LEMMA PlainCommands ==
  << UnloadStt >> \in Seq(Cmd) /\ << UnloadAll >> \in Seq(Cmd) /\ << LoadTts >> \in Seq(Cmd)
  /\ << UnloadAll, Shutdown >> \in Seq(Cmd)
<1>1. UnloadStt \in Cmd /\ UnloadAll \in Cmd /\ LoadTts \in Cmd /\ Shutdown \in Cmd
  BY DEF Cmd
<1> QED
  BY <1>1

\* No session is a microphone state.
LEMMA ClosedMicType == ClosedMic \in Mic
BY DEF ClosedMic, Mic, Intents

\* Forgetting what waits leaves a dictation state.
LEMMA ForgottenType ==
  ASSUME NEW u \in Stt
  PROVE  Forgotten(u) \in Stt
BY DEF Forgotten, Stt, NoPending, Pending, NoFile, NoJob, Intents

\* What an insertion leaves in the clipboard is a clipboard.
LEMMA InsertedType ==
  ASSUME clipboard \in Clipboard, NEW f \in Nat, NEW tool
  PROVE  Inserted(f, tool) \in Clipboard
<1>1. EmptyClip \in Clipboard
  BY DEF EmptyClip, Clipboard, NoFile
<1>2. TextClip(f) \in Clipboard
  BY <1>1 DEF TextClip, Clipboard
<1>3. Prior(tool) \in Clipboard
  BY <1>1 DEF Prior
<1> QED
  BY <1>2, <1>3 DEF Inserted

\* The initial states are typed.
LEMMA DictationTypeInit == DictationInit => DictationTypeOK
<1> SUFFICES ASSUME DictationInit PROVE DictationTypeOK
  OBVIOUS
<1>1. mic \in Mic
  BY ClosedMicType DEF DictationInit
<1>2. stt \in Stt
  <2>1. NoPending \in Pending
    BY DEF NoPending, Pending, NoFile, Intents
  <2> QED
    BY <2>1 DEF DictationInit, Stt, NoJob
<1>3. clipboard \in Clipboard
  BY DEF DictationInit, Clipboard, EmptyClip, NoFile
<1>4. worker \in Worker
  BY DEF DictationInit, NoWorker, Worker
<1> QED
  <2>1. cmds \in Seq(Cmd) /\ msgs \in Seq(Msg) /\ by \in Seq(Intents) /\ shown \in Seq(Nat)
    BY DEF DictationInit
  <2>2. thread \in BOOLEAN /\ copy \in BOOLEAN /\ switched \in BOOLEAN /\ kept \in BOOLEAN
    BY DEF DictationInit
  <2>3. transcript \in Nat /\ pasted \subseteq Nat
    BY DEF DictationInit, NoFile
  <2> QED
    BY <1>1, <1>2, <1>3, <1>4, <2>1, <2>2, <2>3 DEF DictationTypeOK

\* No step leaves the types.
LEMMA DictationTypeStep ==
  ASSUME DictationTypeOK, [DictationNext]_dictationVars
  PROVE  DictationTypeOK'
<1> USE DEF history, screen
<1>t. /\ mic \in Mic /\ stt \in Stt /\ cmds \in Seq(Cmd) /\ msgs \in Seq(Msg)
      /\ thread \in BOOLEAN /\ worker \in Worker /\ copy \in BOOLEAN
      /\ clipboard \in Clipboard /\ transcript \in Nat
      /\ by \in Seq(Intents) /\ shown \in Seq(Nat) /\ pasted \subseteq Nat
      /\ switched \in BOOLEAN /\ kept \in BOOLEAN
  BY DEF DictationTypeOK
<1>1. ASSUME NEW i \in Intents, NEW starts \in BOOLEAN, BeginRecording(i, starts)
      PROVE  DictationTypeOK'
  <2>1. mic' \in Mic
    BY <1>1, <1>t, ClosedMicType DEF BeginRecording, Mic
  <2> QED
    BY <1>1, <1>t, <2>1 DEF BeginRecording, DictationTypeOK
<1>2. ASSUME NEW i \in Intents, NEW o \in StopOutcomes, EndRecording(i, o)
      PROVE  DictationTypeOK'
  <2>1. mic' \in Mic
    BY <1>2, <1>t, ClosedMicType DEF EndRecording
  <2>2. stt' \in Stt /\ cmds' \in Seq(Cmd) /\ by' \in Seq(Intents)
    <3>1. CASE Discarded(i, o)
      BY <1>2, <1>t, <3>1 DEF EndRecording
    <3>2. CASE ~Discarded(i, o)
      <4>1. Len(by) + 1 \in Nat /\ mic.intent \in Intents /\ mic.by \in Intents
        BY <1>t DEF Mic
      <4>2. /\ stt' = FileOver(stt, Len(by) + 1, mic.intent).stt
            /\ Send(FileOver(stt, Len(by) + 1, mic.intent).sent)
            /\ by' = Append(by, mic.by)
        BY <1>2, <3>2 DEF EndRecording
      <4>3. stt' \in Stt /\ FileOver(stt, Len(by) + 1, mic.intent).sent \in Seq(Cmd)
        BY <1>t, <4>1, <4>2, FileOverType
      <4> QED
        BY <1>t, <4>1, <4>2, <4>3, SendType
    <3> QED
      BY <3>1, <3>2
  <2> QED
    BY <1>2, <1>t, <2>1, <2>2 DEF EndRecording, DictationTypeOK
<1>3. ASSUME PickFile PROVE DictationTypeOK'
  <2>1. Len(by) + 1 \in Nat /\ "idle" \in Intents
    BY <1>t DEF Intents
  <2>2. /\ stt' = FileOver(stt, Len(by) + 1, "idle").stt
        /\ Send(FileOver(stt, Len(by) + 1, "idle").sent)
        /\ by' = Append(by, "idle")
    BY <1>3 DEF PickFile
  <2>3. stt' \in Stt /\ FileOver(stt, Len(by) + 1, "idle").sent \in Seq(Cmd)
    BY <1>t, <2>1, <2>2, FileOverType
  <2>4. cmds' \in Seq(Cmd) /\ by' \in Seq(Intents)
    BY <1>t, <2>1, <2>2, <2>3, SendType
  <2> QED
    BY <1>3, <1>t, <2>3, <2>4 DEF PickFile, DictationTypeOK
<1>4. ASSUME NEW m \in SttModels, SelectModel(m) PROVE DictationTypeOK'
  <2>1. stt' \in Stt
    BY <1>4, <1>t DEF SelectModel, Stt
  <2> QED
    BY <1>4, <1>t, <2>1 DEF SelectModel, DictationTypeOK
<1>5. ASSUME AskLoad PROVE DictationTypeOK'
  <2>1. stt' \in Stt /\ LoadAsked(stt).sent \in Seq(Cmd)
    BY <1>5, <1>t, LoadAskedType DEF AskLoad
  <2>2. cmds' \in Seq(Cmd)
    BY <1>5, <1>t, <2>1, SendType DEF AskLoad
  <2> QED
    BY <1>5, <1>t, <2>1, <2>2 DEF AskLoad, DictationTypeOK
<1>6. ASSUME AskUnload PROVE DictationTypeOK'
  <2>1. cmds' \in Seq(Cmd)
    BY <1>6, <1>t, SendType, PlainCommands DEF AskUnload
  <2> QED
    BY <1>6, <1>t, <2>1 DEF AskUnload, DictationTypeOK
<1>7. ASSUME UnloadAllModels PROVE DictationTypeOK'
  <2>1. cmds' \in Seq(Cmd)
    BY <1>7, <1>t, SendType, PlainCommands DEF UnloadAllModels
  <2>2. worker' \in Worker /\ mic' \in Mic /\ stt' \in Stt
    BY <1>7, <1>t, KilledType, ClosedMicType, ForgottenType DEF UnloadAllModels
  <2> QED
    BY <1>7, <1>t, <2>1, <2>2 DEF UnloadAllModels, DictationTypeOK
<1>8. ASSUME AskVoice PROVE DictationTypeOK'
  <2>1. cmds' \in Seq(Cmd)
    BY <1>8, <1>t, SendType, PlainCommands DEF AskVoice
  <2> QED
    BY <1>8, <1>t, <2>1 DEF AskVoice, DictationTypeOK
<1>9. ASSUME NEW on \in BOOLEAN, SetCopy(on) PROVE DictationTypeOK'
  BY <1>9, <1>t DEF SetCopy, DictationTypeOK
<1>10. ASSUME CopyTranscript PROVE DictationTypeOK'
  <2>1. clipboard' \in Clipboard
    BY <1>10, <1>t DEF CopyTranscript, TextClip, EmptyClip, Clipboard, NoFile
  <2> QED
    BY <1>10, <1>t, <2>1 DEF CopyTranscript, DictationTypeOK
<1>11. ASSUME ClearTranscript PROVE DictationTypeOK'
  BY <1>11, <1>t DEF ClearTranscript, DictationTypeOK, NoFile
<1>12. ASSUME ArmQuit PROVE DictationTypeOK'
  <2>1. cmds' \in Seq(Cmd)
    BY <1>12, <1>t, SendType, PlainCommands DEF ArmQuit
  <2>2. worker' \in Worker
    BY <1>12, <1>t, KilledType DEF ArmQuit
  <2>3. mic' \in Mic
    BY <1>12, <1>t DEF ArmQuit, Mic
  <2> QED
    BY <1>12, <1>t, <2>1, <2>2, <2>3 DEF ArmQuit, DictationTypeOK
<1>13. ASSUME OnExit PROVE DictationTypeOK'
  <2>1. mic' \in Mic
    BY <1>13, <1>t DEF OnExit, Mic
  <2> QED
    BY <1>13, <1>t, <2>1 DEF OnExit, DictationTypeOK
<1>14. ASSUME HandleCmd PROVE DictationTypeOK'
  <2>1. Head(cmds) \in Cmd /\ Tail(cmds) \in Seq(Cmd)
    BY <1>14, <1>t, HeadTailProperties DEF HandleCmd
  <2>2. PICK r \in Results(Head(cmds)) : worker' = r.w /\ msgs' = msgs \o r.said
    BY <1>14 DEF HandleCmd
  <2>3. r.w \in Worker /\ r.said \in Seq(Msg)
    BY <1>t, <2>1, <2>2, ResultsType
  <2>4. worker' \in Worker /\ msgs' \in Seq(Msg)
    BY <1>t, <2>2, <2>3, ConcatProperties
  <2>5. cmds' \in Seq(Cmd) /\ thread' \in BOOLEAN
    BY <1>14, <2>1 DEF HandleCmd
  <2> QED
    BY <1>14, <1>t, <2>4, <2>5 DEF HandleCmd, DictationTypeOK
<1>15. ASSUME WorkerDies PROVE DictationTypeOK'
  <2>1. worker' \in Worker
    BY <1>15, <1>t, KilledType DEF WorkerDies
  <2> QED
    BY <1>15, <1>t, <2>1 DEF WorkerDies, DictationTypeOK
<1>16. ASSUME GotModelStatus PROVE DictationTypeOK'
  <2>1. msgs' \in Seq(Msg) /\ Head(msgs) \in Msg /\ Head(msgs).kind = "ModelStatus"
    BY <1>16, <1>t, TookType DEF GotModelStatus
  <2>2. Head(msgs).model \in SttModels \union {NoModel}
    BY <2>1 DEF Msg, ModelStatus, Unloaded, TtsLoaded, SttTimedOut
  <2>3. stt' \in Stt
    BY <1>16, <1>t, <2>2 DEF GotModelStatus, Stt
  <2> QED
    BY <1>16, <1>t, <2>1, <2>3 DEF GotModelStatus, DictationTypeOK
<1>17. ASSUME GotSttLoaded PROVE DictationTypeOK'
  <2>1. msgs' \in Seq(Msg) /\ Head(msgs) \in Msg /\ Head(msgs).kind = "SttLoaded"
    BY <1>17, <1>t, TookType DEF GotSttLoaded
  <2>2. Head(msgs).model \in SttModels
    BY <2>1 DEF Msg, ModelStatus, Unloaded, TtsLoaded, SttTimedOut
  <2>3. stt' \in Stt /\ cmds' \in Seq(Cmd)
    <3>1. CASE Head(msgs).ok
      <4>1. stt' = AfterLoad(stt, Head(msgs).model).stt /\ Send(AfterLoad(stt, Head(msgs).model).sent)
        BY <1>17, <3>1 DEF GotSttLoaded
      <4>2. stt' \in Stt /\ AfterLoad(stt, Head(msgs).model).sent \in Seq(Cmd)
        BY <1>t, <2>2, <4>1, AfterLoadType
      <4> QED
        BY <1>t, <4>1, <4>2, SendType
    <3>2. CASE ~Head(msgs).ok
      <4>1. Forgotten(stt) \in Stt
        BY <1>t, ForgottenType
      <4>2. stt' = [Forgotten(stt) EXCEPT !.loading = FALSE] /\ cmds' = cmds
        BY <1>17, <3>2 DEF GotSttLoaded
      <4>3. stt' \in Stt
        BY <4>1, <4>2 DEF Stt
      <4> QED
        BY <1>t, <4>2, <4>3
    <3> QED
      BY <3>1, <3>2
  <2> QED
    BY <1>17, <1>t, <2>1, <2>3 DEF GotSttLoaded, DictationTypeOK
<1>18. ASSUME GotOther PROVE DictationTypeOK'
  <2>1. msgs' \in Seq(Msg)
    BY <1>18, <1>t, TookType DEF GotOther
  <2> QED
    BY <1>18, <1>t, <2>1 DEF GotOther, DictationTypeOK
<1>19. ASSUME GotTimedOut PROVE DictationTypeOK'
  <2>1. msgs' \in Seq(Msg)
    BY <1>19, <1>t, TookType DEF GotTimedOut
  <2>2. stt' \in Stt
    BY <1>19, <1>t DEF GotTimedOut, Stt
  <2> QED
    BY <1>19, <1>t, <2>1, <2>2 DEF GotTimedOut, DictationTypeOK
<1>20. ASSUME GotFailed PROVE DictationTypeOK'
  <2>1. msgs' \in Seq(Msg)
    BY <1>20, <1>t, TookType DEF GotFailed
  <2>2. stt' \in Stt
    BY <1>20, <1>t DEF GotFailed, Stt, NoJob
  <2> QED
    BY <1>20, <1>t, <2>1, <2>2 DEF GotFailed, DictationTypeOK
<1>21. ASSUME GotTranscribed PROVE DictationTypeOK'
  <2>1. msgs' \in Seq(Msg) /\ Head(msgs) \in Msg /\ Head(msgs).kind = "Transcribed"
    BY <1>21, <1>t, TookType DEF GotTranscribed
  <2>2. Head(msgs).text \in Nat
    BY <2>1 DEF Msg, ModelStatus, Unloaded, TtsLoaded, SttTimedOut
  <2>3. CASE ~IsLiveStt(Head(msgs))
    BY <1>21, <1>t, <2>1, <2>3 DEF GotTranscribed, DictationTypeOK
  <2>4. CASE IsLiveStt(Head(msgs))
    <3>1. Shows(Head(msgs))
      BY <1>21, <2>4 DEF GotTranscribed
    <3>2. stt' \in Stt /\ transcript' \in Nat
      BY <1>t, <2>2, <3>1 DEF Shows, Stt, NoJob
    <3>3. shown' \in Seq(Nat)
      BY <1>t, <2>2, <3>1 DEF Shows
    <3>4. kept' \in BOOLEAN /\ pasted' \subseteq Nat
      BY <1>t, <2>2, <3>1 DEF Shows
    <3>5. TextClip(Head(msgs).text) \in Clipboard
      BY <2>2 DEF TextClip, EmptyClip, Clipboard, NoFile
    <3>6. \A tool \in Tools : Inserted(Head(msgs).text, tool) \in Clipboard
      BY <1>t, <2>2, InsertedType
    <3>7. clipboard' \in Clipboard
      BY <1>t, <3>1, <3>5, <3>6 DEF Shows
    <3> QED
      BY <1>21, <1>t, <2>1, <3>2, <3>3, <3>4, <3>7 DEF GotTranscribed, DictationTypeOK
  <2> QED
    BY <2>3, <2>4
<1>22. CASE UNCHANGED dictationVars
  BY <1>22, <1>t DEF dictationVars, DictationTypeOK
<1> QED
  BY <1>1, <1>2, <1>3, <1>4, <1>5, <1>6, <1>7, <1>8, <1>9, <1>10, <1>11, <1>12, <1>13, <1>14,
     <1>15, <1>16, <1>17, <1>18, <1>19, <1>20, <1>21, <1>22
     DEF DictationNext, Start, Finish, HandleMsg

\* The dictation state, the commands to the job thread and its messages keep
\* their types for every set of models.
THEOREM DictationTypeCorrect == DictationSpec => []DictationTypeOK
<1>1. DictationTypeOK /\ [DictationNext]_dictationVars => DictationTypeOK'
  BY DictationTypeStep
<1> QED
  BY <1>1, DictationTypeInit, PTL DEF DictationSpec

-----------------------------------------------------------------------------
(***************************************************************************)
(* What the UI thread waits for is under way: WaitsHaveWork is inductive   *)
(* once the types are known.  A step either leaves the command or message  *)
(* that is waited for where it is, or turns it into its answer, or ends    *)
(* the waiting.                                                            *)
(***************************************************************************)

\* Queue q holds a member of X.
Meets(q, X) == \E k \in DOMAIN q : q[k] \in X

LoadCmds    == {c \in Cmd : c.kind = "LoadStt"}
LoadMsgs    == {m \in Msg : m.kind = "SttLoaded"}
JobCmds(j)  == {c \in Cmd : c.kind = "Transcribe" /\ c.job = j}
JobMsgs(j)  == {m \in Msg : m.kind \in {"Transcribed", "TranscribeFailed"} /\ m.job = j}
Ends        == {c \in Cmd : c.kind = "Shutdown"}

\* A queue followed by another holds what either holds.
LEMMA MeetsConcat ==
  ASSUME NEW S, NEW q \in Seq(S), NEW s \in Seq(S), NEW X
  PROVE  Meets(q \o s, X) <=> Meets(q, X) \/ Meets(s, X)
<1>1. /\ DOMAIN q = 1 .. Len(q) /\ Len(q) \in Nat
      /\ DOMAIN s = 1 .. Len(s) /\ Len(s) \in Nat
      /\ DOMAIN (q \o s) = 1 .. Len(q) + Len(s)
  BY LenProperties, ConcatProperties
<1>2. \A k \in DOMAIN (q \o s) : (q \o s)[k] = IF k <= Len(q) THEN q[k] ELSE s[k - Len(q)]
  BY <1>1, ConcatProperties
<1>3. ASSUME Meets(q, X) PROVE Meets(q \o s, X)
  <2>1. PICK k \in DOMAIN q : q[k] \in X
    BY <1>3 DEF Meets
  <2>2. k \in DOMAIN (q \o s) /\ (q \o s)[k] = q[k]
    BY <1>1, <1>2
  <2> QED
    BY <2>1, <2>2 DEF Meets
<1>4. ASSUME Meets(s, X) PROVE Meets(q \o s, X)
  <2>1. PICK k \in DOMAIN s : s[k] \in X
    BY <1>4 DEF Meets
  <2>2. k + Len(q) \in DOMAIN (q \o s) /\ ~(k + Len(q) <= Len(q)) /\ (k + Len(q)) - Len(q) = k
    BY <1>1
  <2>3. (q \o s)[k + Len(q)] = s[k]
    BY <1>2, <2>2
  <2> QED
    BY <2>1, <2>2, <2>3 DEF Meets
<1>5. ASSUME Meets(q \o s, X) PROVE Meets(q, X) \/ Meets(s, X)
  <2>1. PICK k \in DOMAIN (q \o s) : (q \o s)[k] \in X
    BY <1>5 DEF Meets
  <2>2. CASE k <= Len(q)
    <3>1. k \in DOMAIN q /\ q[k] \in X
      BY <1>1, <1>2, <2>1, <2>2
    <3> QED
      BY <3>1 DEF Meets
  <2>3. CASE ~(k <= Len(q))
    <3>1. k - Len(q) \in DOMAIN s /\ s[k - Len(q)] \in X
      BY <1>1, <1>2, <2>1, <2>3
    <3> QED
      BY <3>1 DEF Meets
  <2> QED
    BY <2>2, <2>3
<1> QED
  BY <1>3, <1>4, <1>5

\* A queue holds its head and what the rest holds.
LEMMA MeetsTail ==
  ASSUME NEW S, NEW q \in Seq(S), q # << >>, NEW X
  PROVE  Meets(q, X) <=> Head(q) \in X \/ Meets(Tail(q), X)
<1>1. /\ DOMAIN q = 1 .. Len(q) /\ Len(q) \in Nat \ {0} /\ Head(q) = q[1]
      /\ DOMAIN Tail(q) = 1 .. Len(q) - 1
      /\ \A k \in DOMAIN Tail(q) : Tail(q)[k] = q[k + 1]
  BY LenProperties, EmptySeq, HeadTailProperties
<1>2. ASSUME Meets(q, X), Head(q) \notin X PROVE Meets(Tail(q), X)
  <2>1. PICK k \in DOMAIN q : q[k] \in X
    BY <1>2 DEF Meets
  <2>2. k - 1 \in DOMAIN Tail(q) /\ (k - 1) + 1 = k
    BY <1>1, <1>2, <2>1
  <2>3. Tail(q)[k - 1] \in X
    BY <1>1, <2>1, <2>2
  <2> QED
    BY <2>2, <2>3 DEF Meets
<1>3. ASSUME Head(q) \in X PROVE Meets(q, X)
  BY <1>1, <1>3 DEF Meets
<1>4. ASSUME Meets(Tail(q), X) PROVE Meets(q, X)
  <2>1. PICK k \in DOMAIN Tail(q) : Tail(q)[k] \in X
    BY <1>4 DEF Meets
  <2>2. k + 1 \in DOMAIN q /\ q[k + 1] \in X
    BY <1>1, <2>1
  <2> QED
    BY <2>2 DEF Meets
<1> QED
  BY <1>2, <1>3, <1>4

\* A queue of one holds that one.
LEMMA MeetsOne ==
  ASSUME NEW a, NEW X
  PROVE  Meets(<< a >>, X) <=> a \in X
<1>1. DOMAIN << a >> = {1} /\ << a >>[1] = a
  OBVIOUS
<1> QED
  BY <1>1 DEF Meets

\* So is a queue of two.
LEMMA MeetsTwo ==
  ASSUME NEW a, NEW b, NEW X
  PROVE  Meets(<< a, b >>, X) <=> a \in X \/ b \in X
<1>1. DOMAIN << a, b >> = {1, 2} /\ << a, b >>[1] = a /\ << a, b >>[2] = b
  OBVIOUS
<1> QED
  BY <1>1 DEF Meets

\* What is under way, in terms of the queues.
Loads(q, s) == Meets(q, LoadCmds) \/ Meets(s, LoadMsgs)
Answers(q, s, j) == Meets(q, JobCmds(j)) \/ Meets(s, JobMsgs(j))
Ending(t, q) == ~t \/ Meets(q, Ends)

\* u waits for nothing that is not under way.
Supported(u, q, s) ==
  /\ u.loading => Loads(q, s)
  /\ u.pending # NoPending => Loads(q, s)
  /\ u.live # NoJob => Answers(q, s, u.live)

\* LoadInFlight, AnswerInFlight and Quitting, read off the queues.
LEMMA InQueues ==
  ASSUME cmds \in Seq(Cmd), msgs \in Seq(Msg)
  PROVE  /\ LoadInFlight <=> Loads(cmds, msgs)
         /\ \A j : AnswerInFlight(j) <=> Answers(cmds, msgs, j)
         /\ Quitting <=> Ending(thread, cmds)
<1>1. (\A k \in DOMAIN cmds : cmds[k] \in Cmd) /\ (\A k \in DOMAIN msgs : msgs[k] \in Msg)
  BY ElementOfSeq, LenProperties
<1>2. LoadInFlight <=> Loads(cmds, msgs)
  BY <1>1 DEF LoadInFlight, Loads, Meets, LoadCmds, LoadMsgs
<1>3. \A j : AnswerInFlight(j) <=> Answers(cmds, msgs, j)
  BY <1>1 DEF AnswerInFlight, Answers, Meets, JobCmds, JobMsgs
<1>4. Quitting <=> Ending(thread, cmds)
  BY <1>1 DEF Quitting, Ending, Meets, Ends
<1> QED
  BY <1>2, <1>3, <1>4

\* The inductive invariant: WaitsHaveWork in these terms.
WaitInv == ~Ending(thread, cmds) => Supported(stt, cmds, msgs)

\* On typed states it is WaitsHaveWork.
LEMMA WaitInvMeans == DictationTypeOK => (WaitInv <=> WaitsHaveWork)
BY InQueues DEF WaitsHaveWork, WaitInv, Supported, DictationTypeOK

\* More commands and messages take no support away.
LEMMA SupportedGrows ==
  ASSUME NEW u, NEW q \in Seq(Cmd), NEW s \in Seq(Msg), NEW c \in Seq(Cmd), NEW d \in Seq(Msg),
         Supported(u, q, s)
  PROVE  Supported(u, q \o c, s) /\ Supported(u, q, s \o d)
<1>1. Loads(q, s) => Loads(q \o c, s) /\ Loads(q, s \o d)
  BY MeetsConcat DEF Loads
<1>2. \A j : Answers(q, s, j) => Answers(q \o c, s, j) /\ Answers(q, s \o d, j)
  BY MeetsConcat DEF Answers
<1> QED
  BY <1>1, <1>2 DEF Supported

\* A command sent while the program is not quitting reaches the queue.
LEMMA SendReaches ==
  ASSUME cmds \in Seq(Cmd), NEW c \in Seq(Cmd), Send(c), thread' = thread,
         ~Ending(thread', cmds')
  PROVE  cmds' = cmds \o c /\ ~Ending(thread, cmds)
<1>1. cmds' = cmds \o c
  BY DEF Send, Ending
<1>2. Meets(cmds, Ends) => Meets(cmds', Ends)
  BY <1>1, MeetsConcat
<1> QED
  BY <1>1, <1>2 DEF Ending

\* load_stt: what waits for the model has its load under way.
LEMMA LoadAskedSupported ==
  ASSUME NEW u \in Stt, NEW q \in Seq(Cmd), NEW s \in Seq(Msg),
         u.loading => Loads(q, s),
         u.live # NoJob => Answers(q, s, u.live)
  PROVE  Supported(LoadAsked(u).stt, q \o LoadAsked(u).sent, s)
<1>1. CASE u.loading
  <2>1. q \o << >> = q
    BY ConcatEmptySeq
  <2> QED
    BY <1>1, <2>1 DEF LoadAsked, Supported
<1>2. CASE ~u.loading
  <2> DEFINE c == LoadStt(u.selected)
  <2>1. c \in LoadCmds /\ << c >> \in Seq(Cmd)
    BY DEF LoadCmds, LoadStt, Cmd, Stt
  <2>2. LoadAsked(u).stt = [u EXCEPT !.loading = TRUE] /\ LoadAsked(u).sent = << c >>
    BY <1>2 DEF LoadAsked
  <2> HIDE DEF c
  <2>3. Loads(q \o << c >>, s)
    BY <2>1, MeetsConcat, MeetsOne DEF Loads
  <2>4. u.live # NoJob => Answers(q \o << c >>, s, u.live)
    BY <2>1, MeetsConcat DEF Answers
  <2>5. LoadAsked(u).stt.live = u.live
    BY <2>2 DEF Stt
  <2> QED
    BY <2>2, <2>3, <2>4, <2>5 DEF Supported
<1> QED
  BY <1>1, <1>2

\* do_transcribe_file: a file is transcribed, or waits for a load under way.
LEMMA FileOverSupported ==
  ASSUME NEW u \in Stt, NEW f \in Nat, NEW i \in Intents,
         NEW q \in Seq(Cmd), NEW s \in Seq(Msg), Supported(u, q, s)
  PROVE  Supported(FileOver(u, f, i).stt, q \o FileOver(u, f, i).sent, s)
<1>1. CASE Ready(u)
  <2> DEFINE c == Transcribe(u.next, i, f)
             v == [u EXCEPT !.live = u.next, !.next = u.next + 1]
  <2>1. c \in JobCmds(u.next) /\ << c >> \in Seq(Cmd)
    BY DEF JobCmds, Transcribe, Cmd, Stt
  <2>2. FileOver(u, f, i).stt = v /\ FileOver(u, f, i).sent = << c >>
    BY <1>1 DEF FileOver, FileQueued
  <2>3. v.live = u.next /\ v.pending = u.pending /\ v.loading = u.loading
    BY DEF Stt
  <2> HIDE DEF c, v
  <2>4. Answers(q \o << c >>, s, u.next)
    BY <2>1, MeetsConcat, MeetsOne DEF Answers
  <2>5. Supported(u, q \o << c >>, s)
    BY <2>1, SupportedGrows, EmptySeq
  <2> QED
    BY <2>2, <2>3, <2>4, <2>5 DEF Supported
<1>2. CASE ~Ready(u)
  <2> DEFINE v == [u EXCEPT !.pending = [file |-> f, intent |-> i]]
  <2>1. v \in Stt /\ v.loading = u.loading /\ v.live = u.live
    BY DEF Stt, Pending
  <2>2. FileOver(u, f, i) = LoadAsked(v)
    BY <1>2 DEF FileOver
  <2>3. (u.loading => Loads(q, s)) /\ (u.live # NoJob => Answers(q, s, u.live))
    BY DEF Supported
  <2> HIDE DEF v
  <2> QED
    BY <2>1, <2>2, <2>3, LoadAskedSupported
<1> QED
  BY <1>1, <1>2

\* The answer to a load ends the waiting for it; the file that waited goes on.
LEMMA AfterLoadSupported ==
  ASSUME NEW u \in Stt, NEW m \in SttModels, NEW q \in Seq(Cmd), NEW s \in Seq(Msg),
         u.live # NoJob => Answers(q, s, u.live)
  PROVE  Supported(AfterLoad(u, m).stt, q \o AfterLoad(u, m).sent, s)
<1> DEFINE up == [u EXCEPT !.loading = FALSE, !.loaded = TRUE, !.id = m, !.pending = NoPending]
<1>1. up \in Stt /\ up.pending = NoPending /\ up.loading = FALSE /\ up.live = u.live
  BY DEF Stt, Pending, NoPending, NoFile, Intents
<1>2. Supported(up, q, s)
  BY <1>1 DEF Supported
<1>3. u.pending.file \in Nat /\ u.pending.intent \in Intents
  BY DEF Stt, Pending
<1>4. CASE u.pending = NoPending
  <2>1. AfterLoad(u, m).stt = up /\ AfterLoad(u, m).sent = << >>
    BY <1>4 DEF AfterLoad
  <2>2. q \o << >> = q
    BY ConcatEmptySeq
  <2> QED
    BY <1>2, <2>1, <2>2
<1>5. CASE u.pending # NoPending
  <2>1. AfterLoad(u, m) = FileOver(up, u.pending.file, u.pending.intent)
    BY <1>5 DEF AfterLoad
  <2> HIDE DEF up
  <2> QED
    BY <1>1, <1>2, <1>3, <2>1, FileOverSupported
<1> QED
  BY <1>4, <1>5

\* A load is answered, and so is a transcription, under its own job number.
LEMMA ResultsAnswer ==
  ASSUME worker \in Worker, NEW c \in Cmd, NEW r \in Results(c)
  PROVE  /\ c.kind = "LoadStt" => Meets(r.said, LoadMsgs)
         /\ c.kind = "Transcribe" => Meets(r.said, JobMsgs(c.job))
<1>1. ASSUME c.kind = "LoadStt" PROVE Meets(r.said, LoadMsgs)
  <2>1. c.model \in SttModels
    BY <1>1 DEF Cmd, LoadStt, UnloadStt, UnloadAll, LoadTts, Shutdown
  <2>2. PICK p \in LoadResults(worker, c.model) :
          r = [w |-> p.w, said |-> << SttLoaded(c.model, p.ok), ModelStatus(p.w.model) >>]
    <3>1. r \in LoadSttResults(c)
      BY <1>1 DEF Results
    <3> QED
      BY <3>1 DEF LoadSttResults
  <2>3. p.ok \in BOOLEAN
    BY <2>1, LoadResultsType
  <2>4. SttLoaded(c.model, p.ok) \in LoadMsgs
    BY <2>1, <2>3 DEF SttLoaded, LoadMsgs, Msg
  <2>5. r.said = << SttLoaded(c.model, p.ok), ModelStatus(p.w.model) >>
    BY <2>2
  <2> QED
    BY <2>4, <2>5, MeetsTwo
<1>2. ASSUME c.kind = "Transcribe" PROVE Meets(r.said, JobMsgs(c.job))
  <2>1. c.job \in Nat /\ c.intent \in Intents /\ c.file \in Nat
    BY <1>2 DEF Cmd, LoadStt, UnloadStt, UnloadAll, LoadTts, Shutdown
  <2>2. TranscribeFailed(c.job) \in JobMsgs(c.job)
    BY <2>1 DEF TranscribeFailed, JobMsgs, Msg
  <2>3. CASE r = NotLoaded(c)
    <3>1. r.said = << TranscribeFailed(c.job) >>
      BY <2>3 DEF NotLoaded
    <3> QED
      BY <2>2, <3>1, MeetsOne
  <2>4. CASE r \in TranscribeErrors(c)
    <3>1. Killed(worker) \in Worker /\ NoWorker \in Worker
      BY KilledType DEF NoWorker, Worker
    <3>2. PICK w \in Worker : r = Failure(c, w, << >>) \/ r = Failure(c, w, << SttTimedOut >>)
      BY <2>4, <3>1 DEF TranscribeErrors
    <3> DEFINE end == << ModelStatus(w.model), TranscribeFailed(c.job) >>
    <3>3. end \in Seq(Msg)
      <4>1. ModelStatus(w.model) \in Msg
        BY <3>2, ModelStatusType DEF Worker
      <4>2. TranscribeFailed(c.job) \in Msg
        BY <2>2 DEF JobMsgs
      <4> QED
        BY <4>1, <4>2
    <3>4. Meets(end, JobMsgs(c.job))
      BY <2>2, MeetsTwo
    <3>5. << >> \in Seq(Msg) /\ << SttTimedOut >> \in Seq(Msg)
      BY DEF Msg
    <3>6. r.said = << >> \o end \/ r.said = << SttTimedOut >> \o end
      BY <3>2 DEF Failure
    <3> HIDE DEF end
    <3>7. \A first \in Seq(Msg) : Meets(first \o end, JobMsgs(c.job))
      BY <3>3, <3>4, MeetsConcat
    <3> QED
      BY <3>5, <3>6, <3>7
  <2>5. CASE \E t \in {c.file, NoFile} : r = [w |-> worker, said |-> TextOf(c, t)]
    <3>1. \A t \in {c.file, NoFile} : Transcribed(c.job, c.intent, t) \in JobMsgs(c.job)
      BY <2>1 DEF Transcribed, JobMsgs, Msg, NoFile
    <3>2. \A t \in {c.file, NoFile} : Meets(TextOf(c, t), JobMsgs(c.job))
      BY <3>1, MeetsOne DEF TextOf
    <3> QED
      BY <2>5, <3>2
  <2>6. r \in TranscribeResults(c)
    BY <1>2 DEF Results
  <2> QED
    BY <2>3, <2>4, <2>5, <2>6 DEF TranscribeResults, TextOf
<1> QED
  BY <1>1, <1>2

\* A message that ends no waiting of u is drained without loss.
LEMMA DrainSupported ==
  ASSUME msgs \in Seq(Msg), msgs # << >>, NEW u, NEW q, Supported(u, q, msgs),
         Head(msgs) \notin LoadMsgs, u.live # NoJob => Head(msgs) \notin JobMsgs(u.live)
  PROVE  Supported(u, q, Tail(msgs))
<1>1. Loads(q, msgs) => Loads(q, Tail(msgs))
  BY MeetsTail DEF Loads
<1>2. u.live # NoJob /\ Answers(q, msgs, u.live) => Answers(q, Tail(msgs), u.live)
  BY MeetsTail DEF Answers
<1> QED
  BY <1>1, <1>2 DEF Supported
\* No step leaves the UI waiting for what is not under way.
LEMMA WaitsStep ==
  ASSUME DictationTypeOK, WaitInv, [DictationNext]_dictationVars, DictationTypeOK'
  PROVE  WaitInv'
<1> USE DEF history, screen
<1>t. /\ mic \in Mic /\ stt \in Stt /\ cmds \in Seq(Cmd) /\ msgs \in Seq(Msg)
      /\ worker \in Worker /\ by \in Seq(Intents)
      /\ cmds' \in Seq(Cmd) /\ msgs' \in Seq(Msg)
  BY DEF DictationTypeOK
<1>w. ~Ending(thread, cmds) => Supported(stt, cmds, msgs)
  BY DEF WaitInv
<1> SUFFICES ASSUME ~Ending(thread', cmds') PROVE Supported(stt', cmds', msgs')
  BY DEF WaitInv
<1>s. ASSUME thread' = thread, msgs' = msgs, NEW c \in Seq(Cmd), Send(c)
      PROVE  Supported(stt, cmds, msgs) /\ cmds' = cmds \o c /\ Supported(stt, cmds', msgs')
  <2>1. cmds' = cmds \o c /\ ~Ending(thread, cmds)
    BY <1>s, <1>t, SendReaches
  <2>2. Supported(stt, cmds, msgs)
    BY <1>w, <2>1
  <2>3. Supported(stt, cmds \o c, msgs)
    BY <1>s, <1>t, <2>2, SupportedGrows, EmptySeq
  <2> QED
    BY <1>s, <2>1, <2>2, <2>3
<1>same. ASSUME cmds' = cmds, thread' = thread PROVE Supported(stt, cmds, msgs)
  BY <1>same, <1>w
<1>1. ASSUME NEW i \in Intents, NEW starts \in BOOLEAN, BeginRecording(i, starts)
      PROVE  Supported(stt', cmds', msgs')
  BY <1>1, <1>same DEF BeginRecording
<1>2. ASSUME NEW i \in Intents, NEW o \in StopOutcomes, EndRecording(i, o)
      PROVE  Supported(stt', cmds', msgs')
  <2>1. CASE Discarded(i, o)
    BY <1>2, <2>1, <1>same DEF EndRecording
  <2>2. CASE ~Discarded(i, o)
    <3> DEFINE over == FileOver(stt, Len(by) + 1, mic.intent)
    <3>1. stt' = over.stt /\ Send(over.sent) /\ thread' = thread /\ msgs' = msgs
      BY <1>2, <2>2 DEF EndRecording
    <3>2. Len(by) + 1 \in Nat /\ mic.intent \in Intents
      BY <1>t DEF Mic
    <3>3. over.sent \in Seq(Cmd)
      BY <1>t, <3>2, FileOverType
    <3>4. Supported(stt, cmds, msgs) => Supported(over.stt, cmds \o over.sent, msgs)
      BY <1>t, <3>2, FileOverSupported
    <3> HIDE DEF over
    <3> QED
      BY <1>s, <3>1, <3>3, <3>4
  <2> QED
    BY <2>1, <2>2
<1>3. ASSUME PickFile PROVE Supported(stt', cmds', msgs')
  <2> DEFINE over == FileOver(stt, Len(by) + 1, "idle")
  <2>1. stt' = over.stt /\ Send(over.sent) /\ thread' = thread /\ msgs' = msgs
    BY <1>3 DEF PickFile
  <2>2. Len(by) + 1 \in Nat /\ "idle" \in Intents
    BY <1>t DEF Intents
  <2>3. over.sent \in Seq(Cmd)
    BY <1>t, <2>2, FileOverType
  <2>4. Supported(stt, cmds, msgs) => Supported(over.stt, cmds \o over.sent, msgs)
    BY <1>t, <2>2, FileOverSupported
  <2> HIDE DEF over
  <2> QED
    BY <1>s, <2>1, <2>3, <2>4
<1>4. ASSUME NEW m \in SttModels, SelectModel(m) PROVE Supported(stt', cmds', msgs')
  <2>1. stt'.loading = stt.loading /\ stt'.pending = stt.pending /\ stt'.live = stt.live
    BY <1>4, <1>t DEF SelectModel, Stt
  <2> QED
    BY <1>4, <1>same, <2>1 DEF SelectModel, Supported
<1>5. ASSUME AskLoad PROVE Supported(stt', cmds', msgs')
  <2> DEFINE asked == LoadAsked(stt)
  <2>1. stt' = asked.stt /\ Send(asked.sent) /\ thread' = thread /\ msgs' = msgs
    BY <1>5 DEF AskLoad
  <2>2. asked.sent \in Seq(Cmd)
    BY <1>t, LoadAskedType
  <2>3. Supported(stt, cmds, msgs) => Supported(asked.stt, cmds \o asked.sent, msgs)
    BY <1>t, LoadAskedSupported DEF Supported
  <2> HIDE DEF asked
  <2> QED
    BY <1>s, <2>1, <2>2, <2>3
<1>6. ASSUME AskUnload PROVE Supported(stt', cmds', msgs')
  BY <1>6, <1>s, PlainCommands DEF AskUnload
<1>7. ASSUME UnloadAllModels PROVE Supported(stt', cmds', msgs')
  <2>1. Supported(stt, cmds', msgs')
    BY <1>7, <1>s, PlainCommands DEF UnloadAllModels
  <2>2. stt'.loading = stt.loading /\ stt'.pending = NoPending /\ stt'.live = NoJob
    BY <1>7, <1>t DEF UnloadAllModels, Forgotten, Stt
  <2> QED
    BY <2>1, <2>2 DEF Supported
<1>8. ASSUME AskVoice PROVE Supported(stt', cmds', msgs')
  BY <1>8, <1>s, PlainCommands DEF AskVoice
<1>9. ASSUME NEW on \in BOOLEAN, SetCopy(on) PROVE Supported(stt', cmds', msgs')
  BY <1>9, <1>same DEF SetCopy
<1>10. ASSUME CopyTranscript PROVE Supported(stt', cmds', msgs')
  BY <1>10, <1>same DEF CopyTranscript
<1>11. ASSUME ClearTranscript PROVE Supported(stt', cmds', msgs')
  BY <1>11, <1>same DEF ClearTranscript
<1>12. ASSUME ArmQuit PROVE Supported(stt', cmds', msgs')
  BY <1>12, <1>s, PlainCommands DEF ArmQuit
<1>13. ASSUME OnExit PROVE Supported(stt', cmds', msgs')
  BY <1>13, <1>same DEF OnExit
<1>14. ASSUME HandleCmd PROVE Supported(stt', cmds', msgs')
  <2> DEFINE c == Head(cmds)
  <2>1. thread /\ cmds # << >> /\ c \in Cmd /\ Tail(cmds) \in Seq(Cmd) /\ stt' = stt
    BY <1>14, <1>t, HeadTailProperties DEF HandleCmd
  <2>2. thread' /\ c.kind # "Shutdown" /\ cmds' = Tail(cmds)
    BY <1>14 DEF HandleCmd, Ending
  <2>3. PICK r \in Results(c) : msgs' = msgs \o r.said
    BY <1>14 DEF HandleCmd
  <2>4. r.said \in Seq(Msg)
    BY <1>t, <2>1, <2>3, ResultsType
  <2>5. /\ c.kind = "LoadStt" => Meets(msgs', LoadMsgs)
        /\ c.kind = "Transcribe" => Meets(msgs', JobMsgs(c.job))
    BY <1>t, <2>1, <2>3, <2>4, ResultsAnswer, MeetsConcat
  <2>6. /\ Meets(msgs, LoadMsgs) => Meets(msgs', LoadMsgs)
        /\ \A j : Meets(msgs, JobMsgs(j)) => Meets(msgs', JobMsgs(j))
    BY <1>t, <2>3, <2>4, MeetsConcat
  <2>7. ~Ending(thread, cmds)
    <3>1. c \notin Ends
      BY <2>2 DEF Ends
    <3> QED
      BY <1>t, <2>1, <2>2, <3>1, MeetsTail DEF Ending
  <2>8. Loads(cmds, msgs) => Loads(cmds', msgs')
    BY <1>t, <2>1, <2>2, <2>5, <2>6, MeetsTail DEF Loads, LoadCmds
  <2>9. \A j : Answers(cmds, msgs, j) => Answers(cmds', msgs', j)
    BY <1>t, <2>1, <2>2, <2>5, <2>6, MeetsTail DEF Answers, JobCmds
  <2> QED
    BY <1>w, <2>1, <2>7, <2>8, <2>9 DEF Supported
<1>15. ASSUME WorkerDies PROVE Supported(stt', cmds', msgs')
  BY <1>15, <1>same DEF WorkerDies
<1>16. ASSUME NEW kind, Took(kind), kind \notin {"SttLoaded", "Transcribed", "TranscribeFailed"},
              Supported(stt, cmds, msgs)
       PROVE  Supported(stt, cmds, msgs')
  <2>1. Head(msgs) \notin LoadMsgs /\ \A j : Head(msgs) \notin JobMsgs(j)
    BY <1>16 DEF Took, LoadMsgs, JobMsgs
  <2> QED
    BY <1>16, <1>t, <2>1, DrainSupported DEF Took
<1>17. ASSUME GotModelStatus PROVE Supported(stt', cmds', msgs')
  <2>1. Supported(stt, cmds', msgs')
    BY <1>16, <1>17, <1>same DEF GotModelStatus
  <2>2. stt'.loading = stt.loading /\ stt'.pending = stt.pending /\ stt'.live = stt.live
    BY <1>17, <1>t DEF GotModelStatus, Stt
  <2> QED
    BY <2>1, <2>2 DEF Supported
<1>18. ASSUME GotSttLoaded PROVE Supported(stt', cmds', msgs')
  <2>1. msgs # << >> /\ msgs' = Tail(msgs) /\ Head(msgs) \in Msg /\ Head(msgs).kind = "SttLoaded"
    BY <1>18, <1>t, TookType DEF GotSttLoaded, Took
  <2>2. Head(msgs).model \in SttModels
    BY <2>1 DEF Msg, ModelStatus, Unloaded, TtsLoaded, SttTimedOut
  <2>3. Answers(cmds, msgs, stt.live) => Answers(cmds, msgs', stt.live)
    <3>1. Head(msgs) \notin JobMsgs(stt.live)
      BY <2>1 DEF JobMsgs
    <3> QED
      BY <1>t, <2>1, <3>1, MeetsTail DEF Answers
  <2>4. CASE Head(msgs).ok
    <3> DEFINE after == AfterLoad(stt, Head(msgs).model)
    <3>1. stt' = after.stt /\ Send(after.sent) /\ thread' = thread
      BY <1>18, <2>4 DEF GotSttLoaded
    <3>2. after.sent \in Seq(Cmd)
      BY <1>t, <2>2, AfterLoadType
    <3>3. cmds' = cmds \o after.sent /\ ~Ending(thread, cmds)
      BY <1>t, <3>1, <3>2, SendReaches
    <3>4. stt.live # NoJob => Answers(cmds, msgs', stt.live)
      BY <1>w, <2>3, <3>3 DEF Supported
    <3>5. Supported(after.stt, cmds \o after.sent, msgs')
      BY <1>t, <2>2, <3>4, AfterLoadSupported
    <3> HIDE DEF after
    <3> QED
      BY <3>1, <3>3, <3>5
  <2>5. CASE ~Head(msgs).ok
    <3>1. stt'.loading = FALSE /\ stt'.pending = NoPending /\ stt'.live = NoJob
      BY <1>18, <1>t, <2>5 DEF GotSttLoaded, Forgotten, Stt
    <3> QED
      BY <3>1 DEF Supported
  <2> QED
    BY <2>4, <2>5
<1>19. ASSUME GotOther PROVE Supported(stt', cmds', msgs')
  BY <1>16, <1>19, <1>same DEF GotOther
<1>20. ASSUME GotTimedOut PROVE Supported(stt', cmds', msgs')
  <2>1. Supported(stt, cmds', msgs')
    BY <1>16, <1>20, <1>same DEF GotTimedOut
  <2>2. stt'.loading = FALSE /\ stt'.pending = stt.pending /\ stt'.live = stt.live
    BY <1>20, <1>t DEF GotTimedOut, Stt
  <2> QED
    BY <2>1, <2>2 DEF Supported
<1>21. ASSUME GotFailed PROVE Supported(stt', cmds', msgs')
  <2>1. Supported(stt, cmds, msgs) /\ cmds' = cmds
    BY <1>21, <1>same DEF GotFailed
  <2>2. msgs # << >> /\ msgs' = Tail(msgs) /\ Head(msgs).kind = "TranscribeFailed"
    BY <1>21 DEF GotFailed, Took
  <2>3. Loads(cmds, msgs) => Loads(cmds, msgs')
    BY <1>t, <2>2, MeetsTail DEF Loads, LoadMsgs
  <2>4. CASE Head(msgs).job = stt.live
    <3>1. stt'.loading = stt.loading /\ stt'.pending = stt.pending /\ stt'.live = NoJob
      BY <1>21, <1>t, <2>4 DEF GotFailed, Stt
    <3> QED
      BY <2>1, <2>3, <3>1 DEF Supported
  <2>5. CASE Head(msgs).job # stt.live
    <3>1. stt' = stt /\ Head(msgs) \notin JobMsgs(stt.live) /\ Head(msgs) \notin LoadMsgs
      BY <1>21, <2>2, <2>5 DEF GotFailed, JobMsgs, LoadMsgs
    <3> QED
      BY <1>t, <2>1, <2>2, <3>1, DrainSupported
  <2> QED
    BY <2>4, <2>5
<1>22. ASSUME GotTranscribed PROVE Supported(stt', cmds', msgs')
  <2>1. Supported(stt, cmds, msgs) /\ cmds' = cmds
    BY <1>22, <1>same DEF GotTranscribed
  <2>2. msgs # << >> /\ msgs' = Tail(msgs) /\ Head(msgs).kind = "Transcribed"
    BY <1>22 DEF GotTranscribed, Took
  <2>3. Loads(cmds, msgs) => Loads(cmds, msgs')
    BY <1>t, <2>2, MeetsTail DEF Loads, LoadMsgs
  <2>4. CASE IsLiveStt(Head(msgs))
    <3>1. stt'.loading = stt.loading /\ stt'.pending = stt.pending /\ stt'.live = NoJob
      BY <1>22, <1>t, <2>4 DEF GotTranscribed, Shows, Stt
    <3> QED
      BY <2>1, <2>3, <3>1 DEF Supported
  <2>5. CASE ~IsLiveStt(Head(msgs))
    <3>1. stt' = stt /\ Head(msgs) \notin JobMsgs(stt.live) /\ Head(msgs) \notin LoadMsgs
      BY <1>22, <2>2, <2>5 DEF GotTranscribed, IsLiveStt, JobMsgs, LoadMsgs
    <3> QED
      BY <1>t, <2>1, <2>2, <3>1, DrainSupported
  <2> QED
    BY <2>4, <2>5
<1>23. CASE UNCHANGED dictationVars
  BY <1>23, <1>same DEF dictationVars
<1> QED
  BY <1>1, <1>2, <1>3, <1>4, <1>5, <1>6, <1>7, <1>8, <1>9, <1>10, <1>11, <1>12, <1>13, <1>14,
     <1>15, <1>17, <1>18, <1>19, <1>20, <1>21, <1>22, <1>23
     DEF DictationNext, Start, Finish, HandleMsg

\* Nothing is waited for at the start.
LEMMA WaitsInit == DictationInit => WaitInv
<1> SUFFICES ASSUME DictationInit PROVE WaitInv
  OBVIOUS
<1>1. stt.loading = FALSE /\ stt.pending = NoPending /\ stt.live = NoJob
  BY DEF DictationInit
<1> QED
  BY <1>1 DEF WaitInv, Supported

\* For every set of models, and however loads, time-outs, deaths of the worker,
\* unloads and newer dictations interleave: while the program is not quitting,
\* a dictation that waits has its load, its command or its answer under way.
THEOREM WaitingHasWork == DictationSpec => []WaitsHaveWork
<1>1. DictationTypeOK /\ WaitInv /\ [DictationNext]_dictationVars /\ DictationTypeOK' => WaitInv'
  BY WaitsStep
<1>2. DictationTypeOK /\ WaitInv => WaitsHaveWork
  BY WaitInvMeans
<1> QED
  BY <1>1, <1>2, WaitsInit, DictationTypeCorrect, PTL DEF DictationSpec
=============================================================================
