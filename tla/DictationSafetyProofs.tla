------------------------ MODULE DictationSafetyProofs -------------------------
(***************************************************************************)
(* Only what was recorded by holding the hotkey is pasted at the cursor.   *)
(* The intent travels with the file: from the session that was opened, to  *)
(* the file that waits for its model, the command, the answer.  The        *)
(* invariant says that at each of these stations "hotkey" is the truth.    *)
(*                                                                         *)
(* And the texts reach the panel once each, in the order of the recordings *)
(* (second section); dictation implements DictationPromise, which is       *)
(* enough for that order (third); the clipboard is restored (fourth).      *)
(***************************************************************************)
EXTENDS DictationProofs

\* File f comes from a session opened by the hotkey, b being the sessions.
Dictated(b, f) == f \in DOMAIN b /\ b[f] = "hotkey"

\* What is to be done with file f fits the session it comes from.
Meant(b, intent, f) == intent = "hotkey" => Dictated(b, f)

SoundCmd(b) == {c \in Cmd : c.kind = "Transcribe" => Meant(b, c.intent, c.file)}
SoundMsg(b) == {m \in Msg : m.kind = "Transcribed" /\ m.text # NoFile => Meant(b, m.intent, m.text)}

\* The inductive invariant.
PasteInv ==
  /\ mic.open => mic.intent = mic.by
  /\ Meant(by, stt.pending.intent, stt.pending.file)
  /\ cmds \in Seq(SoundCmd(by))
  /\ msgs \in Seq(SoundMsg(by))
  /\ \A f \in pasted : Dictated(by, f)

\* A session more takes back nothing that was meant.
LEMMA SoundGrows ==
  ASSUME NEW b \in Seq(Intents), NEW i \in Intents
  PROVE  LET c == Append(b, i) IN
         /\ \A j, f : Meant(b, j, f) => Meant(c, j, f)
         /\ Seq(SoundCmd(b)) \subseteq Seq(SoundCmd(c))
         /\ Seq(SoundMsg(b)) \subseteq Seq(SoundMsg(c))
         /\ \A f : Dictated(b, f) => Dictated(c, f)
         /\ c[Len(b) + 1] = i /\ Len(b) + 1 \in DOMAIN c
<1> DEFINE c == Append(b, i)
<1>1. /\ DOMAIN b = 1 .. Len(b) /\ Len(b) \in Nat /\ DOMAIN c = 1 .. Len(b) + 1
      /\ \A f \in DOMAIN b : c[f] = b[f]
      /\ c[Len(b) + 1] = i
  BY AppendProperties, LenProperties
<1>2. \A f : Dictated(b, f) => Dictated(c, f)
  BY <1>1 DEF Dictated
<1>3. \A j, f : Meant(b, j, f) => Meant(c, j, f)
  BY <1>2 DEF Meant
<1>4. SoundCmd(b) \subseteq SoundCmd(c) /\ SoundMsg(b) \subseteq SoundMsg(c)
  BY <1>3 DEF SoundCmd, SoundMsg
<1>5. Seq(SoundCmd(b)) \subseteq Seq(SoundCmd(c)) /\ Seq(SoundMsg(b)) \subseteq Seq(SoundMsg(c))
  BY <1>4
<1>6. Len(b) + 1 \in DOMAIN c
  BY <1>1
<1> HIDE DEF c
<1> QED
  BY <1>1, <1>2, <1>3, <1>5, <1>6 DEF c

\* Asking for a load disturbs no file.
LEMMA LoadAskedSound ==
  ASSUME NEW b, NEW u \in Stt
  PROVE  LoadAsked(u).stt.pending = u.pending /\ LoadAsked(u).sent \in Seq(SoundCmd(b))
<1>1. LoadStt(u.selected) \in SoundCmd(b)
  BY DEF SoundCmd, LoadStt, Stt, Cmd
<1>2. << LoadStt(u.selected) >> \in Seq(SoundCmd(b)) /\ << >> \in Seq(SoundCmd(b))
  BY <1>1
<1>3. [u EXCEPT !.loading = TRUE].pending = u.pending
  BY DEF Stt
<1> QED
  BY <1>2, <1>3 DEF LoadAsked

\* Handing a file over keeps its intent with it.
LEMMA FileOverSound ==
  ASSUME NEW b, NEW u \in Stt, NEW f \in Nat, NEW i \in Intents,
         Meant(b, u.pending.intent, u.pending.file), Meant(b, i, f)
  PROVE  LET over == FileOver(u, f, i) IN
         Meant(b, over.stt.pending.intent, over.stt.pending.file) /\ over.sent \in Seq(SoundCmd(b))
<1>1. CASE Ready(u)
  <2>1. Transcribe(u.next, i, f) \in SoundCmd(b)
    BY DEF SoundCmd, Transcribe, Cmd, Stt
  <2>2. << Transcribe(u.next, i, f) >> \in Seq(SoundCmd(b))
    BY <2>1
  <2>3. [u EXCEPT !.live = u.next, !.next = u.next + 1].pending = u.pending
    BY DEF Stt
  <2> QED
    BY <1>1, <2>2, <2>3 DEF FileOver, FileQueued
<1>2. CASE ~Ready(u)
  <2> DEFINE v == [u EXCEPT !.pending = [file |-> f, intent |-> i]]
  <2>1. v \in Stt /\ v.pending.intent = i /\ v.pending.file = f
    BY DEF Stt, Pending
  <2>2. FileOver(u, f, i) = LoadAsked(v)
    BY <1>2 DEF FileOver
  <2> HIDE DEF v
  <2> QED
    BY <2>1, <2>2, LoadAskedSound
<1> QED
  BY <1>1, <1>2

\* The file that waited for its model goes on under its own intent.
LEMMA AfterLoadSound ==
  ASSUME NEW b, NEW u \in Stt, NEW m \in SttModels,
         Meant(b, u.pending.intent, u.pending.file)
  PROVE  LET after == AfterLoad(u, m) IN
         Meant(b, after.stt.pending.intent, after.stt.pending.file) /\ after.sent \in Seq(SoundCmd(b))
<1> DEFINE up == [u EXCEPT !.loading = FALSE, !.loaded = TRUE, !.id = m, !.pending = NoPending]
<1>1. up \in Stt /\ up.pending = NoPending
  BY DEF Stt, Pending, NoPending, NoFile, Intents
<1>2. Meant(b, NoPending.intent, NoPending.file)
  BY DEF Meant, NoPending
<1>3. u.pending.file \in Nat /\ u.pending.intent \in Intents
  BY DEF Stt, Pending
<1>4. CASE u.pending = NoPending
  <2>1. << >> \in Seq(SoundCmd(b))
    OBVIOUS
  <2> QED
    BY <1>1, <1>2, <1>4, <2>1 DEF AfterLoad
<1>5. CASE u.pending # NoPending
  <2>1. AfterLoad(u, m) = FileOver(up, u.pending.file, u.pending.intent)
    BY <1>5 DEF AfterLoad
  <2> HIDE DEF up
  <2> QED
    BY <1>1, <1>2, <1>3, <2>1, FileOverSound
<1> QED
  BY <1>4, <1>5

\* The commands that transcribe nothing are sound.
LEMMA PlainSound ==
  ASSUME NEW b
  PROVE  << UnloadStt >> \in Seq(SoundCmd(b)) /\ << UnloadAll >> \in Seq(SoundCmd(b))
         /\ << LoadTts >> \in Seq(SoundCmd(b)) /\ << UnloadAll, Shutdown >> \in Seq(SoundCmd(b))
<1>1. /\ UnloadStt \in SoundCmd(b) /\ UnloadAll \in SoundCmd(b)
      /\ LoadTts \in SoundCmd(b) /\ Shutdown \in SoundCmd(b)
  BY DEF SoundCmd, Cmd, UnloadStt, UnloadAll, LoadTts, Shutdown
<1> QED
  BY <1>1

\* The job thread answers with the intent and the file it was given.
LEMMA ResultsSound ==
  ASSUME NEW b, worker \in Worker, NEW c \in SoundCmd(b), NEW r \in Results(c)
  PROVE  r.said \in Seq(SoundMsg(b))
<1>1. c \in Cmd
  BY DEF SoundCmd
<1>2. CASE r.said \in Seq(NoText)
  <2>1. NoText \subseteq SoundMsg(b)
    BY DEF NoText, SoundMsg
  <2>2. Seq(NoText) \subseteq Seq(SoundMsg(b))
    BY <2>1
  <2> QED
    BY <1>2, <2>2
<1>3. CASE c.kind = "Transcribe" /\ \E t \in {c.file, NoFile} : r.said = TextOf(c, t)
  <2>1. c.job \in Nat /\ c.intent \in Intents /\ c.file \in Nat
    BY <1>1, <1>3 DEF Cmd, LoadStt, UnloadStt, UnloadAll, LoadTts, Shutdown
  <2>2. Meant(b, c.intent, c.file)
    BY <1>3 DEF SoundCmd
  <2>3. \A t \in {c.file, NoFile} : Transcribed(c.job, c.intent, t) \in SoundMsg(b)
    BY <2>1, <2>2 DEF Transcribed, SoundMsg, Msg, NoFile
  <2>4. \A t \in {c.file, NoFile} : TextOf(c, t) \in Seq(SoundMsg(b))
    BY <2>3 DEF TextOf
  <2> QED
    BY <1>3, <2>4
<1> QED
  BY <1>1, <1>2, <1>3, ResultsSaid

\* Nothing is under way at the start.
LEMMA PasteInvInit == DictationInit => PasteInv
<1> SUFFICES ASSUME DictationInit PROVE PasteInv
  OBVIOUS
<1>1. mic.open = FALSE /\ stt.pending = NoPending
  BY DEF DictationInit, ClosedMic
<1>2. Meant(by, NoPending.intent, NoPending.file)
  BY DEF Meant, NoPending
<1>3. cmds = << >> /\ msgs = << >> /\ pasted = {}
  BY DEF DictationInit
<1>4. << >> \in Seq(SoundCmd(by)) /\ << >> \in Seq(SoundMsg(by))
  OBVIOUS
<1> QED
  BY <1>1, <1>2, <1>3, <1>4 DEF PasteInv

\* No step says "hotkey" of a file that was not dictated.
LEMMA PasteInvStep ==
  ASSUME DictationTypeOK, PasteInv, [DictationNext]_dictationVars
  PROVE  PasteInv'
<1> USE DEF history, screen
<1>t. /\ mic \in Mic /\ stt \in Stt /\ worker \in Worker
      /\ by \in Seq(Intents) /\ pasted \subseteq Nat /\ msgs \in Seq(Msg)
  BY DEF DictationTypeOK
<1>i. /\ mic.open => mic.intent = mic.by
      /\ Meant(by, stt.pending.intent, stt.pending.file)
      /\ cmds \in Seq(SoundCmd(by))
      /\ msgs \in Seq(SoundMsg(by))
      /\ \A f \in pasted : Dictated(by, f)
  BY DEF PasteInv
<1>n. Meant(by, NoPending.intent, NoPending.file)
  BY DEF Meant, NoPending
<1>1. ASSUME NEW i \in Intents, NEW starts \in BOOLEAN, BeginRecording(i, starts)
      PROVE  PasteInv'
  <2>1. mic'.open => mic'.intent = mic'.by
    BY <1>1, <1>i DEF BeginRecording, ClosedMic
  <2> QED
    BY <1>1, <1>i, <2>1 DEF BeginRecording, PasteInv
<1>2. ASSUME NEW i \in Intents, NEW o \in StopOutcomes, EndRecording(i, o)
      PROVE  PasteInv'
  <2>1. mic'.open => mic'.intent = mic'.by
    BY <1>2, <1>i DEF EndRecording, ClosedMic
  <2>2. CASE Discarded(i, o)
    BY <1>2, <1>i, <2>1, <2>2 DEF EndRecording, PasteInv
  <2>3. CASE ~Discarded(i, o)
    <3>1. /\ stt' = FileOver(stt, Len(by) + 1, mic.intent).stt
          /\ Send(FileOver(stt, Len(by) + 1, mic.intent).sent)
          /\ by' = Append(by, mic.by) /\ msgs' = msgs /\ pasted' = pasted
      BY <1>2, <2>3 DEF EndRecording
    <3>2. mic.intent = mic.by /\ mic.by \in Intents
      BY <1>t, <1>i, <2>3 DEF Discarded, Mic
    <3>3. /\ Meant(by', stt.pending.intent, stt.pending.file)
          /\ cmds \in Seq(SoundCmd(by')) /\ msgs \in Seq(SoundMsg(by'))
          /\ \A f \in pasted : Dictated(by', f)
          /\ by'[Len(by) + 1] = mic.by /\ Len(by) + 1 \in DOMAIN by'
      BY <1>t, <1>i, <3>1, <3>2, SoundGrows
    <3>4. Meant(by', mic.intent, Len(by) + 1) /\ Len(by) + 1 \in Nat
      BY <1>t, <3>2, <3>3 DEF Meant, Dictated
    <3>5. /\ Meant(by', stt'.pending.intent, stt'.pending.file)
          /\ FileOver(stt, Len(by) + 1, mic.intent).sent \in Seq(SoundCmd(by'))
      BY <1>t, <3>1, <3>2, <3>3, <3>4, FileOverSound
    <3>6. cmds' \in Seq(SoundCmd(by'))
      BY <3>1, <3>3, <3>5, SendType
    <3> QED
      BY <2>1, <3>1, <3>3, <3>5, <3>6 DEF PasteInv
  <2> QED
    BY <2>2, <2>3
<1>3. ASSUME PickFile PROVE PasteInv'
  <2>1. /\ stt' = FileOver(stt, Len(by) + 1, "idle").stt
        /\ Send(FileOver(stt, Len(by) + 1, "idle").sent)
        /\ by' = Append(by, "idle") /\ mic' = mic /\ msgs' = msgs /\ pasted' = pasted
    BY <1>3 DEF PickFile
  <2>2. "idle" \in Intents /\ Len(by) + 1 \in Nat
    BY <1>t DEF Intents
  <2>3. /\ Meant(by', stt.pending.intent, stt.pending.file)
        /\ cmds \in Seq(SoundCmd(by')) /\ msgs \in Seq(SoundMsg(by'))
        /\ \A f \in pasted : Dictated(by', f)
    BY <1>t, <1>i, <2>1, <2>2, SoundGrows
  <2>4. Meant(by', "idle", Len(by) + 1)
    BY DEF Meant
  <2>5. /\ Meant(by', stt'.pending.intent, stt'.pending.file)
        /\ FileOver(stt, Len(by) + 1, "idle").sent \in Seq(SoundCmd(by'))
    BY <1>t, <2>1, <2>2, <2>3, <2>4, FileOverSound
  <2>6. cmds' \in Seq(SoundCmd(by'))
    BY <2>1, <2>3, <2>5, SendType
  <2> QED
    BY <1>i, <2>1, <2>3, <2>5, <2>6 DEF PasteInv
<1>4. ASSUME NEW m \in SttModels, SelectModel(m) PROVE PasteInv'
  <2>1. stt'.pending = stt.pending
    BY <1>4, <1>t DEF SelectModel, Stt
  <2> QED
    BY <1>4, <1>i, <2>1 DEF SelectModel, PasteInv
<1>5. ASSUME AskLoad PROVE PasteInv'
  <2>1. stt'.pending = stt.pending /\ LoadAsked(stt).sent \in Seq(SoundCmd(by))
    BY <1>5, <1>t, LoadAskedSound DEF AskLoad
  <2>2. cmds' \in Seq(SoundCmd(by))
    BY <1>5, <1>i, <2>1, SendType DEF AskLoad
  <2> QED
    BY <1>5, <1>i, <2>1, <2>2 DEF AskLoad, PasteInv
<1>6. ASSUME AskUnload PROVE PasteInv'
  <2>1. cmds' \in Seq(SoundCmd(by))
    BY <1>6, <1>i, PlainSound, SendType DEF AskUnload
  <2> QED
    BY <1>6, <1>i, <2>1 DEF AskUnload, PasteInv
<1>7. ASSUME UnloadAllModels PROVE PasteInv'
  <2>1. cmds' \in Seq(SoundCmd(by))
    BY <1>7, <1>i, PlainSound, SendType DEF UnloadAllModels
  <2>2. stt'.pending = NoPending /\ mic'.open = FALSE
    BY <1>7, <1>t DEF UnloadAllModels, Forgotten, Stt, ClosedMic
  <2> QED
    BY <1>7, <1>i, <1>n, <2>1, <2>2 DEF UnloadAllModels, PasteInv
<1>8. ASSUME AskVoice PROVE PasteInv'
  <2>1. cmds' \in Seq(SoundCmd(by))
    BY <1>8, <1>i, PlainSound, SendType DEF AskVoice
  <2> QED
    BY <1>8, <1>i, <2>1 DEF AskVoice, PasteInv
<1>9. ASSUME NEW on \in BOOLEAN, SetCopy(on) PROVE PasteInv'
  BY <1>9, <1>i DEF SetCopy, PasteInv
<1>10. ASSUME CopyTranscript PROVE PasteInv'
  BY <1>10, <1>i DEF CopyTranscript, PasteInv
<1>11. ASSUME ClearTranscript PROVE PasteInv'
  BY <1>11, <1>i DEF ClearTranscript, PasteInv
<1>12. ASSUME ArmQuit PROVE PasteInv'
  <2>1. cmds' \in Seq(SoundCmd(by))
    BY <1>12, <1>i, PlainSound, SendType DEF ArmQuit
  <2>2. mic'.open = FALSE
    BY <1>12, <1>t DEF ArmQuit, Mic
  <2> QED
    BY <1>12, <1>i, <2>1, <2>2 DEF ArmQuit, PasteInv
<1>13. ASSUME OnExit PROVE PasteInv'
  <2>1. mic'.open = FALSE
    BY <1>13, <1>t DEF OnExit, Mic
  <2> QED
    BY <1>13, <1>i, <2>1 DEF OnExit, PasteInv
<1>14. ASSUME HandleCmd PROVE PasteInv'
  <2>1. Head(cmds) \in SoundCmd(by) /\ Tail(cmds) \in Seq(SoundCmd(by))
    BY <1>14, <1>i, HeadTailProperties DEF HandleCmd
  <2>2. PICK r \in Results(Head(cmds)) : msgs' = msgs \o r.said
    BY <1>14 DEF HandleCmd
  <2>3. r.said \in Seq(SoundMsg(by))
    BY <1>t, <2>1, <2>2, ResultsSound
  <2>4. msgs' \in Seq(SoundMsg(by))
    BY <1>i, <2>2, <2>3, ConcatProperties
  <2>5. cmds' \in Seq(SoundCmd(by))
    BY <1>14, <2>1 DEF HandleCmd
  <2> QED
    BY <1>14, <1>i, <2>4, <2>5 DEF HandleCmd, PasteInv
<1>15. ASSUME WorkerDies PROVE PasteInv'
  BY <1>15, <1>i DEF WorkerDies, PasteInv
<1>16. ASSUME NEW kind, Took(kind)
       PROVE  Head(msgs) \in SoundMsg(by) /\ msgs' \in Seq(SoundMsg(by))
  BY <1>16, <1>i, HeadTailProperties DEF Took
<1>17. ASSUME GotModelStatus PROVE PasteInv'
  <2>1. stt'.pending = stt.pending /\ msgs' \in Seq(SoundMsg(by))
    BY <1>16, <1>17, <1>t DEF GotModelStatus, Stt
  <2> QED
    BY <1>17, <1>i, <2>1 DEF GotModelStatus, PasteInv
<1>18. ASSUME GotSttLoaded PROVE PasteInv'
  <2>1. msgs' \in Seq(SoundMsg(by)) /\ Head(msgs) \in Msg /\ Head(msgs).kind = "SttLoaded"
    BY <1>16, <1>18, <1>t, TookType DEF GotSttLoaded
  <2>2. Head(msgs).model \in SttModels
    BY <2>1 DEF Msg, ModelStatus, Unloaded, TtsLoaded, SttTimedOut
  <2>3. CASE Head(msgs).ok
    <3>1. stt' = AfterLoad(stt, Head(msgs).model).stt /\ Send(AfterLoad(stt, Head(msgs).model).sent)
      BY <1>18, <2>3 DEF GotSttLoaded
    <3>2. /\ Meant(by, stt'.pending.intent, stt'.pending.file)
          /\ AfterLoad(stt, Head(msgs).model).sent \in Seq(SoundCmd(by))
      BY <1>t, <1>i, <2>2, <3>1, AfterLoadSound
    <3>3. cmds' \in Seq(SoundCmd(by))
      BY <1>i, <3>1, <3>2, SendType
    <3> QED
      BY <1>18, <1>i, <2>1, <3>2, <3>3 DEF GotSttLoaded, PasteInv
  <2>4. CASE ~Head(msgs).ok
    <3>1. stt'.pending = NoPending /\ cmds' = cmds
      BY <1>18, <2>4, <1>t DEF GotSttLoaded, Forgotten, Stt
    <3> QED
      BY <1>18, <1>i, <1>n, <2>1, <3>1 DEF GotSttLoaded, PasteInv
  <2> QED
    BY <2>3, <2>4
<1>19. ASSUME GotOther PROVE PasteInv'
  <2>1. msgs' \in Seq(SoundMsg(by))
    BY <1>16, <1>19 DEF GotOther
  <2> QED
    BY <1>19, <1>i, <2>1 DEF GotOther, PasteInv
<1>20. ASSUME GotTimedOut PROVE PasteInv'
  <2>1. stt'.pending = stt.pending /\ msgs' \in Seq(SoundMsg(by))
    BY <1>16, <1>20, <1>t DEF GotTimedOut, Stt
  <2> QED
    BY <1>20, <1>i, <2>1 DEF GotTimedOut, PasteInv
<1>21. ASSUME GotFailed PROVE PasteInv'
  <2>1. stt'.pending = stt.pending /\ msgs' \in Seq(SoundMsg(by))
    BY <1>16, <1>21, <1>t DEF GotFailed, Stt
  <2> QED
    BY <1>21, <1>i, <2>1 DEF GotFailed, PasteInv
<1>22. ASSUME GotTranscribed PROVE PasteInv'
  <2>1. /\ msgs' \in Seq(SoundMsg(by)) /\ Head(msgs) \in SoundMsg(by)
        /\ Head(msgs).kind = "Transcribed"
    BY <1>16, <1>22, <1>t, TookType DEF GotTranscribed
  <2>2. CASE ~IsLiveStt(Head(msgs))
    BY <1>22, <1>i, <2>1, <2>2 DEF GotTranscribed, PasteInv
  <2>3. CASE IsLiveStt(Head(msgs))
    <3>1. Shows(Head(msgs))
      BY <1>22, <2>3 DEF GotTranscribed
    <3>2. stt'.pending = stt.pending
      BY <1>t, <3>1 DEF Shows, Stt
    <3>3. CASE FollowUp(Head(msgs))
      <4>1. Dictated(by, Head(msgs).text)
        BY <2>1, <3>3 DEF SoundMsg, FollowUp, WantsInsert, Meant
      <4>2. pasted' \subseteq pasted \union {Head(msgs).text}
        BY <3>1, <3>3 DEF Shows
      <4>3. \A f \in pasted' : Dictated(by, f)
        BY <1>i, <4>1, <4>2
      <4> QED
        BY <1>22, <1>i, <2>1, <3>2, <4>3 DEF GotTranscribed, PasteInv
    <3>4. CASE ~FollowUp(Head(msgs))
      <4>1. pasted' = pasted
        BY <3>1, <3>4 DEF Shows
      <4> QED
        BY <1>22, <1>i, <2>1, <3>2, <4>1 DEF GotTranscribed, PasteInv
    <3> QED
      BY <3>3, <3>4
  <2> QED
    BY <2>2, <2>3
<1>23. CASE UNCHANGED dictationVars
  BY <1>23, <1>i DEF dictationVars, PasteInv
<1> QED
  BY <1>1, <1>2, <1>3, <1>4, <1>5, <1>6, <1>7, <1>8, <1>9, <1>10, <1>11, <1>12, <1>13, <1>14,
     <1>15, <1>17, <1>18, <1>19, <1>20, <1>21, <1>22, <1>23
     DEF DictationNext, Start, Finish, HandleMsg

\* Whatever models are selected, unloaded and lost, and however many sessions
\* of either kind overlap with transcriptions, a text is pasted at the cursor
\* only if the session it comes from was opened by the hotkey.
THEOREM OnlyDictatedPasted == DictationSpec => []PasteOnlyDictated
<1>1. PasteInv => PasteOnlyDictated
  BY DEF PasteInv, PasteOnlyDictated, Dictated
<1>2. DictationTypeOK /\ PasteInv /\ [DictationNext]_dictationVars => PasteInv'
  BY PasteInvStep
<1> QED
  BY <1>1, <1>2, PasteInvInit, DictationTypeCorrect, PTL DEF DictationSpec

-----------------------------------------------------------------------------
(* The order of the texts.                                                   *)

\* The file a command or a message is about.
Carries(x) == x.kind = "Transcribe" \/ (x.kind = "Transcribed" /\ x.text # NoFile)
FileOf(x)  == IF x.kind = "Transcribe" THEN x.file ELSE x.text

\* The text of file f may still be shown after those of sh.
After(sh, sw, f) == \A j \in DOMAIN sh : sh[j] # f /\ (~sw => sh[j] < f)

\* x fits the state u of the UI, n files having been handed over: its job and
\* its file are old, a text of the live job is new to the panel and is not the
\* file that waits, and as long as no model was selected the loads are of the
\* one that is selected.
Fits(x, n, u, sh, sw) ==
  /\ Carries(x) =>
       /\ x.job \in 1 .. u.next - 1 /\ FileOf(x) \in 1 .. n
       /\ x.job = u.live =>
            After(sh, sw, FileOf(x)) /\ (u.pending # NoPending => FileOf(x) # u.pending.file)
  /\ x.kind \in {"LoadStt", "SttLoaded"} /\ ~sw => x.model = u.selected

FitCmd(n, u, sh, sw) == {c \in Cmd : Fits(c, n, u, sh, sw)}
FitMsg(n, u, sh, sw) == {m \in Msg : Fits(m, n, u, sh, sw)}

WaitsFor(n, u, sh, sw) ==
  u.pending # NoPending => u.pending.file \in 1 .. n /\ After(sh, sw, u.pending.file)

Base(n, u, sh, sw, c, m) ==
  /\ WaitsFor(n, u, sh, sw)
  /\ u.live < u.next
  /\ c \in Seq(FitCmd(n, u, sh, sw)) /\ m \in Seq(FitMsg(n, u, sh, sw))

\* x carries a text of the live job that would overtake the file that waits.
Overtakes(x, u) == Carries(x) /\ x.job = u.live /\ FileOf(x) >= u.pending.file

\* What makes the file that waits go on, or ends everything.
Turns == {x \in Cmd \union Msg : x.kind \in {"LoadStt", "SttLoaded", "Shutdown"}}

\* In queue q whatever overtakes the file that waits comes behind its turn.
Behind(q, u) ==
  \A k \in DOMAIN q : Overtakes(q[k], u) => \E i \in 1 .. k - 1 : q[i] \in Turns

\* The messages come before what the commands will say.
InTurn(u, sw, c, m) ==
  ~sw /\ u.pending # NoPending => Behind(m, u) /\ (Meets(m, Turns) \/ Behind(c, u))

\* The inductive invariant.
OrderInv ==
  /\ TextInOrder
  /\ \A j \in DOMAIN shown : shown[j] \in 1 .. Len(by)
  /\ Base(Len(by), stt, shown, switched, cmds, msgs)
  /\ InTurn(stt, switched, cmds, msgs)

\* A queue in which nothing overtakes.
LEMMA BehindNone ==
  ASSUME NEW q, NEW u, \A k \in DOMAIN q : ~Overtakes(q[k], u)
  PROVE  Behind(q, u)
BY DEF Behind

\* What is added behind a turn, or in order itself, is in order.
LEMMA BehindConcat ==
  ASSUME NEW S, NEW q \in Seq(S), NEW s \in Seq(S), NEW u, Behind(q, u),
         Meets(q, Turns) \/ Behind(s, u)
  PROVE  Behind(q \o s, u)
<1>1. /\ DOMAIN q = 1 .. Len(q) /\ Len(q) \in Nat
      /\ DOMAIN s = 1 .. Len(s) /\ Len(s) \in Nat
      /\ DOMAIN (q \o s) = 1 .. Len(q) + Len(s)
  BY LenProperties, ConcatProperties
<1>2. /\ \A k \in DOMAIN q : (q \o s)[k] = q[k]
      /\ \A k \in DOMAIN s : (q \o s)[k + Len(q)] = s[k] /\ k + Len(q) \in DOMAIN (q \o s)
      /\ \A k \in DOMAIN (q \o s) : k \notin DOMAIN q => k - Len(q) \in DOMAIN s
                                       /\ (k - Len(q)) + Len(q) = k
  <2>1. \A k \in DOMAIN (q \o s) : (q \o s)[k] = IF k <= Len(q) THEN q[k] ELSE s[k - Len(q)]
    BY <1>1, ConcatProperties
  <2>2. ASSUME NEW k \in DOMAIN s
        PROVE  k + Len(q) \in DOMAIN (q \o s) /\ ~(k + Len(q) <= Len(q)) /\ (k + Len(q)) - Len(q) = k
    BY <1>1
  <2>3. \A k \in DOMAIN s : (q \o s)[k + Len(q)] = s[k]
    BY <2>1, <2>2
  <2> QED
    BY <1>1, <2>1, <2>2, <2>3
<1>3. SUFFICES ASSUME NEW k \in DOMAIN (q \o s), Overtakes((q \o s)[k], u)
               PROVE  \E i \in 1 .. k - 1 : (q \o s)[i] \in Turns
  BY DEF Behind
<1>4. CASE k \in DOMAIN q
  <2>1. PICK i \in 1 .. k - 1 : q[i] \in Turns
    BY <1>2, <1>3, <1>4 DEF Behind
  <2>2. i \in DOMAIN q
    BY <1>1, <1>4
  <2> QED
    BY <1>2, <2>1, <2>2
<1>5. CASE k \notin DOMAIN q /\ Meets(q, Turns)
  <2>1. PICK i \in DOMAIN q : q[i] \in Turns
    BY <1>5 DEF Meets
  <2>2. i \in 1 .. k - 1
    BY <1>1, <1>3, <1>5
  <2> QED
    BY <1>2, <2>1, <2>2
<1>6. CASE k \notin DOMAIN q /\ Behind(s, u)
  <2>1. k - Len(q) \in DOMAIN s /\ (q \o s)[k] = s[k - Len(q)]
    BY <1>2, <1>3, <1>6
  <2>2. PICK i \in 1 .. (k - Len(q)) - 1 : s[i] \in Turns
    BY <1>3, <1>6, <2>1 DEF Behind
  <2>3. i \in DOMAIN s /\ i + Len(q) \in 1 .. k - 1
    BY <1>1, <1>3, <2>1
  <2> QED
    BY <1>2, <2>2, <2>3
<1> QED
  BY <1>4, <1>5, <1>6

\* The head overtakes nothing; without it the rest is in order, if it was not
\* the turn.
LEMMA BehindTail ==
  ASSUME NEW S, NEW q \in Seq(S), q # << >>, NEW u, Behind(q, u)
  PROVE  /\ ~Overtakes(Head(q), u)
         /\ Head(q) \notin Turns => Behind(Tail(q), u)
<1>1. /\ DOMAIN q = 1 .. Len(q) /\ Len(q) \in Nat \ {0} /\ Head(q) = q[1]
      /\ DOMAIN Tail(q) = 1 .. Len(q) - 1
      /\ \A k \in DOMAIN Tail(q) : Tail(q)[k] = q[k + 1]
  BY LenProperties, EmptySeq, HeadTailProperties
<1>2. ~Overtakes(Head(q), u)
  <2>1. 1 \in DOMAIN q /\ 1 .. 1 - 1 = {}
    BY <1>1
  <2> QED
    BY <1>1, <2>1 DEF Behind
<1>3. ASSUME Head(q) \notin Turns, NEW k \in DOMAIN Tail(q), Overtakes(Tail(q)[k], u)
      PROVE  \E i \in 1 .. k - 1 : Tail(q)[i] \in Turns
  <2>1. k + 1 \in DOMAIN q /\ Tail(q)[k] = q[k + 1]
    BY <1>1, <1>3
  <2>2. PICK i \in 1 .. (k + 1) - 1 : q[i] \in Turns
    BY <1>3, <2>1 DEF Behind
  <2>3. i # 1
    BY <1>1, <1>3, <2>2
  <2>4. i - 1 \in 1 .. k - 1 /\ i - 1 \in DOMAIN Tail(q) /\ (i - 1) + 1 = i
    BY <1>1, <1>3, <2>2, <2>3
  <2>5. Tail(q)[i - 1] = q[i]
    BY <1>1, <2>4
  <2> QED
    BY <2>2, <2>4, <2>5
<1> QED
  BY <1>2, <1>3 DEF Behind

\* Fewer obligations of the UI: the live job or the file that waits forgotten,
\* or neither.
LEMMA OrderChange ==
  ASSUME NEW n \in Nat, NEW u \in Stt, NEW v \in Stt, NEW sh, NEW sw, NEW c, NEW m,
         Base(n, u, sh, sw, c, m),
         v.next = u.next, v.selected = u.selected,
         v.live \in {u.live, NoJob}, v.pending \in {u.pending, NoPending}
  PROVE  /\ Base(n, v, sh, sw, c, m)
         /\ InTurn(u, sw, c, m) => InTurn(v, sw, c, m)
<1>1. u.live \in Nat /\ u.next \in Nat \ {0}
  BY DEF Stt
<1>2. \A x : Fits(x, n, u, sh, sw) => Fits(x, n, v, sh, sw)
  BY <1>1 DEF Fits, NoJob
<1>3. FitCmd(n, u, sh, sw) \subseteq FitCmd(n, v, sh, sw) /\ FitMsg(n, u, sh, sw) \subseteq FitMsg(n, v, sh, sw)
  BY <1>2 DEF FitCmd, FitMsg
<1>4. Seq(FitCmd(n, u, sh, sw)) \subseteq Seq(FitCmd(n, v, sh, sw))
      /\ Seq(FitMsg(n, u, sh, sw)) \subseteq Seq(FitMsg(n, v, sh, sw))
  BY <1>3
<1>5. Base(n, v, sh, sw, c, m)
  BY <1>1, <1>4 DEF Base, WaitsFor, NoJob
<1>6. ASSUME InTurn(u, sw, c, m), ~sw, v.pending # NoPending
      PROVE  Behind(m, v) /\ (Meets(m, Turns) \/ Behind(c, v))
  <2>1. v.pending = u.pending /\ u.pending # NoPending
    BY <1>6
  <2>2. \A x : Fits(x, n, u, sh, sw) /\ Overtakes(x, v) => Overtakes(x, u)
    BY <1>1, <2>1 DEF Fits, Overtakes, NoJob
  <2>3. /\ \A k \in DOMAIN c : Fits(c[k], n, u, sh, sw)
        /\ \A k \in DOMAIN m : Fits(m[k], n, u, sh, sw)
    BY ElementOfSeq, LenProperties DEF Base, FitCmd, FitMsg
  <2>4. (Behind(m, u) => Behind(m, v)) /\ (Behind(c, u) => Behind(c, v))
    BY <2>2, <2>3 DEF Behind
  <2> QED
    BY <1>6, <2>1, <2>4 DEF InTurn
<1> QED
  BY <1>5, <1>6 DEF InTurn

\* One more file was handed over.
LEMMA OrderMore ==
  ASSUME NEW n \in Nat, NEW u, NEW sh, NEW sw, NEW c, NEW m, Base(n, u, sh, sw, c, m)
  PROVE  Base(n + 1, u, sh, sw, c, m)
<1>1. 1 .. n \subseteq 1 .. n + 1
  OBVIOUS
<1>2. \A x : Fits(x, n, u, sh, sw) => Fits(x, n + 1, u, sh, sw)
  BY <1>1 DEF Fits
<1>3. /\ FitCmd(n, u, sh, sw) \subseteq FitCmd(n + 1, u, sh, sw)
      /\ FitMsg(n, u, sh, sw) \subseteq FitMsg(n + 1, u, sh, sw)
  BY <1>2 DEF FitCmd, FitMsg
<1>4. Seq(FitCmd(n, u, sh, sw)) \subseteq Seq(FitCmd(n + 1, u, sh, sw))
      /\ Seq(FitMsg(n, u, sh, sw)) \subseteq Seq(FitMsg(n + 1, u, sh, sw))
  BY <1>3
<1> QED
  BY <1>1, <1>4 DEF Base, WaitsFor

\* A command that transcribes nothing disturbs no order.
LEMMA OrderSend ==
  ASSUME NEW n, NEW u, NEW sh, NEW sw, NEW c, NEW m,
         Base(n, u, sh, sw, c, m), InTurn(u, sw, c, m),
         NEW s \in Seq({x \in Cmd : x.kind # "Transcribe" /\ (x.kind = "LoadStt" => x.model = u.selected)})
  PROVE  Base(n, u, sh, sw, c \o s, m) /\ InTurn(u, sw, c \o s, m)
<1> DEFINE P == {x \in Cmd : x.kind # "Transcribe" /\ (x.kind = "LoadStt" => x.model = u.selected)}
<1>1. \A x \in P : ~Carries(x) /\ x.kind # "SttLoaded"
  BY DEF Carries, Cmd, LoadStt, UnloadStt, UnloadAll, LoadTts, Shutdown
<1>2. P \subseteq FitCmd(n, u, sh, sw)
  BY <1>1 DEF FitCmd, Fits
<1>3. s \in Seq(FitCmd(n, u, sh, sw))
  BY <1>2
<1>4. c \o s \in Seq(FitCmd(n, u, sh, sw))
  BY <1>3, ConcatProperties DEF Base
<1>5. Behind(s, u)
  <2>1. \A k \in DOMAIN s : s[k] \in P
    BY ElementOfSeq, LenProperties
  <2> QED
    BY <1>1, <2>1, BehindNone DEF Overtakes
<1>6. Behind(c, u) => Behind(c \o s, u)
  BY <1>3, <1>5, BehindConcat DEF Base
<1> QED
  BY <1>4, <1>6 DEF Base, InTurn

\* A file is sent to be transcribed: its job becomes the live one, and nothing
\* older is.  It may overtake the file that waits only behind its turn.
LEMMA OrderQueued ==
  ASSUME NEW n \in Nat, NEW u \in Stt, NEW sh, NEW sw, NEW c, NEW m,
         Base(n, u, sh, sw, c, m),
         NEW f \in 1 .. n, NEW i \in Intents, After(sh, sw, f),
         u.pending # NoPending => f # u.pending.file,
         NEW v, v = FileQueued(u, f, i).stt
  PROVE  /\ Base(n, v, sh, sw, c, m) /\ InTurn(v, sw, c, m)
         /\ Base(n, v, sh, sw, c \o << Transcribe(u.next, i, f) >>, m)
         /\ (u.pending # NoPending => Meets(c, Turns) \/ Meets(m, Turns))
              => InTurn(v, sw, c \o << Transcribe(u.next, i, f) >>, m)
<1> DEFINE x == Transcribe(u.next, i, f)
<1>1. /\ u.next \in Nat \ {0} /\ u.live \in Nat
      /\ v.live = u.next /\ v.next = u.next + 1 /\ v.pending = u.pending /\ v.selected = u.selected
  BY DEF Stt, FileQueued
<1>2. \A y : Fits(y, n, u, sh, sw) => Fits(y, n, v, sh, sw) /\ ~Overtakes(y, v)
  BY <1>1 DEF Fits, Overtakes
<1>3. /\ FitCmd(n, u, sh, sw) \subseteq FitCmd(n, v, sh, sw)
      /\ FitMsg(n, u, sh, sw) \subseteq FitMsg(n, v, sh, sw)
  BY <1>2 DEF FitCmd, FitMsg
<1>4. c \in Seq(FitCmd(n, v, sh, sw)) /\ m \in Seq(FitMsg(n, v, sh, sw))
  <2>1. Seq(FitCmd(n, u, sh, sw)) \subseteq Seq(FitCmd(n, v, sh, sw))
        /\ Seq(FitMsg(n, u, sh, sw)) \subseteq Seq(FitMsg(n, v, sh, sw))
    BY <1>3
  <2> QED
    BY <2>1 DEF Base
<1>5. Behind(c, v) /\ Behind(m, v)
  <2>1. /\ \A k \in DOMAIN c : Fits(c[k], n, u, sh, sw)
        /\ \A k \in DOMAIN m : Fits(m[k], n, u, sh, sw)
    BY ElementOfSeq, LenProperties DEF Base, FitCmd, FitMsg
  <2> QED
    BY <1>2, <2>1, BehindNone
<1>6. x \in FitCmd(n, v, sh, sw)
  <2>1. x \in Cmd
    BY <1>1 DEF Cmd, Transcribe
  <2>2. x.kind = "Transcribe" /\ x.job = u.next /\ x.file = f
    BY DEF Transcribe
  <2> HIDE DEF x
  <2>3. Fits(x, n, v, sh, sw)
    BY <1>1, <2>2 DEF Fits, FileOf, Carries
  <2> QED
    BY <2>1, <2>3 DEF FitCmd
<1>7. << x >> \in Seq(FitCmd(n, v, sh, sw))
  BY <1>6
<1> HIDE DEF x
<1>8. c \o << x >> \in Seq(FitCmd(n, v, sh, sw))
  BY <1>4, <1>7, ConcatProperties
<1>9. Meets(c, Turns) => Behind(c \o << x >>, v)
  BY <1>4, <1>5, <1>7, BehindConcat
<1>10. WaitsFor(n, v, sh, sw) /\ v.live < v.next
  BY <1>1 DEF Base, WaitsFor
<1>11. Base(n, v, sh, sw, c, m) /\ InTurn(v, sw, c, m) /\ Base(n, v, sh, sw, c \o << x >>, m)
  BY <1>4, <1>5, <1>8, <1>10 DEF Base, InTurn
<1>12. ASSUME u.pending # NoPending => Meets(c, Turns) \/ Meets(m, Turns)
       PROVE  InTurn(v, sw, c \o << x >>, m)
  BY <1>1, <1>5, <1>9, <1>12 DEF InTurn
<1> QED
  BY <1>11, <1>12 DEF x

\* A file begins to wait for its model: it is new, or no text it could be
\* confused with is under way.
LEMMA OrderWaits ==
  ASSUME NEW n \in Nat, NEW u \in Stt, NEW sh, NEW sw,
         NEW f \in 1 .. n, NEW i \in Intents, After(sh, sw, f),
         u.live < u.next,
         NEW c \in Seq({x \in FitCmd(n, u, sh, sw) :
                          Carries(x) /\ x.job = u.live => FileOf(x) # f /\ (~sw => FileOf(x) < f)}),
         NEW m \in Seq({x \in FitMsg(n, u, sh, sw) :
                          Carries(x) /\ x.job = u.live => FileOf(x) # f /\ (~sw => FileOf(x) < f)}),
         NEW v, v = [u EXCEPT !.pending = [file |-> f, intent |-> i]]
  PROVE  Base(n, v, sh, sw, c, m) /\ InTurn(v, sw, c, m)
<1> DEFINE A == {x \in FitCmd(n, u, sh, sw) :
                          Carries(x) /\ x.job = u.live => FileOf(x) # f /\ (~sw => FileOf(x) < f)}
           B == {x \in FitMsg(n, u, sh, sw) :
                          Carries(x) /\ x.job = u.live => FileOf(x) # f /\ (~sw => FileOf(x) < f)}
<1>1. /\ u.next \in Nat \ {0} /\ u.live \in Nat
      /\ v.live = u.live /\ v.next = u.next /\ v.pending.file = f /\ v.selected = u.selected
  BY DEF Stt
<1>2. ASSUME NEW x, Fits(x, n, u, sh, sw),
             Carries(x) /\ x.job = u.live => FileOf(x) # f /\ (~sw => FileOf(x) < f)
      PROVE  Fits(x, n, v, sh, sw) /\ (~sw => ~Overtakes(x, v))
  <2>1. Carries(x) => FileOf(x) \in Nat
    BY <1>2 DEF Fits
  <2> QED
    BY <1>1, <1>2, <2>1 DEF Fits, Overtakes
<1>3. A \subseteq FitCmd(n, v, sh, sw) /\ B \subseteq FitMsg(n, v, sh, sw)
  BY <1>2 DEF FitCmd, FitMsg
<1>4. c \in Seq(FitCmd(n, v, sh, sw)) /\ m \in Seq(FitMsg(n, v, sh, sw))
  BY <1>3
<1>5. ASSUME ~sw PROVE Behind(c, v) /\ Behind(m, v)
  <2>1. /\ \A k \in DOMAIN c : c[k] \in A
        /\ \A k \in DOMAIN m : m[k] \in B
    BY ElementOfSeq, LenProperties
  <2>2. /\ \A k \in DOMAIN c : ~Overtakes(c[k], v)
        /\ \A k \in DOMAIN m : ~Overtakes(m[k], v)
    BY <1>2, <1>5, <2>1 DEF FitCmd, FitMsg
  <2> QED
    BY <2>2, BehindNone
<1> QED
  BY <1>1, <1>4, <1>5 DEF Base, InTurn, WaitsFor

\* load_stt disturbs no order.
LEMMA OrderLoadAsked ==
  ASSUME NEW n \in Nat, NEW u \in Stt, NEW sh, NEW sw, NEW c, NEW m,
         Base(n, u, sh, sw, c, m), InTurn(u, sw, c, m)
  PROVE  LET a == LoadAsked(u) IN
         /\ Base(n, a.stt, sh, sw, c, m) /\ InTurn(a.stt, sw, c, m)
         /\ Base(n, a.stt, sh, sw, c \o a.sent, m) /\ InTurn(a.stt, sw, c \o a.sent, m)
<1>1. CASE u.loading
  <2>1. LoadAsked(u).stt = u /\ LoadAsked(u).sent = << >> /\ c \o << >> = c
    BY <1>1, ConcatEmptySeq DEF LoadAsked, Base
  <2> QED
    BY <2>1
<1>2. CASE ~u.loading
  <2> DEFINE v == [u EXCEPT !.loading = TRUE]
             l == LoadStt(u.selected)
  <2>1. v \in Stt /\ v.next = u.next /\ v.selected = u.selected /\ v.live = u.live /\ v.pending = u.pending
    BY DEF Stt
  <2>2. l \in Cmd /\ l.kind # "Transcribe" /\ l.model = v.selected
    BY <2>1 DEF LoadStt, Cmd, Stt
  <2>3. LoadAsked(u).stt = v /\ LoadAsked(u).sent = << l >>
    BY <1>2 DEF LoadAsked
  <2> HIDE DEF v, l
  <2>4. Base(n, v, sh, sw, c, m) /\ InTurn(v, sw, c, m)
    BY <2>1, OrderChange
  <2>5. << l >> \in Seq({x \in Cmd : x.kind # "Transcribe" /\ (x.kind = "LoadStt" => x.model = v.selected)})
    BY <2>2
  <2>6. Base(n, v, sh, sw, c \o << l >>, m) /\ InTurn(v, sw, c \o << l >>, m)
    BY <2>4, <2>5, OrderSend
  <2> QED
    BY <2>3, <2>4, <2>6
<1> QED
  BY <1>1, <1>2

\* do_transcribe_file of a new file, whether or not there is still somebody to
\* receive the command.
LEMMA OrderFileOver ==
  ASSUME NEW n \in Nat, NEW u \in Stt, NEW sh \in Seq(Nat), NEW sw, NEW c, NEW m, NEW i \in Intents,
         Base(n, u, sh, sw, c, m),
         \A j \in DOMAIN sh : sh[j] \in 1 .. n
  PROVE  LET over == FileOver(u, n + 1, i) IN
         /\ Base(n + 1, over.stt, sh, sw, c, m) /\ InTurn(over.stt, sw, c, m)
         /\ (u.pending # NoPending => Meets(c, Turns) \/ Meets(m, Turns))
              => Base(n + 1, over.stt, sh, sw, c \o over.sent, m) /\ InTurn(over.stt, sw, c \o over.sent, m)
<1>1. After(sh, sw, n + 1) /\ n + 1 \in Nat /\ n + 1 \in 1 .. n + 1
  BY DEF After
<1>2. Base(n + 1, u, sh, sw, c, m)
  BY OrderMore
<1>3. CASE Ready(u)
  <2>1. u.pending # NoPending => n + 1 # u.pending.file
    BY DEF Base, WaitsFor
  <2>2. FileOver(u, n + 1, i) = FileQueued(u, n + 1, i)
        /\ FileQueued(u, n + 1, i).sent = << Transcribe(u.next, i, n + 1) >>
    BY <1>3 DEF FileOver, FileQueued
  <2> QED
    BY <1>1, <1>2, <2>1, <2>2, OrderQueued
<1>4. CASE ~Ready(u)
  <2> DEFINE v == [u EXCEPT !.pending = [file |-> n + 1, intent |-> i]]
  <2>1. v \in Stt /\ FileOver(u, n + 1, i) = LoadAsked(v)
    BY <1>4, <1>1 DEF FileOver, Stt, Pending
  <2>2. \A x : Fits(x, n, u, sh, sw) => Fits(x, n + 1, u, sh, sw)
                 /\ (Carries(x) => FileOf(x) # n + 1 /\ FileOf(x) < n + 1)
    BY DEF Fits
  <2> DEFINE A == {x \in FitCmd(n + 1, u, sh, sw) :
                     Carries(x) /\ x.job = u.live => FileOf(x) # n + 1 /\ (~sw => FileOf(x) < n + 1)}
             B == {x \in FitMsg(n + 1, u, sh, sw) :
                     Carries(x) /\ x.job = u.live => FileOf(x) # n + 1 /\ (~sw => FileOf(x) < n + 1)}
  <2>3. FitCmd(n, u, sh, sw) \subseteq A /\ FitMsg(n, u, sh, sw) \subseteq B
    BY <2>2 DEF FitCmd, FitMsg
  <2>4. Seq(FitCmd(n, u, sh, sw)) \subseteq Seq(A) /\ Seq(FitMsg(n, u, sh, sw)) \subseteq Seq(B)
    BY <2>3
  <2>5. c \in Seq(A) /\ m \in Seq(B) /\ u.live < u.next
    BY <2>4 DEF Base
  <2>6. Base(n + 1, v, sh, sw, c, m) /\ InTurn(v, sw, c, m)
    BY <1>1, <2>5, OrderWaits
  <2> HIDE DEF v
  <2> QED
    BY <1>1, <2>1, <2>6, OrderLoadAsked
<1> QED
  BY <1>3, <1>4

\* A model is loaded: the file that waited goes on, unless another model was
\* selected meanwhile.
LEMMA OrderAfterLoad ==
  ASSUME NEW n \in Nat, NEW u \in Stt, NEW sh, NEW sw, NEW c, NEW m, NEW l \in SttModels,
         Base(n, u, sh, sw, c, m), ~sw => l = u.selected
  PROVE  LET after == AfterLoad(u, l) IN
         /\ Base(n, after.stt, sh, sw, c, m) /\ InTurn(after.stt, sw, c, m)
         /\ Base(n, after.stt, sh, sw, c \o after.sent, m) /\ InTurn(after.stt, sw, c \o after.sent, m)
<1> DEFINE up == [u EXCEPT !.loading = FALSE, !.loaded = TRUE, !.id = l, !.pending = NoPending]
           f  == u.pending.file
           i  == u.pending.intent
<1>1. /\ up \in Stt /\ up.pending = NoPending /\ up.next = u.next /\ up.live = u.live
      /\ up.selected = u.selected /\ up.loaded /\ up.id = l
  BY DEF Stt, Pending, NoPending, NoFile, Intents
<1>2. i \in Intents
  BY DEF Stt, Pending
<1>3. AfterLoad(u, l) = IF u.pending = NoPending THEN [stt |-> up, sent |-> << >>]
                        ELSE FileOver(up, f, i)
  BY DEF AfterLoad
<1>4. u.pending # NoPending => f \in 1 .. n /\ After(sh, sw, f)
  BY DEF Base, WaitsFor
<1>5. \A x : Fits(x, n, u, sh, sw) => Fits(x, n, up, sh, sw)
               /\ (u.pending # NoPending /\ Carries(x) /\ x.job = up.live => FileOf(x) # f)
  BY <1>1 DEF Fits
<1> HIDE DEF up, f, i
<1>6. Base(n, up, sh, sw, c, m) /\ InTurn(up, sw, c, m)
  <2>1. Base(n, up, sh, sw, c, m)
    BY <1>1, OrderChange
  <2> QED
    BY <1>1, <2>1 DEF InTurn
<1>7. CASE u.pending = NoPending
  <2>1. c \o << >> = c
    BY ConcatEmptySeq DEF Base
  <2> QED
    BY <1>3, <1>6, <1>7, <2>1
<1>8. CASE u.pending # NoPending /\ Ready(up)
  <2>1. AfterLoad(u, l) = FileQueued(up, f, i)
        /\ FileQueued(up, f, i).sent = << Transcribe(up.next, i, f) >>
    BY <1>3, <1>8 DEF FileOver, FileQueued
  <2> QED
    BY <1>1, <1>2, <1>4, <1>6, <1>8, <2>1, OrderQueued
<1>9. CASE u.pending # NoPending /\ ~Ready(up)
  <2> DEFINE v == [up EXCEPT !.pending = [file |-> f, intent |-> i]]
  <2>1. v \in Stt /\ AfterLoad(u, l) = LoadAsked(v)
    BY <1>1, <1>2, <1>3, <1>4, <1>9 DEF FileOver, Stt, Pending
  <2>2. sw
    BY <1>1, <1>9 DEF Ready
  <2> DEFINE A == {x \in FitCmd(n, up, sh, sw) :
                     Carries(x) /\ x.job = up.live => FileOf(x) # f /\ (~sw => FileOf(x) < f)}
             B == {x \in FitMsg(n, up, sh, sw) :
                     Carries(x) /\ x.job = up.live => FileOf(x) # f /\ (~sw => FileOf(x) < f)}
  <2>3. FitCmd(n, u, sh, sw) \subseteq A /\ FitMsg(n, u, sh, sw) \subseteq B
    BY <1>5, <1>9, <2>2 DEF FitCmd, FitMsg
  <2>4. Seq(FitCmd(n, u, sh, sw)) \subseteq Seq(A) /\ Seq(FitMsg(n, u, sh, sw)) \subseteq Seq(B)
    BY <2>3
  <2>5. c \in Seq(A) /\ m \in Seq(B) /\ up.live < up.next
    BY <1>1, <2>4 DEF Base
  <2>6. Base(n, v, sh, sw, c, m) /\ InTurn(v, sw, c, m)
    BY <1>1, <1>2, <1>4, <1>9, <2>5, OrderWaits
  <2> HIDE DEF v
  <2> QED
    BY <2>1, <2>6, OrderLoadAsked
<1> QED
  BY <1>7, <1>8, <1>9

\* The job thread handles a command: an answer carries the file and the job it
\* was given, and the end of a load comes where the load was.
LEMMA OrderHandled ==
  ASSUME worker \in Worker, NEW n \in Nat, NEW u \in Stt, NEW sh, NEW sw, NEW c, NEW m,
         Base(n, u, sh, sw, c, m), InTurn(u, sw, c, m), c # << >>,
         NEW r \in Results(Head(c)),
         NEW d, d = IF Head(c).kind # "Shutdown" THEN Tail(c) ELSE << >>
  PROVE  Base(n, u, sh, sw, d, m \o r.said) /\ InTurn(u, sw, d, m \o r.said)
<1> DEFINE h == Head(c)
           C == FitCmd(n, u, sh, sw)
           M == FitMsg(n, u, sh, sw)
<1>1. c \in Seq(C) /\ m \in Seq(M) /\ h \in C /\ Tail(c) \in Seq(C) /\ d \in Seq(C)
  BY HeadTailProperties, EmptySeq DEF Base
<1>2. h \in Cmd /\ Fits(h, n, u, sh, sw)
  BY <1>1 DEF FitCmd
<1>3. ASSUME r.said \in Seq(M)
      PROVE  Base(n, u, sh, sw, d, m \o r.said)
  <2>1. m \o r.said \in Seq(M)
    BY <1>1, <1>3, ConcatProperties
  <2> QED
    BY <1>1, <2>1 DEF Base
<1>4. ASSUME r.said \in Seq(M), ~sw, u.pending # NoPending, Meets(m, Turns)
      PROVE  Behind(m \o r.said, u) /\ Meets(m \o r.said, Turns)
  <2>1. Behind(m, u)
    BY <1>4 DEF InTurn
  <2> QED
    BY <1>1, <1>4, <2>1, BehindConcat, MeetsConcat
<1>5. ASSUME r.said \in Seq(M), Behind(r.said, u), ~sw, u.pending # NoPending
      PROVE  Behind(m \o r.said, u)
  <2>1. Behind(m, u)
    BY <1>5 DEF InTurn
  <2> QED
    BY <1>1, <1>5, <2>1, BehindConcat
<1>6. CASE h.kind = "LoadStt"
  <2>1. PICK ok \in BOOLEAN, w \in Worker : r.said = LoadSaid(h, ok, w)
    BY <1>2, <1>6, ResultsSay DEF PlainMsg
  <2>2. h.model \in SttModels
    BY <1>2, <1>6 DEF Cmd, LoadStt, UnloadStt, UnloadAll, LoadTts, Shutdown
  <2>3. SttLoaded(h.model, ok) \in Msg /\ ModelStatus(w.model) \in Msg
    BY <2>2, ModelStatusType DEF SttLoaded, Msg, Worker
  <2>4. SttLoaded(h.model, ok) \in M /\ ModelStatus(w.model) \in M /\ SttLoaded(h.model, ok) \in Turns
        /\ ~Carries(SttLoaded(h.model, ok)) /\ ~Carries(ModelStatus(w.model))
    BY <1>2, <1>6, <2>3 DEF FitMsg, Fits, Carries, SttLoaded, ModelStatus, Turns
  <2>5. r.said = << SttLoaded(h.model, ok), ModelStatus(w.model) >>
    BY <2>1 DEF LoadSaid
  <2>6. r.said \in Seq(M) /\ Meets(r.said, Turns)
    BY <2>4, <2>5, MeetsTwo
  <2>7. Behind(r.said, u)
    <3>1. DOMAIN r.said = {1, 2} /\ r.said[1] = SttLoaded(h.model, ok) /\ r.said[2] = ModelStatus(w.model)
      BY <2>5
    <3>2. \A k \in DOMAIN r.said : ~Carries(r.said[k])
      BY <2>4, <3>1
    <3> QED
      BY <3>2, BehindNone DEF Overtakes
  <2>8. Meets(m \o r.said, Turns)
    BY <1>1, <2>6, MeetsConcat
  <2> QED
    BY <1>3, <1>5, <2>6, <2>7, <2>8 DEF InTurn
<1>7. ASSUME r.said \in Seq(M),
             \A k \in DOMAIN r.said : Overtakes(r.said[k], u) => Overtakes(h, u),
             h.kind # "LoadStt"
      PROVE  InTurn(u, sw, d, m \o r.said)
  <2>1. SUFFICES ASSUME ~sw, u.pending # NoPending
                 PROVE  /\ Behind(m \o r.said, u)
                        /\ Meets(m \o r.said, Turns) \/ Behind(d, u)
    BY DEF InTurn
  <2>2. CASE Meets(m, Turns)
    BY <1>4, <1>7, <2>1, <2>2
  <2>3. CASE ~Meets(m, Turns)
    <3>1. Behind(c, u)
      BY <2>1, <2>3 DEF InTurn
    <3>2. ~Overtakes(h, u) /\ (h \notin Turns => Behind(Tail(c), u))
      BY <1>1, <3>1, BehindTail
    <3>3. Behind(r.said, u)
      BY <1>7, <3>2, BehindNone
    <3>4. Behind(<< >>, u)
      BY DEF Behind
    <3>5. h.kind # "Shutdown" => h \notin Turns
      BY <1>2, <1>7 DEF Turns, Cmd, LoadStt, UnloadStt, UnloadAll, LoadTts, Shutdown
    <3>6. Behind(d, u)
      BY <3>2, <3>4, <3>5
    <3> QED
      BY <1>5, <1>7, <2>1, <3>3, <3>6
  <2> QED
    BY <2>2, <2>3
<1>8. CASE r.said \in Seq(PlainMsg) /\ h.kind # "LoadStt"
  <2>1. \A x \in PlainMsg : x \in M /\ ~Overtakes(x, u)
    <3>1. \A x \in PlainMsg : x \in Msg /\ ~Carries(x) /\ x.kind \notin {"LoadStt", "SttLoaded"}
      BY DEF PlainMsg, Carries, Msg, ModelStatus, Unloaded, TtsLoaded, SttTimedOut
    <3> QED
      BY <3>1 DEF FitMsg, Fits, Overtakes
  <2>2. r.said \in Seq(M)
    BY <1>8, <2>1
  <2>3. \A k \in DOMAIN r.said : ~Overtakes(r.said[k], u)
    BY <1>8, <2>1, ElementOfSeq, LenProperties
  <2> QED
    BY <1>3, <1>7, <1>8, <2>2, <2>3
<1>9. CASE h.kind = "Transcribe" /\ \E t \in {h.file, NoFile} : r.said = TextOf(h, t)
  <2>1. PICK t \in {h.file, NoFile} : r.said = TextOf(h, t)
    BY <1>9
  <2>2. h.job \in Nat /\ h.intent \in Intents /\ h.file \in Nat
    BY <1>2, <1>9 DEF Cmd, LoadStt, UnloadStt, UnloadAll, LoadTts, Shutdown
  <2> DEFINE x == Transcribed(h.job, h.intent, t)
  <2>3. x \in Msg
    BY <2>2 DEF Transcribed, Msg, NoFile
  <2>4. x.kind = "Transcribed" /\ x.job = h.job /\ x.text = t
    BY DEF Transcribed
  <2>5. r.said = << x >>
    BY <2>1 DEF TextOf
  <2> HIDE DEF x
  <2>6. Carries(x) => Carries(h) /\ FileOf(x) = FileOf(h)
    BY <1>9, <2>1, <2>4 DEF Carries, FileOf
  <2>7. x \in M
    BY <1>2, <2>3, <2>4, <2>6 DEF FitMsg, Fits
  <2>8. Overtakes(x, u) => Overtakes(h, u)
    BY <2>4, <2>6 DEF Overtakes
  <2>9. r.said \in Seq(M) /\ \A k \in DOMAIN r.said : r.said[k] = x
    BY <2>5, <2>7
  <2> QED
    BY <1>3, <1>7, <1>9, <2>8, <2>9
<1> HIDE DEF C, M
<1> QED
  BY <1>2, <1>6, <1>8, <1>9, ResultsSay

\* A message that is no turn is drained.
LEMMA OrderDrained ==
  ASSUME NEW n, NEW u, NEW sh, NEW sw, NEW c, NEW m, Base(n, u, sh, sw, c, m), m # << >>
  PROVE  /\ Head(m) \in Msg /\ Fits(Head(m), n, u, sh, sw)
         /\ Base(n, u, sh, sw, c, Tail(m))
         /\ InTurn(u, sw, c, m) /\ Head(m).kind # "SttLoaded" => InTurn(u, sw, c, Tail(m))
<1>1. m \in Seq(FitMsg(n, u, sh, sw)) /\ Tail(m) \in Seq(FitMsg(n, u, sh, sw))
      /\ Head(m) \in FitMsg(n, u, sh, sw)
  BY HeadTailProperties DEF Base
<1>2. Head(m) \in Msg /\ Fits(Head(m), n, u, sh, sw)
  BY <1>1 DEF FitMsg
<1>3. Base(n, u, sh, sw, c, Tail(m))
  BY <1>1 DEF Base
<1>4. ASSUME InTurn(u, sw, c, m), Head(m).kind # "SttLoaded", ~sw, u.pending # NoPending
      PROVE  Behind(Tail(m), u) /\ (Meets(Tail(m), Turns) \/ Behind(c, u))
  <2>1. Head(m) \notin Turns
    BY <1>2, <1>4 DEF Turns, Msg, ModelStatus, Unloaded, TtsLoaded, SttTimedOut
  <2>2. Behind(m, u) /\ (Meets(m, Turns) \/ Behind(c, u))
    BY <1>4 DEF InTurn
  <2> QED
    BY <1>1, <2>1, <2>2, BehindTail, MeetsTail
<1> QED
  BY <1>2, <1>3, <1>4 DEF InTurn

\* Sequences over a larger set.
LEMMA SeqGrows ==
  ASSUME NEW A, NEW B, A \subseteq B
  PROVE  Seq(A) \subseteq Seq(B)
OBVIOUS

\* The text of the live job is shown: it is a new one and comes after the others,
\* and neither what waits nor what is under way falls behind it.
LEMMA OrderShown ==
  ASSUME NEW n \in Nat, NEW u \in Stt, NEW sh \in Seq(Nat), NEW sw, NEW c, NEW m,
         Base(n, u, sh, sw, c, m), InTurn(u, sw, c, m), m # << >>,
         Head(m).kind = "Transcribed", Head(m).job = u.live,
         NEW v, v = [u EXCEPT !.live = NoJob],
         NEW to, to = IF Head(m).text = NoFile THEN sh ELSE Append(sh, Head(m).text)
  PROVE  /\ Base(n, v, to, sw, c, Tail(m)) /\ InTurn(v, sw, c, Tail(m))
         /\ Head(m).text # NoFile => After(sh, sw, Head(m).text) /\ Head(m).text \in 1 .. n
<1> DEFINE x == Head(m)
<1>1. /\ u.live \in Nat /\ u.next \in Nat \ {0}
      /\ v.live = NoJob /\ v.next = u.next /\ v.selected = u.selected /\ v.pending = u.pending
  BY DEF Stt
<1>2. Fits(x, n, u, sh, sw) /\ Base(n, u, sh, sw, c, Tail(m))
  BY OrderDrained
<1>3. x.text # NoFile => Carries(x) /\ FileOf(x) = x.text
  BY DEF Carries, FileOf
<1>4. x.text # NoFile => /\ After(sh, sw, x.text) /\ x.text \in 1 .. n
                         /\ u.pending # NoPending => x.text # u.pending.file
  BY <1>2, <1>3 DEF Fits
<1>5. ASSUME x.text # NoFile, ~sw, u.pending # NoPending
      PROVE  x.text < u.pending.file
  <2>1. m \in Seq(FitMsg(n, u, sh, sw))
    BY DEF Base
  <2>2. ~Overtakes(x, u)
    BY <1>5, <2>1, BehindTail DEF InTurn
  <2>3. ~(x.text >= u.pending.file)
    BY <1>3, <1>5, <2>2 DEF Overtakes
  <2>4. u.pending.file \in 1 .. n
    BY <1>5 DEF Base, WaitsFor
  <2> QED
    BY <1>4, <1>5, <2>3, <2>4
<1>6. WaitsFor(n, v, to, sw)
  <2>1. SUFFICES ASSUME u.pending # NoPending
                 PROVE  u.pending.file \in 1 .. n /\ After(to, sw, u.pending.file)
    BY <1>1 DEF WaitsFor
  <2>2. u.pending.file \in 1 .. n /\ After(sh, sw, u.pending.file)
    BY <2>1 DEF Base, WaitsFor
  <2>3. CASE x.text = NoFile
    BY <2>2, <2>3
  <2>4. CASE x.text # NoFile
    <3>1. /\ DOMAIN sh = 1 .. Len(sh) /\ Len(sh) \in Nat
          /\ DOMAIN to = 1 .. Len(sh) + 1
          /\ \A j \in 1 .. Len(sh) : to[j] = sh[j]
          /\ to[Len(sh) + 1] = x.text
      <4>1. x.text \in Nat
        BY <1>4, <2>4
      <4> QED
        BY <2>4, <4>1, AppendProperties, LenProperties
    <3>2. \A j \in DOMAIN to : (j \in DOMAIN sh /\ to[j] = sh[j]) \/ to[j] = x.text
      BY <3>1
    <3> QED
      BY <1>4, <1>5, <2>1, <2>2, <2>4, <3>2 DEF After
  <2> QED
    BY <2>3, <2>4
<1>7. \A y : Fits(y, n, u, sh, sw) => Fits(y, n, v, to, sw) /\ ~Overtakes(y, v)
  BY <1>1 DEF Fits, Overtakes, NoJob
<1>8. /\ FitCmd(n, u, sh, sw) \subseteq FitCmd(n, v, to, sw)
      /\ FitMsg(n, u, sh, sw) \subseteq FitMsg(n, v, to, sw)
  BY <1>7 DEF FitCmd, FitMsg
<1>9. c \in Seq(FitCmd(n, v, to, sw)) /\ Tail(m) \in Seq(FitMsg(n, v, to, sw))
  <2>1. Seq(FitCmd(n, u, sh, sw)) \subseteq Seq(FitCmd(n, v, to, sw))
        /\ Seq(FitMsg(n, u, sh, sw)) \subseteq Seq(FitMsg(n, v, to, sw))
    BY <1>8, SeqGrows
  <2> QED
    BY <1>2, <2>1 DEF Base
<1>10. Behind(c, v) /\ Behind(Tail(m), v)
  <2>1. /\ \A k \in DOMAIN c : Fits(c[k], n, u, sh, sw)
        /\ \A k \in DOMAIN Tail(m) : Fits(Tail(m)[k], n, u, sh, sw)
    BY <1>2, ElementOfSeq, LenProperties DEF Base, FitCmd, FitMsg
  <2> QED
    BY <1>7, <2>1, BehindNone
<1> QED
  BY <1>1, <1>4, <1>6, <1>9, <1>10 DEF Base, InTurn, NoJob

\* While the program runs, a file that waits has its turn under way.
LEMMA TurnUnderWay ==
  ASSUME WaitInv, thread, stt.pending # NoPending
  PROVE  Meets(cmds, Turns) \/ Meets(msgs, Turns)
<1>1. LoadCmds \subseteq Turns /\ LoadMsgs \subseteq Turns /\ Ends \subseteq Turns
  BY DEF LoadCmds, LoadMsgs, Ends, Turns
<1>2. Meets(cmds, Ends) \/ Meets(cmds, LoadCmds) \/ Meets(msgs, LoadMsgs)
  BY DEF WaitInv, Ending, Supported, Loads
<1> QED
  BY <1>1, <1>2 DEF Meets

\* JobHub::send either adds to the queue or, after the shutdown, does not.
LEMMA SendEither == ASSUME NEW s, Send(s) PROVE cmds' = cmds \/ (thread /\ cmds' = cmds \o s)
BY DEF Send

\* OrderInv on what a step leaves, if it shows nothing.
LEMMA OrderKept ==
  ASSUME TextInOrder, \A j \in DOMAIN shown : shown[j] \in 1 .. Len(by),
         Len(by) \in Nat, Len(by') \in Nat, Len(by') >= Len(by),
         shown' = shown, switched' = switched,
         Base(Len(by'), stt', shown, switched, cmds', msgs'),
         InTurn(stt', switched, cmds', msgs')
  PROVE  OrderInv'
<1>1. 1 .. Len(by) \subseteq 1 .. Len(by')
  OBVIOUS
<1>2. TextInOrder' /\ (\A j \in DOMAIN shown' : shown'[j] \in 1 .. Len(by'))
  BY <1>1 DEF TextInOrder
<1> QED
  BY <1>2 DEF OrderInv

\* Every step keeps the order.
LEMMA OrderInvStep ==
  ASSUME DictationTypeOK, WaitInv, OrderInv, [DictationNext]_dictationVars
  PROVE  OrderInv'
<1> USE DEF history, screen
<1> DEFINE n == Len(by)
<1>t. /\ stt \in Stt /\ worker \in Worker /\ by \in Seq(Intents) /\ shown \in Seq(Nat)
      /\ mic \in Mic /\ n \in Nat
  BY LenProperties DEF DictationTypeOK
<1>i. /\ TextInOrder
      /\ \A j \in DOMAIN shown : shown[j] \in 1 .. n
      /\ Base(n, stt, shown, switched, cmds, msgs)
      /\ InTurn(stt, switched, cmds, msgs)
  BY DEF OrderInv
<1> HIDE DEF n
<1>k. ASSUME shown' = shown, switched' = switched, by' = by,
             Base(n, stt', shown, switched, cmds', msgs'), InTurn(stt', switched, cmds', msgs')
      PROVE  OrderInv'
  BY <1>t, <1>i, <1>k, OrderKept DEF n
<1>s. ASSUME shown' = shown, switched' = switched, by' = by, msgs' = msgs, stt' = stt,
             NEW s, Send(s), s \in Seq({x \in Cmd : x.kind \notin {"Transcribe", "LoadStt"}})
      PROVE  OrderInv'
  <2>1. s \in Seq({x \in Cmd : x.kind # "Transcribe" /\ (x.kind = "LoadStt" => x.model = stt.selected)})
    <3>1. {x \in Cmd : x.kind \notin {"Transcribe", "LoadStt"}}
            \subseteq {x \in Cmd : x.kind # "Transcribe" /\ (x.kind = "LoadStt" => x.model = stt.selected)}
      OBVIOUS
    <3> QED
      BY <1>s, <3>1, SeqGrows
  <2>2. Base(n, stt, shown, switched, cmds \o s, msgs) /\ InTurn(stt, switched, cmds \o s, msgs)
    BY <1>i, <2>1, OrderSend
  <2> QED
    BY <1>i, <1>k, <1>s, <2>2, SendEither
<1>p. /\ << UnloadStt >> \in Seq({x \in Cmd : x.kind \notin {"Transcribe", "LoadStt"}})
      /\ << UnloadAll >> \in Seq({x \in Cmd : x.kind \notin {"Transcribe", "LoadStt"}})
      /\ << LoadTts >> \in Seq({x \in Cmd : x.kind \notin {"Transcribe", "LoadStt"}})
      /\ << UnloadAll, Shutdown >> \in Seq({x \in Cmd : x.kind \notin {"Transcribe", "LoadStt"}})
  <2>1. {UnloadStt, UnloadAll, LoadTts, Shutdown} \subseteq {x \in Cmd : x.kind \notin {"Transcribe", "LoadStt"}}
    BY DEF Cmd, UnloadStt, UnloadAll, LoadTts, Shutdown
  <2> QED
    BY <2>1
<1>f. ASSUME NEW i \in Intents, shown' = shown, switched' = switched, by' = Append(by, i), msgs' = msgs,
             NEW j \in Intents, stt' = FileOver(stt, Len(by) + 1, j).stt, Send(FileOver(stt, Len(by) + 1, j).sent)
      PROVE  OrderInv'
  <2>1. Len(by') = n + 1
    BY <1>t, <1>f, AppendProperties DEF n
  <2>2. /\ stt' = FileOver(stt, n + 1, j).stt
        /\ cmds' = cmds \/ (thread /\ cmds' = cmds \o FileOver(stt, n + 1, j).sent)
    BY <1>f, SendEither DEF n
  <2>3. thread /\ stt.pending # NoPending => Meets(cmds, Turns) \/ Meets(msgs, Turns)
    BY TurnUnderWay
  <2>4. Base(n + 1, stt', shown, switched, cmds', msgs') /\ InTurn(stt', switched, cmds', msgs')
    <3>1. /\ Base(n + 1, stt', shown, switched, cmds, msgs) /\ InTurn(stt', switched, cmds, msgs)
          /\ (stt.pending # NoPending => Meets(cmds, Turns) \/ Meets(msgs, Turns))
               => /\ Base(n + 1, stt', shown, switched, cmds \o FileOver(stt, n + 1, j).sent, msgs)
                  /\ InTurn(stt', switched, cmds \o FileOver(stt, n + 1, j).sent, msgs)
      BY <1>t, <1>i, <2>2, OrderFileOver
    <3> QED
      BY <1>f, <2>2, <2>3, <3>1
  <2> QED
    BY <1>t, <1>i, <1>f, <2>1, <2>4, OrderKept DEF n
<1>1. ASSUME NEW i \in Intents, NEW starts \in BOOLEAN, BeginRecording(i, starts)
      PROVE  OrderInv'
  BY <1>1, <1>i, <1>k DEF BeginRecording
<1>2. ASSUME NEW i \in Intents, NEW o \in StopOutcomes, EndRecording(i, o)
      PROVE  OrderInv'
  <2>1. CASE Discarded(i, o)
    BY <1>2, <1>i, <1>k, <2>1 DEF EndRecording
  <2>2. CASE ~Discarded(i, o)
    <3>1. mic.by \in Intents /\ mic.intent \in Intents
      BY <1>t DEF Mic
    <3>2. /\ shown' = shown /\ switched' = switched /\ by' = Append(by, mic.by) /\ msgs' = msgs
          /\ stt' = FileOver(stt, Len(by) + 1, mic.intent).stt
          /\ Send(FileOver(stt, Len(by) + 1, mic.intent).sent)
      BY <1>2, <2>2 DEF EndRecording
    <3> QED
      BY <1>f, <3>1, <3>2
  <2> QED
    BY <2>1, <2>2
<1>3. ASSUME PickFile PROVE OrderInv'
  <2>1. "idle" \in Intents
    BY DEF Intents
  <2>2. /\ shown' = shown /\ switched' = switched /\ by' = Append(by, "idle") /\ msgs' = msgs
        /\ stt' = FileOver(stt, Len(by) + 1, "idle").stt
        /\ Send(FileOver(stt, Len(by) + 1, "idle").sent)
    BY <1>3 DEF PickFile
  <2> QED
    BY <1>f, <2>1, <2>2
<1>4. ASSUME NEW l \in SttModels, SelectModel(l) PROVE OrderInv'
  <2>1. /\ switched' = TRUE /\ shown' = shown /\ by' = by /\ cmds' = cmds /\ msgs' = msgs
        /\ stt'.live = stt.live /\ stt'.next = stt.next /\ stt'.pending = stt.pending
    BY <1>4, <1>t DEF SelectModel, Stt
  <2>2. \A x : Fits(x, n, stt, shown, switched) => Fits(x, n, stt', shown, TRUE)
    BY <2>1 DEF Fits, After
  <2>3. /\ FitCmd(n, stt, shown, switched) \subseteq FitCmd(n, stt', shown, TRUE)
        /\ FitMsg(n, stt, shown, switched) \subseteq FitMsg(n, stt', shown, TRUE)
    BY <2>2 DEF FitCmd, FitMsg
  <2>4. cmds \in Seq(FitCmd(n, stt', shown, TRUE)) /\ msgs \in Seq(FitMsg(n, stt', shown, TRUE))
    BY <1>i, <2>3, SeqGrows DEF Base
  <2>5. WaitsFor(n, stt', shown, TRUE) /\ stt'.live < stt'.next
    BY <1>i, <2>1 DEF Base, WaitsFor, After
  <2>6. Base(n, stt', shown, TRUE, cmds', msgs') /\ InTurn(stt', TRUE, cmds', msgs')
    BY <2>1, <2>4, <2>5 DEF Base, InTurn
  <2>7. TextInOrder' /\ (\A j \in DOMAIN shown' : shown'[j] \in 1 .. Len(by'))
    BY <1>i, <2>1 DEF TextInOrder, n
  <2> QED
    BY <2>1, <2>6, <2>7 DEF OrderInv, n
<1>5. ASSUME AskLoad PROVE OrderInv'
  <2>1. /\ shown' = shown /\ switched' = switched /\ by' = by /\ msgs' = msgs
        /\ stt' = LoadAsked(stt).stt
        /\ cmds' = cmds \/ (thread /\ cmds' = cmds \o LoadAsked(stt).sent)
    BY <1>5, SendEither DEF AskLoad
  <2> QED
    BY <1>t, <1>i, <1>k, <2>1, OrderLoadAsked
<1>6. ASSUME AskUnload PROVE OrderInv'
  BY <1>6, <1>s, <1>p DEF AskUnload
<1>8. ASSUME AskVoice PROVE OrderInv'
  BY <1>8, <1>s, <1>p DEF AskVoice
<1>12. ASSUME ArmQuit PROVE OrderInv'
  BY <1>12, <1>s, <1>p DEF ArmQuit
<1>c. ASSUME NEW v \in Stt, v.next = stt.next, v.selected = stt.selected,
             v.live \in {stt.live, NoJob}, v.pending \in {stt.pending, NoPending}, NEW m,
             Base(n, stt, shown, switched, cmds, m),
             InTurn(stt, switched, cmds, m) \/ v.pending = NoPending
      PROVE  Base(n, v, shown, switched, cmds, m) /\ InTurn(v, switched, cmds, m)
  <2>1. Base(n, v, shown, switched, cmds, m)
        /\ (InTurn(stt, switched, cmds, m) => InTurn(v, switched, cmds, m))
    BY <1>t, <1>c, OrderChange
  <2> QED
    BY <1>c, <2>1 DEF InTurn
<1>7. ASSUME UnloadAllModels PROVE OrderInv'
  <2> DEFINE v == Forgotten(stt)
  <2>1. v \in Stt /\ v.next = stt.next /\ v.selected = stt.selected /\ v.live = NoJob /\ v.pending = NoPending
    BY <1>t, ForgottenType DEF Forgotten, Stt
  <2>2. /\ shown' = shown /\ switched' = switched /\ by' = by /\ msgs' = msgs /\ stt' = v
        /\ cmds' = cmds \/ (thread /\ cmds' = cmds \o << UnloadAll >>)
    BY <1>7, SendEither DEF UnloadAllModels
  <2> HIDE DEF v
  <2>3. Base(n, v, shown, switched, cmds, msgs) /\ InTurn(v, switched, cmds, msgs)
    BY <1>c, <1>i, <2>1
  <2>4. << UnloadAll >> \in Seq({x \in Cmd : x.kind # "Transcribe" /\ (x.kind = "LoadStt" => x.model = v.selected)})
    BY DEF Cmd, UnloadAll
  <2>5. /\ Base(n, v, shown, switched, cmds \o << UnloadAll >>, msgs)
        /\ InTurn(v, switched, cmds \o << UnloadAll >>, msgs)
    BY <2>3, <2>4, OrderSend
  <2> QED
    BY <1>k, <2>2, <2>3, <2>5
<1>9. ASSUME \/ \E on \in BOOLEAN : SetCopy(on)
             \/ CopyTranscript \/ ClearTranscript \/ OnExit \/ WorkerDies \/ UNCHANGED dictationVars
      PROVE  OrderInv'
  <2>1. /\ shown' = shown /\ switched' = switched /\ by' = by /\ msgs' = msgs /\ stt' = stt
        /\ cmds' = cmds
    BY <1>9 DEF SetCopy, CopyTranscript, ClearTranscript, OnExit, WorkerDies, dictationVars
  <2> QED
    BY <1>i, <1>k, <2>1
<1>14. ASSUME HandleCmd PROVE OrderInv'
  <2>1. PICK r \in Results(Head(cmds)) : msgs' = msgs \o r.said
    BY <1>14 DEF HandleCmd
  <2>2. /\ shown' = shown /\ switched' = switched /\ by' = by /\ stt' = stt /\ cmds # << >>
        /\ cmds' = IF Head(cmds).kind # "Shutdown" THEN Tail(cmds) ELSE << >>
    BY <1>14 DEF HandleCmd
  <2>3. Base(n, stt, shown, switched, cmds', msgs \o r.said) /\ InTurn(stt, switched, cmds', msgs \o r.said)
    BY <1>t, <1>i, <2>2, OrderHandled
  <2> QED
    BY <1>k, <2>1, <2>2, <2>3
<1>m. ASSUME NEW kind, Took(kind)
      PROVE  /\ Head(msgs).kind = kind /\ msgs # << >> /\ msgs' = Tail(msgs)
             /\ Head(msgs) \in Msg /\ Fits(Head(msgs), n, stt, shown, switched)
             /\ Base(n, stt, shown, switched, cmds, msgs')
             /\ kind # "SttLoaded" => InTurn(stt, switched, cmds, msgs')
  BY <1>m, <1>i, OrderDrained DEF Took
<1>u. ASSUME NEW kind, Took(kind), cmds' = cmds, shown' = shown, switched' = switched, by' = by,
             stt' \in Stt, stt'.next = stt.next, stt'.selected = stt.selected,
             stt'.live \in {stt.live, NoJob}, stt'.pending \in {stt.pending, NoPending},
             kind # "SttLoaded" \/ stt'.pending = NoPending
      PROVE  OrderInv'
  BY <1>c, <1>k, <1>m, <1>u
<1>17. ASSUME GotModelStatus PROVE OrderInv'
  <2>1. Took("ModelStatus") /\ Head(msgs) \in Msg /\ Head(msgs).kind = "ModelStatus"
    BY <1>17, <1>m DEF GotModelStatus
  <2>2. Head(msgs).model \in SttModels \union {NoModel}
    BY <2>1 DEF Msg, ModelStatus, Unloaded, TtsLoaded, SttTimedOut
  <2>3. /\ stt' \in Stt /\ stt'.next = stt.next /\ stt'.selected = stt.selected
        /\ stt'.live = stt.live /\ stt'.pending = stt.pending
    BY <1>17, <1>t, <2>2 DEF GotModelStatus, Stt
  <2>4. cmds' = cmds /\ shown' = shown /\ switched' = switched /\ by' = by
    BY <1>17 DEF GotModelStatus
  <2> QED
    BY <1>u, <2>1, <2>3, <2>4
<1>18. ASSUME GotSttLoaded PROVE OrderInv'
  <2>1. /\ Head(msgs).kind = "SttLoaded" /\ Head(msgs) \in Msg
        /\ Base(n, stt, shown, switched, cmds, msgs')
        /\ Fits(Head(msgs), n, stt, shown, switched) /\ Took("SttLoaded")
    BY <1>18, <1>m DEF GotSttLoaded
  <2>2. Head(msgs).model \in SttModels /\ (~switched => Head(msgs).model = stt.selected)
    BY <2>1 DEF Msg, ModelStatus, Unloaded, TtsLoaded, SttTimedOut, Fits
  <2>3. shown' = shown /\ switched' = switched /\ by' = by
    BY <1>18 DEF GotSttLoaded
  <2>4. CASE Head(msgs).ok
    <3> DEFINE after == AfterLoad(stt, Head(msgs).model)
    <3>1. stt' = after.stt /\ (cmds' = cmds \/ (thread /\ cmds' = cmds \o after.sent))
      BY <1>18, <2>4, SendEither DEF GotSttLoaded
    <3>2. /\ Base(n, after.stt, shown, switched, cmds, msgs')
          /\ InTurn(after.stt, switched, cmds, msgs')
          /\ Base(n, after.stt, shown, switched, cmds \o after.sent, msgs')
          /\ InTurn(after.stt, switched, cmds \o after.sent, msgs')
      BY <1>t, <2>1, <2>2, OrderAfterLoad
    <3> HIDE DEF after
    <3> QED
      BY <1>k, <2>3, <3>1, <3>2
  <2>5. CASE ~Head(msgs).ok
    <3>1. stt' = [Forgotten(stt) EXCEPT !.loading = FALSE] /\ cmds' = cmds
      BY <1>18, <2>5 DEF GotSttLoaded
    <3>2. /\ stt' \in Stt /\ stt'.next = stt.next /\ stt'.selected = stt.selected
          /\ stt'.live = NoJob /\ stt'.pending = NoPending
      BY <1>t, <3>1, ForgottenType DEF Forgotten, Stt
    <3> QED
      BY <1>u, <2>1, <2>3, <3>1, <3>2
  <2> QED
    BY <2>4, <2>5
<1>19. ASSUME GotOther PROVE OrderInv'
  <2>1. /\ cmds' = cmds /\ shown' = shown /\ switched' = switched /\ by' = by /\ stt' = stt
        /\ Took("Unloaded") \/ Took("TtsLoaded")
    BY <1>19 DEF GotOther
  <2> QED
    BY <1>t, <1>u, <2>1
<1>20. ASSUME GotTimedOut PROVE OrderInv'
  <2>1. /\ cmds' = cmds /\ shown' = shown /\ switched' = switched /\ by' = by
        /\ Took("WorkerTimedOut")
        /\ stt' = [stt EXCEPT !.loaded = FALSE, !.id = NoModel, !.loading = FALSE]
    BY <1>20 DEF GotTimedOut
  <2>2. /\ stt' \in Stt /\ stt'.next = stt.next /\ stt'.selected = stt.selected
        /\ stt'.live = stt.live /\ stt'.pending = stt.pending
    BY <1>t, <2>1 DEF Stt
  <2> QED
    BY <1>u, <2>1, <2>2
<1>21. ASSUME GotFailed PROVE OrderInv'
  <2>1. /\ cmds' = cmds /\ shown' = shown /\ switched' = switched /\ by' = by
        /\ Took("TranscribeFailed")
        /\ stt' = stt \/ stt' = [stt EXCEPT !.live = NoJob]
    BY <1>21 DEF GotFailed
  <2>2. /\ stt' \in Stt /\ stt'.next = stt.next /\ stt'.selected = stt.selected
        /\ stt'.live \in {stt.live, NoJob} /\ stt'.pending = stt.pending
    <3>1. CASE stt' = stt
      BY <1>t, <3>1
    <3>2. CASE stt' = [stt EXCEPT !.live = NoJob]
      BY <1>t, <3>2 DEF Stt, NoJob
    <3> QED
      BY <2>1, <3>1, <3>2
  <2> QED
    BY <1>u, <2>1, <2>2
<1>22. ASSUME GotTranscribed PROVE OrderInv'
  <2> DEFINE x == Head(msgs)
  <2>1. /\ Took("Transcribed") /\ x.kind = "Transcribed" /\ x \in Msg /\ msgs # << >> /\ msgs' = Tail(msgs)
        /\ cmds' = cmds /\ by' = by /\ switched' = switched
    BY <1>22, <1>m DEF GotTranscribed
  <2>2. CASE ~IsLiveStt(x)
    <3>1. stt' = stt /\ shown' = shown
      BY <1>22, <2>2 DEF GotTranscribed
    <3> QED
      BY <1>t, <1>u, <2>1, <3>1
  <2>3. CASE IsLiveStt(x)
    <3>1. /\ stt' = [stt EXCEPT !.live = NoJob]
          /\ shown' = IF x.text = NoFile THEN shown ELSE Append(shown, x.text)
      BY <1>22, <2>3 DEF GotTranscribed, Shows
    <3>2. x.job = stt.live
      BY <2>3 DEF IsLiveStt
    <3>3. /\ Base(n, stt', shown', switched, cmds, msgs') /\ InTurn(stt', switched, cmds, msgs')
          /\ x.text # NoFile => After(shown, switched, x.text) /\ x.text \in 1 .. n
      BY <1>t, <1>i, <2>1, <3>1, <3>2, OrderShown
    <3>4. CASE x.text = NoFile
      <4>1. shown' = shown
        BY <3>1, <3>4
      <4> QED
        BY <1>k, <2>1, <3>3, <4>1
    <3>5. CASE x.text # NoFile
      <4>1. /\ DOMAIN shown = 1 .. Len(shown) /\ Len(shown) \in Nat
            /\ DOMAIN shown' = 1 .. Len(shown) + 1
            /\ \A j \in 1 .. Len(shown) : shown'[j] = shown[j]
            /\ shown'[Len(shown) + 1] = x.text
        <5>1. x.text \in Nat /\ shown' = Append(shown, x.text)
          BY <3>1, <3>3, <3>5
        <5> QED
          BY <1>t, <5>1, AppendProperties, LenProperties
      <4>2. ASSUME NEW j \in DOMAIN shown', NEW i \in 1 .. j - 1
            PROVE  shown'[i] # shown'[j] /\ (~switched' => shown'[i] < shown'[j])
        <5>1. i \in DOMAIN shown /\ shown'[i] = shown[i]
          BY <4>1, <4>2
        <5>2. CASE j \in DOMAIN shown
          BY <1>i, <2>1, <4>1, <4>2, <5>1, <5>2 DEF TextInOrder
        <5>3. CASE j = Len(shown) + 1
          BY <2>1, <3>3, <3>5, <4>1, <5>1, <5>3 DEF After
        <5> QED
          BY <4>1, <5>2, <5>3
      <4>3. TextInOrder'
        BY <4>2 DEF TextInOrder
      <4>4. \A j \in DOMAIN shown' : shown'[j] \in 1 .. n
        BY <1>i, <3>3, <3>5, <4>1
      <4> QED
        BY <2>1, <3>3, <4>3, <4>4 DEF OrderInv, n
    <3> QED
      BY <3>4, <3>5
  <2> QED
    BY <2>2, <2>3
<1> QED
  BY <1>1, <1>2, <1>3, <1>4, <1>5, <1>6, <1>7, <1>8, <1>9, <1>12, <1>14, <1>17, <1>18, <1>19,
     <1>20, <1>21, <1>22
     DEF DictationNext, Start, Finish, HandleMsg

\* Nothing was handed over at the start.
LEMMA OrderInvInit == DictationInit => OrderInv
<1> SUFFICES ASSUME DictationInit PROVE OrderInv
  OBVIOUS
<1>1. /\ stt.pending = NoPending /\ stt.live = 0 /\ stt.next = 1
      /\ cmds = << >> /\ msgs = << >> /\ shown = << >>
  BY DEF DictationInit, NoJob
<1>2. \A S : << >> \in Seq(S)
  OBVIOUS
<1>3. Base(Len(by), stt, shown, switched, cmds, msgs)
  BY <1>1, <1>2 DEF Base, WaitsFor
<1> QED
  BY <1>1, <1>3 DEF OrderInv, InTurn, TextInOrder

\* However loads, reloads, deaths of the worker, unloads and newer dictations
\* interleave: no text reaches the panel twice, and with one model selected the
\* texts come in the order of the recordings.
THEOREM TextsInOrder == DictationSpec => []TextInOrder
<1>1. DictationTypeOK /\ WaitInv /\ [DictationNext]_dictationVars /\ DictationTypeOK' => WaitInv'
  BY WaitsStep
<1>2. DictationTypeOK /\ WaitInv /\ OrderInv /\ [DictationNext]_dictationVars => OrderInv'
  BY OrderInvStep
<1>3. OrderInv => TextInOrder
  BY DEF OrderInv
<1> QED
  BY <1>1, <1>2, <1>3, WaitsInit, OrderInvInit, DictationTypeCorrect, PTL DEF DictationSpec

-----------------------------------------------------------------------------
(* The promise of dictation.                                                 *)

\* The commands and messages by which the text of file f may come under job j.
JobTexts(j, f) == {x \in Cmd \union Msg : Carries(x) /\ x.job = j /\ FileOf(x) = f}

\* AskedFiles, read off the queues c and m and the live job j.
AskedIn(c, m, j) == {f \in Nat \ {0} : Meets(c, JobTexts(j, f)) \/ Meets(m, JobTexts(j, f))}

\* Every member of a queue that fits does.
LEMMA BaseFits ==
  ASSUME NEW n, NEW u, NEW sh, NEW sw, NEW c, NEW m, Base(n, u, sh, sw, c, m)
  PROVE  /\ c \in Seq(Cmd) /\ m \in Seq(Msg)
         /\ \A k \in DOMAIN c : c[k] \in Cmd /\ Fits(c[k], n, u, sh, sw)
         /\ \A k \in DOMAIN m : m[k] \in Msg /\ Fits(m[k], n, u, sh, sw)
<1>1. FitCmd(n, u, sh, sw) \subseteq Cmd /\ FitMsg(n, u, sh, sw) \subseteq Msg
  BY DEF FitCmd, FitMsg
<1>2. c \in Seq(Cmd) /\ m \in Seq(Msg)
  BY <1>1, SeqGrows DEF Base
<1>3. /\ \A k \in DOMAIN c : c[k] \in FitCmd(n, u, sh, sw)
      /\ \A k \in DOMAIN m : m[k] \in FitMsg(n, u, sh, sw)
  BY ElementOfSeq, LenProperties DEF Base
<1> QED
  BY <1>2, <1>3 DEF FitCmd, FitMsg

\* No command is a text, and no message is a transcription.
LEMMA KindsApart ==
  /\ \A x \in Cmd : Carries(x) <=> x.kind = "Transcribe"
  /\ \A x \in Msg : Carries(x) <=> x.kind = "Transcribed" /\ x.text # NoFile
<1>1. \A x \in Cmd : x.kind # "Transcribed"
  BY DEF Cmd, LoadStt, UnloadStt, UnloadAll, LoadTts, Shutdown
<1>2. \A x \in Msg : x.kind # "Transcribe"
  BY DEF Msg, ModelStatus, Unloaded, TtsLoaded, SttTimedOut
<1> QED
  BY <1>1, <1>2 DEF Carries

\* What is asked for, read off the queues.
AskedOf(n, u, c, m) ==
  {f \in 1 .. n :
     \/ \E k \in DOMAIN c : c[k].kind = "Transcribe" /\ c[k].job = u.live /\ c[k].file = f
     \/ \E k \in DOMAIN m : m[k].kind = "Transcribed" /\ m[k].job = u.live /\ m[k].text = f}

LEMMA AskedMeans ==
  ASSUME NEW n \in Nat, NEW u, NEW sh, NEW sw, NEW c, NEW m, Base(n, u, sh, sw, c, m)
  PROVE  AskedOf(n, u, c, m) = AskedIn(c, m, u.live)
<1>1. /\ \A k \in DOMAIN c : c[k] \in Cmd /\ Fits(c[k], n, u, sh, sw)
      /\ \A k \in DOMAIN m : m[k] \in Msg /\ Fits(m[k], n, u, sh, sw)
  BY BaseFits
<1>2. ASSUME NEW f \in Nat \ {0}
      PROVE  /\ Meets(c, JobTexts(u.live, f)) <=>
                  \E k \in DOMAIN c : c[k].kind = "Transcribe" /\ c[k].job = u.live /\ c[k].file = f
             /\ Meets(m, JobTexts(u.live, f)) <=>
                  \E k \in DOMAIN m : m[k].kind = "Transcribed" /\ m[k].job = u.live /\ m[k].text = f
  <2>1. \A k \in DOMAIN c : c[k] \in JobTexts(u.live, f) <=>
                              c[k].kind = "Transcribe" /\ c[k].job = u.live /\ c[k].file = f
    BY <1>1, KindsApart DEF JobTexts, FileOf
  <2>2. \A k \in DOMAIN m : m[k] \in JobTexts(u.live, f) <=>
                              m[k].kind = "Transcribed" /\ m[k].job = u.live /\ m[k].text = f
    BY <1>1, <1>2, KindsApart DEF JobTexts, FileOf, NoFile
  <2> QED
    BY <2>1, <2>2 DEF Meets
<1>3. ASSUME NEW f \in Nat \ {0}, Meets(c, JobTexts(u.live, f)) \/ Meets(m, JobTexts(u.live, f))
      PROVE  f \in 1 .. n
  BY <1>1, <1>3 DEF Meets, JobTexts, Fits
<1>4. 1 .. n \subseteq Nat \ {0}
  OBVIOUS
<1> QED
  BY <1>2, <1>3, <1>4 DEF AskedIn, AskedOf

\* Nothing is asked for under a job that was never given out.
LEMMA AskedNone ==
  ASSUME NEW n \in Nat, NEW u \in Stt, NEW sh, NEW sw, NEW c, NEW m, Base(n, u, sh, sw, c, m),
         NEW j, j = u.next \/ j = NoJob
  PROVE  AskedIn(c, m, j) = {}
<1>1. /\ \A k \in DOMAIN c : Fits(c[k], n, u, sh, sw)
      /\ \A k \in DOMAIN m : Fits(m[k], n, u, sh, sw)
  BY BaseFits
<1>2. u.next \in Nat \ {0} /\ j \notin 1 .. u.next - 1
  BY DEF Stt, NoJob
<1>3. \A f : ~Meets(c, JobTexts(j, f)) /\ ~Meets(m, JobTexts(j, f))
  BY <1>1, <1>2 DEF Meets, JobTexts, Fits
<1> QED
  BY <1>3 DEF AskedIn

\* A command that transcribes nothing asks for nothing; one that does asks for
\* its file.
LEMMA AskedSend ==
  ASSUME NEW c \in Seq(Cmd), NEW m, NEW j
  PROVE  /\ \A s \in Seq({x \in Cmd : x.kind # "Transcribe"}) : AskedIn(c \o s, m, j) = AskedIn(c, m, j)
         /\ \A x \in Cmd : x.kind = "Transcribe" =>
              AskedIn(c \o << x >>, m, j) \subseteq AskedIn(c, m, j) \union {x.file}
<1>1. ASSUME NEW s \in Seq({x \in Cmd : x.kind # "Transcribe"}) PROVE AskedIn(c \o s, m, j) = AskedIn(c, m, j)
  <2>1. s \in Seq(Cmd)
    BY SeqGrows
  <2>2. \A k \in DOMAIN s : s[k] \in Cmd /\ s[k].kind # "Transcribe"
    BY ElementOfSeq, LenProperties
  <2>3. \A f : ~Meets(s, JobTexts(j, f))
    BY <2>2, KindsApart DEF Meets, JobTexts
  <2>4. \A f : Meets(c \o s, JobTexts(j, f)) <=> Meets(c, JobTexts(j, f))
    BY <2>1, <2>3, MeetsConcat
  <2> QED
    BY <2>4 DEF AskedIn
<1>2. ASSUME NEW x \in Cmd, x.kind = "Transcribe"
      PROVE  AskedIn(c \o << x >>, m, j) \subseteq AskedIn(c, m, j) \union {x.file}
  <2>1. << x >> \in Seq(Cmd)
    OBVIOUS
  <2>2. \A f : Meets(c \o << x >>, JobTexts(j, f)) => Meets(c, JobTexts(j, f)) \/ x \in JobTexts(j, f)
    BY <2>1, MeetsConcat, MeetsOne
  <2>3. \A f : x \in JobTexts(j, f) => f = x.file
    BY <1>2 DEF JobTexts, FileOf
  <2> QED
    BY <2>2, <2>3 DEF AskedIn
<1> QED
  BY <1>1, <1>2

\* File f was handed over by a UI in state u, which leaves state v and the commands
\* d: it waits and what is asked for stays, or it is all that is asked for and what
\* waits stays.
HandedOver(f, u, c, v, d, m) ==
  \/ ~Ready(u) /\ v.pending.file = f /\ AskedIn(d, m, v.live) = AskedIn(c, m, u.live)
  \/ Ready(u) /\ v.pending = u.pending /\ AskedIn(d, m, v.live) \subseteq {f}

\* do_transcribe_file, whether or not somebody receives the command.
LEMMA AskedFileOver ==
  ASSUME NEW n \in Nat, NEW u \in Stt, NEW sh, NEW sw, NEW c, NEW m, Base(n, u, sh, sw, c, m),
         NEW f \in Nat \ {0}, NEW i \in Intents
  PROVE  /\ HandedOver(f, u, c, FileOver(u, f, i).stt, c, m)
         /\ HandedOver(f, u, c, FileOver(u, f, i).stt, c \o FileOver(u, f, i).sent, m)
<1>0. c \in Seq(Cmd)
  BY BaseFits
<1>1. CASE Ready(u)
  <2> DEFINE x == Transcribe(u.next, i, f)
  <2>1. /\ FileOver(u, f, i).stt.live = u.next /\ FileOver(u, f, i).stt.pending = u.pending
        /\ FileOver(u, f, i).sent = << x >>
    BY <1>1 DEF FileOver, FileQueued, Stt
  <2>2. x \in Cmd /\ x.kind = "Transcribe" /\ x.file = f
    BY DEF Transcribe, Cmd, Stt
  <2>3. AskedIn(c, m, u.next) = {}
    BY AskedNone
  <2> HIDE DEF x
  <2>4. AskedIn(c \o << x >>, m, u.next) \subseteq {f}
    BY <1>0, <2>2, <2>3, AskedSend
  <2> QED
    BY <1>1, <2>1, <2>3, <2>4 DEF HandedOver
<1>2. CASE ~Ready(u)
  <2> DEFINE v == [u EXCEPT !.pending = [file |-> f, intent |-> i]]
  <2>1. FileOver(u, f, i) = LoadAsked(v) /\ v \in Stt /\ v.live = u.live /\ v.pending.file = f
    BY <1>2 DEF FileOver, Stt, Pending
  <2> HIDE DEF v
  <2>2. /\ LoadAsked(v).stt.live = v.live /\ LoadAsked(v).stt.pending = v.pending
        /\ LoadAsked(v).sent \in Seq({x \in Cmd : x.kind # "Transcribe"})
    <3>1. LoadStt(v.selected) \in Cmd /\ LoadStt(v.selected).kind # "Transcribe"
      BY <2>1 DEF LoadStt, Cmd, Stt
    <3>2. << LoadStt(v.selected) >> \in Seq({x \in Cmd : x.kind # "Transcribe"})
      BY <3>1
    <3>3. << >> \in Seq({x \in Cmd : x.kind # "Transcribe"})
      OBVIOUS
    <3> QED
      BY <2>1, <3>2, <3>3 DEF LoadAsked, Stt
  <2>3. AskedIn(c \o LoadAsked(v).sent, m, u.live) = AskedIn(c, m, u.live)
    BY <1>0, <2>2, AskedSend
  <2> QED
    BY <1>2, <2>1, <2>2, <2>3 DEF HandedOver
<1> QED
  BY <1>1, <1>2

\* The job thread answers with the text of the file it was given, or none.
LEMMA AskedHandled ==
  ASSUME worker \in Worker, NEW c \in Seq(Cmd), NEW m \in Seq(Msg), c # << >>, NEW j,
         NEW r \in Results(Head(c)),
         NEW d, d = IF Head(c).kind # "Shutdown" THEN Tail(c) ELSE << >>
  PROVE  AskedIn(d, m \o r.said, j) \subseteq AskedIn(c, m, j)
<1> DEFINE h == Head(c)
<1>1. h \in Cmd /\ Tail(c) \in Seq(Cmd)
  BY HeadTailProperties
<1>2. r.said \in Seq(Msg)
  BY <1>1, ResultsType
<1>3. \A X : Meets(d, X) => Meets(c, X)
  <2>1. \A X : ~Meets(<< >>, X)
    BY DEF Meets
  <2> QED
    BY <2>1, MeetsTail
<1>4. \A f \in Nat \ {0} : Meets(r.said, JobTexts(j, f)) => h \in JobTexts(j, f)
  <2>1. CASE r.said \in Seq(NoText)
    <3>1. \A k \in DOMAIN r.said : r.said[k] \in NoText
      BY <2>1, ElementOfSeq, LenProperties
    <3> QED
      BY <3>1, KindsApart DEF Meets, JobTexts, NoText
  <2>2. CASE h.kind = "Transcribe" /\ \E t \in {h.file, NoFile} : r.said = TextOf(h, t)
    <3>1. PICK t \in {h.file, NoFile} : r.said = TextOf(h, t)
      BY <2>2
    <3> DEFINE x == Transcribed(h.job, h.intent, t)
    <3>2. x.kind = "Transcribed" /\ x.job = h.job /\ x.text = t
      BY DEF Transcribed
    <3>3. r.said = << x >>
      BY <3>1 DEF TextOf
    <3> HIDE DEF x
    <3>4. \A f : Meets(r.said, JobTexts(j, f)) <=> x \in JobTexts(j, f)
      BY <3>3, MeetsOne
    <3>5. \A f \in Nat \ {0} : x \in JobTexts(j, f) => h \in JobTexts(j, f)
      BY <1>1, <2>2, <3>1, <3>2 DEF JobTexts, Carries, FileOf, NoFile
    <3> QED
      BY <3>4, <3>5
  <2> QED
    BY <1>1, <2>1, <2>2, ResultsSaid
<1>5. \A f \in Nat \ {0} : h \in JobTexts(j, f) => Meets(c, JobTexts(j, f))
  BY MeetsTail
<1>6. \A X : Meets(m \o r.said, X) <=> Meets(m, X) \/ Meets(r.said, X)
  BY <1>2, MeetsConcat
<1> HIDE DEF h
<1> QED
  BY <1>3, <1>4, <1>5, <1>6 DEF AskedIn

\* A message drained leaves no more asked for; its text was, under its job.
LEMMA AskedDrained ==
  ASSUME NEW c, NEW m \in Seq(Msg), m # << >>, NEW j
  PROVE  /\ AskedIn(c, Tail(m), j) \subseteq AskedIn(c, m, j)
         /\ Head(m).kind = "Transcribed" /\ Head(m).job = j /\ Head(m).text # NoFile
              => Head(m).text \in AskedIn(c, m, j)
<1>1. \A X : Meets(m, X) <=> Head(m) \in X \/ Meets(Tail(m), X)
  BY MeetsTail
<1>2. Head(m) \in Msg
  BY HeadTailProperties
<1>3. ASSUME Head(m).kind = "Transcribed", Head(m).job = j, Head(m).text # NoFile
      PROVE  Head(m).text \in Nat \ {0} /\ Head(m) \in JobTexts(j, Head(m).text)
  <2>1. Head(m).text \in Nat
    BY <1>2, <1>3 DEF Msg, ModelStatus, Unloaded, TtsLoaded, SttTimedOut
  <2> QED
    BY <1>2, <1>3, <2>1 DEF JobTexts, Carries, FileOf, NoFile
<1> QED
  BY <1>1, <1>3 DEF AskedIn

\* With nothing handed over or shown, and neither more waiting nor more asked
\* for, the promise sees files given up, or nothing at all.
LEMMA PromiseGivesUp ==
  ASSUME by' = by, shown' = shown, switched' = switched,
         WaitingFiles' \subseteq WaitingFiles, AskedFiles' \subseteq AskedFiles
  PROVE  [Promise!Next]_(Promise!promiseVars)
BY DEF Promise!Next, Promise!GiveUp

\* Every step of dictation is a step the promise allows, or none.
LEMMA PromiseStep ==
  ASSUME DictationTypeOK, OrderInv, OrderInv', DictationTypeOK', [DictationNext]_dictationVars
  PROVE  [Promise!Next]_(Promise!promiseVars)
<1> USE DEF history, screen
<1>t. /\ stt \in Stt /\ worker \in Worker /\ mic \in Mic /\ by \in Seq(Intents)
      /\ cmds \in Seq(Cmd) /\ msgs \in Seq(Msg) /\ shown \in Seq(Nat)
      /\ stt' \in Stt /\ Len(by) \in Nat /\ Len(by') \in Nat
  BY LenProperties DEF DictationTypeOK
<1>i. /\ Base(Len(by), stt, shown, switched, cmds, msgs)
      /\ Base(Len(by'), stt', shown', switched', cmds', msgs')
  BY DEF OrderInv
<1>a. /\ AskedFiles = AskedIn(cmds, msgs, stt.live)
      /\ AskedFiles' = AskedIn(cmds', msgs', stt'.live)
  <2>1. /\ AskedFiles = AskedOf(Len(by), stt, cmds, msgs)
        /\ AskedFiles' = AskedOf(Len(by'), stt', cmds', msgs')
    BY DEF AskedFiles, AskedOf
  <2>2. AskedOf(Len(by), stt, cmds, msgs) = AskedIn(cmds, msgs, stt.live)
    BY <1>t, <1>i, AskedMeans
  <2>3. AskedOf(Len(by'), stt', cmds', msgs') = AskedIn(cmds', msgs', stt'.live)
    BY <1>t, <1>i, AskedMeans
  <2> QED
    BY <2>1, <2>2, <2>3
<1>w. ASSUME stt'.pending \in {stt.pending, NoPending} PROVE WaitingFiles' \subseteq WaitingFiles
  BY <1>w DEF WaitingFiles, NoPending
<1>n. stt'.live = NoJob => AskedFiles' = {}
  BY <1>t, <1>i, <1>a, AskedNone
<1>g. ASSUME by' = by, shown' = shown, switched' = switched,
             stt'.pending \in {stt.pending, NoPending},
             stt'.live = NoJob \/ AskedIn(cmds', msgs', stt'.live) \subseteq AskedIn(cmds, msgs, stt.live)
      PROVE  [Promise!Next]_(Promise!promiseVars)
  BY <1>a, <1>g, <1>n, <1>w, PromiseGivesUp
<1>p. /\ << UnloadStt >> \in Seq({x \in Cmd : x.kind # "Transcribe"})
      /\ << LoadTts >> \in Seq({x \in Cmd : x.kind # "Transcribe"})
      /\ << UnloadAll, Shutdown >> \in Seq({x \in Cmd : x.kind # "Transcribe"})
  <2>1. {UnloadStt, UnloadAll, LoadTts, Shutdown} \subseteq {x \in Cmd : x.kind # "Transcribe"}
    BY DEF Cmd, UnloadStt, UnloadAll, LoadTts, Shutdown
  <2> QED
    BY <2>1
<1>s. ASSUME by' = by, shown' = shown, switched' = switched, msgs' = msgs,
             stt'.pending = stt.pending, stt'.live = stt.live,
             NEW s \in Seq({x \in Cmd : x.kind # "Transcribe"}), Send(s)
      PROVE  [Promise!Next]_(Promise!promiseVars)
  <2>1. AskedIn(cmds \o s, msgs, stt.live) = AskedIn(cmds, msgs, stt.live)
    BY <1>s, <1>t, AskedSend
  <2>2. cmds' = cmds \/ cmds' = cmds \o s
    BY <1>s, SendEither
  <2> QED
    BY <1>g, <1>s, <2>1, <2>2
<1>f. ASSUME NEW i \in Intents, NEW j \in Intents, shown' = shown, switched' = switched, msgs' = msgs,
             by' = Append(by, i), stt' = FileOver(stt, Len(by) + 1, j).stt,
             Send(FileOver(stt, Len(by) + 1, j).sent)
      PROVE  [Promise!Next]_(Promise!promiseVars)
  <2> DEFINE f == Len(by) + 1
  <2>1. Len(by') = f /\ f \in Nat \ {0}
    BY <1>t, <1>f, AppendProperties
  <2>2. cmds' = cmds \/ cmds' = cmds \o FileOver(stt, f, j).sent
    BY <1>f, SendEither
  <2>3. stt' = FileOver(stt, f, j).stt
    BY <1>f
  <2> HIDE DEF f
  <2>4. \/ stt'.pending.file = f /\ AskedIn(cmds', msgs, stt'.live) = AskedIn(cmds, msgs, stt.live)
        \/ stt'.pending = stt.pending /\ AskedIn(cmds', msgs, stt'.live) \subseteq {f}
    <3>1. HandedOver(f, stt, cmds, stt', cmds', msgs)
      BY <1>t, <1>i, <2>1, <2>2, <2>3, AskedFileOver
    <3> QED
      BY <3>1 DEF HandedOver
  <2>5. \/ WaitingFiles' = {f} /\ AskedFiles' = AskedFiles
        \/ WaitingFiles' = WaitingFiles /\ AskedFiles' \subseteq {f}
    BY <1>a, <1>f, <2>1, <2>4 DEF WaitingFiles, NoFile
  <2>6. Promise!HandOver
    BY <1>f, <2>1, <2>5 DEF Promise!HandOver, f
  <2> QED
    BY <2>6 DEF Promise!Next
<1>1. ASSUME NEW i \in Intents, NEW starts \in BOOLEAN, BeginRecording(i, starts)
      PROVE  [Promise!Next]_(Promise!promiseVars)
  BY <1>1, <1>g DEF BeginRecording
<1>2. ASSUME NEW i \in Intents, NEW o \in StopOutcomes, EndRecording(i, o)
      PROVE  [Promise!Next]_(Promise!promiseVars)
  <2>1. CASE Discarded(i, o)
    BY <1>2, <1>g, <2>1 DEF EndRecording
  <2>2. CASE ~Discarded(i, o)
    <3>1. mic.by \in Intents /\ mic.intent \in Intents
      BY <1>t DEF Mic
    <3>2. /\ shown' = shown /\ switched' = switched /\ by' = Append(by, mic.by) /\ msgs' = msgs
          /\ stt' = FileOver(stt, Len(by) + 1, mic.intent).stt
          /\ Send(FileOver(stt, Len(by) + 1, mic.intent).sent)
      BY <1>2, <2>2 DEF EndRecording
    <3> QED
      BY <1>f, <3>1, <3>2
  <2> QED
    BY <2>1, <2>2
<1>3. ASSUME PickFile PROVE [Promise!Next]_(Promise!promiseVars)
  <2>1. "idle" \in Intents
    BY DEF Intents
  <2>2. /\ shown' = shown /\ switched' = switched /\ by' = Append(by, "idle") /\ msgs' = msgs
        /\ stt' = FileOver(stt, Len(by) + 1, "idle").stt
        /\ Send(FileOver(stt, Len(by) + 1, "idle").sent)
    BY <1>3 DEF PickFile
  <2> QED
    BY <1>f, <2>1, <2>2
<1>4. ASSUME NEW l \in SttModels, SelectModel(l) PROVE [Promise!Next]_(Promise!promiseVars)
  <2>1. /\ switched' = TRUE /\ shown' = shown /\ by' = by /\ cmds' = cmds /\ msgs' = msgs
        /\ stt'.live = stt.live /\ stt'.pending = stt.pending
    BY <1>4, <1>t DEF SelectModel, Stt
  <2>2. WaitingFiles' = WaitingFiles /\ AskedFiles' = AskedFiles
    BY <1>a, <2>1 DEF WaitingFiles
  <2> QED
    BY <2>1, <2>2 DEF Promise!Next, Promise!Switch
<1>5. ASSUME AskLoad PROVE [Promise!Next]_(Promise!promiseVars)
  <2>1. /\ LoadAsked(stt).stt.pending = stt.pending /\ LoadAsked(stt).stt.live = stt.live
        /\ LoadAsked(stt).sent \in Seq({x \in Cmd : x.kind # "Transcribe"})
    <3>1. LoadStt(stt.selected) \in {x \in Cmd : x.kind # "Transcribe"}
      BY <1>t DEF LoadStt, Cmd, Stt
    <3>2. << LoadStt(stt.selected) >> \in Seq({x \in Cmd : x.kind # "Transcribe"})
      BY <3>1
    <3>3. << >> \in Seq({x \in Cmd : x.kind # "Transcribe"})
      OBVIOUS
    <3> QED
      BY <1>t, <3>2, <3>3 DEF LoadAsked, Stt
  <2> QED
    BY <1>5, <1>s, <2>1 DEF AskLoad
<1>6. ASSUME AskUnload PROVE [Promise!Next]_(Promise!promiseVars)
  BY <1>6, <1>s, <1>p DEF AskUnload
<1>7. ASSUME UnloadAllModels PROVE [Promise!Next]_(Promise!promiseVars)
  <2>1. stt'.live = NoJob /\ stt'.pending = NoPending
    BY <1>7, <1>t DEF UnloadAllModels, Forgotten, Stt
  <2> QED
    BY <1>7, <1>g, <2>1 DEF UnloadAllModels
<1>8. ASSUME AskVoice PROVE [Promise!Next]_(Promise!promiseVars)
  BY <1>8, <1>s, <1>p DEF AskVoice
<1>9. ASSUME ArmQuit PROVE [Promise!Next]_(Promise!promiseVars)
  BY <1>9, <1>s, <1>p DEF ArmQuit
<1>10. ASSUME \/ \E on \in BOOLEAN : SetCopy(on)
              \/ CopyTranscript \/ ClearTranscript \/ OnExit \/ WorkerDies \/ UNCHANGED dictationVars
       PROVE  [Promise!Next]_(Promise!promiseVars)
  <2>1. /\ shown' = shown /\ switched' = switched /\ by' = by /\ msgs' = msgs /\ stt' = stt
        /\ cmds' = cmds
    BY <1>10 DEF SetCopy, CopyTranscript, ClearTranscript, OnExit, WorkerDies, dictationVars
  <2> QED
    BY <1>g, <2>1
<1>11. ASSUME HandleCmd PROVE [Promise!Next]_(Promise!promiseVars)
  <2>1. PICK r \in Results(Head(cmds)) : msgs' = msgs \o r.said
    BY <1>11 DEF HandleCmd
  <2>2. /\ shown' = shown /\ switched' = switched /\ by' = by /\ stt' = stt /\ cmds # << >>
        /\ cmds' = IF Head(cmds).kind # "Shutdown" THEN Tail(cmds) ELSE << >>
    BY <1>11 DEF HandleCmd
  <2>3. AskedIn(cmds', msgs \o r.said, stt.live) \subseteq AskedIn(cmds, msgs, stt.live)
    BY <1>t, <2>2, AskedHandled
  <2> QED
    BY <1>g, <2>1, <2>2, <2>3
<1>m. ASSUME NEW kind, Took(kind)
      PROVE  /\ Head(msgs).kind = kind /\ msgs # << >> /\ msgs' = Tail(msgs) /\ Head(msgs) \in Msg
             /\ \A j : AskedIn(cmds, msgs', j) \subseteq AskedIn(cmds, msgs, j)
  BY <1>m, <1>t, AskedDrained, HeadTailProperties DEF Took
<1>12. ASSUME GotModelStatus \/ GotOther \/ GotTimedOut \/ GotFailed
       PROVE  [Promise!Next]_(Promise!promiseVars)
  <2>1. /\ shown' = shown /\ switched' = switched /\ by' = by /\ cmds' = cmds
        /\ \E kind : Took(kind)
        /\ stt'.pending = stt.pending /\ stt'.live \in {stt.live, NoJob}
    BY <1>12, <1>t DEF GotModelStatus, GotOther, GotTimedOut, GotFailed, Stt
  <2> QED
    BY <1>g, <1>m, <2>1
<1>13. ASSUME GotSttLoaded PROVE [Promise!Next]_(Promise!promiseVars)
  <2> DEFINE x == Head(msgs)
  <2>1. /\ shown' = shown /\ switched' = switched /\ by' = by
        /\ x.kind = "SttLoaded" /\ x \in Msg /\ Took("SttLoaded")
        /\ AskedIn(cmds, msgs', stt.live) \subseteq AskedIn(cmds, msgs, stt.live)
    BY <1>13, <1>m DEF GotSttLoaded
  <2>2. CASE ~x.ok
    <3>1. stt'.live = NoJob /\ stt'.pending = NoPending
      BY <1>13, <1>t, <2>2 DEF GotSttLoaded, Forgotten, Stt
    <3> QED
      BY <1>g, <2>1, <3>1
  <2>3. CASE x.ok
    <3> DEFINE up == [stt EXCEPT !.loading = FALSE, !.loaded = TRUE, !.id = x.model,
                                 !.pending = NoPending]
               f  == stt.pending.file
               i  == stt.pending.intent
    <3>1. x.model \in SttModels
      BY <2>1 DEF Msg, ModelStatus, Unloaded, TtsLoaded, SttTimedOut
    <3>2. /\ up \in Stt /\ up.next = stt.next /\ up.live = stt.live /\ up.selected = stt.selected
          /\ up.pending = NoPending
      BY <1>t, <3>1 DEF Stt, Pending, NoPending, NoFile, Intents
    <3>3. i \in Intents /\ f \in Nat
      BY <1>t DEF Stt, Pending
    <3>4. AfterLoad(stt, x.model) = IF stt.pending = NoPending THEN [stt |-> up, sent |-> << >>]
                                    ELSE FileOver(up, f, i)
      BY DEF AfterLoad
    <3>5. stt' = AfterLoad(stt, x.model).stt
          /\ (cmds' = cmds \/ cmds' = cmds \o AfterLoad(stt, x.model).sent)
      BY <1>13, <2>3, SendEither DEF GotSttLoaded
    <3> HIDE DEF up, f, i, x
    <3>6. CASE stt.pending = NoPending
      <4>1. stt' = up /\ cmds' = cmds
        BY <1>t, <3>4, <3>5, <3>6, ConcatEmptySeq
      <4> QED
        BY <1>g, <2>1, <3>2, <4>1
    <3>7. CASE stt.pending # NoPending
      <4>1. f \in Nat \ {0}
        BY <1>i, <3>3, <3>7 DEF Base, WaitsFor, f
      <4>2. Base(Len(by), up, shown, switched, cmds, msgs')
        <5>1. Base(Len(by), stt, shown, switched, cmds, msgs')
          BY <1>i, <2>1, OrderDrained DEF Took
        <5> QED
          BY <1>t, <3>2, <5>1, OrderChange
      <4>3. /\ stt' = FileOver(up, f, i).stt
            /\ cmds' = cmds \/ cmds' = cmds \o FileOver(up, f, i).sent
        BY <3>4, <3>5, <3>7
      <4>4. \/ stt'.pending.file = f /\ AskedIn(cmds', msgs', stt'.live) = AskedIn(cmds, msgs', stt.live)
            \/ stt'.pending = NoPending /\ AskedIn(cmds', msgs', stt'.live) \subseteq {f}
        <5>1. HandedOver(f, up, cmds, stt', cmds', msgs')
          BY <1>t, <3>2, <3>3, <4>1, <4>2, <4>3, AskedFileOver
        <5> QED
          BY <3>2, <5>1 DEF HandedOver
      <4>5. WaitingFiles = {f}
        BY <4>1 DEF WaitingFiles, NoFile, f
      <4>6. CASE stt'.pending.file = f /\ AskedIn(cmds', msgs', stt'.live) = AskedIn(cmds, msgs', stt.live)
        <5>1. WaitingFiles' = WaitingFiles /\ AskedFiles' \subseteq AskedFiles
          BY <1>a, <2>1, <4>5, <4>6 DEF WaitingFiles, NoFile, f
        <5> QED
          BY <2>1, <5>1, PromiseGivesUp
      <4>7. CASE stt'.pending = NoPending /\ AskedIn(cmds', msgs', stt'.live) \subseteq {f}
        <5>1. WaitingFiles' = {} /\ AskedFiles' \subseteq WaitingFiles
          BY <1>a, <4>5, <4>7 DEF WaitingFiles, NoPending
        <5> QED
          BY <2>1, <4>5, <5>1 DEF Promise!Next, Promise!GoOn
      <4> QED
        BY <4>4, <4>6, <4>7
    <3> QED
      BY <3>6, <3>7
  <2> QED
    BY <2>2, <2>3
<1>14. ASSUME GotTranscribed PROVE [Promise!Next]_(Promise!promiseVars)
  <2> DEFINE x == Head(msgs)
  <2>1. /\ x.kind = "Transcribed" /\ msgs # << >> /\ msgs' = Tail(msgs) /\ x \in Msg
        /\ AskedIn(cmds, msgs', stt.live) \subseteq AskedIn(cmds, msgs, stt.live)
        /\ cmds' = cmds /\ by' = by /\ switched' = switched
    BY <1>14, <1>m DEF GotTranscribed
  <2>2. CASE ~IsLiveStt(x)
    <3>1. stt' = stt /\ shown' = shown
      BY <1>14, <2>2 DEF GotTranscribed
    <3> QED
      BY <1>g, <2>1, <3>1
  <2>3. CASE IsLiveStt(x)
    <3>1. /\ stt' = [stt EXCEPT !.live = NoJob]
          /\ shown' = IF x.text = NoFile THEN shown ELSE Append(shown, x.text)
      BY <1>14, <2>3 DEF GotTranscribed, Shows
    <3>2. stt'.live = NoJob /\ stt'.pending = stt.pending
      BY <1>t, <3>1 DEF Stt
    <3>3. CASE x.text = NoFile
      BY <1>g, <2>1, <3>1, <3>2, <3>3
    <3>4. CASE x.text # NoFile
      <4>1. x.text \in AskedFiles /\ x.text \in Nat
        <5>1. x.text \in AskedIn(cmds, msgs, stt.live)
          BY <1>t, <2>1, <2>3, <3>4, AskedDrained DEF IsLiveStt
        <5> QED
          BY <1>a, <5>1 DEF AskedIn
      <4>2. shown' = Append(shown, x.text) /\ AskedFiles' = {} /\ WaitingFiles' = WaitingFiles
        BY <1>n, <3>1, <3>2, <3>4 DEF WaitingFiles
      <4>3. ASSUME ~switched, NEW w \in WaitingFiles PROVE x.text < w
        <5>1. stt'.pending # NoPending /\ w = stt'.pending.file
          BY <3>2, <4>3 DEF WaitingFiles, NoPending
        <5>2. After(shown', switched', w)
          BY <1>i, <5>1 DEF Base, WaitsFor
        <5>3. Len(shown) + 1 \in DOMAIN shown' /\ shown'[Len(shown) + 1] = x.text
          BY <1>t, <4>1, <4>2, AppendProperties, LenProperties
        <5> QED
          BY <2>1, <4>3, <5>2, <5>3 DEF After
      <4>4. Promise!Show
        BY <2>1, <4>1, <4>2, <4>3 DEF Promise!Show
      <4> QED
        BY <4>4 DEF Promise!Next
    <3> QED
      BY <3>3, <3>4
  <2> QED
    BY <2>2, <2>3
<1> QED
  BY <1>1, <1>2, <1>3, <1>4, <1>5, <1>6, <1>7, <1>8, <1>9, <1>10, <1>11, <1>12, <1>13, <1>14
     DEF DictationNext, Start, Finish, HandleMsg

\* Dictation implements module DictationPromise: a file that was replaced by a
\* newer one, or given up, is never shown, and a text never overtakes a file that
\* waits, whatever commands and answers are still under way.
THEOREM DictationImplementsPromise == DictationSpec => DictationKeepsPromise
<1>1. DictationInit => Promise!Init
  <2> SUFFICES ASSUME DictationInit PROVE Promise!Init
    OBVIOUS
  <2>1. /\ stt.pending = NoPending /\ cmds = << >> /\ msgs = << >> /\ by = << >>
        /\ shown = << >> /\ switched = FALSE
    BY DEF DictationInit
  <2>2. WaitingFiles = {} /\ AskedFiles = {} /\ Len(by) = 0
    BY <2>1 DEF WaitingFiles, AskedFiles, NoPending
  <2> QED
    BY <2>1, <2>2 DEF Promise!Init
<1>2. DictationTypeOK /\ WaitInv /\ [DictationNext]_dictationVars /\ DictationTypeOK' => WaitInv'
  BY WaitsStep
<1>3. DictationTypeOK /\ WaitInv /\ OrderInv /\ [DictationNext]_dictationVars => OrderInv'
  BY OrderInvStep
<1>4. DictationTypeOK /\ OrderInv /\ OrderInv' /\ DictationTypeOK' /\ [DictationNext]_dictationVars
        => [Promise!Next]_(Promise!promiseVars)
  BY PromiseStep
<1> QED
  BY <1>1, <1>2, <1>3, <1>4, WaitsInit, OrderInvInit, DictationTypeCorrect, PTL
     DEF DictationSpec, DictationKeepsPromise, Promise!Spec

\* The inductive invariant of the promise: what waits, what is asked for and what
\* was shown are different files handed over, and until another model is selected
\* what was shown is older than what may still come.
PromiseInv ==
  /\ Len(by) \in Nat /\ shown \in Seq(1 .. Len(by))
  /\ WaitingFiles \union AskedFiles \subseteq 1 .. Len(by)
  /\ WaitingFiles \intersect AskedFiles = {}
  /\ \A f \in WaitingFiles \union AskedFiles : After(shown, switched, f)
  /\ TextInOrder

\* TextInOrder of the texts sh.
Rising(sh, sw) ==
  \A j \in DOMAIN sh : \A i \in 1 .. j - 1 : sh[i] # sh[j] /\ (~sw => sh[i] < sh[j])

\* A text that may still come is put behind the others.
LEMMA ShownInOrder ==
  ASSUME NEW n \in Nat, NEW sh \in Seq(1 .. n), NEW sw, NEW f \in 1 .. n, After(sh, sw, f),
         Rising(sh, sw), NEW to, to = Append(sh, f)
  PROVE  /\ to \in Seq(1 .. n)
         /\ Rising(to, sw)
         /\ \A g : After(sh, sw, g) /\ f # g /\ (~sw => f < g) => After(to, sw, g)
<1>1. /\ DOMAIN sh = 1 .. Len(sh) /\ Len(sh) \in Nat
      /\ DOMAIN to = 1 .. Len(sh) + 1
      /\ \A j \in 1 .. Len(sh) : to[j] = sh[j]
      /\ to[Len(sh) + 1] = f /\ to \in Seq(1 .. n)
  BY AppendProperties, LenProperties
<1>2. ASSUME NEW j \in DOMAIN to, NEW i \in 1 .. j - 1
      PROVE  to[i] # to[j] /\ (~sw => to[i] < to[j])
  <2>1. i \in DOMAIN sh /\ to[i] = sh[i]
    BY <1>1, <1>2
  <2>2. CASE j \in DOMAIN sh
    BY <1>1, <1>2, <2>1, <2>2 DEF Rising
  <2>3. CASE j = Len(sh) + 1
    BY <1>1, <2>1, <2>3 DEF After
  <2> QED
    BY <1>1, <2>2, <2>3
<1>3. ASSUME NEW g, After(sh, sw, g), f # g, ~sw => f < g PROVE After(to, sw, g)
  <2>1. \A j \in DOMAIN to : (j \in DOMAIN sh /\ to[j] = sh[j]) \/ to[j] = f
    BY <1>1
  <2> QED
    BY <1>3, <2>1 DEF After
<1> QED
  BY <1>1, <1>2, <1>3 DEF Rising

\* The promise is enough: whatever keeps it shows each text once and, with one
\* model selected, in the order of the recordings.
THEOREM PromiseKeepsOrder == DictationKeepsPromise => []TextInOrder
<1> DEFINE A == WaitingFiles
           B == AskedFiles
           n == Len(by)
<1>1. Promise!Init => PromiseInv
  <2> SUFFICES ASSUME Promise!Init PROVE PromiseInv
    OBVIOUS
  <2>1. n = 0 /\ A = {} /\ B = {} /\ shown = << >>
    BY DEF Promise!Init
  <2> QED
    BY <2>1 DEF PromiseInv, TextInOrder
<1>2. PromiseInv /\ [Promise!Next]_(Promise!promiseVars) => PromiseInv'
  <2> SUFFICES ASSUME PromiseInv, [Promise!Next]_(Promise!promiseVars) PROVE PromiseInv'
    OBVIOUS
  <2>i. /\ n \in Nat /\ shown \in Seq(1 .. n) /\ A \union B \subseteq 1 .. n /\ A \intersect B = {}
        /\ \A f \in A \union B : After(shown, switched, f)
        /\ Rising(shown, switched)
    BY DEF PromiseInv, TextInOrder, Rising
  <2>g. ASSUME n' \in Nat, n' >= n, shown' = shown, switched => switched',
               A' \union B' \subseteq 1 .. n', A' \intersect B' = {},
               \A f \in A' \union B' : After(shown, switched, f)
        PROVE  PromiseInv'
    <3>1. shown \in Seq(1 .. n')
      <4>1. 1 .. n \subseteq 1 .. n'
        BY <2>g, <2>i
      <4> QED
        BY <2>i, <4>1, SeqGrows
    <3>2. \A f \in A' \union B' : After(shown', switched', f)
      BY <2>g DEF After
    <3>3. TextInOrder'
      BY <2>g, <2>i DEF TextInOrder, Rising
    <3> QED
      BY <2>g, <3>1, <3>2, <3>3 DEF PromiseInv
  <2>1. CASE Promise!HandOver
    <3>1. /\ n' = n + 1 /\ shown' = shown /\ switched' = switched
          /\ (A' = {n'} /\ B' = B) \/ (B' \subseteq {n'} /\ A' = A)
      BY <2>1 DEF Promise!HandOver
    <3>2. \A j \in DOMAIN shown : shown[j] \in 1 .. n
      BY <2>i, ElementOfSeq, LenProperties
    <3>3. After(shown, switched, n') /\ n' \notin A \union B /\ n' \in Nat
      BY <2>i, <3>1, <3>2 DEF After
    <3>4. /\ A' \union B' \subseteq A \union B \union {n'} /\ A' \intersect B' = {}
          /\ 1 .. n \subseteq 1 .. n' /\ n' \in 1 .. n' /\ n' >= n
      BY <2>i, <3>1, <3>3
    <3> HIDE DEF A, B, n
    <3> QED
      BY <2>g, <2>i, <3>1, <3>3, <3>4
  <2>2. CASE Promise!GoOn \/ Promise!GiveUp \/ Promise!Switch \/ UNCHANGED Promise!promiseVars
    <3>1. /\ n' = n /\ shown' = shown /\ (switched => switched')
          /\ A' \union B' \subseteq A \union B /\ A' \intersect B' = {}
      BY <2>2, <2>i DEF Promise!GoOn, Promise!GiveUp, Promise!Switch, Promise!promiseVars
    <3> HIDE DEF A, B, n
    <3> QED
      BY <2>g, <2>i, <3>1
  <2>3. CASE Promise!Show
    <3>1. PICK f \in B : /\ ~switched => \A w \in A : f < w
                         /\ shown' = Append(shown, f)
      BY <2>3 DEF Promise!Show
    <3>2. n' = n /\ A' = A /\ B' = {} /\ switched' = switched
      BY <2>3 DEF Promise!Show
    <3> HIDE DEF A, B, n
    <3>3. /\ shown' \in Seq(1 .. n)
          /\ Rising(shown', switched)
          /\ \A g : After(shown, switched, g) /\ f # g /\ (~switched => f < g)
                      => After(shown', switched, g)
      <4>1. f \in 1 .. n /\ After(shown, switched, f)
        BY <2>i
      <4>2. shown' = Append(shown, f)
        BY <3>1
      <4> QED
        BY <2>i, <4>1, <4>2, ShownInOrder
    <3>4. \A g \in A' \union B' : After(shown', switched', g)
      BY <2>i, <3>1, <3>2, <3>3
    <3>5. TextInOrder'
      BY <3>2, <3>3 DEF TextInOrder, Rising
    <3> QED
      BY <2>i, <3>2, <3>3, <3>4, <3>5 DEF PromiseInv, A, B, n
  <2> QED
    BY <2>1, <2>2, <2>3 DEF Promise!Next
<1>3. PromiseInv => TextInOrder
  BY DEF PromiseInv
<1> QED
  BY <1>1, <1>2, <1>3, PTL DEF DictationKeepsPromise, Promise!Spec

-----------------------------------------------------------------------------
(* The clipboard.                                                          *)

\* The steps that write the clipboard: the Copy button, and a text shown.  What
\* an insertion with Copy off writes back is what was there before, or nothing.
LEMMA InsertedRestores ==
  ASSUME NEW f, NEW tool, clipboard.kind # "text", ~copy, tool # "restoreFails"
  PROVE  Inserted(f, tool).kind # "text"
BY DEF Inserted, Prior, EmptyClip

\* The same of a text that is shown, copied or pasted.
LEMMA ShowsRestores ==
  ASSUME ClipboardUntouched, NEW m, Shows(m)
  PROVE  ClipboardUntouched'
<1> SUFFICES ASSUME ~kept' PROVE clipboard'.kind # "text"
  BY DEF ClipboardUntouched
<1>1. PICK tool \in Tools :
        IF FollowUp(m)
          THEN /\ clipboard' = Inserted(m.text, tool)
               /\ kept' = (kept \/ copy \/ tool = "restoreFails")
          ELSE /\ clipboard' = IF copy /\ tool # "noXclip" THEN TextClip(m.text) ELSE clipboard
               /\ kept' = (kept \/ copy)
  BY DEF Shows
<1>2. ~kept /\ ~copy /\ clipboard.kind # "text"
  BY <1>1 DEF ClipboardUntouched
<1> QED
  BY <1>1, <1>2, InsertedRestores

\* A step leaves no transcript in the clipboard.
LEMMA ClipboardStep == ClipboardUntouched /\ [DictationNext]_dictationVars => ClipboardUntouched'
<1> SUFFICES ASSUME ClipboardUntouched, [DictationNext]_dictationVars PROVE ClipboardUntouched'
  OBVIOUS
<1>1. CASE UNCHANGED << clipboard, kept >>
  BY <1>1 DEF ClipboardUntouched
<1>2. CASE CopyTranscript
  BY <1>2 DEF CopyTranscript, ClipboardUntouched
<1>3. CASE GotTranscribed
  BY <1>1, <1>3, ShowsRestores DEF GotTranscribed
<1>4. Start /\ ~CopyTranscript => UNCHANGED << clipboard, kept >>
  BY DEF Start, BeginRecording, PickFile, AskLoad, AskUnload, UnloadAllModels, AskVoice,
         SelectModel, SetCopy, ClearTranscript, ArmQuit, history, screen
<1>5. Finish \/ HandleCmd \/ WorkerDies => UNCHANGED << clipboard, kept >>
  BY DEF Finish, EndRecording, OnExit, HandleCmd, WorkerDies, screen
<1>6. HandleMsg /\ ~GotTranscribed => UNCHANGED << clipboard, kept >>
  BY DEF HandleMsg, GotModelStatus, GotSttLoaded, GotOther, GotTimedOut, GotFailed, screen
<1>7. UNCHANGED dictationVars => UNCHANGED << clipboard, kept >>
  BY DEF dictationVars, history
<1> QED
  BY <1>1, <1>2, <1>3, <1>4, <1>5, <1>6, <1>7 DEF DictationNext

\* With Copy off and the clipboard writable no transcript stays in it, whatever
\* fails between the write, the paste and the restore of
\* insert_transcript_at_cursor (x11util.rs).
THEOREM ClipboardRestored == DictationSpec => []ClipboardUntouched
<1>1. DictationInit => ClipboardUntouched
  BY DEF DictationInit, ClipboardUntouched, EmptyClip
<1> QED
  BY <1>1, ClipboardStep, PTL DEF DictationSpec
=============================================================================
