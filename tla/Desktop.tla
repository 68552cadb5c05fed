------------------------------- MODULE Desktop -------------------------------
(***************************************************************************)
(* Yapper on the desktop: dictation, the global hotkeys, the window and    *)
(* the tray, and the preferences on the disk, all served by the one UI     *)
(* thread.  Every handler of a frame is an action; the actions come in any *)
(* order, so every order of one frame's polls is among them.               *)
(***************************************************************************)
EXTENDS Dictation, Hotkeys, WindowShell

CONSTANTS
  MaxActs,  \* bound on what the user does in the window and the tray menu
  MaxHolds  \* bound on how often a hotkey is pressed

VARIABLES lastSaved, disk, acts, holds

prefVars == << lastSaved, disk >>
vars == << dictationVars, hotkeyVars, shellVars, prefVars, acts, holds >>

(***************************************************************************)
(* Preferences.                                                            *)
(***************************************************************************)
CurrentPrefs == [model |-> stt.selected, copy |-> copy]
Dirty == CurrentPrefs # lastSaved

\* Mutant: a failed save is taken for saved.
PersistForgets(saved, keys) ==
  /\ lastSaved' = CurrentPrefs
  /\ disk' = IF saved THEN [prefs |-> CurrentPrefs, keys |-> keys] ELSE disk

\* persist: everything is written, the hotkeys as they are live.
Persist(saved, keys) ==
  /\ lastSaved' = IF saved THEN CurrentPrefs ELSE lastSaved
  /\ disk' = IF saved THEN [prefs |-> CurrentPrefs, keys |-> keys] ELSE disk

\* autosave_prefs_if_dirty; after a failure it waits 30 s and tries again.
Autosave(saved) ==
  /\ Alive /\ Dirty
  /\ Persist(saved, live)
  /\ UNCHANGED << dictationVars, hotkeyVars, shellVars >>

SaveSettings(saved) ==
  /\ Alive /\ visible
  /\ Persist(saved, live)
  /\ UNCHANGED << dictationVars, hotkeyVars, shellVars >>

(***************************************************************************)
(* The hotkeys drive the microphone.                                       *)
(***************************************************************************)
Ignored == UNCHANGED dictationVars

\* Mutant: a press while the Record button's session is open makes it its own.
PressTakesOver(starts) ==
  IF mic.open
    THEN /\ mic' = [mic EXCEPT !.intent = "hotkey"]
         /\ UNCHANGED << stt, cmds, thread, msgs, worker, copy, clipboard, transcript, history >>
    ELSE BeginRecording("hotkey", starts)

PttPress(starts) == BeginRecording("hotkey", starts)

\* Mutant: like the Record button, a release is ignored while a model loads.
ReleaseWhenIdle(outcome) == IF stt.loading THEN Ignored ELSE EndRecording("hotkey", outcome)

PttRelease(outcome) == EndRecording("hotkey", outcome)

\* poll_hotkeys: a read-aloud press speaks the selection, unless it is empty;
\* its release means nothing.
PollHotkeys ==
  /\ Alive /\ Polled
  /\ LET e == Head(events)
     IN  \/ e = Event("ptt", TRUE) /\ \E starts \in BOOLEAN : PttPress(starts)
         \/ e = Event("ptt", FALSE) /\ \E o \in StopOutcomes : PttRelease(o)
         \/ e = Event("read", TRUE) /\ (AskVoice \/ Ignored)
         \/ e = Event("read", FALSE) /\ Ignored
  /\ UNCHANGED << shellVars, prefVars >>

\* apply_hotkeys; a grabbed configuration is saved at once, and its failure to
\* be saved is not retried.
ApplyHotkeys ==
  /\ Alive /\ visible
  /\ \/ ApplyInvalid /\ UNCHANGED prefVars
     \/ ApplyGrabbed /\ Regrabbed /\ \E saved \in BOOLEAN : Persist(saved, live')
     \/ \E restored \in BOOLEAN : ApplyRefused(restored) /\ Regrabbed /\ UNCHANGED prefVars
  /\ UNCHANGED << dictationVars, shellVars >>

Edit ==
  /\ Alive /\ visible
  /\ \/ \E a \in Actions, t \in Texts : EditDraft(a, t)
     \/ \E a \in Actions : ToggleCapture(a)
  /\ UNCHANGED << dictationVars, shellVars, prefVars >>

EndCapture ==
  /\ Alive /\ visible
  /\ CancelCapture \/ \E t \in Strokes, superSeen \in BOOLEAN : Stroke(t, superSeen)
  /\ UNCHANGED << dictationVars, shellVars, prefVars >>

Keyboard ==
  /\ Alive
  /\ \E a \in Actions : KeyDown(Parse(live[a]))
  /\ UNCHANGED << dictationVars, shellVars, prefVars >>

LetGo ==
  /\ Alive /\ KeyUp
  /\ UNCHANGED << dictationVars, shellVars, prefVars >>

(***************************************************************************)
(* The window and the tray.                                                *)
(***************************************************************************)
WindowOnly(A) == A /\ UNCHANGED << dictationVars, hotkeyVars, prefVars >>

Window ==
  \/ Minimize \/ ExitClicked \/ ExitCancelled
  \/ ~armed /\ CloseRequested
  \/ \E a \in TrayActions : Len(menu) = 0 /\ Choose(a)

Tray == \/ \E created \in BOOLEAN : EnsureTray(created)
        \/ ChoseOpen

HardQuit ==
  /\ ChoseQuit \/ ExitConfirmed
  /\ ArmQuit
  /\ UNCHANGED << hotkeyVars, prefVars >>

TrayModels ==
  /\ \/ ChoseModel("LoadStt") /\ AskLoad
     \/ ChoseModel("UnloadStt") /\ AskUnload
     \/ ChoseModel("LoadTts") /\ (AskVoice \/ Ignored)
     \/ ChoseModel("UnloadTts") /\ Ignored
  /\ UNCHANGED << hotkeyVars, prefVars >>

\* Mutant: the session is left to the operating system.
ExitLeavesMic == Ignored

StopsMic == OnExit

Exit ==
  /\ armed /\ CloseRequested
  /\ StopsMic
  /\ DropHub
  /\ UNCHANGED prefVars

(***************************************************************************)
(* The Dictate and Settings tabs.                                          *)
(***************************************************************************)
Tabs ==
  /\ Alive /\ visible
  /\ \/ ~stt.loading /\ \E starts \in BOOLEAN : BeginRecording("gui", starts)
     \/ \E m \in SttModels : SelectModel(m)
     \/ \E on \in BOOLEAN \ {copy} : SetCopy(on)
     \/ UnloadAllModels
  /\ UNCHANGED << hotkeyVars, shellVars, prefVars >>

StopButton ==
  /\ Alive /\ visible /\ mic.open
  /\ \E o \in StopOutcomes : EndRecording("gui", o)
  /\ UNCHANGED << hotkeyVars, shellVars, prefVars >>

JobThread == Alive /\ HandleCmd /\ UNCHANGED << hotkeyVars, shellVars, prefVars >>
Drain     == Alive /\ HandleMsg /\ UNCHANGED << hotkeyVars, shellVars, prefVars >>

(***************************************************************************)
(* The specification.                                                      *)
(***************************************************************************)
Init ==
  /\ DictationInit /\ HotkeyInit
  /\ \E hidden \in BOOLEAN : ShellInit(hidden)
  /\ lastSaved = CurrentPrefs
  /\ disk = [prefs |-> CurrentPrefs, keys |-> live]
  /\ acts = 0 /\ holds = 0

Acts ==
  \/ Edit \/ ApplyHotkeys \/ WindowOnly(Window) \/ Tabs
  \/ \E saved \in BOOLEAN : SaveSettings(saved)

Reacts ==
  \/ LetGo \/ EndCapture \/ PollHotkeys \/ WindowOnly(Tray) \/ WindowOnly(InitialVisibility)
  \/ HardQuit \/ TrayModels \/ Exit \/ StopButton \/ JobThread \/ Drain
  \/ \E saved \in BOOLEAN : Autosave(saved)

Next ==
  \/ acts < MaxActs /\ Acts /\ acts' = acts + 1 /\ UNCHANGED holds
  \/ holds < MaxHolds /\ Keyboard /\ holds' = holds + 1 /\ UNCHANGED acts
  \/ Reacts /\ UNCHANGED << acts, holds >>

\* The frame loop repaints at least every 100 ms and polls everything each
\* time, so a tray is asked for, which need not come; a save that is tried
\* again and again succeeds in the end.
Fairness ==
  /\ WF_shellVars(~tried /\ \E created \in BOOLEAN : EnsureTray(created))
  /\ WF_shellVars(InitialVisibility)
  /\ WF_prefVars(Alive /\ Dirty /\ Persist(TRUE, live))

Spec == Init /\ [][Next]_vars
FairSpec == Spec /\ Fairness

(***************************************************************************)
(* Properties.                                                             *)
(***************************************************************************)
Prefs == [model : SttModels, copy : BOOLEAN]

TypeOK ==
  /\ DictationTypeOK
  /\ hub \in Hub /\ live \in Configs /\ draft \in Configs
  /\ capture \in Actions \union {"none"} /\ hotkeyError \in BOOLEAN
  /\ events \in Seq([action : Actions, pressed : BOOLEAN]) /\ lost \in BOOLEAN
  /\ {visible, tray, tried, startHidden, exitPrompt, armed} \subseteq BOOLEAN
  /\ phase \in Phases /\ menu \in Seq(TrayActions) /\ hidBy \in {"user", "program"}
  /\ lastSaved \in Prefs /\ disk.prefs \in Prefs /\ disk.keys \in grabbed
  /\ hub # NoHub => Valid(live)

\* Beside the hotkeys, the window, the tray and the saves, dictation behaves as
\* it does by itself, so all that is shown of it holds here as well.
DictatesAsAlone == DictationSpec

\* A microphone opened by holding the hotkey is held open by that hotkey: it is
\* down, or its release is in the channel, as long as no Apply took the grabs
\* away in between.
HeldOpen ==
  mic.open /\ mic.intent = "hotkey" /\ ~lost =>
    "ptt" \in hub.down \/ \E k \in DOMAIN events : events[k] = Event("ptt", FALSE)

\* What is grabbed is what the configuration says, and a configuration reaches
\* the configuration or the disk only after it was grabbed (or came from it).
OnlyGrabbedKeys ==
  /\ hub # NoHub => hub.bound = Combos(live)
  /\ live \in grabbed /\ disk.keys \in grabbed
  /\ \A keys \in grabbed \ OnDisk : Canonical(keys) = keys

\* A window the program hid comes back, or has a tray to bring it back by.
HiddenIsRecoverable ==
  (~visible /\ hidBy = "program") ~> (visible \/ tray \/ hidBy = "user" \/ phase = "exited")

\* The program ends only by a quit, and leaves no microphone open.
QuitIsClean ==
  [][phase' = "exited" /\ phase # "exited" => armed /\ ~mic'.open]_<< phase, mic >>

\* What the user sees selected is on the disk in the end.
PrefsReachDisk == (disk.prefs # CurrentPrefs) ~> (disk.prefs = CurrentPrefs \/ phase = "exited")
=============================================================================
