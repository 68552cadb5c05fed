----------------------------- MODULE WindowShell -----------------------------
(***************************************************************************)
(* The window, the tray and the end of the program (lifecycle.rs, tray.rs, *)
(* the window and tray handlers of app/shell.rs, on_exit of app/frame.rs). *)
(*                                                                         *)
(*   visible      the window is on the screen                              *)
(*   tray         a TrayHandle exists; tried, that one was asked for       *)
(*   startHidden  start_hidden_pending                                     *)
(*   exitPrompt   the exit confirmation is shown                           *)
(*   armed        hard_quit_armed                                          *)
(*   phase        "running", "closing" once Close was sent, "exited"       *)
(*   menu         tray menu choices the UI thread has not taken            *)
(* History: hidBy is who hid the window last, "user" or "program".         *)
(***************************************************************************)
EXTENDS Naturals, Sequences

VARIABLES visible, tray, tried, startHidden, exitPrompt, armed, phase, menu, hidBy

shellVars == << visible, tray, tried, startHidden, exitPrompt, armed, phase, menu, hidBy >>

TrayActions == {"Open", "LoadStt", "UnloadStt", "LoadTts", "UnloadTts", "Quit"}
Phases == {"running", "closing", "exited"}

ShellInit(hidden) ==
  /\ visible = ~hidden /\ startHidden = hidden
  /\ tray = FALSE /\ tried = FALSE
  /\ exitPrompt = FALSE /\ armed = FALSE /\ phase = "running"
  /\ menu = << >> /\ hidBy = "program"

Alive == phase # "exited"

Hide(who) == visible' = FALSE /\ hidBy' = who
Show      == visible' = TRUE /\ UNCHANGED hidBy

\* ensure_tray: every frame without a tray tries again (3 s after a failure;
\* each try is four attempts).
EnsureTray(created) ==
  /\ Alive /\ ~tray
  /\ tray' = created /\ tried' = TRUE
  /\ UNCHANGED << visible, startHidden, exitPrompt, armed, phase, menu, hidBy >>

\* Mutant: a hidden start waits for its tray for ever.
InitialVisibilityWaits ==
  /\ Alive /\ startHidden /\ tray
  /\ startHidden' = FALSE
  /\ Hide("program")
  /\ UNCHANGED << tray, tried, exitPrompt, armed, phase, menu >>

\* initial_visibility: hide for good once there is a tray, show the window once
\* there was none to be had.
InitialVisibility ==
  /\ Alive /\ startHidden /\ (tray \/ tried)
  /\ startHidden' = FALSE
  /\ IF tray THEN Hide("program") ELSE Show
  /\ UNCHANGED << tray, tried, exitPrompt, armed, phase, menu >>

\* Minimize, and the window's close button while no quit is armed.
Minimize ==
  /\ Alive /\ visible
  /\ Hide("user")
  /\ UNCHANGED << tray, tried, startHidden, exitPrompt, armed, phase, menu >>

\* Close requested by the user, and the Close the program itself sent: the
\* request is cancelled unless a quit is armed.
CloseRequested ==
  /\ Alive /\ (visible \/ phase = "closing")
  /\ IF armed THEN phase' = "exited" /\ UNCHANGED << visible, hidBy >>
     ELSE Hide("user") /\ UNCHANGED phase
  /\ UNCHANGED << tray, tried, startHidden, exitPrompt, armed, menu >>

\* The exit button, its confirmation and its cancellation.
ExitClicked ==
  /\ Alive /\ visible /\ ~exitPrompt
  /\ exitPrompt' = TRUE
  /\ UNCHANGED << visible, tray, tried, startHidden, armed, phase, menu, hidBy >>

ExitCancelled ==
  /\ Alive /\ visible /\ exitPrompt
  /\ exitPrompt' = FALSE
  /\ UNCHANGED << visible, tray, tried, startHidden, armed, phase, menu, hidBy >>

Arm == armed' = TRUE /\ phase' = "closing"

ExitConfirmed ==
  /\ Alive /\ visible /\ exitPrompt
  /\ exitPrompt' = FALSE
  /\ Arm
  /\ UNCHANGED << visible, tray, tried, startHidden, menu, hidBy >>

\* The menu thread forwards a choice; poll_tray takes it.
Choose(a) ==
  /\ Alive /\ tray
  /\ menu' = Append(menu, a)
  /\ UNCHANGED << visible, tray, tried, startHidden, exitPrompt, armed, phase, hidBy >>

Chosen(a) == Alive /\ menu # << >> /\ Head(menu) = a /\ menu' = Tail(menu)

ChoseOpen ==
  /\ Chosen("Open")
  /\ Show
  /\ UNCHANGED << tray, tried, startHidden, exitPrompt, armed, phase >>

ChoseQuit ==
  /\ Chosen("Quit")
  /\ Arm
  /\ UNCHANGED << visible, tray, tried, startHidden, exitPrompt, hidBy >>

ChoseModel(a) ==
  /\ Chosen(a)
  /\ UNCHANGED << visible, tray, tried, startHidden, exitPrompt, armed, phase, hidBy >>
=============================================================================
