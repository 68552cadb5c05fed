----------------------------- MODULE MCDictation -----------------------------
(***************************************************************************)
(* A small dictation for TLC: MaxStarts of the user's operations that begin *)
(* something, and any number of those that end it.                         *)
(***************************************************************************)
EXTENDS Dictation

CONSTANT MaxStarts

VARIABLE starts

vars == << dictationVars, starts >>

MCInit ==
  /\ DictationInit
  /\ stt.selected = (CHOOSE m \in SttModels : TRUE) /\ clipboard.kind = "user"
  /\ starts = 0

\* An operation that changes nothing is not counted, it does not happen.
Budgeted == starts < MaxStarts /\ Start /\ starts' = starts + 1 /\ dictationVars' # dictationVars

Free == (Finish \/ HandleCmd \/ WorkerDies \/ HandleMsg) /\ starts' = starts

MCNext == Budgeted \/ Free

\* The job thread's loop and the frame's drain always run again.
MCSpec ==
  /\ MCInit /\ [][MCNext]_vars
  /\ WF_cmds(HandleCmd) /\ WF_msgs(HandleMsg)
=============================================================================
