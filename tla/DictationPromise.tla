--------------------------- MODULE DictationPromise ---------------------------
(***************************************************************************)
(* What dictation promises, without models, commands and messages.         *)
(*                                                                         *)
(* The files handed over are numbered.  At most one waits for its model    *)
(* and at most one is asked for; a newer file may take the place of        *)
(* either, and what lost its place, or was given up, never comes back.     *)
(* What is asked for is shown once or never.  Until another model is       *)
(* selected its text does not overtake a file that waits.                  *)
(***************************************************************************)
EXTENDS Naturals, Sequences

VARIABLES
  handed,    \* how many files were handed over
  waits,     \* the file that waits for its model, if there is one
  asked,     \* the file whose text may still come, if there is one
  shown,     \* the files whose texts reached the panel, in that order
  switched   \* another model was selected

promiseVars == << handed, waits, asked, shown, switched >>

Init ==
  /\ handed = 0 /\ waits = {} /\ asked = {}
  /\ shown = << >> /\ switched = FALSE

\* A new file waits, or is asked for if there is still somebody to ask.
HandOver ==
  /\ handed' = handed + 1
  /\ \/ waits' = {handed'} /\ asked' = asked
     \/ asked' \subseteq {handed'} /\ waits' = waits
  /\ UNCHANGED << shown, switched >>

\* The file that waited is asked for.
GoOn ==
  /\ waits # {}
  /\ waits' = {} /\ asked' \subseteq waits
  /\ UNCHANGED << handed, shown, switched >>

GiveUp ==
  /\ waits' \subseteq waits /\ asked' \subseteq asked
  /\ UNCHANGED << handed, shown, switched >>

Show ==
  /\ \E f \in asked :
       /\ ~switched => \A w \in waits : f < w
       /\ shown' = Append(shown, f)
  /\ asked' = {}
  /\ UNCHANGED << handed, waits, switched >>

Switch ==
  /\ switched' = TRUE
  /\ UNCHANGED << handed, waits, asked, shown >>

Next == HandOver \/ GoOn \/ GiveUp \/ Show \/ Switch

Spec == Init /\ [][Next]_promiseVars
=============================================================================
