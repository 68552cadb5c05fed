---------------------------- MODULE SpeechPromise ----------------------------
(***************************************************************************)
(* What the speech pipeline promises, without its threads and processes.   *)
(*                                                                         *)
(* There is at most one job.  Its segments are heard one after the other   *)
(* in the order of the text; a segment may be lost (it could not be        *)
(* synthesized or played), and then it is never heard.  A job completes    *)
(* only when each of its segments was heard or lost; it may be cancelled   *)
(* at any time, or replaced by a new job, whose id was never used before.  *)
(***************************************************************************)
EXTENDS Integers, Sequences

VARIABLES
  last,    \* the largest job id used so far
  job,     \* the job in progress, 0 if none
  total,   \* its number of segments
  heard,   \* the segments whose sound began, in that order
  lost     \* the segments given up

promiseVars == << last, job, total, heard, lost >>

Segments == 0 .. total - 1
Heard(s) == {s[k] : k \in DOMAIN s}

Init ==
  /\ last = 0 /\ job = 0 /\ total = 0
  /\ heard = << >> /\ lost = {}

\* A new job, in the place of the one in progress if there is one.
Begin ==
  /\ job' > last /\ last' = job'
  /\ total' \in Nat \ {0}
  /\ heard' = << >> /\ lost' = {}

\* The next segment is heard, or some are given up, or both.
GoesOn ==
  /\ \/ heard' = heard
     \/ \E i \in Segments :
          /\ \A k \in DOMAIN heard : heard[k] < i
          /\ heard' = Append(heard, i)
  /\ lost \subseteq lost' /\ lost' \subseteq Segments
  /\ lost' \intersect Heard(heard') = {}

Progress ==
  /\ job # 0
  /\ GoesOn
  /\ UNCHANGED << last, job, total >>

\* The job ends; the segments it gives up in its last step count as lost.
Complete ==
  /\ job # 0
  /\ GoesOn
  /\ Heard(heard') \union lost' = Segments
  /\ job' = 0 /\ total' = 0
  /\ UNCHANGED last

Cancel ==
  /\ last' > last
  /\ job' = 0 /\ total' = 0
  /\ heard' = << >> /\ lost' = {}

Next == Begin \/ Progress \/ Complete \/ Cancel

Spec == Init /\ [][Next]_promiseVars
=============================================================================
