---------------------------- MODULE TtsController ----------------------------
(***************************************************************************)
(* The prebuffer and job-id state machine of src/app/tts_controller.rs.    *)
(*                                                                         *)
(* The Rust struct is a value here, a record, and each of its methods an   *)
(* operator from the old value to the new one, so that the handlers of the *)
(* UI thread can compose them as they do in the code.  Segment texts,      *)
(* paths and durations are left out: a segment is its index.  A job id is  *)
(* a positive number (the code's .max(1)), and NoJob stands for None.      *)
(***************************************************************************)
EXTENDS Integers, Sequences

CONSTANTS
  MaxReady,     \* MAX_READY_CHUNKS: synthesized chunks waiting for playback
  MaxRetries    \* MAX_CHUNK_RETRIES: retries of a segment before it is skipped

ASSUME PrebufferAssumption == MaxReady \in Nat \ {0} /\ MaxRetries \in Nat

NoJob == 0

Segment == [index : Nat, retries : 0 .. MaxRetries]
Chunk   == [job : Nat, index : Nat]

Controller ==
  [ jobId      : Nat,          \* the last job id handed out
    active     : Nat,          \* active_job
    total      : Nat,          \* segments of the active job
    pending    : Seq(Segment), \* segments not synthesized yet
    ready      : Seq(Chunk),   \* synthesized chunks not handed to the player
    inFlight   : BOOLEAN,      \* synth_in_flight
    chunkPaths : Nat ]         \* number of files in chunk_paths

NewController ==
  [ jobId |-> 0, active |-> NoJob, total |-> 0, pending |-> << >>,
    ready |-> << >>, inFlight |-> FALSE, chunkPaths |-> 0 ]

\* Mutant: any answer counts as one of the active job.
LiveAnyJob(t, job) == t.active # NoJob

Live(t, job) == t.active # NoJob /\ t.active = job

SegmentsOf(n) == [i \in 1 .. n |-> [index |-> i - 1, retries |-> 0]]

BeginJob(t, n) ==
  [ jobId |-> t.jobId + 1, active |-> t.jobId + 1, total |-> n,
    pending |-> SegmentsOf(n), ready |-> << >>, inFlight |-> FALSE,
    chunkPaths |-> 0 ]

\* Mutant: a cancel leaves synth_in_flight as it was.
CancelInFlight(t) ==
  [ jobId |-> t.jobId + 1, active |-> NoJob, total |-> 0, pending |-> << >>,
    ready |-> << >>, inFlight |-> t.inFlight, chunkPaths |-> t.chunkPaths ]

\* chunk_paths survives a cancel: the caller decides which files to delete.
Cancel(t) ==
  [ jobId |-> t.jobId + 1, active |-> NoJob, total |-> 0, pending |-> << >>,
    ready |-> << >>, inFlight |-> FALSE, chunkPaths |-> t.chunkPaths ]

\* Mutant: the room in the ready queue is off by one.
ShouldRequestSynthOneMore(t) ==
  /\ t.active # NoJob
  /\ ~t.inFlight
  /\ t.pending # << >>
  /\ Len(t.ready) <= MaxReady

\* Mutant: a second synthesis may start beside the one in flight.
ShouldRequestSynthTwice(t) ==
  /\ t.active # NoJob
  /\ t.pending # << >>
  /\ Len(t.ready) < MaxReady

ShouldRequestSynth(t) ==
  /\ t.active # NoJob
  /\ ~t.inFlight
  /\ t.pending # << >>
  /\ Len(t.ready) < MaxReady

MarkSynthStarted(t) == [t EXCEPT !.inFlight = TRUE]

HeadIs(t, i) == t.pending # << >> /\ Head(t.pending).index = i

\* The pending queue once segment i has been made.
Made(t, i) == IF HeadIs(t, i) THEN Tail(t.pending) ELSE t.pending

OnChunkReady(t, job, i) ==
  [t EXCEPT !.inFlight   = FALSE,
            !.pending    = Made(t, i),
            !.chunkPaths = @ + 1,
            !.ready      = Append(@, [job |-> job, index |-> i])]

\* Mutant: one retry too many.
SkipsLate(t, i) == HeadIs(t, i) /\ Head(t.pending).retries > MaxRetries

\* The head failed for the last time it may: it is dropped from the queue.
Skips(t, i) == HeadIs(t, i) /\ Head(t.pending).retries >= MaxRetries

Retry(segment) == [segment EXCEPT !.retries = @ + 1]

\* Mutant: the retry goes to the back of the queue.
FailedToBack(t, i) ==
  IF ~HeadIs(t, i) THEN t.pending
  ELSE IF Skips(t, i) THEN Tail(t.pending)
  ELSE Append(Tail(t.pending), Retry(Head(t.pending)))

\* The pending queue once segment i has failed.
Failed(t, i) ==
  IF ~HeadIs(t, i) THEN t.pending
  ELSE IF Skips(t, i) THEN Tail(t.pending)
  ELSE [t.pending EXCEPT ![1] = Retry(@)]

\* Mutant: a failure leaves synth_in_flight set.
OnChunkFailedInFlight(t, i) == [t EXCEPT !.pending = Failed(t, i)]

OnChunkFailed(t, i) == [t EXCEPT !.inFlight = FALSE, !.pending = Failed(t, i)]

PopReady(t) == [t EXCEPT !.ready = Tail(@)]

HasWork(t) ==
  /\ t.active # NoJob
  /\ t.pending # << >> \/ t.ready # << >> \/ t.inFlight

\* The job's end: finalize_tts_job_if_done keeps one file, the concatenation.
\* A failed concatenation keeps the chunk files and remembers the last one,
\* which this count does not tell from the one file.
EndJob(t) ==
  [t EXCEPT !.active = NoJob, !.total = 0,
            !.chunkPaths = IF @ = 0 THEN 0 ELSE 1]
=============================================================================
