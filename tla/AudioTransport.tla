--------------------------- MODULE AudioTransport ----------------------------
(***************************************************************************)
(* The transport of src/transport.rs over the state machine of             *)
(* src/transport_machine.rs and one external player process.               *)
(*                                                                         *)
(* The transport is a record.  status and pendingQueue are the machine's   *)
(* status and has_pending_queue, last tells whether last_path names a file *)
(* (positions, durations and volume are left out).  backend is the player  *)
(* the transport owns: mpv with IPC, a fallback player, or none; playlist  *)
(* is what that process still has to play, its head being what is heard    *)
(* now.  A process with an empty playlist has exited and waits for the     *)
(* tick that reaps it.                                                     *)
(***************************************************************************)
EXTENDS TtsController

Status   == {"idle", "buffering", "playing", "paused"}
Backends == {"none", "ipc", "fallback"}

\* The replayed file in a playlist; a job's chunks carry a positive job id.
ReplayItem == [job |-> NoJob, index |-> 0]

Transport ==
  [ status : Status, pendingQueue : BOOLEAN, last : BOOLEAN,
    backend : Backends, playlist : Seq(Chunk) ]

NewTransport ==
  [ status |-> "idle", pendingQueue |-> FALSE, last |-> FALSE,
    backend |-> "none", playlist |-> << >> ]

\* What starting a player can come to: mpv with its IPC socket, a fallback
\* player, no player on the PATH, a fallback player that does not spawn, or the
\* audio file is gone.
StartOutcome == {"ipc", "fallback", "noPlayer", "spawnError", "missing"}
Started(o)   == o \in {"ipc", "fallback"}

CanStart(tr)  == tr.status \in {"idle", "buffering"}
CanAppend(tr) == tr.backend = "ipc" /\ tr.playlist # << >>

\* The condition of the loop of try_play_next_ready.
CanHandOver(tr) ==
  CanStart(tr) \/ (tr.status \in {"playing", "paused"} /\ CanAppend(tr))

Ended(tr) == tr.backend # "none" /\ tr.playlist = << >>

SetPendingQueue(tr, pending) ==
  [tr EXCEPT !.pendingQueue = pending,
             !.status = IF pending /\ @ = "idle" THEN "buffering" ELSE @]

\* stop_internal(true): kill the player, keep last_path.
Stop(tr) ==
  [tr EXCEPT !.status = "idle", !.pendingQueue = FALSE,
             !.backend = "none", !.playlist = << >>]

\* play_file: stop_internal(false), then start a player for one file.  The
\* stop clears has_pending_queue, whatever the caller has just set it to, and a
\* file that is missing is found so before anything buffers.
PlayFile(tr, item, o) ==
  [ status       |-> IF Started(o) THEN "playing"
                     ELSE IF o = "spawnError" THEN "buffering" ELSE "idle",
    pendingQueue |-> FALSE,
    last         |-> Started(o),
    backend      |-> IF Started(o) THEN o ELSE "none",
    playlist     |-> IF Started(o) THEN << item >> ELSE << >> ]

\* Append to the live playlist; an append that fails kills the player, and
\* with it what it still had to play, and starts a new one.  A missing file is
\* found at once, and leaves everything as it is, or only by play_file.
EnqueueOrPlay(tr, item, appends, o) ==
  IF appends /\ o = "missing" THEN tr
  ELSE IF appends /\ CanAppend(tr)
    THEN [tr EXCEPT !.last = TRUE, !.playlist = Append(@, item),
                    !.status = IF @ = "paused" THEN @ ELSE "playing"]
    ELSE PlayFile(tr, item, o)

Appends(tr, appends, o) == appends /\ o # "missing" /\ CanAppend(tr)
Fails(tr, appends, o) == ~Appends(tr, appends, o) /\ ~Started(o)

TogglePause(tr) ==
  [tr EXCEPT !.status = IF @ = "playing" THEN "paused"
                        ELSE IF @ = "paused" THEN "playing" ELSE @]

\* Mutant: the end of a playlist is noticed only when more is to come.
TickMidQueue(tr) ==
  IF Ended(tr) /\ tr.pendingQueue
    THEN [tr EXCEPT !.backend = "none", !.status = "buffering"] ELSE tr

\* on_playback_ended, for the player the tick found dead.
Tick(tr) ==
  IF Ended(tr)
    THEN [tr EXCEPT !.backend = "none",
                    !.status = IF tr.pendingQueue THEN "buffering" ELSE "idle"]
    ELSE tr

RememberPath(tr) == [tr EXCEPT !.last = TRUE]
ClearLastPath(tr) == [tr EXCEPT !.last = FALSE]
=============================================================================
