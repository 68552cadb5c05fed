------------------------------- MODULE LocalApi -------------------------------
(***************************************************************************)
(* The local speech API (app/tts_api.rs): one listener thread that serves  *)
(* one connection after the other, a bounded queue, and the UI thread that *)
(* drains it once a frame and speaks or stops.                             *)
(*                                                                         *)
(*   conns     the requests of the clients, in the order they connected    *)
(*   listener  phase, the client it serves, how much it has read of it     *)
(*   path      what is at the socket's path; safeDir, whether its parent   *)
(*             is a real directory                                         *)
(*   queue     the sync_channel: client numbers, each for its command      *)
(*   batch     commands drained in this frame; applying, that the channel  *)
(*             was found empty and the batch is being applied              *)
(*   speech    the client whose text was handed to the pipeline last and   *)
(*             its segments; the pipeline itself is SpeechPipeline         *)
(*   History: served has the statuses answered so far, in order; applied   *)
(*   the commands applied so far.                                          *)
(*                                                                         *)
(* A request is known by what the code asks of it: method and path, whether *)
(* its header lines are well formed, the media type, how long its header   *)
(* is and how long it says its body is, whether the body is the JSON       *)
(* object asked for and with which text, and how much of all this the      *)
(* client sends before it closes or falls silent (a read of 2 s times out  *)
(* with the same answer).  Lengths are counted in some unit of bytes.      *)
(***************************************************************************)
EXTENDS SpeechText

CONSTANTS
  HeaderMax,  \* MAX_HEADER_BYTES
  BodyMax,    \* MAX_BODY_BYTES
  HeadRead,   \* the buffer of a read while the header is incomplete
  BodyRead,   \* the longest read of the body
  MaxText,    \* MAX_TEXT_CHARS
  Capacity    \* QUEUE_CAPACITY

ASSUME ApiAssumption ==
  {HeaderMax, BodyMax, HeadRead, BodyRead, MaxText, Capacity} \subseteq Nat \ {0}

VARIABLES conns, listener, path, safeDir, queue, batch, applying, speech, served, applied

uiVars  == << batch, applying, speech, applied >>
apiVars == << conns, listener, path, safeDir, queue, uiVars, served >>

\* What a client may send.
Request ==
  [ method : {"GET", "POST", "other"}, path : {"/health", "/v1/speak", "/v1/stop", "other"},
    lines : {"ok", "malformed"}, json : BOOLEAN, head : Nat \ {0}, length : Nat,
    body : {"valid", "invalid"}, text : Seq(STRING), sent : Nat ]

NoSpeech == [client |-> 0, segs |-> << >>]

ApiInit ==
  /\ conns = << >>
  /\ listener = [phase |-> "down", client |-> 0, got |-> 0]
  /\ path \in {"absent", "socket", "file"} /\ safeDir \in BOOLEAN
  /\ queue = << >> /\ batch = << >> /\ applying = FALSE /\ speech = NoSpeech
  /\ served = << >> /\ applied = << >>

(***************************************************************************)
(* The listener.                                                           *)
(***************************************************************************)
\* start: the parent must be a directory of its own, a socket at the path is
\* stale and goes, anything else stays; then bind, which may fail.
Start(binds) ==
  /\ listener.phase = "down"
  /\ LET free == safeDir /\ path # "file"
     IN  /\ path' = IF ~free THEN path ELSE IF binds THEN "socket" ELSE "absent"
         /\ listener' = [listener EXCEPT !.phase = IF free /\ binds THEN "accept" ELSE "unavailable"]
  /\ UNCHANGED << conns, safeDir, queue, uiVars, served >>

Connect(r) ==
  /\ r \in Request
  /\ listener.phase \in {"accept", "header", "body"}
  /\ conns' = Append(conns, r)
  /\ UNCHANGED << listener, path, safeDir, queue, uiVars, served >>

Accept ==
  /\ listener.phase = "accept" /\ listener.client < Len(conns)
  /\ listener' = [phase |-> "header", client |-> listener.client + 1, got |-> 0]
  /\ UNCHANGED << conns, path, safeDir, queue, uiVars, served >>

\* Any error of accept but WouldBlock ends the listener for good.
AcceptFails ==
  /\ listener.phase = "accept"
  /\ listener' = [listener EXCEPT !.phase = "stopped"]
  /\ UNCHANGED << conns, path, safeDir, queue, uiVars, served >>

Req  == conns[listener.client]
Left == Req.sent - listener.got

\* write_response: whether the client is still there to read it is ignored.
Answer(status) ==
  /\ listener' = [listener EXCEPT !.phase = "accept", !.got = 0]
  /\ served' = Append(served, status)

ReadHeader(n) ==
  /\ listener.phase = "header"
  /\ listener.got < HeaderMax
  /\ n <= HeadRead /\ n <= Left
  /\ LET got == listener.got + n
     IN  IF got < Req.head
           THEN listener' = [listener EXCEPT !.got = got] /\ UNCHANGED served
         ELSE IF Req.lines # "ok" \/ Req.length > BodyMax THEN Answer(400)
         ELSE listener' = [listener EXCEPT !.phase = "body", !.got = got] /\ UNCHANGED served
  /\ UNCHANGED << conns, path, safeDir, queue, uiVars >>

HeaderTooLong ==
  /\ listener.phase = "header"
  /\ listener.got >= HeaderMax
  /\ Answer(400)
  /\ UNCHANGED << conns, path, safeDir, queue, uiVars >>

\* Mutant: what the last read of the header brought of the body is forgotten.
MissingAfterHeader(r, got) == IF got < r.head + HeadRead THEN r.length ELSE r.head + HeadRead + r.length - got

\* What is missing of the body; the client may have sent more than it said.
Missing(r, got) == IF got < r.head + r.length THEN r.head + r.length - got ELSE 0

ReadBody(n) ==
  /\ listener.phase = "body"
  /\ n <= BodyRead /\ n <= Left /\ n <= Missing(Req, listener.got)
  /\ listener' = [listener EXCEPT !.got = listener.got + n]
  /\ UNCHANGED << conns, path, safeDir, queue, uiVars, served >>

\* The client closed, or sent nothing for 2 s.
EndOfStream ==
  /\ \/ listener.phase = "header" /\ listener.got < HeaderMax
     \/ listener.phase = "body" /\ Missing(Req, listener.got) > 0
  /\ Left = 0
  /\ Answer(400)
  /\ UNCHANGED << conns, path, safeDir, queue, uiVars >>

(***************************************************************************)
(* route and enqueue.                                                      *)
(***************************************************************************)
SpeakVerdict(r) ==
  CASE ~r.json -> 415
    [] r.json /\ r.length = 0 -> 400
    [] r.json /\ r.length > 0 ->
         IF r.body # "valid" \/ Len(SanitizeSpeakText(r.text)) \notin 1 .. MaxText THEN 400 ELSE 202

\* 202 where the command goes to the queue.
Verdict(r) ==
  CASE r.method = "GET" /\ r.length > 0 -> 400
    [] r.method = "GET" /\ r.length = 0 -> IF r.path = "/health" THEN 200 ELSE 404
    [] r.method = "POST" /\ r.path = "/v1/speak" -> SpeakVerdict(r)
    [] r.method = "POST" /\ r.path = "/v1/stop" -> IF r.length > 0 THEN 400 ELSE 202
    [] OTHER -> 404

\* Mutant: the command that does not fit is dropped and called accepted.
EnqueueDrops(c) ==
  /\ queue' = IF Len(queue) < Capacity THEN Append(queue, c) ELSE queue
  /\ Answer(202)

Enqueue(c) ==
  IF Len(queue) < Capacity THEN queue' = Append(queue, c) /\ Answer(202)
  ELSE UNCHANGED queue /\ Answer(429)

Route ==
  /\ listener.phase = "body" /\ Missing(Req, listener.got) = 0
  /\ IF Verdict(Req) = 202 THEN Enqueue(listener.client)
     ELSE UNCHANGED queue /\ Answer(Verdict(Req))
  /\ UNCHANGED << conns, path, safeDir, uiVars >>

Serve ==
  \/ Accept \/ HeaderTooLong \/ EndOfStream \/ Route
  \/ \E n \in 1 .. HeadRead : ReadHeader(n)
  \/ \E n \in 1 .. BodyRead : ReadBody(n)

(***************************************************************************)
(* The UI thread.                                                          *)
(***************************************************************************)
\* Mutant: what was drained last is applied first.
TakeCommandFirst ==
  /\ ~applying /\ queue # << >>
  /\ batch' = << Head(queue) >> \o batch
  /\ queue' = Tail(queue)
  /\ UNCHANGED << conns, listener, path, safeDir, applying, speech, served, applied >>

\* drain_commands takes until the channel is empty, while the listener goes on.
TakeCommand ==
  /\ ~applying /\ queue # << >>
  /\ batch' = Append(batch, Head(queue))
  /\ queue' = Tail(queue)
  /\ UNCHANGED << conns, listener, path, safeDir, applying, speech, served, applied >>

\* do_speak: a text the sanitizer leaves nothing of, or a missing voice, leaves
\* the speech that is on as it is.
Spoken(c, voice) ==
  LET clean == SanitizeForTts(SanitizeSpeakText(conns[c].text))
  IN  IF clean = << >> \/ ~voice THEN speech ELSE [client |-> c, segs |-> SplitForTts(clean)]

ApplyCommand(voice) ==
  /\ batch # << >> /\ (applying \/ queue = << >>)
  /\ LET c == Head(batch)
     IN  /\ speech' = IF conns[c].path = "/v1/stop" THEN NoSpeech ELSE Spoken(c, voice)
         /\ applied' = Append(applied, c)
  /\ batch' = Tail(batch)
  /\ applying' = (Tail(batch) # << >>)
  /\ UNCHANGED << conns, listener, path, safeDir, queue, served >>

PollTtsApi == TakeCommand \/ \E voice \in BOOLEAN : ApplyCommand(voice)

ApiStep == (\E binds \in BOOLEAN : Start(binds)) \/ Serve \/ AcceptFails \/ PollTtsApi
ApiNext == (\E r \in Request : Connect(r)) \/ ApiStep
ApiSpec == ApiInit /\ [][ApiNext]_apiVars

(***************************************************************************)
(* Properties.                                                             *)
(***************************************************************************)
\* The answer to r were it read in one piece.
Whole(r) ==
  IF r.lines # "ok" \/ r.length > BodyMax \/ r.sent < r.head + r.length THEN 400 ELSE Verdict(r)

\* However a request is cut into reads, and whatever it shares its reads with,
\* it is answered as if it had come in one piece; only a full queue turns an
\* acceptance into a 429.  (Between the header limit and one read beyond it
\* the cut decides.)
AnswerFitsRequest ==
  \A k \in DOMAIN served :
    LET r == conns[k]
    IN  /\ r.head <= HeaderMax =>
             served[k] \in (IF Whole(r) = 202 THEN {202, 429} ELSE {Whole(r)})
        /\ r.head >= HeaderMax + HeadRead => served[k] = 400

\* The commands the listener queued, in their order, wherever they are now.
Taken == applied \o batch \o queue

\* A command answered 202 is applied exactly once, in the order of the answers,
\* and a command answered otherwise never.
AcceptedOnce ==
  /\ \A j \in DOMAIN Taken : \A i \in 1 .. j - 1 : Taken[i] < Taken[j]
  /\ {Taken[k] : k \in DOMAIN Taken} = {k \in DOMAIN served : served[k] = 202}

\* A stop that was answered 202 silences whatever was asked for before it, unless
\* it is itself still on its way: drained batches, a full queue and a listener that
\* goes on accepting never let an older text be spoken after a newer stop.
StopHolds ==
  speech # NoSpeech =>
    /\ served[speech.client] = 202
    /\ \A k \in DOMAIN served :
         served[k] = 202 /\ conns[k].path = "/v1/stop" /\ k > speech.client
           => \E i \in DOMAIN (batch \o queue) : (batch \o queue)[i] = k

\* What is handed to the voice is what the client sent: all its letters, in
\* order, in segments that are never blank nor too long.
SpokenWhole ==
  speech # NoSpeech =>
    LET text == conns[speech.client].text
    IN  /\ speech.segs # << >>
        /\ SplitKeeps(speech.segs, SanitizeForTts(text))
        /\ SanitizeKeeps(SanitizeForTts(text), text)
        /\ SplitKeeps(SplitForTts(text), text)
=============================================================================
