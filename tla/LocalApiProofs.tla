---------------------------- MODULE LocalApiProofs ----------------------------
(***************************************************************************)
(* Theorems about LocalApi, for any limits, any queue and any number of    *)
(* clients with any requests: that every request is answered as if it had  *)
(* been read in one piece, and that a command is applied exactly once, in  *)
(* the order of the answers, when it was accepted and never otherwise.     *)
(*                                                                         *)
(* ApiInv says what of a request has been read: in the header less than    *)
(* the header, afterwards at least all of it; never more than was sent.    *)
(***************************************************************************)
EXTENDS LocalApi, SequenceTheorems, TLAPS

InRequest == listener.phase \in {"header", "body"}

\* The types; and as many clients were answered as were accepted, but for the
\* one that is being read.
ServedInv ==
  /\ conns \in Seq(Request)
  /\ listener \in [phase : {"down", "unavailable", "stopped", "accept", "header", "body"}, client : Nat, got : Nat]
  /\ served \in Seq({200, 202, 400, 404, 415, 429})
  /\ listener.client <= Len(conns)
  /\ Len(served) = IF InRequest THEN listener.client - 1 ELSE listener.client
  /\ InRequest => listener.client # 0

\* What has been read of the request.
ReadInv ==
  /\ InRequest => listener.got <= Req.sent
  /\ listener.phase = "header" => listener.got < Req.head
  /\ listener.phase = "body" => /\ Req.lines = "ok" /\ Req.length <= BodyMax
                                /\ Req.head <= listener.got /\ Req.head < HeaderMax + HeadRead

ApiInv == ServedInv /\ ReadInv

\* The constants are lengths.
LEMMA Lengths ==
  /\ HeaderMax \in Nat \ {0} /\ BodyMax \in Nat \ {0} /\ HeadRead \in Nat \ {0}
  /\ BodyRead \in Nat \ {0} /\ Capacity \in Nat \ {0}
BY ApiAssumption

\* The request that is being read.
LEMMA ReqType ==
  ASSUME ServedInv, InRequest
  PROVE  /\ Req \in Request /\ listener.client \in DOMAIN conns /\ Len(served) + 1 = listener.client
         /\ Req.head \in Nat \ {0} /\ Req.length \in Nat /\ Req.sent \in Nat /\ listener.got \in Nat
         /\ Left = Req.sent - listener.got
<1>1. listener.client \in 1..Len(conns)
  BY DEF ServedInv
<1>2. Req \in Request
  BY <1>1 DEF ServedInv, Req
<1>3. Req.head \in Nat \ {0} /\ Req.length \in Nat /\ Req.sent \in Nat
  BY <1>2 DEF Request
<1> QED
  BY <1>1, <1>2, <1>3 DEF ServedInv, Left

\* The answers of the routes.
LEMMA VerdictType ==
  ASSUME NEW r \in Request
  PROVE  Verdict(r) \in {200, 202, 400, 404, 415, 429}
<1>1. r.length \in Nat /\ r.json \in BOOLEAN
  BY DEF Request
<1>2. SpeakVerdict(r) \in {202, 400, 415}
  <2>1. CASE ~r.json
    BY <2>1 DEF SpeakVerdict
  <2>2. CASE r.json /\ r.length = 0
    BY <2>2 DEF SpeakVerdict
  <2>3. CASE r.json /\ r.length > 0
    <3> DEFINE ok == r.body # "valid" \/ Len(SanitizeSpeakText(r.text)) \notin 1 .. MaxText
    <3>1. SpeakVerdict(r) = IF ok THEN 400 ELSE 202
      BY <2>3, <1>1 DEF SpeakVerdict
    <3> HIDE DEF ok
    <3> QED
      BY <3>1
  <2> QED
    BY <1>1, <2>1, <2>2, <2>3
<1>3. CASE r.method = "GET"
  BY <1>1, <1>3 DEF Verdict
<1>4. CASE r.method = "POST" /\ r.path = "/v1/speak"
  BY <1>2, <1>4 DEF Verdict
<1>5. CASE r.method = "POST" /\ r.path = "/v1/stop"
  BY <1>5 DEF Verdict
<1>6. CASE r.method # "GET" /\ ~(r.method = "POST" /\ r.path \in {"/v1/speak", "/v1/stop"})
  BY <1>6 DEF Verdict
<1> QED
  BY <1>3, <1>4, <1>5, <1>6

\* An answer ends a request and adds one status.
LEMMA AnswerStep ==
  ASSUME ServedInv, InRequest, NEW status \in {200, 202, 400, 404, 415, 429}, Answer(status), conns' = conns
  PROVE  /\ ApiInv'
         /\ DOMAIN served = 1..Len(served) /\ DOMAIN served' = 1..(Len(served) + 1) /\ Len(served) \in Nat
         /\ served'[Len(served) + 1] = status
         /\ \A k \in DOMAIN served : served'[k] = served[k]
<1>1. listener' = [listener EXCEPT !.phase = "accept", !.got = 0] /\ served' = Append(served, status)
  BY DEF Answer
<1>2. ~InRequest' /\ listener'.phase = "accept" /\ listener'.client = listener.client
  BY <1>1 DEF ServedInv, InRequest
<1>3. ServedInv'
  <2>1. listener' \in [phase : {"down", "unavailable", "stopped", "accept", "header", "body"}, client : Nat, got : Nat]
    BY <1>1 DEF ServedInv
  <2>2. served' \in Seq({200, 202, 400, 404, 415, 429}) /\ Len(served') = Len(served) + 1
    BY <1>1 DEF ServedInv
  <2> QED
    BY <1>2, <2>1, <2>2, ReqType DEF ServedInv
<1>4. ReadInv'
  BY <1>2 DEF ReadInv
<1> QED
  BY <1>1, <1>3, <1>4 DEF ApiInv, ServedInv

\* An answer that fits a request.
Fits(r, status) ==
  /\ r.head <= HeaderMax => status \in (IF Whole(r) = 202 THEN {202, 429} ELSE {Whole(r)})
  /\ r.head >= HeaderMax + HeadRead => status = 400

\* Reading on in the header.
LEMMA ReadHeaderStep ==
  ASSUME ApiInv, NEW n \in 1 .. HeadRead, ReadHeader(n)
  PROVE  ApiInv' /\ (served' = served \/ (Answer(400) /\ Fits(Req, 400)))
<1>1. /\ listener.phase = "header" /\ InRequest /\ ServedInv /\ ReadInv
      /\ listener.got < HeaderMax /\ n <= HeadRead /\ n <= Left /\ n \in Nat
      /\ UNCHANGED << conns, queue >>
  BY Lengths DEF ReadHeader, InRequest, ApiInv
<1> DEFINE got == listener.got + n
<1>2. /\ got \in Nat /\ got <= Req.sent /\ got < HeaderMax + HeadRead
  BY <1>1, ReqType, Lengths
<1>3. CASE got < Req.head
  <2>1. listener' = [listener EXCEPT !.got = got] /\ served' = served
    BY <1>3 DEF ReadHeader
  <2> HIDE DEF got
  <2>2. listener' \in [phase : {"down", "unavailable", "stopped", "accept", "header", "body"}, client : Nat, got : Nat]
        /\ listener'.phase = listener.phase /\ listener'.client = listener.client /\ listener'.got = got
    BY <1>2, <2>1 DEF ApiInv, ServedInv
  <2>3. Req' = Req
    BY <1>1, <2>2 DEF Req
  <2> QED
    BY <1>1, <1>2, <1>3, <2>1, <2>2, <2>3 DEF ApiInv, ServedInv, ReadInv, InRequest
<1>4. CASE ~(got < Req.head) /\ (Req.lines # "ok" \/ Req.length > BodyMax)
  <2>1. Answer(400)
    BY <1>4 DEF ReadHeader
  <2>2. Fits(Req, 400)
    BY <1>4 DEF Fits, Whole
  <2> QED
    BY <1>1, <2>1, <2>2, AnswerStep
<1>5. CASE ~(got < Req.head) /\ ~(Req.lines # "ok" \/ Req.length > BodyMax)
  <2>1. listener' = [listener EXCEPT !.phase = "body", !.got = got] /\ served' = served
    BY <1>5 DEF ReadHeader
  <2> HIDE DEF got
  <2>2. listener' \in [phase : {"down", "unavailable", "stopped", "accept", "header", "body"}, client : Nat, got : Nat]
        /\ listener'.phase = "body" /\ listener'.client = listener.client /\ listener'.got = got
    BY <1>2, <2>1 DEF ApiInv, ServedInv
  <2>3. Req' = Req
    BY <1>1, <2>2 DEF Req
  <2>4. Req.length <= BodyMax /\ Req.lines = "ok" /\ Req.head <= got /\ Req.head < HeaderMax + HeadRead
    BY <1>1, <1>2, <1>5, ReqType, Lengths
  <2> QED
    BY <1>1, <1>2, <2>1, <2>2, <2>3, <2>4 DEF ApiInv, ServedInv, ReadInv, InRequest
<1> QED
  BY <1>3, <1>4, <1>5

\* Reading on in the body.
LEMMA ReadBodyStep ==
  ASSUME ApiInv, NEW n \in 1 .. BodyRead, ReadBody(n)
  PROVE  ApiInv' /\ served' = served
<1>1. /\ listener.phase = "body" /\ InRequest /\ ServedInv /\ ReadInv
      /\ n <= Left /\ n \in Nat /\ listener' = [listener EXCEPT !.got = listener.got + n]
      /\ UNCHANGED << conns, queue, served >>
  BY Lengths DEF ReadBody, InRequest, ApiInv
<1> DEFINE got == listener.got + n
<1>2. got \in Nat /\ got <= Req.sent /\ Req.head <= got
  BY <1>1, ReqType DEF ReadInv
<1>3. listener' = [listener EXCEPT !.got = got]
  BY <1>1
<1> HIDE DEF got
<1>4. listener' \in [phase : {"down", "unavailable", "stopped", "accept", "header", "body"}, client : Nat, got : Nat]
      /\ listener'.phase = "body" /\ listener'.client = listener.client /\ listener'.got = got
  BY <1>1, <1>2, <1>3 DEF ServedInv
<1>5. Req' = Req
  BY <1>1, <1>4 DEF Req
<1> QED
  BY <1>1, <1>2, <1>4, <1>5 DEF ApiInv, ServedInv, ReadInv, InRequest

\* A request that is too long or ends too early.
LEMMA EndStep ==
  ASSUME ApiInv, HeaderTooLong \/ EndOfStream
  PROVE  ApiInv' /\ Answer(400) /\ Fits(Req, 400)
<1>1. Answer(400) /\ conns' = conns /\ InRequest /\ ServedInv
  BY DEF HeaderTooLong, EndOfStream, InRequest, ApiInv
<1>2. ApiInv'
  BY <1>1, AnswerStep
<1>3. CASE HeaderTooLong
  <2>1. Req.head > HeaderMax
    BY <1>1, <1>3, ReqType, Lengths DEF HeaderTooLong, ApiInv, ReadInv
  <2> QED
    BY <1>1, <1>2, <2>1, ReqType, Lengths DEF Fits
<1>4. CASE EndOfStream
  <2>1. Req.sent < Req.head + Req.length
    <3>1. Req.sent = listener.got
      BY <1>1, <1>4, ReqType DEF EndOfStream
    <3>2. CASE listener.phase = "header"
      BY <1>1, <3>1, <3>2, ReqType DEF ApiInv, ReadInv
    <3>3. CASE listener.phase = "body" /\ Missing(Req, listener.got) > 0
      BY <1>1, <3>1, <3>3, ReqType DEF Missing
    <3> QED
      BY <1>4, <3>2, <3>3 DEF EndOfStream
  <2>2. Whole(Req) = 400
    BY <2>1 DEF Whole
  <2> QED
    BY <1>1, <1>2, <2>2 DEF Fits
<1> QED
  BY <1>3, <1>4

\* A request that was read as a whole.
LEMMA RouteStep ==
  ASSUME ApiInv, Route
  PROVE  /\ ApiInv'
         /\ \E status \in {200, 202, 400, 404, 415, 429} :
              /\ Answer(status) /\ Fits(Req, status)
              /\ status # 202 => queue' = queue
              /\ status = 202 => queue' = Append(queue, listener.client)
<1>1. listener.phase = "body" /\ Missing(Req, listener.got) = 0 /\ conns' = conns /\ InRequest
      /\ ServedInv /\ ReadInv
  BY DEF Route, InRequest, ApiInv
<1>2. Whole(Req) = Verdict(Req)
  <2>1. Req.lines = "ok" /\ Req.length <= BodyMax /\ listener.got <= Req.sent
    BY <1>1 DEF ReadInv
  <2>2. listener.got >= Req.head + Req.length
    BY <1>1, ReqType DEF Missing
  <2> QED
    BY <1>1, <2>1, <2>2, ReqType, Lengths DEF Whole
<1>3. Req.head < HeaderMax + HeadRead
  BY <1>1 DEF ReadInv
<1>4. ASSUME NEW status \in {200, 202, 400, 404, 415, 429}, Answer(status),
             status \in (IF Verdict(Req) = 202 THEN {202, 429} ELSE {Verdict(Req)}),
             status # 202 => queue' = queue, status = 202 => queue' = Append(queue, listener.client)
      PROVE  /\ ApiInv'
             /\ \E s \in {200, 202, 400, 404, 415, 429} :
                  /\ Answer(s) /\ Fits(Req, s)
                  /\ s # 202 => queue' = queue
                  /\ s = 202 => queue' = Append(queue, listener.client)
  <2>1. Fits(Req, status)
    BY <1>1, <1>2, <1>3, <1>4, ReqType, Lengths DEF Fits
  <2>2. ApiInv'
    BY <1>1, <1>4, AnswerStep
  <2> QED
    BY <1>4, <2>1, <2>2
<1>5. CASE Verdict(Req) = 202
  <2>1. \/ queue' = Append(queue, listener.client) /\ Answer(202)
        \/ queue' = queue /\ Answer(429)
    BY <1>5 DEF Route, Enqueue
  <2> QED
    BY <1>4, <1>5, <2>1
<1>6. CASE Verdict(Req) # 202
  <2>1. queue' = queue /\ Answer(Verdict(Req))
    BY <1>6 DEF Route
  <2>2. Verdict(Req) \in {200, 202, 400, 404, 415, 429}
    BY <1>1, ReqType, VerdictType
  <2> QED
    BY <1>4, <1>6, <2>1, <2>2
<1> QED
  BY <1>5, <1>6

\* What a step does to the answers and to the queue: nothing, or one answer more,
\* which fits, and which queues the command when it accepts it.
LEMMA ApiStepInv ==
  ASSUME ApiInv, [ApiNext]_apiVars
  PROVE  /\ ApiInv'
         /\ \/ served' = served /\ (Len(conns') >= Len(conns) /\ \A k \in DOMAIN conns : conns'[k] = conns[k])
               /\ ((queue' = queue /\ UNCHANGED uiVars) \/ PollTtsApi)
            \/ /\ InRequest /\ conns' = conns /\ UNCHANGED uiVars
               /\ \E status \in {200, 202, 400, 404, 415, 429} :
                    /\ Answer(status) /\ Fits(Req, status)
                    /\ status # 202 => queue' = queue
                    /\ status = 202 => queue' = Append(queue, listener.client)
<1>0. ServedInv /\ ReadInv /\ conns \in Seq(Request)
  BY DEF ApiInv, ServedInv
<1>1. ASSUME listener' = listener, conns' = conns, served' = served PROVE ApiInv'
  BY <1>0, <1>1 DEF ApiInv, ServedInv, ReadInv, InRequest, Req
<1>2. CASE UNCHANGED apiVars
  BY <1>1, <1>2 DEF apiVars
<1>3. CASE \E r \in Request : Connect(r)
  <2>1. PICK r \in Request : Connect(r)
    BY <1>3
  <2>2. conns' = Append(conns, r) /\ UNCHANGED << listener, queue, uiVars, served >>
    BY <2>1 DEF Connect
  <2>3. conns' \in Seq(Request) /\ Len(conns') = Len(conns) + 1 /\ \A k \in DOMAIN conns : conns'[k] = conns[k]
    BY <1>0, <2>2
  <2>4. ServedInv'
    BY <1>0, <2>2, <2>3 DEF ServedInv, InRequest
  <2>5. InRequest => Req' = Req
    BY <1>0, <2>2, <2>3, ReqType DEF Req
  <2>6. ReadInv'
    BY <1>0, <2>2, <2>5 DEF ReadInv, InRequest
  <2> QED
    BY <1>0, <2>2, <2>3, <2>4, <2>6 DEF ApiInv
<1>4. CASE \E binds \in BOOLEAN : Start(binds)
  <2>1. listener.phase = "down" /\ UNCHANGED << conns, queue, uiVars, served >>
        /\ \E p \in {"accept", "unavailable"} : listener' = [listener EXCEPT !.phase = p]
    BY <1>4 DEF Start
  <2>2. listener' \in [phase : {"down", "unavailable", "stopped", "accept", "header", "body"}, client : Nat, got : Nat]
        /\ ~InRequest /\ ~InRequest' /\ listener'.client = listener.client
    BY <1>0, <2>1 DEF ServedInv, InRequest
  <2> QED
    BY <1>0, <2>1, <2>2 DEF ApiInv, ServedInv, ReadInv, InRequest
<1>5. CASE AcceptFails
  <2>1. listener.phase = "accept" /\ listener' = [listener EXCEPT !.phase = "stopped"]
        /\ UNCHANGED << conns, queue, uiVars, served >>
    BY <1>5 DEF AcceptFails
  <2>2. listener' \in [phase : {"down", "unavailable", "stopped", "accept", "header", "body"}, client : Nat, got : Nat]
        /\ ~InRequest /\ ~InRequest' /\ listener'.client = listener.client
    BY <1>0, <2>1 DEF ServedInv, InRequest
  <2> QED
    BY <1>0, <2>1, <2>2 DEF ApiInv, ServedInv, ReadInv, InRequest
<1>6. CASE Accept
  <2>1. /\ listener.phase = "accept" /\ listener.client < Len(conns)
        /\ listener' = [phase |-> "header", client |-> listener.client + 1, got |-> 0]
        /\ UNCHANGED << conns, queue, uiVars, served >>
    BY <1>6 DEF Accept
  <2>2. ServedInv'
    BY <1>0, <2>1 DEF ServedInv, InRequest
  <2>3. Req' \in Request
    <3>1. listener'.client \in 1..Len(conns)
      BY <1>0, <2>1 DEF ServedInv
    <3> QED
      BY <1>0, <2>1, <3>1 DEF Req
  <2>4. ReadInv'
    BY <2>1, <2>3 DEF ReadInv, Request
  <2> QED
    BY <1>0, <2>1, <2>2, <2>4 DEF ApiInv
<1>7. CASE HeaderTooLong \/ EndOfStream
  <2>1. InRequest /\ conns' = conns /\ queue' = queue /\ UNCHANGED uiVars
    BY <1>7 DEF HeaderTooLong, EndOfStream, InRequest
  <2> QED
    BY <1>7, <2>1, EndStep
<1>8. CASE Route
  <2>1. InRequest /\ conns' = conns /\ UNCHANGED uiVars
    BY <1>8 DEF Route, InRequest
  <2> QED
    BY <1>8, <2>1, RouteStep
<1>9. CASE \E n \in 1 .. HeadRead : ReadHeader(n)
  <2>1. InRequest /\ conns' = conns /\ queue' = queue /\ UNCHANGED uiVars
    BY <1>9 DEF ReadHeader, InRequest
  <2> QED
    BY <1>0, <1>9, <2>1, ReadHeaderStep
<1>10. CASE \E n \in 1 .. BodyRead : ReadBody(n)
  <2>1. InRequest /\ conns' = conns /\ queue' = queue /\ UNCHANGED uiVars
    BY <1>10 DEF ReadBody, InRequest
  <2> QED
    BY <1>0, <1>10, <2>1, ReadBodyStep
<1>11. CASE PollTtsApi
  <2>1. UNCHANGED << listener, conns, served >>
    BY <1>11 DEF PollTtsApi, TakeCommand, ApplyCommand
  <2> QED
    BY <1>0, <1>1, <1>11, <2>1
<1> QED
  BY <1>2, <1>3, <1>4, <1>5, <1>6, <1>7, <1>8, <1>9, <1>10, <1>11 DEF ApiNext, ApiStep, Serve

\* At the start nobody is served.
LEMMA ApiInvInit == ApiInit => ApiInv
BY DEF ApiInit, ApiInv, ServedInv, ReadInv, InRequest

\* Every request gets the answer it would get if it were read in one piece, but
\* for a full queue (read_request, route and enqueue of app/tts_api.rs).
THEOREM AnswersFit == ApiSpec => []AnswerFitsRequest
<1>1. AnswerFitsRequest <=> \A k \in DOMAIN served : Fits(conns[k], served[k])
  BY DEF AnswerFitsRequest, Fits
<1>1a. (AnswerFitsRequest <=> \A k \in DOMAIN served : Fits(conns[k], served[k]))'
  BY DEF AnswerFitsRequest, Fits, Whole
<1>2. ApiInit => AnswerFitsRequest
  BY <1>1 DEF ApiInit
<1>3. ASSUME ApiInv, AnswerFitsRequest, [ApiNext]_apiVars PROVE AnswerFitsRequest'
  <2>1. DOMAIN served \subseteq DOMAIN conns /\ \A k \in DOMAIN served : Fits(conns[k], served[k])
    BY <1>1, <1>3 DEF ApiInv, ServedInv, InRequest
  <2>2. CASE served' = served /\ \A k \in DOMAIN conns : conns'[k] = conns[k]
    BY <1>1a, <2>1, <2>2
  <2>3. ASSUME InRequest, conns' = conns,
               NEW status \in {200, 202, 400, 404, 415, 429}, Answer(status), Fits(Req, status)
        PROVE  AnswerFitsRequest'
    <3>1. /\ DOMAIN served = 1..Len(served) /\ DOMAIN served' = 1..(Len(served) + 1) /\ Len(served) \in Nat
          /\ served'[Len(served) + 1] = status
          /\ \A k \in DOMAIN served : served'[k] = served[k]
      BY <1>3, <2>3, AnswerStep DEF ApiInv
    <3>2. conns[Len(served) + 1] = Req
      BY <1>3, <2>3, ReqType DEF ApiInv, Req
    <3>3. ASSUME NEW k \in DOMAIN served' PROVE Fits(conns'[k], served'[k])
      BY <2>1, <2>3, <3>1, <3>2
    <3> QED
      BY <1>1a, <3>3
  <2> QED
    BY <1>3, <2>2, <2>3, ApiStepInv
<1> QED
  BY <1>2, <1>3, ApiInvInit, ApiStepInv, PTL DEF ApiSpec

-----------------------------------------------------------------------------
(* The commands.                                                           *)

CommandTypes == applied \in Seq(Nat) /\ batch \in Seq(Nat) /\ queue \in Seq(Nat)

\* Handing a command on leaves the commands as they are.
LEMMA TakenKept ==
  ASSUME CommandTypes, PollTtsApi
  PROVE  CommandTypes' /\ Taken' = Taken
<1>1. CASE TakeCommand
  <2>1. queue # << >> /\ batch' = Append(batch, Head(queue)) /\ queue' = Tail(queue) /\ applied' = applied
    BY <1>1 DEF TakeCommand
  <2>2. Append(batch, Head(queue)) \o Tail(queue) = batch \o queue
    BY <2>1 DEF CommandTypes
  <2>3. \A a, b, q \in Seq(Nat) : (a \o b) \o q = a \o (b \o q)
    OBVIOUS
  <2>4. CommandTypes'
    BY <2>1 DEF CommandTypes
  <2>5. batch' \o queue' = batch \o queue
    BY <2>1, <2>2
  <2>6. (applied \o batch') \o queue' = applied \o (batch' \o queue')
    <3>1. applied \in Seq(Nat) /\ batch' \in Seq(Nat) /\ queue' \in Seq(Nat)
      BY <2>4 DEF CommandTypes
    <3> QED
      BY <2>3, <3>1
  <2>7. (applied \o batch) \o queue = applied \o (batch \o queue)
    BY <2>3 DEF CommandTypes
  <2> QED
    BY <2>1, <2>4, <2>5, <2>6, <2>7 DEF Taken
<1>2. CASE \E voice \in BOOLEAN : ApplyCommand(voice)
  <2>1. batch # << >> /\ applied' = Append(applied, Head(batch)) /\ batch' = Tail(batch) /\ queue' = queue
    BY <1>2 DEF ApplyCommand
  <2>2. Append(applied, Head(batch)) \o Tail(batch) = applied \o batch
    BY <2>1 DEF CommandTypes
  <2>3. CommandTypes'
    BY <2>1 DEF CommandTypes
  <2> QED
    BY <2>1, <2>2, <2>3 DEF Taken
<1> QED
  BY <1>1, <1>2 DEF PollTtsApi

\* A command that is queued comes after all others.
LEMMA TakenGrows ==
  ASSUME CommandTypes, NEW c \in Nat, queue' = Append(queue, c), UNCHANGED << applied, batch >>
  PROVE  CommandTypes' /\ Taken' = Append(Taken, c)
<1>1. applied \o batch \in Seq(Nat)
  BY DEF CommandTypes
<1>2. \A s, q \in Seq(Nat) : s \o Append(q, c) = Append(s \o q, c)
  OBVIOUS
<1>3. (applied \o batch) \o Append(queue, c) = Append((applied \o batch) \o queue, c)
  BY <1>1, <1>2 DEF CommandTypes
<1>4. CommandTypes'
  BY DEF CommandTypes
<1> QED
  BY <1>3, <1>4 DEF Taken

\* The commands have their types, and are accepted in order.
LEMMA CommandsCorrect == ApiSpec => [](ApiInv /\ CommandTypes /\ AcceptedOnce)
<1> DEFINE Inv == CommandTypes /\ AcceptedOnce
<1>1. ApiInit => Inv
  BY DEF ApiInit, CommandTypes, AcceptedOnce, Taken
<1>2. ASSUME ApiInv, Inv, [ApiNext]_apiVars PROVE Inv'
  <2>1. CASE served' = served /\ CommandTypes' /\ Taken' = Taken
    BY <1>2, <2>1 DEF AcceptedOnce
  <2>2. CASE served' = served /\ ((queue' = queue /\ UNCHANGED uiVars) \/ PollTtsApi)
    <3>1. CASE queue' = queue /\ UNCHANGED uiVars
      BY <1>2, <2>1, <2>2, <3>1 DEF uiVars, CommandTypes, Taken
    <3>2. CASE PollTtsApi
      BY <1>2, <2>1, <2>2, <3>2, TakenKept
    <3> QED
      BY <2>2, <3>1, <3>2
  <2>3. ASSUME InRequest, conns' = conns, UNCHANGED uiVars,
               NEW status \in {200, 202, 400, 404, 415, 429}, Answer(status),
               status # 202 => queue' = queue,
               status = 202 => queue' = Append(queue, listener.client)
        PROVE  Inv'
    <3>1. /\ DOMAIN served = 1..Len(served) /\ DOMAIN served' = 1..(Len(served) + 1) /\ Len(served) \in Nat
          /\ served'[Len(served) + 1] = status
          /\ \A k \in DOMAIN served : served'[k] = served[k]
      BY <1>2, <2>3, AnswerStep DEF ApiInv
    <3>2. listener.client = Len(served) + 1
      BY <1>2, <2>3, ReqType DEF ApiInv
    <3>3. CASE status # 202
      <4>1. CommandTypes' /\ Taken' = Taken
        BY <1>2, <2>3, <3>3 DEF uiVars, CommandTypes, Taken
      <4>2. {k \in DOMAIN served' : served'[k] = 202} = {k \in DOMAIN served : served[k] = 202}
        BY <3>1, <3>3
      <4> QED
        BY <1>2, <4>1, <4>2 DEF AcceptedOnce
    <3>4. CASE status = 202
      <4> DEFINE c == listener.client
      <4>1. c \in Nat /\ c = Len(served) + 1
        BY <3>1, <3>2
      <4> HIDE DEF c
      <4>2. CommandTypes' /\ Taken' = Append(Taken, c)
        BY <1>2, <2>3, <3>4, <4>1, TakenGrows DEF uiVars, c
      <4>3. Taken \in Seq(Nat)
        BY <1>2 DEF CommandTypes, Taken
      <4>4. /\ Len(Taken) \in Nat /\ DOMAIN Taken = 1..Len(Taken) /\ DOMAIN Taken' = 1..(Len(Taken) + 1)
            /\ Taken'[Len(Taken) + 1] = c /\ \A k \in DOMAIN Taken : Taken'[k] = Taken[k]
        BY <4>1, <4>2, <4>3
      <4>5. {k \in DOMAIN served' : served'[k] = 202} = {k \in DOMAIN served : served[k] = 202} \union {c}
        BY <3>1, <3>4, <4>1
      <4>6. {Taken'[k] : k \in DOMAIN Taken'} = {Taken[k] : k \in DOMAIN Taken} \union {c}
        BY <4>4
      <4>7. \A k \in DOMAIN Taken : Taken[k] < c
        <5>1. ASSUME NEW k \in DOMAIN Taken PROVE Taken[k] \in DOMAIN served
          BY <1>2 DEF AcceptedOnce
        <5> QED
          BY <5>1, <3>1, <4>1
      <4>8. ASSUME NEW j \in DOMAIN Taken', NEW i \in 1 .. j - 1 PROVE Taken'[i] < Taken'[j]
        <5>1. i \in DOMAIN Taken
          BY <4>4
        <5>2. CASE j = Len(Taken) + 1
          BY <4>4, <4>7, <5>1, <5>2
        <5>3. CASE j # Len(Taken) + 1
          <6>1. j \in DOMAIN Taken
            BY <4>4, <5>3
          <6> QED
            BY <1>2, <4>4, <5>1, <6>1 DEF AcceptedOnce
        <5> QED
          BY <5>2, <5>3
      <4>9. AcceptedOnce'
        BY <1>2, <4>5, <4>6, <4>8 DEF AcceptedOnce
      <4> QED
        BY <4>2, <4>9
    <3> QED
      BY <3>3, <3>4
  <2> QED
    BY <1>2, <2>2, <2>3, ApiStepInv
<1> QED
  BY <1>1, <1>2, ApiInvInit, ApiStepInv, PTL DEF ApiSpec

\* An accepted command is applied once, in the order of the answers, and no
\* other is (enqueue, drain_commands and poll_tts_api of app/tts_api.rs).
THEOREM AcceptedAppliedOnce == ApiSpec => []AcceptedOnce
BY CommandsCorrect, PTL

-----------------------------------------------------------------------------
(* The speech and the stops.                                               *)

\* What is spoken was applied, and every stop applied is older.
SpeechInv ==
  speech # NoSpeech =>
    /\ \E j \in DOMAIN applied : applied[j] = speech.client
    /\ \A i \in DOMAIN applied : conns[applied[i]].path = "/v1/stop" => applied[i] < speech.client

\* Where the commands are in Taken.
LEMMA TakenParts ==
  ASSUME CommandTypes
  PROVE  /\ Taken \in Seq(Nat) /\ batch \o queue \in Seq(Nat)
         /\ DOMAIN applied = 1 .. Len(applied) /\ Len(applied) \in Nat
         /\ \A i \in DOMAIN applied : i \in DOMAIN Taken /\ Taken[i] = applied[i]
         /\ \A i \in DOMAIN Taken : i \notin DOMAIN applied =>
              /\ i - Len(applied) \in DOMAIN (batch \o queue)
              /\ Taken[i] = (batch \o queue)[i - Len(applied)]
         /\ batch # << >> => /\ Len(applied) + 1 \in DOMAIN Taken
                             /\ Taken[Len(applied) + 1] = Head(batch)
<1> DEFINE rest == batch \o queue
<1>1. applied \in Seq(Nat) /\ batch \in Seq(Nat) /\ queue \in Seq(Nat) /\ rest \in Seq(Nat)
  BY DEF CommandTypes
<1>2. \A a, b, q \in Seq(Nat) : (a \o b) \o q = a \o (b \o q)
  BY ConcatAssociative
<1>3. Taken = applied \o rest
  BY <1>1, <1>2 DEF Taken
<1>4. batch # << >> => rest # << >> /\ rest[1] = Head(batch)
  BY <1>1
<1> HIDE DEF rest
<1>5. /\ Taken \in Seq(Nat) /\ Len(Taken) = Len(applied) + Len(rest)
      /\ DOMAIN Taken = 1 .. Len(applied) + Len(rest) /\ DOMAIN applied = 1 .. Len(applied)
      /\ DOMAIN rest = 1 .. Len(rest) /\ Len(applied) \in Nat /\ Len(rest) \in Nat
      /\ \A i \in 1 .. Len(applied) + Len(rest) :
           Taken[i] = IF i <= Len(applied) THEN applied[i] ELSE rest[i - Len(applied)]
  <2>1. DOMAIN applied = 1 .. Len(applied) /\ Len(applied) \in Nat
        /\ DOMAIN rest = 1 .. Len(rest) /\ Len(rest) \in Nat
    BY <1>1
  <2>2. /\ Taken \in Seq(Nat) /\ Len(Taken) = Len(applied) + Len(rest)
        /\ \A i \in 1 .. Len(applied) + Len(rest) :
             Taken[i] = IF i <= Len(applied) THEN applied[i] ELSE rest[i - Len(applied)]
    BY <1>1, <1>3, ConcatProperties
  <2>3. DOMAIN Taken = 1 .. Len(applied) + Len(rest)
    BY <2>2
  <2> QED
    BY <2>1, <2>2, <2>3
<1>6. rest # << >> => Len(rest) >= 1
  BY <1>1
<1>7. /\ \A i \in DOMAIN applied : i \in DOMAIN Taken /\ Taken[i] = applied[i]
      /\ \A i \in DOMAIN Taken : i \notin DOMAIN applied =>
           i - Len(applied) \in DOMAIN rest /\ Taken[i] = rest[i - Len(applied)]
      /\ batch # << >> => /\ Len(applied) + 1 \in DOMAIN Taken
                          /\ Taken[Len(applied) + 1] = Head(batch)
  BY <1>4, <1>5, <1>6
<1>8. rest = batch \o queue
  BY DEF rest
<1> QED
  BY <1>1, <1>5, <1>7, <1>8, Zenon

\* Applying a command keeps the speech newer than the stops.
LEMMA SpeechApplied ==
  ASSUME CommandTypes, AcceptedOnce, SpeechInv, NEW voice \in BOOLEAN, ApplyCommand(voice)
  PROVE  SpeechInv'
<1> DEFINE c == Head(batch)
<1>1. /\ batch # << >> /\ applied' = Append(applied, c) /\ conns' = conns
      /\ speech' = IF conns[c].path = "/v1/stop" THEN NoSpeech ELSE Spoken(c, voice)
  BY DEF ApplyCommand
<1>2. \A i \in DOMAIN applied : applied[i] \in Nat /\ applied[i] < c
  <2>1. ASSUME NEW i \in DOMAIN applied PROVE applied[i] \in Nat /\ applied[i] < c
    <3>1. Len(applied) + 1 \in DOMAIN Taken /\ i \in 1 .. (Len(applied) + 1) - 1
      BY <1>1, TakenParts
    <3>2. Taken[i] < Taken[Len(applied) + 1]
      BY <3>1 DEF AcceptedOnce
    <3> QED
      BY <1>1, <3>2, TakenParts DEF CommandTypes
  <2> QED
    BY <2>1
<1>3. speech' = NoSpeech
      \/ (conns[c].path # "/v1/stop" /\ (speech' = speech \/ speech'.client = c))
  BY <1>1 DEF Spoken
<1> HIDE DEF c
<1>4. /\ DOMAIN applied' = 1 .. Len(applied) + 1 /\ DOMAIN applied = 1 .. Len(applied)
      /\ Len(applied) \in Nat /\ applied'[Len(applied) + 1] = c
      /\ \A i \in DOMAIN applied : applied'[i] = applied[i]
  <2>1. c \in Nat
    BY <1>1 DEF c, CommandTypes
  <2> QED
    BY <1>1, <2>1 DEF CommandTypes
<1>5. \A i \in DOMAIN applied' : i \in DOMAIN applied \/ i = Len(applied) + 1
  BY <1>4
<1>6. CASE speech' = NoSpeech
  BY <1>6 DEF SpeechInv
<1>7. CASE conns[c].path # "/v1/stop" /\ speech' = speech
  <2>1. ASSUME speech # NoSpeech
        PROVE  /\ \E j \in DOMAIN applied' : applied'[j] = speech.client
               /\ \A i \in DOMAIN applied' :
                    conns[applied'[i]].path = "/v1/stop" => applied'[i] < speech.client
    BY <1>4, <1>5, <1>7, <2>1 DEF SpeechInv
  <2> QED
    BY <1>1, <1>7, <2>1 DEF SpeechInv, NoSpeech
<1>8. CASE conns[c].path # "/v1/stop" /\ speech'.client = c
  <2>1. \A i \in DOMAIN applied' : conns[applied'[i]].path = "/v1/stop" => applied'[i] < c
    BY <1>2, <1>4, <1>5, <1>8
  <2>2. \E j \in DOMAIN applied' : applied'[j] = c
    BY <1>4
  <2> QED
    BY <1>1, <1>8, <2>1, <2>2 DEF SpeechInv
<1> QED
  BY <1>3, <1>6, <1>7, <1>8

\* No text is spoken after a newer stop was applied: what is spoken belongs to a
\* command accepted after all of them (poll_tts_api and apply_tts_command).
THEOREM StopsHold == ApiSpec => []StopHolds
<1> DEFINE Inv == CommandTypes /\ AcceptedOnce /\ SpeechInv
<1>1. ApiInit => SpeechInv
  BY DEF ApiInit, SpeechInv
<1>2. ASSUME ApiInv, CommandTypes, AcceptedOnce, SpeechInv, [ApiNext]_apiVars
      PROVE  SpeechInv'
  <2>1. CASE \E voice \in BOOLEAN : ApplyCommand(voice)
    BY <1>2, <2>1, SpeechApplied
  <2>2. ASSUME speech' = speech, applied' = applied,
               \A k \in DOMAIN conns : conns'[k] = conns[k]
        PROVE  SpeechInv'
    <3>1. \A i \in DOMAIN applied : applied[i] \in DOMAIN conns
      <4>1. \A i \in DOMAIN applied : applied[i] \in DOMAIN served
        BY <1>2, TakenParts DEF AcceptedOnce
      <4>2. DOMAIN served \subseteq DOMAIN conns
        BY <1>2 DEF ApiInv, ServedInv, InRequest
      <4> QED
        BY <4>1, <4>2
    <3> QED
      BY <1>2, <2>2, <3>1 DEF SpeechInv
  <2>3. ApiInv /\ [ApiNext]_apiVars
    BY <1>2
  <2>4. PollTtsApi => TakeCommand \/ \E voice \in BOOLEAN : ApplyCommand(voice)
    BY DEF PollTtsApi
  <2>5. TakeCommand => speech' = speech /\ applied' = applied
    BY DEF TakeCommand
  <2>6. UNCHANGED uiVars => speech' = speech /\ applied' = applied
    BY DEF uiVars
  <2>7. (\E voice \in BOOLEAN : ApplyCommand(voice))
        \/ (speech' = speech /\ applied' = applied /\ \A k \in DOMAIN conns : conns'[k] = conns[k])
    BY <2>3, <2>4, <2>5, <2>6, ApiStepInv
  <2> QED
    BY <2>1, <2>2, <2>7
<1>3. ASSUME CommandTypes, AcceptedOnce, SpeechInv PROVE StopHolds
  <2>1. SUFFICES ASSUME speech # NoSpeech
                 PROVE  /\ served[speech.client] = 202
                        /\ \A k \in DOMAIN served :
                             served[k] = 202 /\ conns[k].path = "/v1/stop" /\ k > speech.client
                               => \E i \in DOMAIN (batch \o queue) : (batch \o queue)[i] = k
    BY DEF StopHolds
  <2>2. PICK j \in DOMAIN applied : applied[j] = speech.client
    BY <1>3, <2>1 DEF SpeechInv
  <2>3. speech.client \in Nat /\ served[speech.client] = 202
    <3>1. applied[j] \in {Taken[k] : k \in DOMAIN Taken}
      BY <1>3, TakenParts
    <3> QED
      BY <1>3, <2>2, <3>1 DEF AcceptedOnce, CommandTypes
  <2>4. ASSUME NEW k \in DOMAIN served, served[k] = 202, conns[k].path = "/v1/stop", k > speech.client
        PROVE  \E i \in DOMAIN (batch \o queue) : (batch \o queue)[i] = k
    <3>1. PICK i \in DOMAIN Taken : Taken[i] = k
      BY <1>3, <2>4 DEF AcceptedOnce
    <3>2. k \in Nat
      BY <1>3, <3>1, TakenParts
    <3>3. i \notin DOMAIN applied
      <4>1. ASSUME i \in DOMAIN applied PROVE FALSE
        <5>1. applied[i] = k
          BY <1>3, <3>1, <4>1, TakenParts
        <5>2. k < speech.client
          BY <1>3, <2>1, <2>4, <4>1, <5>1 DEF SpeechInv
        <5> QED
          BY <2>3, <2>4, <3>2, <5>2
      <4> QED
        BY <4>1
    <3> QED
      BY <1>3, <3>1, <3>3, TakenParts
  <2> QED
    BY <2>3, <2>4
<1> QED
  BY <1>1, <1>2, <1>3, ApiInvInit, ApiStepInv, CommandsCorrect, PTL DEF ApiSpec
=============================================================================
