------------------------------ MODULE MCLocalApi ------------------------------
(***************************************************************************)
(* A small API for TLC: either one client with any text up to MaxLen units *)
(* over one of a few alphabets, or up to MaxClients clients with requests    *)
(* picked for what the listener tells apart.                               *)
(***************************************************************************)
EXTENDS LocalApi

CONSTANTS MaxLen, MaxClients

Speak ==
  [ method |-> "POST", path |-> "/v1/speak", lines |-> "ok", json |-> TRUE, head |-> 2,
    length |-> 2, body |-> "valid", text |-> << "a" >>, sent |-> 4 ]
Stop == [Speak EXCEPT !.path = "/v1/stop", !.length = 0, !.sent = 2]

Alphabets == { {"a", "U", "Mr", ".", ")", " "}, {"a", ".", ",", "quote", "nl", " "},
               {"a", "AI", "@", "(", ")", "www", " "}, {"a", "#", "(", ")", "glyph", ".", " "} }

Texts == UNION {BoundedSeq(A, MaxLen) : A \in Alphabets}

Requests ==
  { Speak, Stop,
    [Speak EXCEPT !.head = 3, !.sent = 6],                  \* a header at the limit, and bytes to spare
    [Speak EXCEPT !.head = 4, !.sent = 6],                  \* one beyond it
    [Speak EXCEPT !.head = 5, !.sent = 7],
    [Speak EXCEPT !.sent = 3], [Speak EXCEPT !.sent = 1],   \* cut short
    [Speak EXCEPT !.length = 4, !.sent = 6],                \* a body too long
    [Speak EXCEPT !.lines = "malformed"], [Speak EXCEPT !.json = FALSE],
    [Speak EXCEPT !.body = "invalid"],
    [Speak EXCEPT !.length = 0], [Stop EXCEPT !.length = 2, !.sent = 4],
    [Speak EXCEPT !.method = "GET"], [Stop EXCEPT !.method = "GET", !.path = "/health"],
    [Stop EXCEPT !.path = "other"], [Stop EXCEPT !.method = "GET"],
    [Speak EXCEPT !.text = << "zw", " ", "zw" >>] }

AnyText == conns = << >> /\ \E t \in Texts : Connect([Speak EXCEPT !.text = t, !.head = 1, !.length = 1, !.sent = 2])

AnyRequest ==
  /\ Len(conns) < MaxClients
  /\ conns # << >> => conns[1] \in Requests
  /\ \E r \in Requests : Connect(r)

MCNext == AnyText \/ AnyRequest \/ ApiStep

MCSpec == ApiInit /\ [][MCNext]_apiVars
=============================================================================
