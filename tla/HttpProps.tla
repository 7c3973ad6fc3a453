----------------------------- MODULE HttpProps -----------------------------
(***************************************************************************)
(* What the HTTP server is checked for.                                    *)
(***************************************************************************)
EXTENDS HttpServe

Kinds ==
  {"200", "400", "404", "405", "500", "sse header", "error", "role", "response.created", "message_start",
   "content_block_start", "delta", "stop", "[DONE]", "response.completed", "content_block_stop",
   "message_delta", "message_stop"}
Frames == Seq([kind : Kinds, text : Seq(Token), n : 0..WantCap])

\* Every variable has its type: no answer has more tokens than the cap, and no
\* connection is both waiting and closed.
TypeOK ==
  /\ asks \in [Conn -> Requests]
  /\ client \in [Conn -> {"away", "open", "ended", "gone"}]
  /\ \A c \in Conn : sent[c] \in 0..Parts(asks[c]) /\ wire[c] \in Frames
  /\ queue \in Seq(Conn) /\ closed \subseteq Conn
  /\ \A i \in DOMAIN queue : queue[i] \notin closed
  /\ pc \in {"accept", "headers", "body", "handle", "generate", "prefill", "sample", "decode", "finish",
             "close", "dead"}
  /\ pc # "accept" => queue # <<>>
  /\ got \in 0..3 /\ todo \in Frames /\ toks \in Seq(Token) /\ Len(toks) <= WantCap
  /\ sess \in [ctx : Seq(Token), max_new : 1..WantCap]

-----------------------------------------------------------------------------
(***************************************************************************)
(* What the connections were told, in the terms of Answers                 *)
(***************************************************************************)
\* The tokens of the answer that is due to c for what it sent.
Due(c) ==
  IF Status(asks[c], sent[c]) # "" THEN <<>> ELSE Continued(asks[c].prompt, Wanted(asks[c]))

\* The members of S in a sequence.
Kept(s, S) ==
  LET F[k \in 0..Len(s)] ==
        IF k = 0 THEN <<>> ELSE IF s[k] \in S THEN Append(F[k - 1], s[k]) ELSE F[k - 1]
  IN  F[Len(s)]

\* What tokens decode to.
Text(ts) == Kept(ts, Token \ Silent)

MayFail(c) ==
  Status(asks[c], sent[c]) \in {"400", "404", "405"} \/ Refused(asks[c].prompt) \/ c \in Faults

\* What an answer ends with.
Errors == {"400", "404", "405", "500", "error"}
Ends   == {"200", "[DONE]", "response.completed", "message_stop"}

\* The delta events that carry a text.
Spoken(ts) == LET text == Text(ts) IN [i \in DOMAIN text |-> Frame("delta", <<text[i]>>, 0)]
Deltas == {Frame("delta", <<t>>, 0) : t \in Token}

\* The text the delta events of a stream carry.
Heard(frames) == LET heard == Kept(frames, Deltas) IN [i \in DOMAIN heard |-> heard[i].text[1]]

\* The whole stream of an answer, and the whole of any answer.
Stream(c) == <<Header>> \o Opening(asks[c].route) \o Spoken(Due(c)) \o Closing(asks[c].route, Due(c))
Streams(c) == asks[c].stream /\ Status(asks[c], sent[c]) = ""
Whole(c) == IF Streams(c) THEN Stream(c) ELSE <<Answer("200", Due(c))>>

\* The text c was given, by its delta events or by its one response.
TextGiven(c) ==
  IF Streams(c) THEN Heard(wire[c])
  ELSE IF wire[c] = <<>> THEN <<>> ELSE Text(wire[c][1].text)

EndOf(frames, whole) ==
  IF frames = <<>> THEN "none"
  ELSE IF frames[Len(frames)].kind \in Errors THEN "error"
  ELSE IF frames[Len(frames)].kind \in Ends /\ frames = whole THEN "complete" ELSE "none"

EndTold(c) == EndOf(wire[c], Whole(c))

\* The requests whose answer is greedy decoding's: the prompt is refused or has
\* room behind it for what is wanted, which is no more than generate is good for.
\* handle_http checks neither, so this is asked of the clients.
Fits(r) ==
  Refused(r.prompt) \/ (Len(r.prompt) + Wanted(r) <= Ctx /\ (r.stream \/ Wanted(r) <= GenerateCap))
RequestsFit == \A r \in Requests : Fits(r)

\* As long as the clients' requests fit: whatever the other connections do, a
\* client is given the one answer to its own request, streamed or whole, and its
\* connection is closed when that is complete, has failed for a reason or found
\* nobody there (Answers).
Promised ==
  INSTANCE Answers WITH
    line <- queue,
    client <- [c \in Conn |-> [expects |-> Text(Due(c)), mayFail |-> MayFail(c), there |-> client[c] # "gone"]],
    text <- [c \in Conn |-> TextGiven(c)],
    end <- [c \in Conn |-> EndTold(c)],
    down <- pc = "dead"

ImplementsAnswers == Promised!Spec

\* The server waits for a client that neither sends nor leaves.
Stalled == pc \in {"headers", "body"} /\ client[cur] = "open" /\ sent[cur] = got

\* Every connection is closed in the end, as long as no client stalls for ever
\* in the middle of its request: then all that wait behind it wait for ever.
EveryoneAnswered ==
  <>[]Stalled \/ \A c \in Conn : client[c] # "away" ~> c \in closed \/ pc = "dead"
=============================================================================
