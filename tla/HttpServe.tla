------------------------------ MODULE HttpServe ------------------------------
(***************************************************************************)
(* The HTTP server (src/src/server/http_serve.cpp): serve_listen, which    *)
(* accepts a connection, reads a request, answers it and closes the        *)
(* connection before it accepts the next, and handle_http, which answers   *)
(* one request with the session all requests share.                        *)
(*                                                                         *)
(* A request arrives in parts: the request line, the other headers and the *)
(* body; recv returns as many as have come.  Texts are kept as the tokens  *)
(* they were decoded from.  The session is its context and the number of   *)
(* tokens generate is to produce.  The next token is a function of the     *)
(* context as far as Session and GpuSession establish that: after a        *)
(* prefill, within the rows of the cache, and in one generate for as many  *)
(* tokens as that session answers for.  Beyond, it is any token; that the  *)
(* cache is then overrun, and what else that breaks, is not modelled.      *)
(***************************************************************************)
EXTENDS Integers, Sequences, FiniteSetsExt

CONSTANTS
  Conn,         \* the connections
  Requests,     \* what clients send
  Token,        \* the tokens of prompts and texts
  Silent,       \* the tokens that decode to no text
  Greedy(_),    \* the token after a context
  Ctx,          \* rows of the session's cache: a longer prompt is refused, a longer context is not
  GenerateCap,  \* most tokens of a generate for which the session answers
  DefaultWant,  \* tokens of a request that does not say how many (16)
  WantCap,      \* most tokens of a request (4096)
  Faults,       \* the connections during which the device may fail
  SigPipe       \* whether a write to a connection the client closed ends the process

Generating == {"chat", "responses", "messages"}
Routes == Generating \cup {"health", "models", "unknown"}

ASSUME HttpServeAssumption ==
  /\ Requests \subseteq [method : {"GET", "POST"}, route : Routes, valid : BOOLEAN, stream : BOOLEAN,
                         max_tokens : Int, prompt : Seq(Token)]
  /\ \A r \in Requests : r.prompt # <<>>
  /\ Silent \subseteq Token /\ Faults \subseteq Conn /\ SigPipe \in BOOLEAN
  /\ {Ctx, DefaultWant, WantCap} \subseteq Nat \ {0} /\ DefaultWant <= WantCap
  /\ GenerateCap \in Nat

VARIABLES
  asks,    \* the request of each connection
  client,  \* where each client is
  sent,    \* the parts of its request it has sent
  wire,    \* the frames it was sent
  queue,   \* the connections that wait for accept; from accept to close the first is served
  closed,  \* the connections that were closed
  pc,      \* where the server is
  got,     \* the parts of the request that were received
  todo,    \* the frames to send before the server goes on
  toks,    \* the tokens of the answer
  sess     \* the session

clients == <<asks, client, sent>>
server  == <<pc, got, todo, toks>>
vars    == <<clients, wire, queue, closed, server, sess>>

Init ==
  /\ asks \in [Conn -> Requests]
  /\ client = [c \in Conn |-> "away"]
  /\ sent = [c \in Conn |-> 0]
  /\ wire = [c \in Conn |-> <<>>]
  /\ queue = <<>> /\ closed = {}
  /\ pc = "accept" /\ got = 0 /\ todo = <<>> /\ toks = <<>>
  /\ sess = [ctx |-> <<>>, max_new |-> DefaultWant]

-----------------------------------------------------------------------------
(***************************************************************************)
(* The clients                                                             *)
(***************************************************************************)
Parts(r) == IF r.method = "POST" THEN 3 ELSE 2

Connect(c) ==
  /\ client[c] = "away"
  /\ client' = [client EXCEPT ![c] = "open"]
  /\ queue' = Append(queue, c)
  /\ UNCHANGED <<asks, sent, wire, closed, server, sess>>

SendPart(c) ==
  /\ client[c] = "open" /\ sent[c] < Parts(asks[c])
  /\ sent' = [sent EXCEPT ![c] = @ + 1]
  /\ UNCHANGED <<asks, client, wire, queue, closed, server, sess>>

\* The client sends no more, but still reads.
Shut(c) ==
  /\ client[c] = "open"
  /\ client' = [client EXCEPT ![c] = "ended"]
  /\ UNCHANGED <<asks, sent, wire, queue, closed, server, sess>>

Leave(c) ==
  /\ client[c] \in {"open", "ended"} /\ c \notin closed
  /\ client' = [client EXCEPT ![c] = "gone"]
  /\ UNCHANGED <<asks, sent, wire, queue, closed, server, sess>>

-----------------------------------------------------------------------------
(***************************************************************************)
(* Receiving a request                                                     *)
(***************************************************************************)
cur == Head(queue)
req == asks[cur]

Accept ==
  /\ pc = "accept" /\ queue # <<>>
  /\ pc' = "headers" /\ got' = 0
  /\ UNCHANGED <<clients, wire, queue, closed, todo, toks, sess>>

\* recv returns something, or nothing.  There is no timeout.
Received == \E n \in (got + 1)..sent[cur] : got' = n
HungUp == client[cur] = "gone" \/ (client[cur] = "ended" /\ sent[cur] = got)

\* Until the empty line after the headers, or the end.
RecvHeaders ==
  /\ pc = "headers"
  /\ \/ /\ Received
        /\ pc' = IF got' < 2 THEN "headers"
                 ELSE IF got' < Parts(req) THEN "body" ELSE "handle"
     \/ HungUp /\ pc' = "handle" /\ UNCHANGED got
  /\ UNCHANGED <<clients, wire, queue, closed, todo, toks, sess>>

\* Until as much as the headers announce, or the end.
RecvBody ==
  /\ pc = "body"
  /\ Received \/ (HungUp /\ UNCHANGED got)
  /\ pc' = "handle"
  /\ UNCHANGED <<clients, wire, queue, closed, todo, toks, sess>>

-----------------------------------------------------------------------------
(***************************************************************************)
(* Frames                                                                  *)
(***************************************************************************)
Frame(kind, text, n) == [kind |-> kind, text |-> text, n |-> n]
Event(kind) == Frame(kind, <<>>, 0)

\* A whole response: its status, its text and the number of tokens it reports.
Answer(status, ts) == Frame(status, ts, Len(ts))

Header == Event("sse header")
Error  == Event("error")

Opening(route) ==
  CASE route = "chat"      -> <<Event("role")>>
    [] route = "responses" -> <<Event("response.created")>>
    [] route = "messages"  -> <<Event("message_start"), Event("content_block_start")>>

Delta(t) == IF t \in Silent THEN <<>> ELSE <<Frame("delta", <<t>>, 0)>>

Closing(route, ts) ==
  CASE route = "chat"      -> <<Frame("stop", <<>>, Len(ts)), Event("[DONE]")>>
    [] route = "responses" -> <<Frame("response.completed", ts, Len(ts))>>
    [] route = "messages"  -> <<Event("content_block_stop"), Frame("message_delta", <<>>, Len(ts)),
                                Event("message_stop")>>

\* The next frame is written.  If the client has gone the write may still seem
\* to succeed; if it fails the stream ends, the result of writing the header
\* not being looked at; and where SIGPIPE is not ignored the process may end.
Emit ==
  /\ todo # <<>>
  /\ IF client[cur] # "gone"
     THEN wire' = [wire EXCEPT ![cur] = Append(@, Head(todo))] /\ todo' = Tail(todo) /\ UNCHANGED pc
     ELSE /\ UNCHANGED wire
          /\ \/ todo' = Tail(todo) /\ UNCHANGED pc
             \/ todo' = <<>> /\ pc' = IF Head(todo) = Header THEN pc ELSE "close"
             \/ SigPipe /\ todo' = <<>> /\ pc' = "dead"
  /\ UNCHANGED <<clients, queue, closed, got, toks, sess>>

-----------------------------------------------------------------------------
(***************************************************************************)
(* Handling a request                                                      *)
(***************************************************************************)
Ready(where) == pc = where /\ todo = <<>>

\* Faulty variant: no cap.
WantedUncapped(r) == IF r.max_tokens <= 0 THEN DefaultWant ELSE r.max_tokens

Wanted(r) == IF r.max_tokens <= 0 THEN DefaultWant ELSE Min({r.max_tokens, WantCap})

\* The status of a request of which n parts came and which generates nothing, or "".
Status(r, n) ==
  IF n > 0 /\ r.method = "GET" /\ r.route \in {"health", "models"} THEN "200"
  ELSE IF n = 0 \/ r.method # "POST" THEN "405"
  ELSE IF r.route \notin Generating THEN "404"
  ELSE IF n < 3 \/ ~r.valid THEN "400" ELSE ""

\* What the code has of the request decides between a stream, whose header is
\* written at once, and one response at the end.
Handle ==
  /\ Ready("handle")
  /\ IF Status(req, got) # "" THEN todo' = <<Answer(Status(req, got), <<>>)>> /\ pc' = "close"
     ELSE IF req.stream THEN todo' = <<Header>> /\ pc' = "prefill"
     ELSE pc' = "generate" /\ UNCHANGED todo
  /\ sess' = IF pc' = "close" THEN sess ELSE [sess EXCEPT !.max_new = Wanted(req)]
  /\ UNCHANGED <<clients, wire, queue, closed, got, toks>>

\* The first n tokens greedy decoding produces from ctx.
Continued(ctx, n) ==
  LET After[k \in 0..n] ==
        IF k = 0 THEN <<>> ELSE LET ts == After[k - 1] IN Append(ts, Greedy(ctx \o ts))
  IN  After[n]

Refused(ids) == Len(ids) > Ctx

\* What rapidllm_generate may produce from a prompt, and what the logits may
\* give after a context: neither the session nor the server looks whether the
\* cache has a row for the next token.
Produces(ids, n) ==
  IF n <= GenerateCap /\ Len(ids) + n <= Ctx THEN {Continued(ids, n)} ELSE [1..n -> Token]
NextTokens(ctx) == IF Len(ctx) <= Ctx THEN {Greedy(ctx)} ELSE Token

\* A call of the session fails for the prompt or for the device.  A device that
\* fails leaves any part of what it was given.
Fails(given) ==
  \/ Refused(req.prompt) /\ UNCHANGED sess
  \/ cur \in Faults /\ \E n \in 0..Len(given) : sess' = [sess EXCEPT !.ctx = SubSeq(given, 1, n)]

\* rapidllm_generate.
Generate ==
  /\ Ready("generate")
  /\ \E ts \in Produces(req.prompt, Min({sess.max_new, Wanted(req)})) :
       \/ /\ ~Refused(req.prompt)
          /\ toks' = ts
          /\ sess' = [sess EXCEPT !.ctx = req.prompt \o ts]
          /\ todo' = <<Answer("200", ts)>>
       \/ Fails(req.prompt \o ts) /\ todo' = <<Answer("500", <<>>)>> /\ UNCHANGED toks
  /\ pc' = "close"
  /\ UNCHANGED <<clients, wire, queue, closed, got>>

\* Faulty variant: the session goes on from its context.
PrefillOnTop ==
  /\ Ready("prefill")
  /\ \/ /\ ~Refused(req.prompt)
        /\ sess' = [sess EXCEPT !.ctx = @ \o req.prompt]
        /\ todo' = Opening(req.route) /\ pc' = "sample"
     \/ Fails(req.prompt) /\ todo' = <<Error>> /\ pc' = "close"
  /\ UNCHANGED <<clients, wire, queue, closed, got, toks>>

Prefill ==
  /\ Ready("prefill")
  /\ \/ /\ ~Refused(req.prompt)
        /\ sess' = [sess EXCEPT !.ctx = req.prompt]
        /\ todo' = Opening(req.route) /\ pc' = "sample"
     \/ Fails(req.prompt) /\ todo' = <<Error>> /\ pc' = "close"
  /\ UNCHANGED <<clients, wire, queue, closed, got, toks>>

Sample ==
  /\ Ready("sample")
  /\ \E t \in NextTokens(sess.ctx) : toks' = Append(toks, t) /\ todo' = Delta(t)
  /\ pc' = IF Len(toks') < Wanted(req) THEN "decode" ELSE "finish"
  /\ UNCHANGED <<clients, wire, queue, closed, got, sess>>

\* decode_token does not ask whether the context is full.  An error in a stream
\* that has begun ends it without its closing events.
Decode ==
  /\ Ready("decode")
  /\ LET ctx == Append(sess.ctx, toks[Len(toks)])
     IN  \/ sess' = [sess EXCEPT !.ctx = ctx] /\ pc' = "sample" /\ UNCHANGED todo
         \/ /\ cur \in Faults
            /\ sess' \in {sess, [sess EXCEPT !.ctx = ctx]}
            /\ todo' = <<Error>> /\ pc' = "close"
  /\ UNCHANGED <<clients, wire, queue, closed, got, toks>>

Finish ==
  /\ Ready("finish")
  /\ todo' = Closing(req.route, toks) /\ pc' = "close"
  /\ UNCHANGED <<clients, wire, queue, closed, got, toks, sess>>

\* Faulty variant: a connection that hung up is left open.
CloseConnected ==
  /\ Ready("close") /\ client[cur] # "gone"
  /\ closed' = closed \cup {cur} /\ queue' = Tail(queue)
  /\ pc' = "accept" /\ got' = 0 /\ toks' = <<>>
  /\ UNCHANGED <<clients, wire, todo, sess>>

CloseConnection ==
  /\ Ready("close")
  /\ closed' = closed \cup {cur} /\ queue' = Tail(queue)
  /\ pc' = "accept" /\ got' = 0 /\ toks' = <<>>
  /\ UNCHANGED <<clients, wire, todo, sess>>

-----------------------------------------------------------------------------
ClientStep == \E c \in Conn : Connect(c) \/ SendPart(c) \/ Shut(c) \/ Leave(c)

ServerStep ==
  \/ Accept \/ RecvHeaders \/ RecvBody \/ Handle \/ Emit \/ Generate
  \/ Prefill \/ Sample \/ Decode \/ Finish \/ CloseConnection

Next == ClientStep \/ ServerStep

\* The server goes on when it can; nothing is assumed of the clients.
Spec == Init /\ [][Next]_vars /\ WF_vars(ServerStep)
=============================================================================
