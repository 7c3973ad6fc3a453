---------------------------- MODULE HttpProofs ----------------------------
(***************************************************************************)
(* The server's queue, its answer and its session keep their types,        *)
(* whatever clients send and whenever they leave, and what is sent keeps   *)
(* the promise of Answers.                                                 *)
(***************************************************************************)
EXTENDS HttpProps, SequenceTheorems, TLAPS

Positions == INSTANCE NgramProofs WITH MaxLen <- 0, MaxTake <- 0, ctx <- queue

\* What greedy decoding gives for a context that is not empty is a token.
GreedyIsToken == \A ctx \in Seq(Token) : ctx # <<>> => Greedy(ctx) \in Token

-----------------------------------------------------------------------------
(***************************************************************************)
(* The tokens greedy decoding produces                                     *)
(***************************************************************************)
\* f[k] is the first k of at most n tokens that continue ctx.
Continues(f, ctx, n) ==
  f = [k \in 0..n |-> IF k = 0 THEN <<>> ELSE LET ts == f[k - 1] IN Append(ts, Greedy(ctx \o ts))]

LEMMA ContinuesType ==
  ASSUME GreedyIsToken, NEW ctx \in Seq(Token), ctx # <<>>, NEW n \in Nat, NEW f, Continues(f, ctx, n)
  PROVE  \A k \in 0..n : f[k] \in Seq(Token) /\ Len(f[k]) = k
<1> DEFINE G == {k \in 0..n : f[k] \in Seq(Token) /\ Len(f[k]) = k}
<1>1. 0 \in G
  <2>1. f[0] = <<>>
    BY DEF Continues
  <2>2. <<>> \in Seq(Token) /\ Len(<<>>) = 0
    OBVIOUS
  <2>3. f[0] \in Seq(Token) /\ Len(f[0]) = 0
    BY <2>1, <2>2
  <2>4. QED
    BY <2>3
<1>2. ASSUME NEW m \in 0..(n - 1), m \in G PROVE m + 1 \in G
  <2> DEFINE ts == f[m]
             t == Greedy(ctx \o ts)
  <2>1. ts \in Seq(Token) /\ Len(ts) = m /\ m + 1 \in 0..n /\ m + 1 # 0 /\ (m + 1) - 1 = m
    BY <1>2
  <2> DEFINE F(k) == IF k = 0 THEN <<>> ELSE Append(f[k - 1], Greedy(ctx \o f[k - 1]))
  <2>2. f[m + 1] = Append(ts, t)
    <3>1. f = [k \in 0..n |-> F(k)]
      BY DEF Continues
    <3>2. F(m + 1) = Append(ts, t)
      BY <2>1
    <3> HIDE DEF F
    <3>3. f[m + 1] = F(m + 1)
      BY <2>1, <3>1
    <3>4. QED
      BY <3>2, <3>3
  <2> HIDE DEF ts
  <2>3. ctx \o ts \in Seq(Token) /\ ctx \o ts # <<>>
    <3>1. ctx \o ts \in Seq(Token) /\ Len(ctx \o ts) = Len(ctx) + Len(ts) /\ Len(ctx) > 0
      BY <2>1
    <3> DEFINE c == ctx \o ts
    <3> HIDE DEF c
    <3>2. c \in Seq(Token) /\ Len(c) # 0
      BY <2>1, <3>1 DEF c
    <3>3. c # <<>>
      BY <3>2
    <3>4. QED
      BY <3>2, <3>3 DEF c
  <2>4. t \in Token
    BY <2>3 DEF GreedyIsToken
  <2> HIDE DEF t
  <2>5. Append(ts, t) \in Seq(Token) /\ Len(Append(ts, t)) = m + 1
    BY <2>1, <2>4
  <2>6. QED
    BY <2>1, <2>2, <2>5
<1> HIDE DEF G
<1>3. Positions!Reaches(G, n)
  BY Positions!Upwards
<1>4. \A m \in 0..n : m \in G
  BY <1>1, <1>2, <1>3 DEF Positions!Reaches
<1>5. QED
  BY <1>4 DEF G

LEMMA ContinuesExists ==
  ASSUME NEW ctx, NEW n \in Nat
  PROVE  \E f : Continues(f, ctx, n)
<1> DEFINE G == {m \in 0..n : \E f : Continues(f, ctx, m)}
<1>1. 0 \in G
  <2> DEFINE f == [k \in 0..0 |-> <<>>]
  <2>1. f = [k \in 0..0 |-> IF k = 0 THEN <<>> ELSE LET ts == f[k - 1] IN Append(ts, Greedy(ctx \o ts))]
    OBVIOUS
  <2> HIDE DEF f
  <2>2. Continues(f, ctx, 0)
    BY <2>1 DEF Continues
  <2>3. QED
    BY <2>2
<1>2. ASSUME NEW m \in 0..(n - 1), m \in G PROVE m + 1 \in G
  <2>1. PICK f : Continues(f, ctx, m)
    BY <1>2
  <2> DEFINE e == Append(f[m], Greedy(ctx \o f[m]))
             g == [k \in 0..(m + 1) |-> IF k = m + 1 THEN e ELSE f[k]]
             Next1(h, k) == Append(h[k - 1], Greedy(ctx \o h[k - 1]))
  <2>2. g[m + 1] = e /\ \A k \in 0..m : g[k] = f[k]
    <3> HIDE DEF e
    <3>1. QED
      OBVIOUS
  <2>3. f[0] = <<>> /\ \A k \in 1..m : f[k] = Next1(f, k)
    <3>1. f = [k \in 0..m |-> IF k = 0 THEN <<>> ELSE Next1(f, k)]
      BY <2>1 DEF Continues
    <3> HIDE DEF Next1
    <3>2. QED
      BY <3>1
  <2>4. g[0] = <<>>
    BY <2>2, <2>3
  <2>5. ASSUME NEW k \in 1..(m + 1) PROVE g[k] = Next1(g, k)
    <3>1. k - 1 \in 0..m /\ g[k - 1] = f[k - 1]
      BY <2>2
    <3>2. Next1(g, k) = Next1(f, k)
      BY <3>1
    <3>3. CASE k = m + 1
      <4>1. k - 1 = m
        BY <3>3
      <4>2. Next1(f, k) = e
        BY <4>1
      <4> HIDE DEF g, e, Next1
      <4>3. QED
        BY <2>2, <3>2, <3>3, <4>2
    <3>4. CASE k # m + 1
      <4>1. k \in 1..m
        BY <3>4
      <4> HIDE DEF g, Next1
      <4>2. QED
        BY <2>2, <2>3, <3>2, <4>1
    <3>5. QED
      BY <3>3, <3>4
  <2>6. g = [k \in 0..(m + 1) |-> IF k = 0 THEN <<>> ELSE Next1(g, k)]
    <3>1. \A k \in 0..(m + 1) : g[k] = IF k = 0 THEN <<>> ELSE Next1(g, k)
      <4> HIDE DEF g, Next1
      <4>1. QED
        BY <2>4, <2>5
    <3>2. g = [k \in 0..(m + 1) |-> g[k]]
      OBVIOUS
    <3> HIDE DEF g, Next1
    <3>3. QED
      BY <3>1, <3>2
  <2> HIDE DEF g
  <2>7. Continues(g, ctx, m + 1)
    BY <2>6 DEF Continues
  <2>8. QED
    BY <2>7
<1> HIDE DEF G
<1>3. Positions!Reaches(G, n)
  BY Positions!Upwards
<1>4. n \in G
  BY <1>1, <1>2, <1>3 DEF Positions!Reaches
<1>5. QED
  BY <1>4 DEF G

LEMMA ContinuedType ==
  ASSUME GreedyIsToken, NEW ctx \in Seq(Token), ctx # <<>>, NEW n \in Nat
  PROVE  Continued(ctx, n) \in Seq(Token) /\ Len(Continued(ctx, n)) = n
<1> DEFINE f == CHOOSE h : Continues(h, ctx, n)
<1>1. Continues(f, ctx, n)
  BY ContinuesExists
<1>2. Continued(ctx, n) = f[n]
  BY DEF Continued, Continues
<1> HIDE DEF f
<1>3. QED
  BY <1>1, <1>2, ContinuesType

-----------------------------------------------------------------------------
(***************************************************************************)
(* The invariant                                                           *)
(***************************************************************************)
ClientsOK ==
  /\ asks \in [Conn -> Requests] /\ client \in [Conn -> {"away", "open", "ended", "gone"}]
  /\ sent \in [Conn -> 0..3] /\ \A c \in Conn : sent[c] \in 0..Parts(asks[c])

FramesOK == wire \in [Conn -> Frames] /\ todo \in Frames

\* A connection waits once, from when its client connects to when it is closed.
Line ==
  /\ queue \in Seq(Conn) /\ closed \subseteq Conn
  /\ \A i \in 1..Len(queue) : queue[i] \notin closed /\ client[queue[i]] # "away"
  /\ \A i, j \in 1..Len(queue) : queue[i] = queue[j] => i = j
  /\ \A c \in closed : client[c] # "away"

AnswerOK ==
  /\ got \in 0..3 /\ toks \in Seq(Token) /\ Len(toks) <= WantCap
  /\ sess \in [ctx : Seq(Token), max_new : 1..WantCap]

\* What is known at each point of the answer.
Serving ==
  /\ pc \in {"accept", "headers", "body", "handle", "generate", "prefill", "sample", "decode", "finish",
             "close", "dead"}
  /\ pc # "accept" => queue # <<>>
  /\ pc \in {"accept", "headers", "body", "dead"} => todo = <<>>
  /\ pc \in {"accept", "headers", "body", "handle", "generate", "prefill"} => toks = <<>>
  /\ pc \in {"generate", "prefill", "sample", "decode", "finish"} => req.route \in Generating
  /\ pc \in {"sample", "decode"} => sess.ctx # <<>> /\ Len(toks) < Wanted(req)
  /\ pc = "decode" => toks # <<>>

HInv == ClientsOK /\ FramesOK /\ Line /\ AnswerOK /\ Serving

LEMMA RequestType ==
  ASSUME NEW r \in Requests
  PROVE  /\ r.method \in {"GET", "POST"} /\ r.route \in Routes /\ r.stream \in BOOLEAN
         /\ r.prompt \in Seq(Token) /\ r.prompt # <<>> /\ Parts(r) \in 2..3
         /\ Wanted(r) \in 1..WantCap /\ Wanted(r) \in Nat
<1>1. /\ r \in [method : {"GET", "POST"}, route : Routes, valid : BOOLEAN, stream : BOOLEAN,
                 max_tokens : Int, prompt : Seq(Token)]
      /\ r.prompt # <<>>
  BY HttpServeAssumption
<1>2. r.max_tokens \in Int
  BY <1>1
<1> DEFINE m == r.max_tokens
<1>3. WantCap \in Nat /\ DefaultWant \in Nat /\ DefaultWant >= 1 /\ WantCap >= 1 /\ DefaultWant <= WantCap
  BY HttpServeAssumption
<1>4. Wanted(r) = IF m <= 0 THEN DefaultWant ELSE Min({m, WantCap})
  BY DEF Wanted
<1>5. m \in Int
  BY <1>2
<1> HIDE DEF m
<1>6. Min({m, WantCap}) = IF m <= WantCap THEN m ELSE WantCap
  BY <1>3, <1>5 DEF Min
<1>7. Wanted(r) \in 1..WantCap
  BY <1>3, <1>4, <1>5, <1>6
<1>8. Wanted(r) \in Nat
  BY <1>3, <1>7
<1>9. QED
  BY <1>1, <1>7, <1>8 DEF Parts

-----------------------------------------------------------------------------
(***************************************************************************)
(* Frames                                                                  *)
(***************************************************************************)
Fr == [kind : Kinds, text : Seq(Token), n : 0..WantCap]

LEMMA FrameType ==
  ASSUME NEW kind \in Kinds, NEW ts \in Seq(Token), NEW n \in 0..WantCap
  PROVE  Frame(kind, ts, n) \in Fr
BY DEF Frame, Fr

LEMMA EventType == ASSUME NEW kind \in Kinds PROVE Event(kind) \in Fr
<1>1. <<>> \in Seq(Token) /\ 0 \in 0..WantCap
  BY HttpServeAssumption
<1>2. QED
  BY <1>1, FrameType DEF Event

LEMMA SeqOfFrames ==
  /\ <<>> \in Frames
  /\ \A a \in Fr : <<a>> \in Frames
  /\ \A a, b \in Fr : <<a, b>> \in Frames
  /\ \A a, b, c \in Fr : <<a, b, c>> \in Frames
<1>1. Frames = Seq(Fr)
  BY DEF Frames, Fr
<1>2. QED
  BY <1>1

LEMMA ShortToks ==
  ASSUME NEW ts \in Seq(Token), Len(ts) <= WantCap
  PROVE  Len(ts) \in 0..WantCap
BY HttpServeAssumption

LEMMA AnswerType ==
  ASSUME NEW status \in {"200", "400", "404", "405", "500"}, NEW ts \in Seq(Token), Len(ts) <= WantCap
  PROVE  <<Answer(status, ts)>> \in Frames
<1>1. status \in Kinds
  BY DEF Kinds
<1>2. Len(ts) \in 0..WantCap
  BY ShortToks
<1>3. Answer(status, ts) \in Fr
  BY <1>1, <1>2, FrameType DEF Answer
<1>4. QED
  BY <1>3, SeqOfFrames

LEMMA HeaderType == <<Header>> \in Frames /\ <<Error>> \in Frames
<1>1. Header \in Fr /\ Error \in Fr
  BY EventType DEF Header, Error, Kinds
<1>2. QED
  BY <1>1, SeqOfFrames

LEMMA OpeningType == ASSUME NEW route \in Generating PROVE Opening(route) \in Frames
<1>1. /\ Event("role") \in Fr /\ Event("response.created") \in Fr /\ Event("message_start") \in Fr
      /\ Event("content_block_start") \in Fr
  BY EventType DEF Kinds
<1>2. CASE route = "chat"
  BY <1>1, <1>2, SeqOfFrames DEF Opening
<1>3. CASE route = "responses"
  BY <1>1, <1>3, SeqOfFrames DEF Opening
<1>4. CASE route = "messages"
  BY <1>1, <1>4, SeqOfFrames DEF Opening
<1>5. QED
  BY <1>2, <1>3, <1>4 DEF Generating

LEMMA ClosingType ==
  ASSUME NEW route \in Generating, NEW ts \in Seq(Token), Len(ts) <= WantCap
  PROVE  Closing(route, ts) \in Frames
<1>1. /\ Event("[DONE]") \in Fr /\ Event("content_block_stop") \in Fr /\ Event("message_stop") \in Fr
  BY EventType DEF Kinds
<1>2. <<>> \in Seq(Token) /\ Len(ts) \in 0..WantCap
  BY ShortToks
<1>3. /\ Frame("stop", <<>>, Len(ts)) \in Fr /\ Frame("response.completed", ts, Len(ts)) \in Fr
      /\ Frame("message_delta", <<>>, Len(ts)) \in Fr
  BY <1>2, FrameType DEF Kinds
<1>4. CASE route = "chat"
  BY <1>1, <1>3, <1>4, SeqOfFrames DEF Closing
<1>5. CASE route = "responses"
  BY <1>1, <1>3, <1>5, SeqOfFrames DEF Closing
<1>6. CASE route = "messages"
  BY <1>1, <1>3, <1>6, SeqOfFrames DEF Closing
<1>7. QED
  BY <1>4, <1>5, <1>6 DEF Generating

LEMMA DeltaType == ASSUME NEW t \in Token PROVE Delta(t) \in Frames
<1>1. <<t>> \in Seq(Token) /\ 0 \in 0..WantCap /\ "delta" \in Kinds
  BY HttpServeAssumption DEF Kinds
<1>2. Frame("delta", <<t>>, 0) \in Fr
  BY <1>1, FrameType
<1>3. QED
  BY <1>2, SeqOfFrames DEF Delta

-----------------------------------------------------------------------------
(***************************************************************************)
(* The clients                                                             *)
(***************************************************************************)
\* The request being answered is that of the first connection that waits.
LEMMA CurType ==
  ASSUME HInv, queue # <<>>
  PROVE  cur \in Conn /\ cur = queue[1] /\ Len(queue) >= 1 /\ req \in Requests
<1>1. queue \in Seq(Conn) /\ asks \in [Conn -> Requests]
  BY DEF HInv, Line, ClientsOK
<1>2. Len(queue) >= 1 /\ cur = queue[1]
  BY <1>1 DEF cur
<1>3. cur \in Conn
  BY <1>1, <1>2
<1>4. QED
  BY <1>1, <1>2, <1>3 DEF req

\* Of the server's state only the line has changed, and not its head.
LEMMA ServingStays ==
  ASSUME Serving, UNCHANGED server, UNCHANGED sess, asks' = asks,
         queue # <<>> => queue' # <<>> /\ cur' = cur
  PROVE  Serving'
<1>1. pc' = pc /\ todo' = todo /\ toks' = toks /\ sess' = sess
  BY DEF server
<1>2. pc # "accept" => req' = req
  BY DEF Serving, req
<1>3. QED
  BY <1>1, <1>2 DEF Serving

LEMMA ConnectInv ==
  ASSUME HInv, NEW c \in Conn, Connect(c)
  PROVE  HInv'
<1>1. /\ client[c] = "away" /\ client' = [client EXCEPT ![c] = "open"] /\ queue' = Append(queue, c)
      /\ asks' = asks /\ sent' = sent /\ wire' = wire /\ closed' = closed /\ UNCHANGED server /\ sess' = sess
  BY DEF Connect
<1>2. /\ asks \in [Conn -> Requests] /\ client \in [Conn -> {"away", "open", "ended", "gone"}]
      /\ queue \in Seq(Conn) /\ closed \subseteq Conn
      /\ \A i \in 1..Len(queue) : queue[i] \notin closed /\ client[queue[i]] # "away"
      /\ \A i, j \in 1..Len(queue) : queue[i] = queue[j] => i = j
      /\ \A d \in closed : client[d] # "away"
  BY DEF HInv, ClientsOK, Line
<1>3. /\ client' \in [Conn -> {"away", "open", "ended", "gone"}]
      /\ \A d \in Conn : client[d] # "away" => client'[d] # "away"
      /\ client'[c] # "away"
  BY <1>1, <1>2
<1>4. ClientsOK'
  BY <1>1, <1>3 DEF HInv, ClientsOK
<1>5. Line'
  <2> DEFINE n == Len(queue)
             q == Append(queue, c)
  <2>1. /\ n \in Nat /\ q \in Seq(Conn) /\ Len(q) = n + 1 /\ q[n + 1] = c
        /\ \A i \in 1..n : q[i] = queue[i] /\ queue[i] \in Conn
    BY <1>2
  <2>2. c \notin closed /\ \A i \in 1..n : queue[i] # c
    BY <1>1, <1>2
  <2> HIDE DEF n, q
  <2>3. \A i \in 1..(n + 1) : i \in 1..n \/ i = n + 1
    BY <2>1
  <2>4. \A i \in 1..n : queue[i] \notin closed /\ client'[queue[i]] # "away"
    BY <1>2, <1>3, <2>1 DEF n
  <2>5. \A i \in 1..(n + 1) : q[i] \notin closed /\ client'[q[i]] # "away"
    BY <1>3, <2>1, <2>2, <2>3, <2>4
  <2>6. \A i, j \in 1..n : queue[i] = queue[j] => i = j
    BY <1>2 DEF n
  <2>7. \A i, j \in 1..(n + 1) : q[i] = q[j] => i = j
    BY <2>1, <2>2, <2>3, <2>6
  <2>8. \A d \in closed : client'[d] # "away"
    BY <1>2, <1>3
  <2>9. queue' = q /\ closed' = closed
    BY <1>1 DEF q
  <2>10. QED
    BY <1>2, <2>1, <2>5, <2>7, <2>8, <2>9 DEF Line
<1>6. queue # <<>> => queue' # <<>> /\ cur' = cur
  BY <1>1, <1>2 DEF cur
<1>7. Serving'
  BY <1>1, <1>6, ServingStays DEF HInv
<1>8. FramesOK' /\ AnswerOK'
  BY <1>1 DEF HInv, FramesOK, AnswerOK, server
<1>9. QED
  BY <1>4, <1>5, <1>7, <1>8 DEF HInv

LEMMA SendPartInv ==
  ASSUME HInv, NEW c \in Conn, SendPart(c)
  PROVE  HInv'
<1>1. /\ sent[c] < Parts(asks[c]) /\ sent' = [sent EXCEPT ![c] = @ + 1] /\ asks' = asks /\ client' = client
      /\ wire' = wire /\ queue' = queue /\ closed' = closed /\ UNCHANGED server /\ sess' = sess
  BY DEF SendPart
<1>2. asks \in [Conn -> Requests] /\ sent \in [Conn -> 0..3] /\ \A d \in Conn : sent[d] \in 0..Parts(asks[d])
  BY DEF HInv, ClientsOK
<1>3. asks[c] \in Requests
  BY <1>2
<1>4. Parts(asks[c]) \in 2..3
  BY <1>3, RequestType
<1> DEFINE m == sent[c] + 1
<1>5. m \in 0..3 /\ m \in 0..Parts(asks[c])
  BY <1>1, <1>2, <1>4
<1>6. sent' = [sent EXCEPT ![c] = m]
  BY <1>1
<1> HIDE DEF m
<1>7. sent' \in [Conn -> 0..3] /\ \A d \in Conn : sent'[d] \in 0..Parts(asks[d])
  BY <1>2, <1>5, <1>6
<1>8. ClientsOK'
  BY <1>1, <1>7 DEF HInv, ClientsOK
<1>9. Serving'
  BY <1>1, ServingStays DEF HInv, cur
<1>10. QED
  BY <1>1, <1>8, <1>9 DEF HInv, FramesOK, AnswerOK, Line, server

\* A client that shuts its side or leaves was connected and stays known as such.
LEMMA DepartureInv ==
  ASSUME HInv, NEW c \in Conn, NEW to \in {"ended", "gone"}, client' = [client EXCEPT ![c] = to],
         UNCHANGED <<asks, sent, wire, queue, closed, server, sess>>
  PROVE  HInv'
<1>1. client \in [Conn -> {"away", "open", "ended", "gone"}]
  BY DEF HInv, ClientsOK
<1>2. /\ client' \in [Conn -> {"away", "open", "ended", "gone"}]
      /\ \A d \in Conn : client[d] # "away" => client'[d] # "away"
  BY <1>1
<1>3. ClientsOK'
  BY <1>2 DEF HInv, ClientsOK
<1>4. Line'
  <2>1. queue \in Seq(Conn) /\ \A i \in 1..Len(queue) : queue[i] \in Conn
    BY DEF HInv, Line
  <2>2. QED
    BY <1>2, <2>1 DEF HInv, Line
<1>5. Serving'
  BY ServingStays DEF HInv, cur
<1>6. QED
  BY <1>3, <1>4, <1>5 DEF HInv, FramesOK, AnswerOK, server

LEMMA ClientInv ==
  ASSUME HInv, ClientStep
  PROVE  HInv'
<1>1. PICK c \in Conn : Connect(c) \/ SendPart(c) \/ Shut(c) \/ Leave(c)
  BY DEF ClientStep
<1>2. CASE Connect(c)
  BY <1>2, ConnectInv
<1>3. CASE SendPart(c)
  BY <1>3, SendPartInv
<1>4. CASE Shut(c)
  BY <1>4, DepartureInv DEF Shut
<1>5. CASE Leave(c)
  BY <1>5, DepartureInv DEF Leave
<1>6. QED
  BY <1>1, <1>2, <1>3, <1>4, <1>5

-----------------------------------------------------------------------------
(***************************************************************************)
(* The server                                                              *)
(***************************************************************************)
\* A step of the server between accepting a connection and closing it.
LEMMA ServerStepInv ==
  ASSUME HInv, UNCHANGED <<clients, queue, closed>>, queue # <<>>, FramesOK', AnswerOK', Serving'
  PROVE  HInv'
BY DEF HInv, ClientsOK, Line, clients

LEMMA AcceptInv ==
  ASSUME HInv, Accept
  PROVE  HInv'
<1>1. /\ pc = "accept" /\ queue # <<>> /\ pc' = "headers" /\ got' = 0
      /\ UNCHANGED <<clients, wire, queue, closed, todo, toks, sess>>
  BY DEF Accept
<1>2. FramesOK' /\ AnswerOK' /\ Serving'
  BY <1>1 DEF HInv, FramesOK, AnswerOK, Serving, clients, req, cur
<1>3. QED
  BY <1>1, <1>2, ServerStepInv

\* Parts that were received are no more than a request has.
LEMMA ReceivedType ==
  ASSUME HInv, queue # <<>>, Received \/ (HungUp /\ UNCHANGED got)
  PROVE  got' \in 0..3
<1>1. cur \in Conn /\ sent \in [Conn -> 0..3] /\ got \in 0..3
  BY CurType DEF HInv, ClientsOK, AnswerOK
<1>2. sent[cur] \in 0..3
  BY <1>1
<1>3. QED
  BY <1>1, <1>2 DEF Received

LEMMA RecvInv ==
  ASSUME HInv, RecvHeaders \/ RecvBody
  PROVE  HInv'
<1>1. /\ pc \in {"headers", "body"} /\ pc' \in {"headers", "body", "handle"}
      /\ Received \/ (HungUp /\ UNCHANGED got)
      /\ UNCHANGED <<clients, wire, queue, closed, todo, toks, sess>>
  BY DEF RecvHeaders, RecvBody
<1>2. queue # <<>>
  BY <1>1 DEF HInv, Serving
<1>3. got' \in 0..3
  BY <1>1, <1>2, ReceivedType
<1>4. FramesOK' /\ AnswerOK' /\ Serving'
  BY <1>1, <1>3 DEF HInv, FramesOK, AnswerOK, Serving, clients, req, cur
<1>5. QED
  BY <1>1, <1>2, <1>4, ServerStepInv

\* One frame less is to be sent, or none.
LEMMA EmitInv ==
  ASSUME HInv, Emit
  PROVE  HInv'
<1>1. todo # <<>> /\ UNCHANGED <<clients, queue, closed, got, toks, sess>>
  BY DEF Emit
<1>2. pc \notin {"accept", "headers", "body", "dead"} /\ queue # <<>>
  BY <1>1 DEF HInv, Serving
<1>3. wire \in [Conn -> Frames] /\ todo \in Seq(Fr) /\ Frames = Seq(Fr)
  BY DEF HInv, FramesOK, Frames, Fr
<1>4. Tail(todo) \in Frames /\ Head(todo) \in Fr /\ <<>> \in Frames
  BY <1>1, <1>3
<1>5. todo' \in Frames
  BY <1>4 DEF Emit
<1>6. wire' \in [Conn -> Frames]
  <2>1. CASE wire' = wire
    BY <1>3, <2>1
  <2>2. CASE wire' = [wire EXCEPT ![cur] = Append(@, Head(todo))]
    <3> DEFINE w == Append(wire[cur], Head(todo))
    <3>1. cur \in Conn
      BY <1>2, CurType
    <3>2. w \in Frames
      BY <1>3, <1>4, <3>1
    <3>3. wire' = [wire EXCEPT ![cur] = w]
      BY <2>2
    <3> HIDE DEF w
    <3>4. QED
      BY <1>3, <3>2, <3>3
  <2>3. QED
    BY <2>1, <2>2 DEF Emit
<1>7. pc' = pc \/ (todo' = <<>> /\ pc' \in {"close", "dead"})
  BY DEF Emit
<1>8. FramesOK' /\ AnswerOK'
  BY <1>1, <1>5, <1>6 DEF HInv, FramesOK, AnswerOK
<1>9. Serving'
  BY <1>1, <1>2, <1>7 DEF HInv, Serving, clients, req, cur
<1>10. QED
  BY <1>1, <1>2, <1>8, <1>9, ServerStepInv

LEMMA StatusType ==
  ASSUME NEW r, NEW n
  PROVE  /\ Status(r, n) \in {"", "200", "400", "404", "405"}
         /\ Status(r, n) = "" => r.route \in Generating
BY DEF Status

LEMMA HandleInv ==
  ASSUME HInv, Handle
  PROVE  HInv'
<1>1. pc = "handle" /\ todo = <<>> /\ UNCHANGED <<clients, wire, queue, closed, got, toks>>
  BY DEF Handle, Ready
<1>2. queue # <<>> /\ toks = <<>>
  BY <1>1 DEF HInv, Serving
<1>3. req \in Requests /\ Wanted(req) \in 1..WantCap
  BY <1>2, CurType, RequestType
<1>4. req' = req
  BY <1>1 DEF clients, req, cur
<1>5. \/ todo' = <<Answer(Status(req, got), <<>>)>> /\ pc' = "close" /\ Status(req, got) # ""
      \/ todo' = <<Header>> /\ pc' = "prefill" /\ Status(req, got) = ""
      \/ todo' = todo /\ pc' = "generate" /\ Status(req, got) = ""
  BY DEF Handle
<1>6. todo' \in Frames
  <2>1. <<>> \in Seq(Token) /\ Len(<<>>) <= WantCap
    BY HttpServeAssumption
  <2>2. CASE Status(req, got) # ""
    <3>1. Status(req, got) \in {"200", "400", "404", "405", "500"}
      BY <2>2, StatusType
    <3>2. <<Answer(Status(req, got), <<>>)>> \in Frames
      BY <2>1, <3>1, AnswerType
    <3>3. QED
      BY <1>5, <2>2, <3>2
  <2>3. CASE Status(req, got) = ""
    BY <1>5, <2>3, HeaderType DEF HInv, FramesOK
  <2>4. QED
    BY <2>2, <2>3
<1>7. sess' \in [ctx : Seq(Token), max_new : 1..WantCap]
  <2>1. sess' = sess \/ sess' = [sess EXCEPT !.max_new = Wanted(req)]
    BY DEF Handle
  <2>2. sess \in [ctx : Seq(Token), max_new : 1..WantCap]
    BY DEF HInv, AnswerOK
  <2> DEFINE w == Wanted(req)
  <2>3. w \in 1..WantCap /\ (sess' = sess \/ sess' = [sess EXCEPT !.max_new = w])
    BY <1>3, <2>1
  <2> HIDE DEF w
  <2>4. QED
    BY <2>2, <2>3
<1>8. pc' \in {"generate", "prefill"} => req.route \in Generating
  BY <1>5, StatusType
<1>9. FramesOK' /\ AnswerOK'
  BY <1>1, <1>6, <1>7 DEF HInv, FramesOK, AnswerOK
<1>10. Serving'
  BY <1>1, <1>2, <1>4, <1>5, <1>8 DEF Serving
<1>11. QED
  BY <1>1, <1>2, <1>9, <1>10, ServerStepInv

\* A failure leaves a part of what the session was given, or the session as it was.
LEMMA FailsType ==
  ASSUME HInv, NEW given \in Seq(Token), Fails(given)
  PROVE  sess' \in [ctx : Seq(Token), max_new : 1..WantCap]
<1>1. sess \in [ctx : Seq(Token), max_new : 1..WantCap]
  BY DEF HInv, AnswerOK
<1>2. CASE UNCHANGED sess
  BY <1>1, <1>2
<1>3. CASE \E n \in 0..Len(given) : sess' = [sess EXCEPT !.ctx = SubSeq(given, 1, n)]
  <2>1. PICK n \in 0..Len(given) : sess' = [sess EXCEPT !.ctx = SubSeq(given, 1, n)]
    BY <1>3
  <2> DEFINE c == SubSeq(given, 1, n)
  <2>2. c \in Seq(Token)
    <3>1. n \in Int /\ \A i \in 1..n : given[i] \in Token
      OBVIOUS
    <3>2. QED
      BY <3>1, SubSeqProperties
  <2>3. sess' = [sess EXCEPT !.ctx = c]
    BY <2>1
  <2> HIDE DEF c
  <2>4. QED
    BY <1>1, <2>2, <2>3
<1>4. QED
  BY <1>2, <1>3 DEF Fails

LEMMA ErrorAnswer == <<Answer("500", <<>>)>> \in Frames
<1>1. <<>> \in Seq(Token) /\ Len(<<>>) <= WantCap
  BY HttpServeAssumption
<1>2. QED
  BY <1>1, AnswerType

\* Whatever is produced, it is as many tokens as were asked for.
LEMMA ProducesType ==
  ASSUME GreedyIsToken, NEW ids \in Seq(Token), ids # <<>>, NEW n \in Nat, NEW ts \in Produces(ids, n)
  PROVE  ts \in Seq(Token) /\ Len(ts) = n
<1>1. CASE ts = Continued(ids, n)
  BY <1>1, ContinuedType
<1>2. CASE ts \in [1..n -> Token]
  BY <1>2
<1>3. QED
  BY <1>1, <1>2 DEF Produces

LEMMA NextTokensType ==
  ASSUME GreedyIsToken, NEW ctx \in Seq(Token), ctx # <<>>
  PROVE  NextTokens(ctx) \subseteq Token
BY DEF GreedyIsToken, NextTokens

LEMMA GenerateInv ==
  ASSUME GreedyIsToken, HInv, Generate
  PROVE  HInv'
<1> DEFINE n == Min({sess.max_new, Wanted(req)})
<1>0. PICK ts \in Produces(req.prompt, n) :
        \/ toks' = ts /\ sess' = [sess EXCEPT !.ctx = req.prompt \o ts] /\ todo' = <<Answer("200", ts)>>
        \/ Fails(req.prompt \o ts) /\ todo' = <<Answer("500", <<>>)>> /\ toks' = toks
  BY DEF Generate
<1> DEFINE all == req.prompt \o ts
<1>1. pc = "generate" /\ todo = <<>> /\ pc' = "close" /\ UNCHANGED <<clients, wire, queue, closed, got>>
  BY DEF Generate, Ready
<1>2. queue # <<>> /\ sess \in [ctx : Seq(Token), max_new : 1..WantCap]
  BY <1>1 DEF HInv, Serving, AnswerOK
<1>3. /\ req.prompt \in Seq(Token) /\ req.prompt # <<>> /\ Wanted(req) \in 1..WantCap /\ WantCap \in Nat
  BY <1>2, CurType, RequestType, HttpServeAssumption
<1>4. n \in Nat /\ n <= WantCap
  <2> DEFINE a == sess.max_new
             b == Wanted(req)
  <2>1. a \in 1..WantCap /\ b \in 1..WantCap
    BY <1>2, <1>3
  <2> HIDE DEF a, b
  <2>2. Min({a, b}) = IF a <= b THEN a ELSE b
    BY <1>3, <2>1 DEF Min
  <2>3. QED
    BY <1>3, <2>1, <2>2 DEF a, b
<1> HIDE DEF n
<1>5. ts \in Seq(Token) /\ Len(ts) <= WantCap
  BY <1>0, <1>3, <1>4, ProducesType
<1>6. \/ toks' = ts /\ sess' = [sess EXCEPT !.ctx = all] /\ todo' = <<Answer("200", ts)>>
      \/ Fails(all) /\ todo' = <<Answer("500", <<>>)>> /\ toks' = toks
  BY <1>0
<1>7. all \in Seq(Token)
  BY <1>3, <1>5
<1> HIDE DEF all
<1>8. todo' \in Frames
  BY <1>5, <1>6, AnswerType, ErrorAnswer
<1>9. sess' \in [ctx : Seq(Token), max_new : 1..WantCap]
  BY <1>2, <1>6, <1>7, FailsType
<1>10. toks' \in Seq(Token) /\ Len(toks') <= WantCap
  BY <1>5, <1>6 DEF HInv, AnswerOK
<1>11. FramesOK' /\ AnswerOK'
  BY <1>1, <1>8, <1>9, <1>10 DEF HInv, FramesOK, AnswerOK
<1>12. Serving'
  BY <1>1, <1>2 DEF Serving
<1>13. QED
  BY <1>1, <1>2, <1>11, <1>12, ServerStepInv

LEMMA PrefillInv ==
  ASSUME HInv, Prefill
  PROVE  HInv'
<1> DEFINE p == req.prompt
<1>1. pc = "prefill" /\ UNCHANGED <<clients, wire, queue, closed, got, toks>>
  BY DEF Prefill, Ready
<1>2. /\ queue # <<>> /\ sess \in [ctx : Seq(Token), max_new : 1..WantCap] /\ toks = <<>>
      /\ req.route \in Generating
  BY <1>1 DEF HInv, Serving, AnswerOK
<1>3. p \in Seq(Token) /\ p # <<>> /\ Wanted(req) \in Nat /\ Wanted(req) >= 1
  BY <1>2, CurType, RequestType
<1>4. req' = req
  BY <1>1 DEF clients, req, cur
<1>5. \/ sess' = [sess EXCEPT !.ctx = p] /\ todo' = Opening(req.route) /\ pc' = "sample"
      \/ Fails(p) /\ todo' = <<Error>> /\ pc' = "close"
  BY DEF Prefill
<1> HIDE DEF p
<1>6. todo' \in Frames
  BY <1>2, <1>5, OpeningType, HeaderType
<1>7. sess' \in [ctx : Seq(Token), max_new : 1..WantCap] /\ (pc' = "sample" => sess'.ctx = p)
  <2>1. CASE sess' = [sess EXCEPT !.ctx = p]
    BY <1>2, <1>3, <2>1
  <2>2. CASE Fails(p) /\ pc' = "close"
    BY <1>3, <2>2, FailsType
  <2>3. QED
    BY <1>5, <2>1, <2>2
<1>8. FramesOK' /\ AnswerOK'
  BY <1>1, <1>6, <1>7 DEF HInv, FramesOK, AnswerOK
<1>9. Len(toks') < Wanted(req)
  <2>1. Len(toks') = 0
    BY <1>1, <1>2
  <2>2. QED
    BY <1>3, <2>1
<1>10. Serving'
  BY <1>1, <1>2, <1>3, <1>4, <1>5, <1>7, <1>9 DEF Serving
<1>11. QED
  BY <1>1, <1>2, <1>8, <1>10, ServerStepInv

LEMMA SampleInv ==
  ASSUME GreedyIsToken, HInv, Sample
  PROVE  HInv'
<1>0. PICK t \in NextTokens(sess.ctx) : toks' = Append(toks, t) /\ todo' = Delta(t)
  BY DEF Sample
<1> DEFINE ts == Append(toks, t)
<1>1. /\ pc = "sample" /\ toks' = ts /\ todo' = Delta(t)
      /\ pc' = IF Len(toks') < Wanted(req) THEN "decode" ELSE "finish"
      /\ UNCHANGED <<clients, wire, queue, closed, got, sess>>
  BY <1>0 DEF Sample, Ready
<1>2. /\ queue # <<>> /\ sess \in [ctx : Seq(Token), max_new : 1..WantCap] /\ sess.ctx # <<>>
      /\ toks \in Seq(Token) /\ Len(toks) < Wanted(req) /\ req.route \in Generating
  BY <1>1 DEF HInv, Serving, AnswerOK
<1>3. Wanted(req) \in 1..WantCap /\ WantCap \in Nat
  BY <1>2, CurType, RequestType, HttpServeAssumption
<1>4. t \in Token
  <2>1. sess.ctx \in Seq(Token)
    BY <1>2
  <2>2. QED
    BY <1>0, <1>2, <2>1, NextTokensType
<1>5. req' = req
  BY <1>1 DEF clients, req, cur
<1>6. ts \in Seq(Token) /\ Len(ts) = Len(toks) + 1 /\ Len(toks) \in Nat
  BY <1>2, <1>4
<1> HIDE DEF ts
<1>7. Len(ts) <= WantCap /\ ts # <<>>
  <2>1. Len(ts) # 0 /\ Len(ts) <= WantCap
    BY <1>2, <1>3, <1>6
  <2>2. QED
    BY <1>6, <2>1
<1>8. todo' \in Frames
  BY <1>1, <1>4, DeltaType
<1>9. FramesOK' /\ AnswerOK'
  BY <1>1, <1>6, <1>7, <1>8 DEF HInv, FramesOK, AnswerOK
<1>10. Serving'
  BY <1>1, <1>2, <1>5, <1>7 DEF Serving
<1>11. QED
  BY <1>1, <1>2, <1>9, <1>10, ServerStepInv

LEMMA DecodeInv ==
  ASSUME HInv, Decode
  PROVE  HInv'
<1> DEFINE t == toks[Len(toks)]
           c == Append(sess.ctx, t)
<1>1. pc = "decode" /\ UNCHANGED <<clients, wire, queue, closed, got, toks>>
  BY DEF Decode, Ready
<1>2. /\ queue # <<>> /\ sess \in [ctx : Seq(Token), max_new : 1..WantCap]
      /\ toks \in Seq(Token) /\ toks # <<>> /\ Len(toks) < Wanted(req) /\ req.route \in Generating
  BY <1>1 DEF HInv, Serving, AnswerOK
<1>3. req' = req
  BY <1>1 DEF clients, req, cur
<1>4. t \in Token
  BY <1>2
<1> HIDE DEF t
<1>5. c \in Seq(Token) /\ c # <<>>
  <2>1. sess.ctx \in Seq(Token)
    BY <1>2
  <2>2. c \in Seq(Token) /\ Len(c) = Len(sess.ctx) + 1 /\ Len(sess.ctx) \in Nat
    BY <1>4, <2>1
  <2> HIDE DEF c
  <2>3. Len(c) # 0
    BY <2>2
  <2>4. QED
    BY <2>2, <2>3
<1>6. \/ sess' = [sess EXCEPT !.ctx = c] /\ pc' = "sample" /\ todo' = todo
      \/ sess' \in {sess, [sess EXCEPT !.ctx = c]} /\ todo' = <<Error>> /\ pc' = "close"
  BY DEF Decode, t
<1> HIDE DEF c
<1>7. sess' \in [ctx : Seq(Token), max_new : 1..WantCap] /\ (pc' = "sample" => sess'.ctx = c)
  BY <1>2, <1>5, <1>6
<1>8. todo' \in Frames
  BY <1>6, HeaderType DEF HInv, FramesOK
<1>9. FramesOK' /\ AnswerOK'
  BY <1>1, <1>7, <1>8 DEF HInv, FramesOK, AnswerOK
<1>10. Serving'
  BY <1>1, <1>2, <1>3, <1>5, <1>6, <1>7 DEF Serving
<1>11. QED
  BY <1>1, <1>2, <1>9, <1>10, ServerStepInv

LEMMA FinishInv ==
  ASSUME HInv, Finish
  PROVE  HInv'
<1>1. /\ pc = "finish" /\ todo' = Closing(req.route, toks) /\ pc' = "close"
      /\ UNCHANGED <<clients, wire, queue, closed, got, toks, sess>>
  BY DEF Finish, Ready
<1>2. queue # <<>> /\ req.route \in Generating /\ toks \in Seq(Token) /\ Len(toks) <= WantCap
  BY <1>1 DEF HInv, Serving, AnswerOK
<1>3. todo' \in Frames
  BY <1>1, <1>2, ClosingType
<1>4. FramesOK' /\ AnswerOK' /\ Serving'
  BY <1>1, <1>2, <1>3 DEF HInv, FramesOK, AnswerOK, Serving
<1>5. QED
  BY <1>1, <1>2, <1>4, ServerStepInv

\* The connection that was served is closed and no longer waits; it waited once.
LEMMA CloseInv ==
  ASSUME HInv, CloseConnection
  PROVE  HInv'
<1>1. /\ pc = "close" /\ todo = <<>> /\ closed' = closed \cup {cur} /\ queue' = Tail(queue)
      /\ pc' = "accept" /\ got' = 0 /\ toks' = <<>> /\ UNCHANGED <<clients, wire, todo, sess>>
  BY DEF CloseConnection, Ready
<1>2. queue # <<>>
  BY <1>1 DEF HInv, Serving
<1>3. /\ queue \in Seq(Conn) /\ closed \subseteq Conn
      /\ \A i \in 1..Len(queue) : queue[i] \notin closed /\ client[queue[i]] # "away"
      /\ \A i, j \in 1..Len(queue) : queue[i] = queue[j] => i = j
      /\ \A c \in closed : client[c] # "away"
  BY DEF HInv, Line
<1>4. Line'
  <2> DEFINE q == Tail(queue)
             n == Len(queue)
  <2>1. /\ n \in Nat /\ n >= 1 /\ q \in Seq(Conn) /\ Len(q) = n - 1
        /\ \A i \in 1..(n - 1) : q[i] = queue[i + 1]
    BY <1>2, <1>3
  <2>2. cur \in Conn /\ cur = queue[1]
    BY <1>2, CurType
  <2> HIDE DEF q, n
  <2>3. \A i \in 1..(n - 1) : i + 1 \in 1..n /\ i + 1 # 1 /\ 1 \in 1..n
    BY <2>1
  <2>4. \A i \in 1..(n - 1) : q[i] \notin closed \cup {cur} /\ client[q[i]] # "away"
    <3> SUFFICES ASSUME NEW i \in 1..(n - 1) PROVE q[i] \notin closed \cup {cur} /\ client[q[i]] # "away"
      OBVIOUS
    <3>1. q[i] = queue[i + 1] /\ i + 1 \in 1..n /\ i + 1 # 1 /\ 1 \in 1..n
      BY <2>1, <2>3
    <3>2. queue[i + 1] # queue[1]
      BY <1>3, <3>1 DEF n
    <3>3. queue[i + 1] \notin closed /\ client[queue[i + 1]] # "away"
      BY <1>3, <3>1 DEF n
    <3>4. QED
      BY <2>2, <3>1, <3>2, <3>3
  <2>5. \A i, j \in 1..(n - 1) : q[i] = q[j] => i = j
    <3> SUFFICES ASSUME NEW i \in 1..(n - 1), NEW j \in 1..(n - 1), q[i] = q[j] PROVE i = j
      OBVIOUS
    <3>1. queue[i + 1] = queue[j + 1] /\ i + 1 \in 1..n /\ j + 1 \in 1..n
      BY <2>1, <2>3
    <3>2. i + 1 = j + 1
      BY <1>3, <3>1 DEF n
    <3>3. QED
      BY <2>1, <3>2
  <2>6. client[cur] # "away"
    <3>1. 1 \in 1..Len(queue)
      BY <2>1 DEF n
    <3>2. QED
      BY <1>3, <2>2, <3>1
  <2>7. queue' = q /\ closed' = closed \cup {cur} /\ client' = client
    BY <1>1 DEF q, clients
  <2>8. QED
    BY <1>3, <2>1, <2>2, <2>4, <2>5, <2>6, <2>7 DEF Line
<1>5. AnswerOK'
  <2>1. <<>> \in Seq(Token) /\ Len(<<>>) <= WantCap
    BY HttpServeAssumption
  <2>2. QED
    BY <1>1, <2>1 DEF HInv, AnswerOK
<1>6. ClientsOK' /\ FramesOK' /\ Serving'
  BY <1>1 DEF HInv, ClientsOK, FramesOK, Serving, clients
<1>7. QED
  BY <1>4, <1>5, <1>6 DEF HInv

-----------------------------------------------------------------------------
(***************************************************************************)
(* What holds of every behaviour                                           *)
(***************************************************************************)
LEMMA InitInv == Init => HInv
<1> SUFFICES ASSUME Init PROVE HInv
  OBVIOUS
<1>1. /\ asks \in [Conn -> Requests] /\ client = [c \in Conn |-> "away"] /\ sent = [c \in Conn |-> 0]
      /\ wire = [c \in Conn |-> <<>>] /\ queue = <<>> /\ closed = {} /\ pc = "accept" /\ got = 0
      /\ todo = <<>> /\ toks = <<>> /\ sess = [ctx |-> <<>>, max_new |-> DefaultWant]
  BY DEF Init
<1>2. ClientsOK
  <2>1. ASSUME NEW c \in Conn PROVE sent[c] \in 0..Parts(asks[c])
    <3>1. asks[c] \in Requests
      BY <1>1
    <3>2. Parts(asks[c]) \in 2..3
      BY <3>1, RequestType
    <3>3. QED
      BY <1>1, <3>2
  <2>2. QED
    BY <1>1, <2>1 DEF ClientsOK
<1>3. FramesOK
  BY <1>1, SeqOfFrames DEF FramesOK
<1>4. Line /\ Serving
  BY <1>1 DEF Line, Serving
<1>5. AnswerOK
  <2>1. DefaultWant \in 1..WantCap /\ <<>> \in Seq(Token) /\ Len(<<>>) <= WantCap
    BY HttpServeAssumption
  <2>2. QED
    BY <1>1, <2>1 DEF AnswerOK
<1>6. QED
  BY <1>2, <1>3, <1>4, <1>5 DEF HInv

LEMMA NextInv ==
  ASSUME GreedyIsToken, HInv, [Next]_vars
  PROVE  HInv'
<1>1. CASE ClientStep
  BY <1>1, ClientInv
<1>2. CASE ServerStep
  BY <1>2, AcceptInv, RecvInv, HandleInv, EmitInv, GenerateInv, PrefillInv, SampleInv, DecodeInv, FinishInv,
     CloseInv DEF ServerStep
<1>3. CASE UNCHANGED vars
  <2>1. HInv' <=> HInv
    BY <1>3 DEF vars, clients, server, HInv, ClientsOK, FramesOK, Line, AnswerOK, Serving, req, cur
  <2>2. QED
    BY <2>1
<1>4. QED
  BY <1>1, <1>2, <1>3 DEF Next

\* The invariant holds in every state, for any clients, requests and model: each
\* connection waits once, and where the server is tells what it may still send.
THEOREM Invariance == GreedyIsToken /\ Spec => []HInv
<1> SUFFICES ASSUME GreedyIsToken PROVE Spec => []HInv
  OBVIOUS
<1>1. Init => HInv
  BY InitInv
<1>2. HInv /\ [Next]_vars => HInv'
  BY NextInv
<1>3. QED
  BY <1>1, <1>2, PTL DEF Spec

\* No answer has more tokens than the cap, whatever max_tokens a request names,
\* and no connection is served again after it was closed.
THEOREM TypeCorrect == GreedyIsToken /\ Spec => []TypeOK
<1>1. HInv => TypeOK
  <2> SUFFICES ASSUME HInv PROVE TypeOK
    OBVIOUS
  <2>1. /\ asks \in [Conn -> Requests] /\ client \in [Conn -> {"away", "open", "ended", "gone"}]
        /\ \A c \in Conn : sent[c] \in 0..Parts(asks[c]) /\ wire[c] \in Frames
    BY DEF HInv, ClientsOK, FramesOK
  <2>2. queue \in Seq(Conn) /\ closed \subseteq Conn /\ \A i \in DOMAIN queue : queue[i] \notin closed
    BY DEF HInv, Line
  <2>3. /\ pc \in {"accept", "headers", "body", "handle", "generate", "prefill", "sample", "decode", "finish",
                   "close", "dead"}
        /\ pc # "accept" => queue # <<>>
    BY DEF HInv, Serving
  <2>4. /\ got \in 0..3 /\ todo \in Frames /\ toks \in Seq(Token) /\ Len(toks) <= WantCap
        /\ sess \in [ctx : Seq(Token), max_new : 1..WantCap]
    BY DEF HInv, AnswerOK, FramesOK
  <2>5. QED
    BY <2>1, <2>2, <2>3, <2>4 DEF TypeOK
<1>2. QED
  BY <1>1, Invariance, PTL

-----------------------------------------------------------------------------
(***************************************************************************)
(* What is kept of a sequence                                              *)
(***************************************************************************)
\* f[k] is what is kept of the first k elements of s.
Keeps(f, s, S, n) ==
  f = [k \in 0..n |-> IF k = 0 THEN <<>> ELSE IF s[k] \in S THEN Append(f[k - 1], s[k]) ELSE f[k - 1]]

KeptNext(h, s, S, k) == IF s[k] \in S THEN Append(h[k - 1], s[k]) ELSE h[k - 1]

LEMMA KeepsStep ==
  ASSUME NEW f, NEW s, NEW S, NEW n \in Nat, Keeps(f, s, S, n)
  PROVE  f[0] = <<>> /\ \A k \in 1..n : f[k] = KeptNext(f, s, S, k)
<1>1. f = [k \in 0..n |-> IF k = 0 THEN <<>> ELSE KeptNext(f, s, S, k)]
  BY DEF Keeps, KeptNext
<1>2. QED
  BY <1>1

LEMMA KeepsExists ==
  ASSUME NEW s, NEW S, NEW n \in Nat
  PROVE  \E f : Keeps(f, s, S, n)
<1> DEFINE G == {m \in 0..n : \E f : Keeps(f, s, S, m)}
<1>1. 0 \in G
  <2> DEFINE f == [k \in 0..0 |-> <<>>]
  <2>1. f = [k \in 0..0 |-> IF k = 0 THEN <<>> ELSE IF s[k] \in S THEN Append(f[k - 1], s[k]) ELSE f[k - 1]]
    OBVIOUS
  <2> HIDE DEF f
  <2>2. Keeps(f, s, S, 0)
    BY <2>1 DEF Keeps
  <2>3. QED
    BY <2>2
<1>2. ASSUME NEW m \in 0..(n - 1), m \in G PROVE m + 1 \in G
  <2>1. PICK f : Keeps(f, s, S, m)
    BY <1>2
  <2> DEFINE e == KeptNext(f, s, S, m + 1)
             g == [k \in 0..(m + 1) |-> IF k = m + 1 THEN e ELSE f[k]]
  <2>2. g[m + 1] = e /\ \A k \in 0..m : g[k] = f[k]
    <3> HIDE DEF e
    <3>1. QED
      OBVIOUS
  <2>3. f[0] = <<>> /\ \A k \in 1..m : f[k] = KeptNext(f, s, S, k)
    BY <2>1, KeepsStep
  <2>4. g[0] = <<>>
    BY <2>2, <2>3
  <2>5. ASSUME NEW k \in 1..(m + 1) PROVE g[k] = KeptNext(g, s, S, k)
    <3>1. k - 1 \in 0..m /\ g[k - 1] = f[k - 1]
      BY <2>2
    <3>2. KeptNext(g, s, S, k) = KeptNext(f, s, S, k)
      BY <3>1 DEF KeptNext
    <3>3. CASE k = m + 1
      <4> HIDE DEF g
      <4>1. QED
        BY <2>2, <3>2, <3>3
    <3>4. CASE k # m + 1
      <4>1. k \in 1..m
        BY <3>4
      <4> HIDE DEF g
      <4>2. QED
        BY <2>2, <2>3, <3>2, <4>1
    <3>5. QED
      BY <3>3, <3>4
  <2>6. g = [k \in 0..(m + 1) |-> IF k = 0 THEN <<>> ELSE KeptNext(g, s, S, k)]
    <3>1. \A k \in 0..(m + 1) : g[k] = IF k = 0 THEN <<>> ELSE KeptNext(g, s, S, k)
      <4> HIDE DEF g
      <4>1. QED
        BY <2>4, <2>5
    <3>2. g = [k \in 0..(m + 1) |-> g[k]]
      OBVIOUS
    <3> HIDE DEF g
    <3>3. QED
      BY <3>1, <3>2
  <2> HIDE DEF g
  <2>7. Keeps(g, s, S, m + 1)
    BY <2>6 DEF Keeps, KeptNext
  <2>8. QED
    BY <2>7
<1> HIDE DEF G
<1>3. Positions!Reaches(G, n)
  BY Positions!Upwards
<1>4. n \in G
  BY <1>1, <1>2, <1>3 DEF Positions!Reaches
<1>5. QED
  BY <1>4 DEF G

\* What is kept depends on the elements alone.
LEMMA KeepsSame ==
  ASSUME NEW f, NEW g, NEW s, NEW t, NEW S, NEW n \in Nat, NEW m \in Nat, n <= m,
         Keeps(f, s, S, n), Keeps(g, t, S, m), \A k \in 1..n : s[k] = t[k]
  PROVE  f[n] = g[n]
<1> DEFINE G == {k \in 0..n : f[k] = g[k]}
<1>1. /\ f[0] = <<>> /\ \A k \in 1..n : f[k] = KeptNext(f, s, S, k)
      /\ g[0] = <<>> /\ \A k \in 1..m : g[k] = KeptNext(g, t, S, k)
  BY KeepsStep
<1>2. 0 \in G
  BY <1>1
<1>3. ASSUME NEW k \in 0..(n - 1), k \in G PROVE k + 1 \in G
  <2>1. k + 1 \in 1..n /\ k + 1 \in 1..m /\ (k + 1) - 1 = k /\ f[k] = g[k] /\ k + 1 \in 0..n
    BY <1>3
  <2>2. KeptNext(f, s, S, k + 1) = KeptNext(g, t, S, k + 1)
    BY <2>1 DEF KeptNext
  <2>3. QED
    BY <1>1, <2>1, <2>2
<1> HIDE DEF G
<1>4. Positions!Reaches(G, n)
  BY Positions!Upwards
<1>5. n \in G
  BY <1>2, <1>3, <1>4 DEF Positions!Reaches
<1>6. QED
  BY <1>5 DEF G

LEMMA KeptIs ==
  ASSUME NEW s, NEW S, Len(s) \in Nat
  PROVE  \E f : Keeps(f, s, S, Len(s)) /\ Kept(s, S) = f[Len(s)]
<1> DEFINE f == CHOOSE h : Keeps(h, s, S, Len(s))
<1>1. Keeps(f, s, S, Len(s))
  BY KeepsExists
<1>2. Kept(s, S) = f[Len(s)]
  BY DEF Kept, Keeps
<1> HIDE DEF f
<1>3. QED
  BY <1>1, <1>2

LEMMA KeptNone == ASSUME NEW S PROVE Kept(<<>>, S) = <<>>
<1>1. Len(<<>>) = 0
  OBVIOUS
<1>2. PICK f : Keeps(f, <<>>, S, 0) /\ Kept(<<>>, S) = f[0]
  BY <1>1, KeptIs
<1>3. QED
  BY <1>2, KeepsStep

LEMMA KeptMore ==
  ASSUME NEW T, NEW S, NEW s \in Seq(T), NEW x \in T
  PROVE  Kept(Append(s, x), S) = IF x \in S THEN Append(Kept(s, S), x) ELSE Kept(s, S)
<1> DEFINE n == Len(s)
           t == Append(s, x)
<1>1. n \in Nat /\ n + 1 \in Nat /\ n <= n + 1 /\ Len(t) = n + 1 /\ t[n + 1] = x /\ \A k \in 1..n : t[k] = s[k]
  OBVIOUS
<1> HIDE DEF n, t
<1>2. PICK f : Keeps(f, s, S, n) /\ Kept(s, S) = f[n]
  BY <1>1, KeptIs DEF n
<1>3. PICK g : Keeps(g, t, S, n + 1) /\ Kept(t, S) = g[n + 1]
  BY <1>1, KeptIs
<1>4. f[n] = g[n]
  BY <1>1, <1>2, <1>3, KeepsSame
<1>5. g[n + 1] = KeptNext(g, t, S, n + 1)
  <2>1. n + 1 \in 1..(n + 1)
    BY <1>1
  <2>2. QED
    BY <1>1, <1>3, <2>1, KeepsStep
<1>6. (n + 1) - 1 = n
  BY <1>1
<1>7. QED
  BY <1>1, <1>2, <1>3, <1>4, <1>5, <1>6 DEF KeptNext, t

\* Only members of the sequence are kept.
LEMMA KeptType ==
  ASSUME NEW T, NEW S, NEW s \in Seq(T)
  PROVE  Kept(s, S) \in Seq(T \cap S)
<1> DEFINE n == Len(s)
<1>1. n \in Nat /\ \A k \in 1..n : s[k] \in T
  OBVIOUS
<1> HIDE DEF n
<1>2. PICK f : Keeps(f, s, S, n) /\ Kept(s, S) = f[n]
  BY <1>1, KeptIs DEF n
<1>3. f[0] = <<>> /\ \A k \in 1..n : f[k] = KeptNext(f, s, S, k)
  BY <1>1, <1>2, KeepsStep
<1> DEFINE G == {k \in 0..n : f[k] \in Seq(T \cap S)}
<1>4. 0 \in G
  <2>1. <<>> \in Seq(T \cap S) /\ 0 \in 0..n
    BY <1>1
  <2>2. QED
    BY <1>3, <2>1
<1>5. ASSUME NEW k \in 0..(n - 1), k \in G PROVE k + 1 \in G
  <2>1. k + 1 \in 1..n /\ (k + 1) - 1 = k /\ f[k] \in Seq(T \cap S) /\ k + 1 \in 0..n
    BY <1>1, <1>5
  <2>2. f[k + 1] = IF s[k + 1] \in S THEN Append(f[k], s[k + 1]) ELSE f[k]
    BY <1>3, <2>1 DEF KeptNext
  <2> DEFINE U == T \cap S
             a == f[k]
             x == s[k + 1]
  <2>3. a \in Seq(U) /\ (x \in S => x \in U)
    BY <1>1, <2>1
  <2>4. f[k + 1] = IF x \in S THEN Append(a, x) ELSE a
    BY <2>2
  <2> HIDE DEF U, a, x
  <2>5. f[k + 1] \in Seq(U)
    BY <2>3, <2>4
  <2>6. QED
    BY <2>1, <2>5 DEF U
<1> HIDE DEF G
<1>6. Positions!Reaches(G, n)
  BY <1>1, Positions!Upwards
<1>7. n \in G
  BY <1>1, <1>4, <1>5, <1>6 DEF Positions!Reaches
<1>8. QED
  BY <1>2, <1>7 DEF G

\* The tokens that continue a context, one more at a time.
LEMMA ContinuesStep ==
  ASSUME NEW f, NEW ctx, NEW n \in Nat, Continues(f, ctx, n)
  PROVE  f[0] = <<>> /\ \A k \in 1..n : f[k] = Append(f[k - 1], Greedy(ctx \o f[k - 1]))
<1> DEFINE More(k) == Append(f[k - 1], Greedy(ctx \o f[k - 1]))
<1>1. f = [k \in 0..n |-> IF k = 0 THEN <<>> ELSE More(k)]
  BY DEF Continues
<1> HIDE DEF More
<1>2. f[0] = <<>> /\ \A k \in 1..n : f[k] = More(k)
  BY <1>1
<1>3. QED
  BY <1>2 DEF More

LEMMA ContinuesSame ==
  ASSUME NEW f, NEW g, NEW ctx, NEW n \in Nat, NEW m \in Nat, n <= m, Continues(f, ctx, n), Continues(g, ctx, m)
  PROVE  f[n] = g[n]
<1> DEFINE G == {k \in 0..n : f[k] = g[k]}
           More(h) == Append(h, Greedy(ctx \o h))
<1>1. /\ f[0] = <<>> /\ \A k \in 1..n : f[k] = More(f[k - 1])
      /\ g[0] = <<>> /\ \A k \in 1..m : g[k] = More(g[k - 1])
  BY ContinuesStep
<1> HIDE DEF More
<1>2. 0 \in G
  BY <1>1
<1>3. ASSUME NEW k \in 0..(n - 1), k \in G PROVE k + 1 \in G
  <2>1. k + 1 \in 1..n /\ k + 1 \in 1..m /\ (k + 1) - 1 = k /\ f[k] = g[k] /\ k + 1 \in 0..n
    BY <1>3
  <2>2. f[k + 1] = More(f[k]) /\ g[k + 1] = More(g[k])
    BY <1>1, <2>1
  <2>3. QED
    BY <2>1, <2>2
<1> HIDE DEF G
<1>4. Positions!Reaches(G, n)
  BY Positions!Upwards
<1>5. n \in G
  BY <1>2, <1>3, <1>4 DEF Positions!Reaches
<1>6. QED
  BY <1>5 DEF G

LEMMA ContinuedIs ==
  ASSUME NEW ctx, NEW n \in Nat
  PROVE  \E f : Continues(f, ctx, n) /\ Continued(ctx, n) = f[n]
<1> DEFINE f == CHOOSE h : Continues(h, ctx, n)
<1>1. Continues(f, ctx, n)
  BY ContinuesExists
<1>2. Continued(ctx, n) = f[n]
  BY DEF Continued, Continues
<1> HIDE DEF f
<1>3. QED
  BY <1>1, <1>2

LEMMA ContinuedNone == ASSUME NEW ctx PROVE Continued(ctx, 0) = <<>>
<1>1. PICK f : Continues(f, ctx, 0) /\ Continued(ctx, 0) = f[0]
  BY ContinuedIs
<1>2. QED
  BY <1>1, ContinuesStep

LEMMA ContinuedMore ==
  ASSUME NEW ctx, NEW n \in Nat
  PROVE  Continued(ctx, n + 1) = Append(Continued(ctx, n), Greedy(ctx \o Continued(ctx, n)))
<1>1. n + 1 \in Nat /\ n <= n + 1 /\ n + 1 \in 1..(n + 1) /\ (n + 1) - 1 = n
  OBVIOUS
<1>2. PICK f : Continues(f, ctx, n) /\ Continued(ctx, n) = f[n]
  BY ContinuedIs
<1>3. PICK g : Continues(g, ctx, n + 1) /\ Continued(ctx, n + 1) = g[n + 1]
  BY <1>1, ContinuedIs
<1>4. f[n] = g[n]
  BY <1>1, <1>2, <1>3, ContinuesSame
<1>5. g[n + 1] = Append(g[n], Greedy(ctx \o g[n]))
  BY <1>1, <1>3, ContinuesStep
<1>6. QED
  BY <1>2, <1>3, <1>4, <1>5

-----------------------------------------------------------------------------
(***************************************************************************)
(* Texts                                                                   *)
(***************************************************************************)
LEMMA TextNone == Text(<<>>) = <<>>
BY KeptNone DEF Text

LEMMA TextMore ==
  ASSUME NEW ts \in Seq(Token), NEW t \in Token
  PROVE  Text(Append(ts, t)) = IF t \in Silent THEN Text(ts) ELSE Append(Text(ts), t)
<1>1. Text(Append(ts, t)) = IF t \in Token \ Silent THEN Append(Text(ts), t) ELSE Text(ts)
  BY KeptMore DEF Text
<1>2. QED
  BY <1>1

LEMMA TextType ==
  ASSUME NEW ts \in Seq(Token)
  PROVE  Text(ts) \in Seq(Token)
<1> DEFINE U == Token \cap (Token \ Silent)
<1>1. Text(ts) \in Seq(U)
  BY KeptType DEF Text
<1>2. U \subseteq Token
  OBVIOUS
<1> HIDE DEF U
<1>3. QED
  BY <1>1, <1>2

\* a begins as b does.
Begins(a, b) == Len(a) <= Len(b) /\ \A i \in 1..Len(a) : a[i] = b[i]

LEMMA BeginsMore ==
  ASSUME NEW a \in Seq(Token), NEW b \in Seq(Token), NEW c \in Seq(Token), NEW ts \in Seq(Token), NEW t \in Token,
         b = Text(ts), c = Text(Append(ts, t)), Begins(a, b)
  PROVE  Begins(a, c)
<1>1. c = b \/ c = Append(b, t)
  BY TextMore
<1>2. CASE c = b
  BY <1>2
<1>3. CASE c = Append(b, t)
  <2>1. Len(c) = Len(b) + 1 /\ \A i \in 1..Len(b) : c[i] = b[i]
    BY <1>3
  <2>2. Len(a) \in Nat /\ Len(b) \in Nat /\ Len(a) <= Len(b) /\ \A i \in 1..Len(a) : a[i] = b[i]
    BY DEF Begins
  <2>3. QED
    BY <2>1, <2>2 DEF Begins
<1>4. QED
  BY <1>1, <1>2, <1>3

\* The text of fewer tokens is the beginning of the text of more.
LEMMA TextBegins ==
  ASSUME GreedyIsToken, NEW ctx \in Seq(Token), ctx # <<>>, NEW k \in Nat, NEW n \in Nat, k <= n
  PROVE  Begins(Text(Continued(ctx, k)), Text(Continued(ctx, n)))
<1> DEFINE C(j) == Continued(ctx, j)
           m == n - k
           G == {j \in 0..m : Begins(Text(C(k)), Text(C(k + j)))}
<1>1. m \in Nat /\ k + m = n /\ \A j \in 0..m : k + j \in Nat
  OBVIOUS
<1>2. \A j \in Nat : C(j) \in Seq(Token) /\ Text(C(j)) \in Seq(Token)
  BY ContinuedType, TextType
<1>3. ASSUME NEW j \in Nat PROVE \E t \in Token : C(j + 1) = Append(C(j), t)
  <2> DEFINE c == ctx \o C(j)
  <2>1. C(j + 1) = Append(C(j), Greedy(c))
    BY ContinuedMore
  <2>2. c \in Seq(Token) /\ c # <<>>
    <3> DEFINE d == C(j)
    <3>1. d \in Seq(Token)
      BY <1>2
    <3> HIDE DEF d
    <3>2. ctx \o d \in Seq(Token) /\ ctx \o d # <<>>
      BY <3>1
    <3>3. QED
      BY <3>2 DEF d
  <2> HIDE DEF c, C
  <2>3. QED
    BY <2>1, <2>2 DEF GreedyIsToken
<1> HIDE DEF C
<1>4. 0 \in G
  <2>1. Text(C(k)) \in Seq(Token) /\ k + 0 = k /\ 0 \in 0..m
    BY <1>1, <1>2
  <2>2. Begins(Text(C(k)), Text(C(k)))
    BY <2>1 DEF Begins
  <2>3. QED
    BY <2>1, <2>2
<1>5. ASSUME NEW j \in 0..(m - 1), j \in G PROVE j + 1 \in G
  <2>1. j + 1 \in 0..m /\ k + j \in Nat /\ (k + j) + 1 = k + (j + 1) /\ Begins(Text(C(k)), Text(C(k + j)))
    BY <1>1, <1>5
  <2>2. PICK t \in Token : C(k + (j + 1)) = Append(C(k + j), t)
    BY <1>3, <2>1
  <2>3. Begins(Text(C(k)), Text(Append(C(k + j), t)))
    <3>1. C(k + j) \in Seq(Token) /\ Append(C(k + j), t) \in Seq(Token) /\ Text(C(k)) \in Seq(Token)
          /\ Text(C(k + j)) \in Seq(Token)
      BY <1>2, <2>1
    <3>2. Text(Append(C(k + j), t)) \in Seq(Token)
      BY <3>1, TextType
    <3>3. QED
      BY <2>1, <3>1, <3>2, BeginsMore
  <2>4. QED
    BY <2>1, <2>2, <2>3
<1> HIDE DEF G
<1>6. Positions!Reaches(G, m)
  BY <1>1, Positions!Upwards
<1>7. m \in G
  <2> HIDE DEF m
  <2>1. m \in 0..m
    BY <1>1
  <2>2. QED
    BY <1>4, <1>5, <1>6, <2>1 DEF Positions!Reaches
<1>8. QED
  BY <1>1, <1>7 DEF G, C

-----------------------------------------------------------------------------
(***************************************************************************)
(* What is heard of a stream                                               *)
(***************************************************************************)
Said(t) == Frame("delta", <<t>>, 0)

LEMMA SaidIs ==
  ASSUME NEW t \in Token
  PROVE  Said(t) \in Fr /\ Said(t) \in Deltas /\ Said(t).kind = "delta" /\ Said(t).text[1] = t
<1>1. <<t>> \in Seq(Token) /\ 0 \in 0..WantCap /\ "delta" \in Kinds
  BY HttpServeAssumption DEF Kinds
<1>2. Said(t) \in Fr
  BY <1>1, FrameType DEF Said
<1>3. Said(t) = [kind |-> "delta", text |-> <<t>>, n |-> 0]
  BY DEF Said, Frame
<1>4. QED
  BY <1>2, <1>3 DEF Deltas, Said

LEMMA DeltasAre == \A x \in Deltas : \E t \in Token : x = Said(t)
BY DEF Deltas, Said

LEMMA OtherKinds ==
  ASSUME NEW x, x.kind # "delta"
  PROVE  x \notin Deltas
BY DEF Deltas, Frame

LEMMA HeardNone == Heard(<<>>) = <<>>
<1>1. Kept(<<>>, Deltas) = <<>>
  BY KeptNone
<1>2. Heard(<<>>) = [i \in 1..0 |-> <<>>[i].text[1]]
  BY <1>1 DEF Heard
<1>3. QED
  BY <1>2

LEMMA HeardIs ==
  ASSUME NEW w \in Seq(Fr)
  PROVE  /\ Kept(w, Deltas) \in Seq(Deltas) /\ Heard(w) \in Seq(Token) /\ Len(Heard(w)) = Len(Kept(w, Deltas))
         /\ \A i \in 1..Len(Heard(w)) : Heard(w)[i] = Kept(w, Deltas)[i].text[1]
<1> DEFINE k == Kept(w, Deltas)
           U == Fr \cap Deltas
           n == Len(k)
<1>1. k \in Seq(U)
  BY KeptType
<1>2. U \subseteq Deltas
  OBVIOUS
<1> HIDE DEF U
<1>3. k \in Seq(Deltas) /\ n \in Nat
  BY <1>1, <1>2
<1>4. Heard(w) = [i \in 1..n |-> k[i].text[1]]
  BY <1>3 DEF Heard
<1> HIDE DEF k
<1>5. \A i \in 1..n : k[i].text[1] \in Token
  <2> TAKE i \in 1..n
  <2>1. k[i] \in Deltas
    BY <1>3
  <2>2. PICK t \in Token : k[i] = Said(t)
    BY <2>1, DeltasAre
  <2>3. QED
    BY <2>2, SaidIs
<1> HIDE DEF n
<1>6. Heard(w) \in Seq(Token) /\ Len(Heard(w)) = n /\ \A i \in 1..n : Heard(w)[i] = k[i].text[1]
  BY <1>3, <1>4, <1>5
<1>7. QED
  BY <1>3, <1>6 DEF k, n

LEMMA HeardSame ==
  ASSUME NEW w \in Seq(Fr), NEW x \in Fr, x \notin Deltas
  PROVE  Heard(Append(w, x)) = Heard(w)
<1>1. Kept(Append(w, x), Deltas) = Kept(w, Deltas)
  BY KeptMore
<1>2. QED
  BY <1>1 DEF Heard

LEMMA HeardMore ==
  ASSUME NEW w \in Seq(Fr), NEW t \in Token
  PROVE  Heard(Append(w, Said(t))) = Append(Heard(w), t)
<1> DEFINE x == Said(t)
           v == Append(w, x)
           a == Heard(w)
           b == Heard(v)
           k == Kept(w, Deltas)
           l == Kept(v, Deltas)
<1>1. x \in Fr /\ x \in Deltas /\ x.text[1] = t
  BY SaidIs
<1> HIDE DEF x
<1>2. v \in Seq(Fr) /\ l = Append(k, x)
  BY <1>1, KeptMore
<1> HIDE DEF v
<1>3. /\ k \in Seq(Deltas) /\ a \in Seq(Token) /\ Len(a) = Len(k) /\ \A i \in 1..Len(a) : a[i] = k[i].text[1]
      /\ b \in Seq(Token) /\ Len(b) = Len(l) /\ \A i \in 1..Len(b) : b[i] = l[i].text[1]
  BY <1>2, HeardIs
<1> HIDE DEF a, b, k, l
<1>4. /\ Len(l) = Len(k) + 1 /\ l[Len(k) + 1] = x /\ Len(k) \in Nat
      /\ \A i \in 1..Len(k) : l[i] = k[i]
  BY <1>1, <1>2, <1>3
<1> DEFINE n == Len(k)
<1>5. /\ n \in Nat /\ Len(a) = n /\ Len(b) = n + 1 /\ b[n + 1] = t /\ \A i \in 1..n : b[i] = a[i]
  <2>1. n + 1 \in 1..(n + 1) /\ \A i \in 1..n : i \in 1..(n + 1)
    BY <1>4
  <2>2. b[n + 1] = t
    BY <1>1, <1>3, <1>4, <2>1
  <2>3. \A i \in 1..n : b[i] = a[i]
    BY <1>3, <1>4, <2>1
  <2>4. QED
    BY <1>3, <1>4, <2>2, <2>3
<1> HIDE DEF n
<1>6. b = Append(a, t)
  BY <1>3, <1>5
<1>7. QED
  BY <1>6 DEF a, b, v, x

\* The events of a text: one for each token of it.
LEMMA SpokenIs ==
  ASSUME NEW ts \in Seq(Token)
  PROVE  /\ Spoken(ts) \in Seq(Fr) /\ Len(Spoken(ts)) = Len(Text(ts))
         /\ \A i \in 1..Len(Text(ts)) : Spoken(ts)[i] = Said(Text(ts)[i])
<1> DEFINE text == Text(ts)
           n == Len(text)
<1>1. text \in Seq(Token) /\ n \in Nat
  BY TextType
<1>2. Spoken(ts) = [i \in 1..n |-> Said(text[i])]
  BY <1>1 DEF Spoken, Said
<1> HIDE DEF text
<1>3. \A i \in 1..n : Said(text[i]) \in Fr
  <2> TAKE i \in 1..n
  <2>1. text[i] \in Token
    BY <1>1
  <2>2. QED
    BY <2>1, SaidIs
<1> HIDE DEF n
<1>4. Spoken(ts) \in Seq(Fr) /\ Len(Spoken(ts)) = n /\ \A i \in 1..n : Spoken(ts)[i] = Said(text[i])
  BY <1>1, <1>2, <1>3
<1>5. QED
  BY <1>4 DEF n, text

LEMMA SpokenNone == Spoken(<<>>) = <<>>
<1>1. <<>> \in Seq(Token) /\ Len(<<>>) = 0
  OBVIOUS
<1>2. Spoken(<<>>) \in Seq(Fr) /\ Len(Spoken(<<>>)) = 0
  BY <1>1, SpokenIs, TextNone
<1> DEFINE a == Spoken(<<>>)
<1> HIDE DEF a
<1>3. a = <<>>
  BY <1>2 DEF a
<1>4. QED
  BY <1>3 DEF a

LEMMA SpokenMore ==
  ASSUME NEW ts \in Seq(Token), NEW t \in Token
  PROVE  Spoken(Append(ts, t)) = Spoken(ts) \o Delta(t)
<1> DEFINE a == Spoken(ts)
           us == Append(ts, t)
           b == Spoken(us)
           x == Said(t)
<1>1. us \in Seq(Token) /\ Text(us) = IF t \in Silent THEN Text(ts) ELSE Append(Text(ts), t)
  BY TextMore
<1> HIDE DEF us
<1>2. /\ a \in Seq(Fr) /\ Len(a) = Len(Text(ts)) /\ \A i \in 1..Len(Text(ts)) : a[i] = Said(Text(ts)[i])
      /\ b \in Seq(Fr) /\ Len(b) = Len(Text(us)) /\ \A i \in 1..Len(Text(us)) : b[i] = Said(Text(us)[i])
  BY <1>1, SpokenIs
<1>3. x \in Fr
  BY SaidIs
<1>4. CASE t \in Silent
  <2>1. b = a
    BY <1>1, <1>4 DEF Spoken
  <2>2. Delta(t) = <<>>
    BY <1>4 DEF Delta
  <2> HIDE DEF a, b
  <2>3. a \o <<>> = a
    BY <1>2
  <2>4. QED
    BY <2>1, <2>2, <2>3 DEF a, b, us
<1>5. CASE t \notin Silent
  <2> DEFINE p == Text(ts)
             q == Text(us)
  <2>1. p \in Seq(Token) /\ q = Append(p, t)
    BY <1>1, <1>5, TextType
  <2> HIDE DEF a, b, x, p, q
  <2>2. /\ a \in Seq(Fr) /\ Len(a) = Len(p) /\ \A i \in 1..Len(p) : a[i] = Said(p[i])
        /\ b \in Seq(Fr) /\ Len(b) = Len(q) /\ \A i \in 1..Len(q) : b[i] = Said(q[i])
    BY <1>2 DEF p, q
  <2>3. Len(q) = Len(p) + 1 /\ q[Len(p) + 1] = t /\ Len(p) \in Nat /\ \A i \in 1..Len(p) : q[i] = p[i]
    BY <2>1
  <2>4. b[Len(p) + 1] = x /\ Len(p) + 1 \in 1..Len(q) /\ \A i \in 1..Len(p) : b[i] = a[i]
    BY <2>2, <2>3 DEF x
  <2>5. b = a \o <<x>>
    BY <1>3, <2>2, <2>3, <2>4
  <2>6. Delta(t) = <<x>>
    BY <1>5 DEF Delta, x, Said
  <2>7. QED
    BY <2>5, <2>6 DEF a, b, us
<1>6. QED
  BY <1>4, <1>5

-----------------------------------------------------------------------------
(***************************************************************************)
(* Where streams end                                                       *)
(***************************************************************************)
\* A frame after which more is to come.
Fine(x) == x.kind \notin Errors /\ x.kind \notin Ends
AllFine(s) == \A i \in 1..Len(s) : Fine(s[i])
NoDelta(frames) == \A i \in 1..Len(frames) : frames[i] \notin Deltas

LEMMA FineKinds ==
  ASSUME NEW kind, NEW ts, NEW n, kind \notin Errors, kind \notin Ends
  PROVE  Fine(Frame(kind, ts, n))
BY DEF Fine, Frame

LEMMA NotDelta ==
  ASSUME NEW kind, NEW ts, NEW n, kind # "delta"
  PROVE  Frame(kind, ts, n) \notin Deltas
BY DEF Deltas, Frame

LEMMA HeaderFine == Fine(Header) /\ Header \notin Deltas /\ Header \in Fr /\ Error \notin Deltas /\ Error \in Fr
<1>1. Fine(Header)
  BY FineKinds DEF Header, Event, Errors, Ends
<1>2. Header \notin Deltas /\ Error \notin Deltas
  BY NotDelta DEF Header, Error, Event
<1>3. Header \in Fr /\ Error \in Fr
  BY EventType DEF Header, Error, Kinds
<1>4. QED
  BY <1>1, <1>2, <1>3

LEMMA SaidFine == ASSUME NEW t \in Token PROVE Fine(Said(t))
BY FineKinds DEF Said, Errors, Ends

LEMMA OpeningFine ==
  ASSUME NEW route \in Generating
  PROVE  AllFine(Opening(route)) /\ NoDelta(Opening(route))
<1> DEFINE Plain(x) == Fine(x) /\ x \notin Deltas
<1>1. /\ Plain(Event("role")) /\ Plain(Event("response.created")) /\ Plain(Event("message_start"))
      /\ Plain(Event("content_block_start"))
  BY FineKinds, NotDelta DEF Event, Errors, Ends
<1> HIDE DEF Plain
<1>2. \A i \in 1..Len(Opening(route)) : Plain(Opening(route)[i])
  <2>1. CASE route = "chat"
    BY <1>1, <2>1 DEF Opening
  <2>2. CASE route = "responses"
    BY <1>1, <2>2 DEF Opening
  <2>3. CASE route = "messages"
    BY <1>1, <2>3 DEF Opening
  <2>4. QED
    BY <2>1, <2>2, <2>3 DEF Generating
<1>3. QED
  BY <1>2 DEF Plain, AllFine, NoDelta

\* The closing events end with the one that ends an answer.
EndsOnce(s) ==
  /\ Len(s) >= 1 /\ \A i \in 1..(Len(s) - 1) : Fine(s[i])
  /\ s[Len(s)].kind \in Ends /\ s[Len(s)].kind \notin Errors

LEMMA ClosingEnds ==
  ASSUME NEW route \in Generating, NEW ts
  PROVE  EndsOnce(Closing(route, ts)) /\ NoDelta(Closing(route, ts))
<1> DEFINE Last(x) == x.kind \in Ends /\ x.kind \notin Errors
           Other(x) == x \notin Deltas
<1>1. /\ Fine(Frame("stop", <<>>, Len(ts))) /\ Fine(Event("content_block_stop"))
      /\ Fine(Frame("message_delta", <<>>, Len(ts)))
  BY FineKinds DEF Event, Errors, Ends
<1>2. /\ Last(Event("[DONE]")) /\ Last(Frame("response.completed", ts, Len(ts))) /\ Last(Event("message_stop"))
  BY DEF Event, Frame, Ends, Errors
<1>3. /\ Other(Frame("stop", <<>>, Len(ts))) /\ Other(Event("content_block_stop"))
      /\ Other(Frame("message_delta", <<>>, Len(ts))) /\ Other(Event("[DONE]"))
      /\ Other(Frame("response.completed", ts, Len(ts))) /\ Other(Event("message_stop"))
  BY NotDelta DEF Event
<1> HIDE DEF Last, Other
<1> DEFINE s == Closing(route, ts)
<1>4. /\ Len(s) >= 1 /\ Last(s[Len(s)]) /\ \A i \in 1..(Len(s) - 1) : Fine(s[i])
      /\ \A i \in 1..Len(s) : Other(s[i])
  <2>1. CASE route = "chat"
    BY <1>1, <1>2, <1>3, <2>1 DEF Closing
  <2>2. CASE route = "responses"
    BY <1>1, <1>2, <1>3, <2>2 DEF Closing
  <2>3. CASE route = "messages"
    BY <1>1, <1>2, <1>3, <2>3 DEF Closing
  <2>4. QED
    BY <2>1, <2>2, <2>3 DEF Generating
<1> HIDE DEF s
<1>5. EndsOnce(s) /\ NoDelta(s)
  BY <1>4 DEF Last, Other, EndsOnce, NoDelta
<1>6. QED
  BY <1>5 DEF s

\* An answer has not ended before the frame that ends it.
LEMMA NotEnded ==
  ASSUME NEW w, NEW whole, w = <<>> \/ Fine(w[Len(w)])
  PROVE  EndOf(w, whole) = "none"
BY DEF EndOf, Fine

\* What is sent of a stream while its tokens are produced.
Begun(route, ts) == <<Header>> \o Opening(route) \o Spoken(ts)

LEMMA BothFine ==
  ASSUME NEW a \in Seq(Fr), AllFine(a), NEW b \in Seq(Fr), AllFine(b)
  PROVE  a \o b \in Seq(Fr) /\ AllFine(a \o b) /\ Len(a \o b) = Len(a) + Len(b)
<1> DEFINE n == Len(a)
           m == Len(b)
           c == a \o b
<1>1. /\ c \in Seq(Fr) /\ n \in Nat /\ m \in Nat /\ Len(c) = n + m /\ \A i \in 1..n : c[i] = a[i]
      /\ \A i \in 1..m : c[n + i] = b[i]
  OBVIOUS
<1>2. (\A i \in 1..n : Fine(a[i])) /\ (\A i \in 1..m : Fine(b[i]))
  BY DEF AllFine
<1> HIDE DEF c, n, m
<1>3. ASSUME NEW i \in 1..(n + m) PROVE Fine(c[i])
  <2>1. CASE i <= n
    <3>1. i \in 1..n
      BY <1>1, <2>1
    <3>2. QED
      BY <1>1, <1>2, <3>1
  <2>2. CASE i > n
    <3>1. i - n \in 1..m /\ n + (i - n) = i
      BY <1>1, <2>2
    <3>2. QED
      BY <1>1, <1>2, <3>1
  <2>3. QED
    BY <1>1, <2>1, <2>2
<1>4. AllFine(c)
  BY <1>1, <1>3 DEF AllFine
<1>5. QED
  BY <1>1, <1>4 DEF c, n, m

LEMMA BegunFine ==
  ASSUME NEW route \in Generating, NEW ts \in Seq(Token)
  PROVE  Begun(route, ts) \in Seq(Fr) /\ AllFine(Begun(route, ts)) /\ Len(Begun(route, ts)) >= 1
<1> DEFINE a == <<Header>>
           b == Opening(route)
           c == Spoken(ts)
<1>1. a \in Seq(Fr) /\ AllFine(a) /\ Len(a) = 1
  BY HeaderFine DEF AllFine
<1>2. b \in Seq(Fr) /\ AllFine(b)
  BY OpeningType, OpeningFine DEF Frames, Fr
<1>3. c \in Seq(Fr) /\ AllFine(c)
  <2>1. /\ c \in Seq(Fr) /\ Len(c) = Len(Text(ts)) /\ Text(ts) \in Seq(Token)
        /\ \A i \in 1..Len(Text(ts)) : c[i] = Said(Text(ts)[i])
    BY SpokenIs, TextType
  <2> DEFINE p == Text(ts)
  <2> HIDE DEF c, p
  <2>2. c \in Seq(Fr) /\ Len(c) = Len(p) /\ p \in Seq(Token) /\ \A i \in 1..Len(p) : c[i] = Said(p[i])
    BY <2>1 DEF p
  <2>3. ASSUME NEW i \in 1..Len(c) PROVE Fine(c[i])
    <3>1. p[i] \in Token /\ c[i] = Said(p[i])
      BY <2>2
    <3>2. QED
      BY <3>1, SaidFine
  <2>4. QED
    BY <2>2, <2>3 DEF AllFine
<1> HIDE DEF a, b, c
<1>4. Len(a) >= 1 /\ Len(b) \in Nat /\ Len(c) \in Nat
  BY <1>1, <1>2, <1>3
<1> DEFINE d == a \o b
<1>5. d \in Seq(Fr) /\ AllFine(d) /\ Len(d) = Len(a) + Len(b)
  BY <1>1, <1>2, BothFine
<1> HIDE DEF d
<1>6. d \o c \in Seq(Fr) /\ AllFine(d \o c) /\ Len(d \o c) = Len(d) + Len(c)
  BY <1>3, <1>5, BothFine
<1>7. Len(d \o c) >= 1
  BY <1>1, <1>4, <1>5, <1>6
<1>8. QED
  BY <1>6, <1>7 DEF Begun, a, b, c, d

LEMMA StreamEnds ==
  ASSUME NEW w \in Seq(Fr), AllFine(w), NEW s \in Seq(Fr), EndsOnce(s)
  PROVE  EndsOnce(w \o s)
<1> DEFINE n == Len(w)
           m == Len(s)
           a == w \o s
<1>1. /\ n \in Nat /\ m \in Nat /\ m >= 1 /\ Len(a) = n + m /\ \A i \in 1..n : a[i] = w[i]
      /\ \A i \in 1..m : a[n + i] = s[i]
  BY DEF EndsOnce
<1>2. (\A i \in 1..n : Fine(w[i])) /\ (\A i \in 1..(m - 1) : Fine(s[i]))
  BY DEF AllFine, EndsOnce
<1>3. s[m].kind \in Ends /\ s[m].kind \notin Errors
  BY DEF EndsOnce
<1> HIDE DEF a, n, m
<1>4. ASSUME NEW i \in 1..(n + m - 1) PROVE Fine(a[i])
  <2>1. CASE i <= n
    <3>1. i \in 1..n
      BY <1>1, <2>1
    <3>2. QED
      BY <1>1, <1>2, <3>1
  <2>2. CASE i > n
    <3>1. i - n \in 1..(m - 1) /\ i - n \in 1..m /\ n + (i - n) = i
      BY <1>1, <2>2
    <3>2. QED
      BY <1>1, <1>2, <3>1
  <2>3. QED
    BY <1>1, <2>1, <2>2
<1>5. a[n + m] = s[m] /\ n + m >= 1
  <2>1. m \in 1..m
    BY <1>1
  <2>2. QED
    BY <1>1, <2>1
<1> DEFINE k == n + m
<1>6. /\ Len(a) = k /\ k >= 1 /\ a[k] = s[m] /\ \A i \in 1..(k - 1) : Fine(a[i])
  BY <1>1, <1>4, <1>5
<1> HIDE DEF k
<1>7. EndsOnce(a)
  BY <1>3, <1>6 DEF EndsOnce
<1>8. QED
  BY <1>7 DEF a

\* One more frame of what is to be sent.
LEMMA OneMore ==
  ASSUME NEW w \in Seq(Fr), NEW t \in Seq(Fr), t # <<>>
  PROVE  /\ Append(w, Head(t)) \o Tail(t) = w \o t /\ Append(w, Head(t)) \in Seq(Fr) /\ Tail(t) \in Seq(Fr)
         /\ Head(t) \in Fr /\ Head(t) = (w \o t)[Len(w) + 1] /\ Len(w) + 1 \in 1..Len(w \o t)
         /\ (Tail(t) # <<>> => Len(w) + 1 \in 1..(Len(w \o t) - 1))
         /\ (Tail(t) = <<>> => Append(w, Head(t)) = w \o t)
<1> DEFINE x == Head(t)
           u == Tail(t)
           v == Append(w, x)
           n == Len(w)
           m == Len(t)
           a == v \o u
           b == w \o t
<1>1. /\ x \in Fr /\ u \in Seq(Fr) /\ m \in Nat /\ m >= 1 /\ Len(u) = m - 1 /\ x = t[1]
      /\ \A i \in 1..(m - 1) : u[i] = t[i + 1]
  OBVIOUS
<1> HIDE DEF x, u
<1>2. v \in Seq(Fr) /\ Len(v) = n + 1 /\ v[n + 1] = x /\ n \in Nat /\ \A i \in 1..n : v[i] = w[i]
  BY <1>1
<1> HIDE DEF v
<1>3. /\ a \in Seq(Fr) /\ Len(a) = Len(v) + Len(u) /\ \A i \in 1..Len(v) : a[i] = v[i]
      /\ \A i \in 1..Len(u) : a[Len(v) + i] = u[i]
  <2>1. v \in Seq(Fr) /\ u \in Seq(Fr)
    BY <1>1, <1>2
  <2>2. QED
    BY <2>1
<1>4. /\ b \in Seq(Fr) /\ Len(b) = n + m /\ (\A i \in 1..n : b[i] = w[i]) /\ \A i \in 1..m : b[n + i] = t[i]
  OBVIOUS
<1>5. u = <<>> => a = v
  BY <1>2
<1>6. u # <<>> => Len(u) # 0
  BY <1>1
<1> HIDE DEF a, b, n, m
<1>7. Len(a) = n + m /\ n + m \in Nat
  BY <1>1, <1>2, <1>3
<1>8. b[n + 1] = x
  <2>1. 1 \in 1..m
    BY <1>1
  <2>2. QED
    BY <1>1, <1>4, <2>1
<1>9. ASSUME NEW i \in 1..(n + m) PROVE a[i] = b[i]
  <2>1. CASE i <= n
    <3>1. i \in 1..n /\ i \in 1..Len(v)
      BY <1>2, <2>1
    <3>2. QED
      BY <1>2, <1>3, <1>4, <3>1
  <2>2. CASE i = n + 1
    <3>1. n + 1 \in 1..Len(v)
      BY <1>2
    <3>2. QED
      BY <1>2, <1>3, <1>8, <2>2, <3>1
  <2>3. CASE i > n + 1
    <3> DEFINE k == i - (n + 1)
    <3>1. k \in 1..Len(u) /\ k \in 1..(m - 1) /\ Len(v) + k = i /\ k + 1 \in 1..m /\ n + (k + 1) = i
      BY <1>1, <1>2, <2>3
    <3> HIDE DEF k
    <3>2. a[i] = u[k] /\ b[i] = t[k + 1]
      BY <1>3, <1>4, <3>1
    <3>3. QED
      BY <1>1, <3>1, <3>2
  <2>4. QED
    BY <1>2, <2>1, <2>2, <2>3
<1>10. a = b
  BY <1>3, <1>4, <1>7, <1>9
<1>11. n + 1 \in 1..Len(b)
  BY <1>1, <1>2, <1>4
<1>12. u # <<>> => n + 1 \in 1..(Len(b) - 1)
  <2> SUFFICES ASSUME u # <<>> PROVE n + 1 \in 1..(Len(b) - 1)
    OBVIOUS
  <2>1. m - 1 # 0
    BY <1>1, <1>6
  <2>2. QED
    BY <1>1, <1>2, <1>4, <2>1
<1>13. QED
  BY <1>1, <1>2, <1>5, <1>8, <1>10, <1>11, <1>12 DEF v, x, u, a, b, n

-----------------------------------------------------------------------------
(***************************************************************************)
(* What has been told, and what is about to be                             *)
(***************************************************************************)
\* The request of c came whole, if its client may still send.
Settled(c) == client[c] = "open" => sent[c] = Parts(asks[c])

\* Nothing was sent to a connection that waits.
Quiet == \A c \in Conn : c \in closed \/ wire[c] = <<>> \/ (pc # "accept" /\ c = cur)

\* What the server has of the request is what the client sent, once it decides.
Hearing ==
  /\ pc \in {"headers", "body"} => got <= sent[cur] /\ wire[cur] = <<>>
  /\ pc = "body" => got = 2 /\ Parts(req) = 3
  /\ pc \in {"handle", "generate"} => wire[cur] = <<>> /\ todo = <<>>
  /\ \A c \in closed : Settled(c)
  /\ pc \notin {"accept", "headers", "body"} => Settled(cur) /\ (client[cur] # "gone" => got = sent[cur])
  /\ pc = "dead" => client[cur] = "gone"

Talking == {"sample", "decode", "finish"}

\* The tokens so far are the first of the answer, and the session goes on from them.
Deciding ==
  /\ pc \in {"generate", "prefill"} \cup Talking => Status(req, got) = ""
  /\ pc = "generate" => ~req.stream /\ sess.max_new = Wanted(req)
  /\ pc \in {"prefill"} \cup Talking => req.stream
  /\ pc \in Talking => ~Refused(req.prompt)
  /\ pc \in Talking => toks = Continued(req.prompt, Len(toks)) /\ Len(toks) <= Wanted(req)
  /\ pc = "sample" => sess.ctx = req.prompt \o toks
  /\ pc = "decode" => Append(sess.ctx, toks[Len(toks)]) = req.prompt \o toks
  /\ pc = "finish" => Len(toks) = Wanted(req)

\* The text of the tokens was heard, or lacks the delta that is to be sent.
Speaking ==
  \/ \E t \in Token : todo = <<Said(t)>> /\ Append(Heard(wire[cur]), t) = Text(toks)
  \/ NoDelta(todo) /\ Heard(wire[cur]) = Text(toks)

\* What is to be sent is the rest of the stream, an error or the one response.
Ending ==
  \/ Streams(cur) /\ wire[cur] \o todo = Stream(cur) /\ NoDelta(todo) /\ Heard(wire[cur]) = Text(Due(cur))
  \/ Streams(cur) /\ MayFail(cur) /\ todo = <<Error>> /\ EndTold(cur) = "none"
  \/ /\ ~Streams(cur) /\ wire[cur] = <<>>
     /\ \/ todo = <<Answer("200", Due(cur))>>
        \/ MayFail(cur) /\ \E st \in Errors : todo = <<Answer(st, <<>>)>>

Telling ==
  pc # "accept" /\ client[cur] # "gone" =>
    /\ pc = "prefill" => wire[cur] \o todo = <<Header>>
    /\ pc \in Talking => wire[cur] \o todo = Begun(req.route, toks) /\ Speaking
    /\ pc = "close" => IF todo = <<>> THEN EndTold(cur) # "none" ELSE Ending

AInv == Quiet /\ Hearing /\ Deciding /\ Telling

-----------------------------------------------------------------------------
\* The answer that is due to the client is that of the request being handled.
LEMMA DueHere ==
  ASSUME HInv, Hearing, pc \notin {"accept", "headers", "body"}, client[cur] # "gone"
  PROVE  /\ cur \in Conn /\ asks[cur] = req /\ sent[cur] = got
         /\ Due(cur) = IF Status(req, got) # "" THEN <<>> ELSE Continued(req.prompt, Wanted(req))
         /\ Streams(cur) <=> req.stream /\ Status(req, got) = ""
         /\ MayFail(cur) <=> Status(req, got) \in {"400", "404", "405"} \/ Refused(req.prompt) \/ cur \in Faults
         /\ Stream(cur) = Begun(req.route, Due(cur)) \o Closing(req.route, Due(cur))
<1>1. queue # <<>>
  BY DEF HInv, Serving
<1>2. cur \in Conn /\ asks[cur] = req
  BY <1>1, CurType DEF req
<1>3. sent[cur] = got
  BY DEF Hearing
<1>4. Due(cur) = IF Status(req, got) # "" THEN <<>> ELSE Continued(req.prompt, Wanted(req))
  BY <1>2, <1>3 DEF Due
<1>5. Streams(cur) <=> req.stream /\ Status(req, got) = ""
  BY <1>2, <1>3 DEF Streams
<1>6. MayFail(cur) <=> Status(req, got) \in {"400", "404", "405"} \/ Refused(req.prompt) \/ cur \in Faults
  BY <1>2, <1>3 DEF MayFail
<1>7. Stream(cur) = Begun(req.route, Due(cur)) \o Closing(req.route, Due(cur))
  BY <1>2 DEF Stream, Begun
<1>8. QED
  BY <1>2, <1>3, <1>4, <1>5, <1>6, <1>7

\* What is due to a connection depends on its request and how much of it came.
LEMMA SameDueOf ==
  ASSUME NEW c, asks'[c] = asks[c], sent'[c] = sent[c]
  PROVE  /\ Due(c)' = Due(c) /\ Streams(c)' = Streams(c) /\ MayFail(c)' = MayFail(c)
         /\ Stream(c)' = Stream(c) /\ Whole(c)' = Whole(c)
<1>1. Due(c)' = Due(c)
  BY DEF Due
<1>2. Streams(c)' = Streams(c)
  BY DEF Streams
<1>3. MayFail(c)' = MayFail(c)
  BY DEF MayFail
<1>4. Stream(c)' = Stream(c)
  BY <1>1 DEF Stream
<1>5. Whole(c)' = Whole(c)
  BY <1>1, <1>2, <1>4 DEF Whole
<1>6. QED
  BY <1>1, <1>2, <1>3, <1>4, <1>5

LEMMA SameDue ==
  ASSUME UNCHANGED <<asks, sent>>
  PROVE  \A c : /\ Due(c)' = Due(c) /\ Streams(c)' = Streams(c) /\ MayFail(c)' = MayFail(c)
                /\ Stream(c)' = Stream(c) /\ Whole(c)' = Whole(c)
BY SameDueOf

\* What was told depends on the wire too.
LEMMA SameTold ==
  ASSUME NEW c, asks'[c] = asks[c], sent'[c] = sent[c], wire'[c] = wire[c]
  PROVE  TextGiven(c)' = TextGiven(c) /\ EndTold(c)' = EndTold(c)
<1>1. Streams(c)' = Streams(c) /\ Whole(c)' = Whole(c)
  BY SameDueOf
<1>2. QED
  BY <1>1 DEF TextGiven, EndTold

\* The server goes on and nobody is told anything.
LEMMA StillQuiet ==
  ASSUME Quiet, UNCHANGED <<wire, queue, closed>>, pc = "accept" \/ pc' # "accept"
  PROVE  Quiet'
BY DEF Quiet, cur

LEMMA StillHeard ==
  ASSUME HInv, Hearing, pc \notin {"accept", "headers", "body"}, UNCHANGED <<clients, queue, closed, got>>,
         pc' \in {"prefill", "sample", "decode", "finish", "close"}
  PROVE  Hearing'
BY DEF Hearing, Settled, clients, cur, req

LEMMA AcceptTells ==
  ASSUME HInv, AInv, Accept
  PROVE  AInv'
<1>1. /\ pc = "accept" /\ queue # <<>> /\ pc' = "headers" /\ got' = 0
      /\ UNCHANGED <<asks, client, sent, wire, queue, closed, todo, toks, sess>>
  BY DEF Accept, clients
<1>2. cur \in Conn /\ cur = queue[1] /\ Len(queue) >= 1 /\ sent[cur] \in 0..3
  BY <1>1, CurType DEF HInv, ClientsOK
<1>3. cur \notin closed
  BY <1>2 DEF HInv, Line
<1>4. wire[cur] = <<>>
  BY <1>1, <1>2, <1>3 DEF AInv, Quiet
<1>5. Quiet'
  BY <1>1, StillQuiet DEF AInv
<1>6. Hearing'
  BY <1>1, <1>2, <1>4 DEF AInv, Hearing, Settled, cur, req
<1>7. Deciding' /\ Telling'
  BY <1>1 DEF Deciding, Telling, Talking
<1>8. QED
  BY <1>5, <1>6, <1>7 DEF AInv

\* A request that is handled came whole, or its client sends no more.
LEMMA RecvTells ==
  ASSUME HInv, AInv, RecvHeaders \/ RecvBody
  PROVE  AInv'
<1>1. /\ pc \in {"headers", "body"} /\ pc' \in {"headers", "body", "handle"}
      /\ UNCHANGED <<asks, client, sent, wire, queue, closed, todo, toks, sess>>
  BY DEF RecvHeaders, RecvBody, clients
<1>2. queue # <<>> /\ todo = <<>>
  BY <1>1 DEF HInv, Serving
<1>3. cur \in Conn /\ req \in Requests /\ asks[cur] = req
  BY <1>2, CurType DEF req
<1>4. Parts(req) \in 2..3 /\ sent[cur] \in 0..Parts(req) /\ got \in 0..3 /\ got <= sent[cur] /\ wire[cur] = <<>>
  BY <1>1, <1>3, RequestType DEF HInv, ClientsOK, AnswerOK, AInv, Hearing
<1> DEFINE n == sent[cur]
           p == Parts(req)
<1>5. n \in 0..3 /\ n <= p /\ p \in 2..3
  BY <1>4
<1> DEFINE Heeds ==
             /\ pc' \in {"headers", "body"} => got' <= n
             /\ pc' = "body" => got' = 2 /\ p = 3
             /\ pc' = "handle" => (client[cur] = "open" => n = p) /\ (client[cur] # "gone" => got' = n)
<1>6. ASSUME Received PROVE Heeds
  <2>1. got' \in (got + 1)..n
    BY <1>6 DEF Received
  <2>2. \/ pc = "headers" /\ pc' = IF got' < 2 THEN "headers" ELSE IF got' < p THEN "body" ELSE "handle"
        \/ pc = "body" /\ pc' = "handle"
        \/ HungUp /\ pc' = "handle" /\ got' = got
    BY DEF RecvHeaders, RecvBody
  <2>3. got \in 0..3 /\ got' \in 0..3 /\ got' # got /\ got' <= n
    BY <1>4, <1>5, <2>1
  <2>4. pc = "body" => got = 2 /\ p = 3
    BY DEF AInv, Hearing
  <2> HIDE DEF n, p
  <2>5. ASSUME pc = "headers", pc' = IF got' < 2 THEN "headers" ELSE IF got' < p THEN "body" ELSE "handle"
        PROVE  Heeds
    BY <1>5, <2>3, <2>5
  <2>6. ASSUME pc = "body", pc' = "handle" PROVE Heeds
    BY <1>5, <2>1, <2>3, <2>4, <2>6
  <2>7. ~(HungUp /\ got' = got)
    BY <2>3
  <2>8. QED
    BY <2>2, <2>5, <2>6, <2>7
<1>7. ASSUME HungUp, pc' = "handle", got' = got PROVE Heeds
  BY <1>7 DEF HungUp
<1>8. Heeds
  BY <1>6, <1>7 DEF RecvHeaders, RecvBody
<1>9. cur' = cur /\ req' = req
  BY <1>1 DEF cur, req
<1>10. Hearing'
  <2>1. pc' \notin {"accept", "generate", "dead"} /\ todo' = <<>> /\ wire'[cur'] = <<>>
    BY <1>1, <1>2, <1>4, <1>9
  <2>2. \A c \in closed' : Settled(c)'
    BY <1>1 DEF AInv, Hearing, Settled
  <2>3. pc' = "handle" => Settled(cur)'
    BY <1>1, <1>3, <1>8, <1>9 DEF Settled
  <2>4. sent'[cur'] = n /\ client'[cur'] = client[cur] /\ Parts(req') = p
    BY <1>1, <1>9
  <2> HIDE DEF n, p
  <2>5. QED
    BY <1>1, <1>8, <2>1, <2>2, <2>3, <2>4 DEF Hearing
<1>11. Quiet'
  BY <1>1, StillQuiet DEF AInv
<1>12. Deciding' /\ Telling'
  BY <1>1 DEF Deciding, Telling, Talking
<1>13. QED
  BY <1>10, <1>11, <1>12 DEF AInv

LEMMA HandleTells ==
  ASSUME HInv, AInv, Handle
  PROVE  AInv'
<1>1. /\ pc = "handle" /\ todo = <<>> /\ UNCHANGED <<asks, client, sent, wire, queue, closed, got, toks>>
      /\ UNCHANGED clients
  BY DEF Handle, Ready, clients
<1>2. \/ /\ todo' = <<Answer(Status(req, got), <<>>)>> /\ pc' = "close" /\ Status(req, got) # ""
      \/ todo' = <<Header>> /\ pc' = "prefill" /\ Status(req, got) = "" /\ req.stream
      \/ todo' = <<>> /\ pc' = "generate" /\ Status(req, got) = "" /\ ~req.stream
  BY <1>1 DEF Handle
<1>3. queue # <<>> /\ toks = <<>> /\ wire[cur] = <<>> /\ sess \in [ctx : Seq(Token), max_new : 1..WantCap]
  BY <1>1 DEF HInv, Serving, AInv, Hearing, AnswerOK
<1>4. cur' = cur /\ req' = req
  BY <1>1 DEF cur, req
<1>5. Quiet'
  BY <1>1, <1>2, StillQuiet DEF AInv
<1>6. Hearing'
  <2>1. CASE pc' = "generate"
    BY <1>1, <1>2, <1>3, <1>4, <2>1 DEF AInv, Hearing, Settled
  <2>2. CASE pc' \in {"prefill", "close"}
    BY <1>1, <2>2, StillHeard DEF AInv
  <2>3. QED
    BY <1>2, <2>1, <2>2
<1>7. Deciding'
  <2>1. pc' = "generate" => sess'.max_new = Wanted(req)
    <3>1. pc' = "generate" => sess' = [sess EXCEPT !.max_new = Wanted(req)]
      BY DEF Handle
    <3>2. QED
      BY <1>3, <3>1
  <2>2. Status(req', got') = Status(req, got) /\ Wanted(req') = Wanted(req)
    BY <1>1, <1>4
  <2>3. QED
    BY <1>2, <1>4, <2>1, <2>2 DEF Deciding, Talking
<1>8. Telling'
  <2>1. CASE pc' = "prefill"
    <3>1. wire'[cur'] = <<>> /\ todo' = <<Header>>
      BY <1>1, <1>2, <1>3, <1>4, <2>1
    <3>2. <<>> \o <<Header>> = <<Header>>
      OBVIOUS
    <3>3. wire'[cur'] \o todo' = <<Header>>
      BY <3>1, <3>2
    <3>4. QED
      BY <2>1, <3>3 DEF Telling, Talking
  <2>2. ASSUME pc' = "close", client[cur] # "gone" PROVE Ending' /\ todo' # <<>>
    <3> DEFINE st == Status(req, got)
    <3>1. todo' = <<Answer(st, <<>>)>> /\ st # "" /\ wire'[cur'] = <<>>
      BY <1>1, <1>2, <1>3, <1>4, <2>2
    <3>2. ~Streams(cur) /\ Due(cur) = <<>> /\ (st \in {"400", "404", "405"} => MayFail(cur))
      BY <1>1, <2>2, <3>1, DueHere DEF AInv
    <3>3. ~Streams(cur)' /\ Due(cur)' = <<>> /\ (st \in {"400", "404", "405"} => MayFail(cur)')
      BY <1>1, <1>4, <3>2, SameDue
    <3>4. st \in {"200", "400", "404", "405"}
      BY <3>1, StatusType
    <3> HIDE DEF st
    <3>5. st = "200" \/ (st \in Errors /\ MayFail(cur)')
      BY <3>3, <3>4 DEF Errors
    <3>6. QED
      BY <3>1, <3>3, <3>5 DEF Ending
  <2>3. QED
    BY <1>1, <1>2, <1>4, <2>1, <2>2 DEF Telling, Talking
<1>9. QED
  BY <1>5, <1>6, <1>7, <1>8 DEF AInv

\* What a request that fits is answered with is the one answer greedy decoding
\* gives: by generate ...
LEMMA ProducesFitting ==
  ASSUME RequestsFit, NEW r \in Requests, ~Refused(r.prompt), ~r.stream
  PROVE  Produces(r.prompt, Wanted(r)) = {Continued(r.prompt, Wanted(r))}
BY DEF RequestsFit, Fits, Produces

\* ... and token by token in a stream.
LEMMA NextTokensFitting ==
  ASSUME RequestsFit, NEW r \in Requests, ~Refused(r.prompt), NEW ts \in Seq(Token), Len(ts) < Wanted(r)
  PROVE  NextTokens(r.prompt \o ts) = {Greedy(r.prompt \o ts)}
<1> DEFINE p == r.prompt
           k == Len(ts)
           w == Wanted(r)
<1>1. p \in Seq(Token) /\ w \in Nat /\ Len(p) + w <= Ctx
  BY RequestType DEF RequestsFit, Fits
<1>2. Len(p \o ts) = Len(p) + k /\ Len(p) \in Nat /\ k \in Nat
  BY <1>1
<1> HIDE DEF p, w, k
<1>3. Len(p \o ts) <= Ctx
  <2> DEFINE c == Len(p)
             l == Len(p \o ts)
  <2>1. k < w
    BY DEF k, w
  <2>2. l = c + k /\ c \in Nat /\ k \in Nat /\ w \in Nat /\ c + w <= Ctx /\ Ctx \in Nat
    BY <1>1, <1>2, HttpServeAssumption
  <2> HIDE DEF c, l
  <2>3. l <= Ctx
    BY <2>1, <2>2
  <2>4. QED
    BY <2>3 DEF l
<1>4. QED
  BY <1>3 DEF NextTokens, p

LEMMA GenerateTells ==
  ASSUME RequestsFit, HInv, AInv, Generate
  PROVE  AInv'
<1> DEFINE n == Min({sess.max_new, Wanted(req)})
<1>0. PICK ts \in Produces(req.prompt, n) :
        \/ ~Refused(req.prompt) /\ todo' = <<Answer("200", ts)>>
        \/ Fails(req.prompt \o ts) /\ todo' = <<Answer("500", <<>>)>>
  BY DEF Generate
<1> DEFINE all == req.prompt \o ts
<1>1. /\ pc = "generate" /\ todo = <<>> /\ pc' = "close" /\ UNCHANGED clients
      /\ UNCHANGED <<asks, client, sent, wire, queue, closed, got>>
  BY DEF Generate, Ready, clients
<1>2. queue # <<>> /\ wire[cur] = <<>> /\ Status(req, got) = "" /\ ~req.stream /\ sess.max_new = Wanted(req)
  BY <1>1 DEF HInv, Serving, AInv, Hearing, Deciding
<1>3. cur' = cur
  BY <1>1 DEF cur
<1>4. n = Wanted(req)
  <2> DEFINE w == Wanted(req)
  <2>1. w \in Nat
    BY <1>2, CurType, RequestType
  <2> HIDE DEF w
  <2>2. Min({w, w}) = w
    BY <2>1 DEF Min
  <2>3. QED
    BY <1>2, <2>2 DEF w
<1> HIDE DEF n
<1>5. \/ todo' = <<Answer("200", ts)>> /\ ts = Continued(req.prompt, Wanted(req))
      \/ Fails(all) /\ todo' = <<Answer("500", <<>>)>>
  <2>1. CASE ~Refused(req.prompt) /\ todo' = <<Answer("200", ts)>>
    <3>1. req \in Requests
      BY <1>2, CurType
    <3>2. Produces(req.prompt, n) = {Continued(req.prompt, Wanted(req))}
      BY <1>2, <1>4, <2>1, <3>1, ProducesFitting
    <3>3. QED
      BY <1>0, <2>1, <3>2
  <2>2. QED
    BY <1>0, <2>1
<1>6. Quiet'
  BY <1>1, StillQuiet DEF AInv
<1>7. Hearing'
  BY <1>1, StillHeard DEF AInv
<1>8. Deciding'
  BY <1>1 DEF Deciding, Talking
<1>9. ASSUME client[cur] # "gone" PROVE Ending' /\ todo' # <<>>
  <2>1. /\ ~Streams(cur) /\ Due(cur) = Continued(req.prompt, Wanted(req))
        /\ Refused(req.prompt) \/ cur \in Faults => MayFail(cur)
    BY <1>1, <1>2, <1>9, DueHere DEF AInv
  <2>2. /\ ~Streams(cur)' /\ Due(cur)' = Continued(req.prompt, Wanted(req))
        /\ Refused(req.prompt) \/ cur \in Faults => MayFail(cur)'
    BY <1>1, <1>3, <2>1, SameDue
  <2>3. Fails(all) => Refused(req.prompt) \/ cur \in Faults
    BY DEF Fails
  <2> HIDE DEF all
  <2>4. wire'[cur'] = <<>> /\ "500" \in Errors
    BY <1>1, <1>2, <1>3 DEF Errors
  <2>5. QED
    BY <1>5, <2>2, <2>3, <2>4 DEF Ending
<1>10. Telling'
  BY <1>1, <1>3, <1>9 DEF Telling, Talking
<1>11. QED
  BY <1>6, <1>7, <1>8, <1>10 DEF AInv

LEMMA PrefillTells ==
  ASSUME GreedyIsToken, HInv, AInv, Prefill
  PROVE  AInv'
<1> DEFINE p == req.prompt
<1>1. /\ pc = "prefill" /\ todo = <<>> /\ pc' \in {"sample", "close"} /\ UNCHANGED clients
      /\ UNCHANGED <<asks, client, sent, wire, queue, closed, got, toks>>
  BY DEF Prefill, Ready, clients
<1>2. /\ queue # <<>> /\ Status(req, got) = "" /\ req.stream /\ toks = <<>> /\ req.route \in Generating
      /\ sess \in [ctx : Seq(Token), max_new : 1..WantCap]
  BY <1>1 DEF HInv, Serving, AInv, Deciding, AnswerOK
<1>3. cur' = cur /\ req' = req
  BY <1>1 DEF cur, req
<1>4. p \in Seq(Token) /\ p # <<>> /\ Wanted(req) \in Nat /\ cur \in Conn
  BY <1>2, CurType, RequestType
<1>5. \/ sess' = [sess EXCEPT !.ctx = p] /\ todo' = Opening(req.route) /\ pc' = "sample" /\ ~Refused(p)
      \/ Fails(p) /\ todo' = <<Error>> /\ pc' = "close"
  BY DEF Prefill
<1>6. wire[cur] \in Seq(Fr)
  BY <1>4 DEF HInv, FramesOK, Frames, Fr
<1>7. client[cur] # "gone" => wire[cur] = <<Header>>
  <2>1. client[cur] # "gone" => wire[cur] \o <<>> = <<Header>>
    BY <1>1 DEF AInv, Telling
  <2>2. QED
    BY <1>6, <2>1
<1>8. Quiet'
  BY <1>1, StillQuiet DEF AInv
<1>9. Hearing'
  BY <1>1, StillHeard DEF AInv
<1>10. Deciding'
  <2>1. pc' = "sample" => sess'.ctx = p /\ ~Refused(p)
    BY <1>2, <1>5
  <2>2. toks' = Continued(p, 0) /\ Len(toks') = 0 /\ p \o toks' = p
    <3>1. toks' = <<>> /\ Continued(p, 0) = <<>>
      BY <1>1, <1>2, ContinuedNone
    <3> HIDE DEF p
    <3>2. p \o <<>> = p
      BY <1>4
    <3>3. QED
      BY <3>1, <3>2
  <2>3. Wanted(req) >= 0
    BY <1>4
  <2>4. Status(req', got') = "" /\ req'.stream /\ req'.prompt = p /\ Wanted(req') = Wanted(req)
    BY <1>1, <1>2, <1>3
  <2> HIDE DEF p
  <2>5. QED
    BY <1>1, <2>1, <2>2, <2>3, <2>4 DEF Deciding, Talking
<1>11. ASSUME client[cur] # "gone", pc' = "sample"
       PROVE  wire'[cur'] \o todo' = Begun(req'.route, toks') /\ Speaking'
  <2> DEFINE o == Opening(req.route)
  <2>1. wire'[cur'] = <<Header>> /\ todo' = o /\ toks' = <<>> /\ req'.route = req.route
    BY <1>1, <1>2, <1>3, <1>5, <1>7, <1>11
  <2>2. o \in Seq(Fr) /\ <<Header>> \in Seq(Fr) /\ NoDelta(o)
    <3>1. o \in Frames /\ NoDelta(o)
      BY <1>2, OpeningType, OpeningFine
    <3>2. Frames = Seq(Fr)
      BY DEF Frames, Fr
    <3>3. <<Header>> \in Seq(Fr)
      BY HeaderFine
    <3>4. QED
      BY <3>1, <3>2, <3>3
  <2> DEFINE a == <<Header>>
  <2> HIDE DEF o
  <2>3. (a \o o) \o <<>> = a \o o
    <3> HIDE DEF a
    <3>1. a \o o \in Seq(Fr)
      BY <2>2 DEF a
    <3>2. QED
      BY <3>1
  <2>4. Begun(req'.route, <<>>) = a \o o
    BY <2>1, <2>3, SpokenNone DEF Begun, o
  <2>5. Heard(<<Header>>) = <<>>
    <3>1. Heard(Append(<<>>, Header)) = Heard(<<>>)
      <4>1. <<>> \in Seq(Fr) /\ Header \in Fr /\ Header \notin Deltas
        BY HeaderFine
      <4>2. QED
        BY <4>1, HeardSame
    <3>2. Append(<<>>, Header) = <<Header>>
      OBVIOUS
    <3>3. QED
      BY <3>1, <3>2, HeardNone
  <2>6. Speaking'
    BY <2>1, <2>2, <2>5, TextNone DEF Speaking
  <2>7. QED
    BY <2>1, <2>4, <2>6
<1>12. ASSUME client[cur] # "gone", pc' = "close" PROVE Ending' /\ todo' # <<>>
  <2>1. todo' = <<Error>> /\ (Refused(p) \/ cur \in Faults)
    BY <1>5, <1>12 DEF Fails
  <2>2. Streams(cur) /\ MayFail(cur)
    BY <1>1, <1>2, <1>12, <2>1, DueHere DEF AInv
  <2>3. Streams(cur)' /\ MayFail(cur)'
    BY <1>1, <1>3, <2>2, SameDue
  <2>4. EndTold(cur) = "none"
    <3>1. wire[cur][Len(wire[cur])] = Header
      BY <1>7, <1>12
    <3>2. QED
      BY <3>1, HeaderFine, NotEnded DEF EndTold
  <2>5. EndTold(cur)' = "none"
    <3>1. EndTold(cur)' = EndTold(cur)
      BY <1>1, <1>3, SameTold
    <3>2. QED
      BY <2>4, <3>1
  <2>6. QED
    BY <2>1, <2>3, <2>5 DEF Ending
<1>13. Telling'
  BY <1>1, <1>3, <1>11, <1>12 DEF Telling, Talking
<1>14. QED
  BY <1>8, <1>9, <1>10, <1>13 DEF AInv

LEMMA BegunMore ==
  ASSUME NEW route \in Generating, NEW ts \in Seq(Token), NEW t \in Token
  PROVE  Begun(route, Append(ts, t)) = Begun(route, ts) \o Delta(t)
<1> DEFINE a == <<Header>> \o Opening(route)
           b == Spoken(ts)
           d == Delta(t)
<1>1. a \in Seq(Fr)
  <2>1. <<Header>> \in Seq(Fr)
    BY HeaderFine
  <2>2. Opening(route) \in Frames
    BY OpeningType
  <2>3. Frames = Seq(Fr)
    BY DEF Frames, Fr
  <2>4. QED
    BY <2>1, <2>2, <2>3
<1>2. b \in Seq(Fr) /\ d \in Seq(Fr)
  BY SpokenIs, DeltaType DEF Frames, Fr
<1>3. Begun(route, Append(ts, t)) = a \o (b \o d)
  BY SpokenMore DEF Begun
<1>4. Begun(route, ts) \o Delta(t) = (a \o b) \o d
  BY DEF Begun
<1> HIDE DEF a, b, d
<1>5. a \o (b \o d) = (a \o b) \o d
  BY <1>1, <1>2
<1>6. QED
  BY <1>3, <1>4, <1>5

\* Between two tokens all there is to tell has been told.
LEMMA TalkHere ==
  ASSUME HInv, AInv, pc \in Talking, todo = <<>>
  PROVE  /\ cur \in Conn /\ queue # <<>> /\ Status(req, got) = "" /\ req.stream /\ req.route \in Generating
         /\ toks \in Seq(Token) /\ toks = Continued(req.prompt, Len(toks)) /\ Len(toks) \in Nat
         /\ req.prompt \in Seq(Token) /\ req.prompt # <<>> /\ Wanted(req) \in Nat
         /\ client[cur] # "gone" =>
              /\ wire[cur] = Begun(req.route, toks) /\ wire[cur] \in Seq(Fr)
              /\ Heard(wire[cur]) = Text(toks) /\ EndTold(cur) = "none" /\ Streams(cur)
<1>1. /\ queue # <<>> /\ Status(req, got) = "" /\ req.stream /\ req.route \in Generating
      /\ toks \in Seq(Token) /\ toks = Continued(req.prompt, Len(toks)) /\ Len(toks) \in Nat
  <2>1. queue # <<>> /\ req.route \in Generating
    BY DEF Talking, HInv, Serving
  <2>2. Status(req, got) = "" /\ req.stream /\ toks = Continued(req.prompt, Len(toks))
    BY DEF Talking, AInv, Deciding
  <2>3. toks \in Seq(Token)
    BY DEF HInv, AnswerOK
  <2>4. Len(toks) \in Nat
    BY <2>3
  <2>5. QED
    BY <2>1, <2>2, <2>3, <2>4
<1>2. cur \in Conn /\ req.prompt \in Seq(Token) /\ req.prompt # <<>> /\ Wanted(req) \in Nat
  BY <1>1, CurType, RequestType
<1>3. ASSUME client[cur] # "gone"
      PROVE  /\ wire[cur] = Begun(req.route, toks) /\ wire[cur] \in Seq(Fr)
             /\ Heard(wire[cur]) = Text(toks) /\ EndTold(cur) = "none" /\ Streams(cur)
  <2> DEFINE w == wire[cur]
             b == Begun(req.route, toks)
  <2>1. w \in Seq(Fr)
    BY <1>2 DEF HInv, FramesOK, Frames, Fr
  <2>2. w \o <<>> = b /\ Speaking
    BY <1>3 DEF AInv, Telling, Talking
  <2> HIDE DEF b
  <2>3. w = b
    <3> HIDE DEF w
    <3>1. QED
      BY <2>1, <2>2
  <2>4. Heard(wire[cur]) = Text(toks)
    <3>1. ASSUME NEW t PROVE todo # <<Said(t)>>
      OBVIOUS
    <3>2. QED
      BY <2>2, <3>1 DEF Speaking
  <2>5. AllFine(b) /\ Len(b) >= 1 /\ b \in Seq(Fr)
    BY <1>1, BegunFine DEF b
  <2>6. Fine(w[Len(w)])
    <3> HIDE DEF w
    <3>1. Len(w) \in 1..Len(w)
      BY <2>1, <2>3, <2>5
    <3>2. QED
      BY <2>3, <2>5, <3>1 DEF AllFine
  <2>7. EndTold(cur) = "none"
    BY <2>6, NotEnded DEF EndTold
  <2>8. Streams(cur)
    <3>1. pc \notin {"accept", "headers", "body"}
      BY DEF Talking
    <3>2. QED
      BY <1>1, <1>3, <3>1, DueHere DEF AInv
  <2>9. QED
    BY <2>1, <2>3, <2>4, <2>7, <2>8 DEF b
<1>4. QED
  BY <1>1, <1>2, <1>3

LEMMA Appended ==
  ASSUME NEW p \in Seq(Token), NEW ts \in Seq(Token), NEW t \in Token
  PROVE  /\ Append(ts, t) \in Seq(Token) /\ Len(Append(ts, t)) = Len(ts) + 1 /\ Append(ts, t)[Len(ts) + 1] = t
         /\ Append(p \o ts, t) = p \o Append(ts, t)
<1>1. Append(ts, t) \in Seq(Token) /\ Len(Append(ts, t)) = Len(ts) + 1 /\ Append(ts, t)[Len(ts) + 1] = t
  OBVIOUS
<1>2. Append(p \o ts, t) = p \o Append(ts, t)
  OBVIOUS
<1>3. QED
  BY <1>1, <1>2

LEMMA SampleTells ==
  ASSUME RequestsFit, GreedyIsToken, HInv, AInv, Sample
  PROVE  AInv'
<1> DEFINE p == req.prompt
           w == wire[cur]
<1>0. PICK t \in NextTokens(sess.ctx) : toks' = Append(toks, t) /\ todo' = Delta(t)
  BY DEF Sample
<1>1. /\ pc = "sample" /\ todo = <<>> /\ toks' = Append(toks, t) /\ todo' = Delta(t) /\ UNCHANGED clients
      /\ pc' = IF Len(toks') < Wanted(req) THEN "decode" ELSE "finish"
      /\ UNCHANGED <<asks, client, sent, wire, queue, closed, got, sess>>
  BY <1>0 DEF Sample, Ready, clients
<1>2. /\ cur \in Conn /\ queue # <<>> /\ Status(req, got) = "" /\ req.stream /\ req.route \in Generating
      /\ toks \in Seq(Token) /\ toks = Continued(p, Len(toks)) /\ Len(toks) \in Nat /\ p \in Seq(Token)
      /\ Wanted(req) \in Nat
      /\ client[cur] # "gone" =>
           w = Begun(req.route, toks) /\ w \in Seq(Fr) /\ Heard(w) = Text(toks)
  BY <1>1, TalkHere DEF Talking
<1>3. /\ sess.ctx = p \o toks /\ sess.ctx # <<>> /\ sess.ctx \in Seq(Token) /\ Len(toks) < Wanted(req)
  BY <1>1 DEF AInv, Deciding, HInv, Serving, AnswerOK
<1>3a. ~Refused(p) /\ req \in Requests
  BY <1>1, <1>2, CurType DEF AInv, Deciding, Talking
<1>3b. t = Greedy(p \o toks)
  <2>1. NextTokens(p \o toks) = {Greedy(p \o toks)}
    BY <1>2, <1>3, <1>3a, NextTokensFitting
  <2>2. QED
    BY <1>0, <1>3, <2>1
<1>4. t \in Token
  BY <1>3, <1>3b DEF GreedyIsToken
<1>5. cur' = cur /\ req' = req
  BY <1>1 DEF cur, req
<1>6. Quiet'
  BY <1>1, StillQuiet DEF AInv
<1>7. Hearing'
  BY <1>1, StillHeard DEF AInv
<1>8. toks' = Continued(p, Len(toks'))
  <2>1. Continued(p, Len(toks) + 1) = Append(toks, t)
    BY <1>2, <1>3b, ContinuedMore
  <2>2. Len(Append(toks, t)) = Len(toks) + 1
    BY <1>2, <1>4, Appended
  <2>3. QED
    BY <1>1, <2>1, <2>2
<1>9. Len(toks') = Len(toks) + 1 /\ toks'[Len(toks')] = t
  <2>1. Len(Append(toks, t)) = Len(toks) + 1 /\ Append(toks, t)[Len(toks) + 1] = t
    BY <1>2, <1>4, Appended
  <2>2. QED
    BY <1>1, <2>1
<1>10. Append(sess.ctx, t) = p \o toks'
  <2>1. Append(p \o toks, t) = p \o Append(toks, t)
    BY <1>2, <1>4, Appended
  <2>2. QED
    BY <1>1, <1>3, <2>1
<1>11. Deciding'
  <2>1. /\ Status(req', got') = "" /\ req'.stream /\ req'.prompt = p /\ Wanted(req') = Wanted(req)
        /\ sess'.ctx = sess.ctx /\ ~Refused(p)
    BY <1>1, <1>2, <1>5, <1>3a
  <2>2. Len(toks') <= Wanted(req) /\ (pc' = "finish" => Len(toks') = Wanted(req))
    <3> DEFINE k == Len(toks)
               l == Len(toks')
               m == Wanted(req)
    <3>1. k \in Nat /\ m \in Nat /\ k < m /\ l = k + 1 /\ (pc' = "finish" => ~(l < m))
      BY <1>1, <1>2, <1>3, <1>9
    <3> HIDE DEF k, l, m
    <3>2. l <= m /\ (~(l < m) => l = m)
      BY <3>1
    <3>3. QED
      BY <3>1, <3>2 DEF l, m
  <2>3. pc' = "decode" => Append(sess'.ctx, toks'[Len(toks')]) = p \o toks'
    BY <1>9, <1>10, <2>1
  <2>4. pc' \in {"decode", "finish"}
    BY <1>1
  <2> HIDE DEF p
  <2>5. QED
    BY <1>8, <2>1, <2>2, <2>3, <2>4 DEF Deciding, Talking
<1>12. ASSUME client[cur] # "gone"
       PROVE  wire'[cur'] \o todo' = Begun(req'.route, toks') /\ Speaking'
  <2>1. w \o Delta(t) = Begun(req.route, Append(toks, t))
    BY <1>2, <1>4, <1>12, BegunMore
  <2>2. wire'[cur'] = w /\ req'.route = req.route /\ Heard(w) = Text(toks)
    BY <1>1, <1>2, <1>5, <1>12
  <2>3. Speaking'
    <3>1. CASE t \in Silent
      <4>1. Delta(t) = <<>> /\ Text(Append(toks, t)) = Text(toks)
        BY <1>2, <1>4, <3>1, TextMore DEF Delta
      <4>2. NoDelta(<<>>)
        BY DEF NoDelta
      <4>3. QED
        BY <1>1, <2>2, <4>1, <4>2 DEF Speaking
    <3>2. CASE t \notin Silent
      <4>1. Delta(t) = <<Said(t)>> /\ Text(Append(toks, t)) = Append(Text(toks), t)
        BY <1>2, <1>4, <3>2, TextMore DEF Delta, Said
      <4>2. QED
        BY <1>1, <1>4, <2>2, <4>1 DEF Speaking
    <3>3. QED
      BY <3>1, <3>2
  <2>4. QED
    BY <1>1, <2>1, <2>2, <2>3
<1>13. Telling'
  BY <1>1, <1>5, <1>12 DEF Telling, Talking
<1>14. QED
  BY <1>6, <1>7, <1>11, <1>13 DEF AInv

LEMMA DecodeTells ==
  ASSUME HInv, AInv, Decode
  PROVE  AInv'
<1> DEFINE ctx == Append(sess.ctx, toks[Len(toks)])
           p == req.prompt
<1>1. /\ pc = "decode" /\ todo = <<>> /\ pc' \in {"sample", "close"} /\ UNCHANGED clients
      /\ UNCHANGED <<asks, client, sent, wire, queue, closed, got, toks>>
  BY DEF Decode, Ready, clients
<1>2. /\ cur \in Conn /\ queue # <<>> /\ Status(req, got) = "" /\ req.stream
      /\ toks = Continued(p, Len(toks))
      /\ client[cur] # "gone" =>
           /\ wire[cur] = Begun(req.route, toks) /\ wire[cur] \in Seq(Fr) /\ Heard(wire[cur]) = Text(toks)
           /\ EndTold(cur) = "none" /\ Streams(cur)
  BY <1>1, TalkHere DEF Talking
<1>3. /\ ctx = p \o toks /\ sess \in [ctx : Seq(Token), max_new : 1..WantCap] /\ Len(toks) <= Wanted(req)
      /\ ~Refused(p)
  BY <1>1 DEF AInv, Deciding, Talking, HInv, AnswerOK
<1>4. \/ sess' = [sess EXCEPT !.ctx = ctx] /\ pc' = "sample" /\ todo' = <<>>
      \/ cur \in Faults /\ todo' = <<Error>> /\ pc' = "close"
  BY <1>1 DEF Decode
<1> HIDE DEF ctx
<1>5. cur' = cur /\ req' = req
  BY <1>1 DEF cur, req
<1>6. Quiet'
  BY <1>1, StillQuiet DEF AInv
<1>7. Hearing'
  BY <1>1, StillHeard DEF AInv
<1>8. Deciding'
  <2>1. pc' = "sample" => sess'.ctx = p \o toks
    BY <1>3, <1>4
  <2>2. Status(req', got') = "" /\ req'.stream /\ req'.prompt = p /\ Wanted(req') = Wanted(req) /\ toks' = toks
    BY <1>1, <1>2, <1>5
  <2> HIDE DEF p
  <2>3. QED
    BY <1>1, <1>2, <1>3, <2>1, <2>2 DEF Deciding, Talking
<1>9. ASSUME client[cur] # "gone", pc' = "sample"
      PROVE  wire'[cur'] \o todo' = Begun(req'.route, toks') /\ Speaking'
  <2>1. wire'[cur'] = wire[cur] /\ todo' = <<>> /\ req'.route = req.route /\ toks' = toks
    BY <1>1, <1>4, <1>5, <1>9
  <2> DEFINE w == wire[cur]
  <2>2. w \in Seq(Fr) /\ w = Begun(req.route, toks) /\ Heard(w) = Text(toks)
    BY <1>2, <1>9
  <2> HIDE DEF w
  <2>3. w \o <<>> = w
    BY <2>2
  <2>4. NoDelta(<<>>)
    BY DEF NoDelta
  <2>5. QED
    BY <2>1, <2>2, <2>3, <2>4 DEF Speaking, w
<1>10. ASSUME client[cur] # "gone", pc' = "close" PROVE Ending' /\ todo' # <<>>
  <2>1. todo' = <<Error>> /\ cur \in Faults
    BY <1>4, <1>10
  <2>2. MayFail(cur)
    BY <1>1, <1>10, <2>1, DueHere DEF AInv
  <2>3. Streams(cur)' /\ MayFail(cur)'
    BY <1>1, <1>2, <1>5, <1>10, <2>2, SameDue
  <2>4. EndTold(cur)' = EndTold(cur)
    BY <1>1, <1>5, SameTold
  <2>5. QED
    BY <1>2, <1>10, <2>1, <2>3, <2>4 DEF Ending
<1>11. Telling'
  BY <1>1, <1>5, <1>9, <1>10 DEF Telling, Talking
<1>12. QED
  BY <1>6, <1>7, <1>8, <1>11 DEF AInv

LEMMA FinishTells ==
  ASSUME HInv, AInv, Finish
  PROVE  AInv'
<1> DEFINE s == Closing(req.route, toks)
<1>1. /\ pc = "finish" /\ todo = <<>> /\ todo' = s /\ pc' = "close" /\ UNCHANGED clients
      /\ UNCHANGED <<asks, client, sent, wire, queue, closed, got, toks, sess>>
  BY DEF Finish, Ready, clients
<1>2. /\ cur \in Conn /\ Status(req, got) = "" /\ req.route \in Generating /\ toks = Continued(req.prompt, Len(toks))
      /\ client[cur] # "gone" =>
           wire[cur] = Begun(req.route, toks) /\ Heard(wire[cur]) = Text(toks) /\ Streams(cur)
  BY <1>1, TalkHere DEF Talking
<1>3. Len(toks) = Wanted(req)
  BY <1>1 DEF AInv, Deciding
<1>4. cur' = cur
  BY <1>1 DEF cur
<1>5. EndsOnce(s) /\ NoDelta(s)
  BY <1>2, ClosingEnds
<1>6. s # <<>>
  <2> HIDE DEF s
  <2>1. Len(s) >= 1
    BY <1>5 DEF EndsOnce
  <2>2. QED
    BY <2>1
<1>7. ASSUME client[cur] # "gone" PROVE Ending'
  <2>1. Due(cur) = toks /\ Stream(cur) = Begun(req.route, Due(cur)) \o Closing(req.route, Due(cur))
    BY <1>1, <1>2, <1>3, <1>7, DueHere DEF AInv
  <2>2. Streams(cur)' /\ Due(cur)' = toks /\ Stream(cur)' = Begun(req.route, toks) \o s
    BY <1>1, <1>2, <1>4, <1>7, <2>1, SameDue
  <2>3. wire'[cur'] = Begun(req.route, toks) /\ Heard(wire'[cur']) = Text(toks)
    BY <1>1, <1>2, <1>4, <1>7
  <2> HIDE DEF s
  <2>4. QED
    BY <1>1, <1>5, <2>2, <2>3 DEF Ending
<1>8. Telling'
  BY <1>1, <1>4, <1>6, <1>7 DEF Telling, Talking
<1>9. Quiet' /\ Hearing' /\ Deciding'
  BY <1>1, StillQuiet, StillHeard DEF AInv, Deciding, Talking
<1>10. QED
  BY <1>8, <1>9 DEF AInv

LEMMA CloseTells ==
  ASSUME HInv, AInv, CloseConnection
  PROVE  AInv'
<1>1. /\ pc = "close" /\ closed' = closed \cup {cur} /\ pc' = "accept"
      /\ UNCHANGED <<asks, client, sent, wire>>
  BY DEF CloseConnection, Ready, clients
<1>2. Quiet'
  BY <1>1 DEF AInv, Quiet
<1>3. Hearing'
  BY <1>1 DEF AInv, Hearing, Settled
<1>4. Deciding' /\ Telling'
  BY <1>1 DEF Deciding, Telling, Talking
<1>5. QED
  BY <1>2, <1>3, <1>4 DEF AInv

\* A frame to a client that is gone: whatever comes of it, that client is told nothing.
LEMMA EmitGoneTells ==
  ASSUME HInv, AInv, Emit, client[cur] = "gone"
  PROVE  AInv'
<1>1. /\ todo # <<>> /\ UNCHANGED <<asks, client, sent, wire, queue, closed, got, toks, sess>>
      /\ pc' = pc \/ pc' \in {"close", "dead"}
  BY DEF Emit, clients
<1>2. pc \notin {"accept", "headers", "body", "handle", "generate"}
  BY <1>1 DEF HInv, Serving, AInv, Hearing
<1>3. cur' = cur /\ req' = req
  BY <1>1 DEF cur, req
<1>4. Quiet'
  BY <1>1, <1>2, StillQuiet DEF AInv
<1>5. Hearing'
  BY <1>1, <1>2, <1>3 DEF AInv, Hearing, Settled
<1>6. Deciding'
  BY <1>1, <1>2, <1>3 DEF AInv, Deciding, Talking
<1>7. Telling'
  BY <1>1, <1>3 DEF Telling
<1>8. QED
  BY <1>4, <1>5, <1>6, <1>7 DEF AInv

-----------------------------------------------------------------------------
(***************************************************************************)
(* A frame to a client that is there                                       *)
(***************************************************************************)
\* What a frame can tell c: nothing, one more token, all that is due, or that it failed.
Nothing(c) == TextGiven(c)' = TextGiven(c) /\ EndTold(c)' = EndTold(c)

OneToken(c) ==
  /\ EndTold(c) = "none" /\ EndTold(c)' = "none" /\ Len(TextGiven(c)) < Len(Text(Due(c)))
  /\ TextGiven(c)' = Append(TextGiven(c), Text(Due(c))[Len(TextGiven(c)) + 1])

Completed(c) == EndTold(c) = "none" /\ TextGiven(c)' = Text(Due(c)) /\ EndTold(c)' = "complete"

Failed(c) == EndTold(c) = "none" /\ MayFail(c) /\ TextGiven(c)' = TextGiven(c) /\ EndTold(c)' = "error"

Told(c) == Nothing(c) \/ OneToken(c) \/ Completed(c) \/ Failed(c)

LEMMA FineSoFar ==
  ASSUME NEW w \in Seq(Fr), NEW t \in Seq(Fr), t # <<>>, AllFine(w \o t) \/ EndsOnce(w \o t)
  PROVE  w = <<>> \/ Fine(w[Len(w)])
<1> DEFINE n == Len(w)
           a == w \o t
           m == Len(a)
<1>1. n \in Nat /\ m \in Nat /\ n < m /\ (n = 0 => w = <<>>) /\ \A i \in 1..n : a[i] = w[i]
  OBVIOUS
<1>2. \A i \in 1..(m - 1) : Fine(a[i])
  <2>1. CASE AllFine(a)
    <3>1. \A i \in 1..m : Fine(a[i])
      BY <2>1 DEF AllFine
    <3> HIDE DEF a, m
    <3>2. QED
      BY <1>1, <3>1
  <2>2. CASE EndsOnce(a)
    BY <2>2 DEF EndsOnce
  <2>3. QED
    BY <2>1, <2>2
<1> HIDE DEF a, m
<1>3. CASE n = 0
  BY <1>1, <1>3
<1>4. CASE n # 0
  <2>1. n \in 1..n /\ n \in 1..(m - 1)
    BY <1>1, <1>4
  <2>2. QED
    BY <1>1, <1>2, <2>1
<1>5. QED
  BY <1>3, <1>4

LEMMA NoDeltaTail ==
  ASSUME NEW t \in Seq(Fr), t # <<>>, NoDelta(t)
  PROVE  Head(t) \notin Deltas /\ NoDelta(Tail(t))
<1> DEFINE u == Tail(t)
           n == Len(t)
<1>1. /\ n \in Nat /\ n >= 1 /\ u \in Seq(Fr) /\ Len(u) = n - 1 /\ Head(t) = t[1]
      /\ \A i \in 1..(n - 1) : u[i] = t[i + 1]
  OBVIOUS
<1>2. \A i \in 1..n : t[i] \notin Deltas
  BY DEF NoDelta
<1> HIDE DEF u, n
<1>3. 1 \in 1..n /\ \A i \in 1..(n - 1) : i + 1 \in 1..n
  BY <1>1
<1>4. NoDelta(u)
  BY <1>1, <1>2, <1>3 DEF NoDelta
<1>5. QED
  BY <1>1, <1>2, <1>3, <1>4 DEF u

\* Of a stream, a frame that ends nothing and carries no text tells nothing.
LEMMA NothingTold ==
  ASSUME NEW c, UNCHANGED <<asks, sent>>, Streams(c), wire[c] \in Seq(Fr), NEW x \in Fr,
         wire'[c] = Append(wire[c], x), Fine(x), x \notin Deltas, EndTold(c) = "none"
  PROVE  Nothing(c)
<1> DEFINE w == wire[c]
           v == Append(w, x)
<1>1. Heard(v) = Heard(w)
  BY HeardSame
<1>2. Streams(c)'
  BY SameDue
<1>3. TextGiven(c) = Heard(w) /\ TextGiven(c)' = Heard(v)
  BY <1>2 DEF TextGiven
<1>4. v[Len(v)] = x
  OBVIOUS
<1> HIDE DEF v
<1>5. EndTold(c)' = "none"
  <2>1. EndTold(c)' = EndOf(v, Whole(c)')
    BY DEF EndTold, v
  <2>2. QED
    BY <1>4, <2>1, NotEnded
<1>6. QED
  BY <1>1, <1>3, <1>5 DEF Nothing

LEMMA EmitHere ==
  ASSUME HInv, AInv, Emit, client[cur] # "gone"
  PROVE  /\ todo # <<>> /\ todo \in Seq(Fr) /\ wire[cur] \in Seq(Fr) /\ cur \in Conn
         /\ wire'[cur] = Append(wire[cur], Head(todo)) /\ todo' = Tail(todo) /\ pc' = pc
         /\ \A c \in Conn : c # cur => wire'[c] = wire[c]
         /\ pc \in {"prefill", "close"} \cup Talking /\ cur' = cur /\ req' = req
         /\ UNCHANGED <<asks, client, sent, queue, closed, got, toks, sess>>
<1>1. /\ todo # <<>> /\ wire' = [wire EXCEPT ![cur] = Append(@, Head(todo))] /\ todo' = Tail(todo) /\ pc' = pc
      /\ UNCHANGED <<asks, client, sent, queue, closed, got, toks, sess>>
  BY DEF Emit, clients
<1>2. /\ pc \in {"prefill", "close"} \cup Talking /\ queue # <<>>
  BY <1>1 DEF HInv, Serving, AInv, Hearing, Talking
<1>3. cur \in Conn
  BY <1>2, CurType
<1>4. wire \in [Conn -> Seq(Fr)] /\ todo \in Seq(Fr)
  BY DEF HInv, FramesOK, Frames, Fr
<1>5. wire[cur] \in Seq(Fr)
  BY <1>3, <1>4
<1>6. wire'[cur] = Append(wire[cur], Head(todo)) /\ \A c \in Conn : c # cur => wire'[c] = wire[c]
  BY <1>1, <1>3, <1>4
<1>7. cur' = cur /\ req' = req
  BY <1>1 DEF cur, req
<1>8. QED
  BY <1>1, <1>2, <1>3, <1>4, <1>5, <1>6, <1>7

LEMMA EmitHeader ==
  ASSUME HInv, AInv, Emit, client[cur] # "gone", pc = "prefill"
  PROVE  Nothing(cur) /\ Telling'
<1> DEFINE w == wire[cur]
           x == Head(todo)
           v == Append(w, x)
<1>1. /\ todo # <<>> /\ todo \in Seq(Fr) /\ w \in Seq(Fr) /\ cur \in Conn
      /\ wire'[cur] = v /\ todo' = Tail(todo) /\ pc' = pc /\ cur' = cur
      /\ UNCHANGED <<asks, sent>>
  BY EmitHere
<1>2. w \o todo = <<Header>>
  BY DEF AInv, Telling
<1>3. /\ v \o Tail(todo) = w \o todo /\ x \in Fr /\ x = (w \o todo)[Len(w) + 1]
      /\ Len(w) + 1 \in 1..Len(w \o todo)
  BY <1>1, OneMore
<1>4. Len(w) + 1 = 1 /\ x = Header
  <2>1. Len(<<Header>>) = 1 /\ <<Header>>[1] = Header
    OBVIOUS
  <2> HIDE DEF w, x
  <2>2. Len(w) + 1 = 1
    BY <1>1, <1>2, <1>3, <2>1
  <2>3. QED
    BY <1>2, <1>3, <2>1, <2>2
<1>5. AllFine(w \o todo)
  BY <1>2, HeaderFine DEF AllFine
<1>6. EndTold(cur) = "none"
  BY <1>1, <1>5, FineSoFar, NotEnded DEF EndTold
<1>7. Streams(cur)
  <2>1. Status(req, got) = "" /\ req.stream
    BY DEF AInv, Deciding
  <2>2. QED
    BY <2>1, DueHere DEF AInv
<1> HIDE DEF x
<1>8. Nothing(cur)
  BY <1>1, <1>3, <1>4, <1>6, <1>7, HeaderFine, NothingTold
<1>9. Telling'
  BY <1>1, <1>2, <1>3 DEF Telling, Talking
<1>10. QED
  BY <1>8, <1>9

LEMMA EmitTalk ==
  ASSUME GreedyIsToken, HInv, AInv, Emit, client[cur] # "gone", pc \in Talking
  PROVE  (Nothing(cur) \/ OneToken(cur)) /\ Telling'
<1> DEFINE w == wire[cur]
           x == Head(todo)
           v == Append(w, x)
           b == Begun(req.route, toks)
           u == Tail(todo)
           p == Text(toks)
           e == Text(Due(cur))
<1>1. /\ todo # <<>> /\ todo \in Seq(Fr) /\ w \in Seq(Fr) /\ cur \in Conn
      /\ wire'[cur] = v /\ todo' = u /\ pc' = pc /\ cur' = cur /\ req' = req
      /\ UNCHANGED <<asks, sent, toks>>
  BY EmitHere
<1>2. w \o todo = b /\ Speaking /\ pc \notin {"accept", "headers", "body", "prefill", "close"}
  BY DEF AInv, Telling, Talking
<1>3. /\ toks \in Seq(Token) /\ req.route \in Generating /\ queue # <<>> /\ toks = Continued(req.prompt, Len(toks))
      /\ Len(toks) <= Wanted(req) /\ Status(req, got) = "" /\ req.stream
  BY DEF HInv, Serving, AnswerOK, AInv, Deciding, Talking
<1>4. AllFine(b)
  BY <1>3, BegunFine
<1>5. EndTold(cur) = "none"
  <2>1. AllFine(w \o todo)
    BY <1>2, <1>4
  <2>2. QED
    BY <1>1, <2>1, FineSoFar, NotEnded DEF EndTold
<1>6. Streams(cur) /\ Due(cur) = Continued(req.prompt, Wanted(req))
  BY <1>2, <1>3, DueHere DEF AInv
<1>7. v \o u = b /\ x \in Fr /\ x = b[Len(w) + 1] /\ Len(w) + 1 \in 1..Len(b) /\ u \in Seq(Fr)
  BY <1>1, <1>2, OneMore
<1>8. Fine(x)
  BY <1>4, <1>7 DEF AllFine
<1>9. /\ p \in Seq(Token) /\ e \in Seq(Token) /\ Begins(p, e)
  <2>1. req.prompt \in Seq(Token) /\ req.prompt # <<>> /\ Wanted(req) \in Nat /\ Len(toks) \in Nat
    <3>1. Len(toks) \in Nat
      <4>1. toks \in Seq(Token)
        BY <1>3
      <4>2. QED
        BY <4>1
    <3>2. req \in Requests
      BY <1>3, CurType
    <3>3. QED
      BY <3>1, <3>2, RequestType
  <2>2. Due(cur) \in Seq(Token)
    BY <1>6, <2>1, ContinuedType
  <2>3. Begins(Text(Continued(req.prompt, Len(toks))), e)
    BY <1>3, <1>6, <2>1, TextBegins
  <2>4. QED
    BY <1>3, <2>2, <2>3, TextType
<1>10. TextGiven(cur) = Heard(w) /\ TextGiven(cur)' = Heard(v)
  <2>1. Streams(cur)'
    BY <1>1, <1>6, SameDue
  <2>2. QED
    BY <1>1, <1>6, <2>1 DEF TextGiven
<1>11. ASSUME Speaking' PROVE Telling'
  <2>1. wire'[cur'] \o todo' = Begun(req'.route, toks')
    BY <1>1, <1>7
  <2>2. QED
    BY <1>1, <1>2, <1>11, <2>1 DEF Telling, Talking
<1> HIDE DEF b, e, p
<1>12. CASE \E t \in Token : todo = <<Said(t)>> /\ Append(Heard(w), t) = Text(toks)
  <2>1. PICK t \in Token : todo = <<Said(t)>> /\ Append(Heard(w), t) = p
    BY <1>12 DEF p
  <2>2. x = Said(t) /\ u = <<>>
    BY <2>1
  <2> DEFINE h == Heard(w)
  <2>3. h \in Seq(Token) /\ Heard(v) = Append(h, t)
    BY <1>1, <2>2, HeardIs, HeardMore
  <2> HIDE DEF x, v, u, h
  <2>4. Len(p) = Len(h) + 1 /\ p[Len(h) + 1] = t /\ Len(h) \in Nat
    BY <2>1, <2>3 DEF h
  <2>5. Len(p) <= Len(e) /\ \A i \in 1..Len(p) : p[i] = e[i]
    BY <1>9 DEF Begins
  <2>6. Len(h) < Len(e) /\ e[Len(h) + 1] = t
    <3>1. Len(h) + 1 \in 1..Len(p) /\ Len(e) \in Nat
      BY <1>9, <2>4
    <3>2. QED
      BY <2>4, <2>5, <3>1
  <2>7. EndTold(cur)' = "none"
    <3>1. v[Len(v)] = x
      BY <1>1, <1>7 DEF v
    <3>2. EndTold(cur)' = EndOf(v, Whole(cur)')
      BY <1>1 DEF EndTold, v
    <3>3. QED
      BY <1>8, <3>1, <3>2, NotEnded
  <2>8. OneToken(cur)
    BY <1>5, <1>10, <2>3, <2>6, <2>7 DEF OneToken, e, h
  <2>9. Speaking'
    <3>1. NoDelta(<<>>)
      BY DEF NoDelta
    <3>2. Heard(wire'[cur']) = Text(toks')
      BY <1>1, <2>1, <2>3 DEF p, h
    <3>3. QED
      BY <1>1, <2>2, <3>1, <3>2 DEF Speaking
  <2>10. QED
    BY <1>11, <2>8, <2>9
<1>13. CASE NoDelta(todo) /\ Heard(w) = Text(toks)
  <2>1. x \notin Deltas /\ NoDelta(u)
    BY <1>1, <1>13, NoDeltaTail
  <2>2. Heard(v) = Heard(w)
    BY <1>1, <1>7, <2>1, HeardSame
  <2> HIDE DEF x, u
  <2>3. Nothing(cur)
    BY <1>1, <1>5, <1>6, <1>7, <1>8, <2>1, NothingTold
  <2>4. Speaking'
    BY <1>1, <1>13, <2>1, <2>2 DEF Speaking
  <2>5. QED
    BY <1>11, <2>3, <2>4
<1>14. QED
  BY <1>2, <1>12, <1>13 DEF Speaking

\* The last frame of a stream, or the one response, tells that the answer is complete.
LEMMA EmitEnd ==
  ASSUME GreedyIsToken, HInv, AInv, Emit, client[cur] # "gone", pc = "close"
  PROVE  Told(cur) /\ Telling'
<1> DEFINE w == wire[cur]
           x == Head(todo)
           v == Append(w, x)
           u == Tail(todo)
           s == Stream(cur)
<1>1. /\ todo # <<>> /\ todo \in Seq(Fr) /\ w \in Seq(Fr) /\ cur \in Conn
      /\ wire'[cur] = v /\ todo' = u /\ pc' = pc /\ cur' = cur /\ req' = req
      /\ UNCHANGED <<asks, sent, toks>>
  BY EmitHere
<1>2. Ending
  BY <1>1 DEF AInv, Telling
<1>3. /\ v \o u = w \o todo /\ x \in Fr /\ x = (w \o todo)[Len(w) + 1] /\ u \in Seq(Fr)
      /\ Len(w) + 1 \in 1..Len(w \o todo) /\ (u # <<>> => Len(w) + 1 \in 1..(Len(w \o todo) - 1))
      /\ (u = <<>> => v = w \o todo)
  BY <1>1, OneMore
<1>4. /\ Streams(cur)' = Streams(cur) /\ Due(cur)' = Due(cur) /\ Stream(cur)' = s /\ MayFail(cur)' = MayFail(cur)
      /\ Whole(cur)' = Whole(cur)
  BY <1>1, SameDue
<1>5. ASSUME IF u = <<>> THEN EndTold(cur)' # "none" ELSE Ending' PROVE Telling'
  BY <1>1, <1>5 DEF Telling, Talking
<1>6. EndTold(cur) = EndOf(w, Whole(cur)) /\ EndTold(cur)' = EndOf(v, Whole(cur))
  <2>1. EndTold(cur)' = EndOf(v, Whole(cur)')
    BY <1>1 DEF EndTold
  <2>2. QED
    BY <1>4, <2>1 DEF EndTold
<1>7. v # <<>> /\ v[Len(v)] = x
  <2>1. w \in Seq(Fr) /\ x \in Fr
    BY <1>1, <1>3
  <2> HIDE DEF w, x
  <2>2. QED
    BY <2>1
<1>8. /\ Streams(cur) => TextGiven(cur) = Heard(w) /\ TextGiven(cur)' = Heard(v)
      /\ ~Streams(cur) /\ w = <<>> => TextGiven(cur) = <<>> /\ TextGiven(cur)' = Text(x.text)
  <2>1. Streams(cur) => TextGiven(cur) = Heard(w) /\ TextGiven(cur)' = Heard(v)
    BY <1>1, <1>4 DEF TextGiven
  <2>2. ASSUME ~Streams(cur), w = <<>> PROVE TextGiven(cur) = <<>> /\ TextGiven(cur)' = Text(x.text)
    <3>1. v[1] = x
      BY <2>2
    <3>2. QED
      BY <1>1, <1>4, <1>7, <2>2, <3>1 DEF TextGiven
  <2>3. QED
    BY <2>1, <2>2
<1>9. CASE Streams(cur) /\ w \o todo = s /\ NoDelta(todo) /\ Heard(w) = Text(Due(cur))
  <2>1. EndsOnce(s)
    <3> DEFINE d == Due(cur)
               r == req.route
    <3>1. Status(req, got) = "" /\ s = Begun(r, d) \o Closing(r, d) /\ d = Continued(req.prompt, Wanted(req))
      BY <1>9, DueHere DEF AInv
    <3>2. r \in Generating /\ queue # <<>>
      BY <3>1, StatusType DEF HInv, Serving
    <3>3. d \in Seq(Token) /\ Len(d) <= WantCap
      <4>1. req \in Requests
        BY <3>2, CurType
      <4>2. /\ req.prompt \in Seq(Token) /\ req.prompt # <<>> /\ Wanted(req) \in 1..WantCap
            /\ Wanted(req) \in Nat
        BY <4>1, RequestType
      <4>3. Wanted(req) <= WantCap
        BY <4>2
      <4>4. d \in Seq(Token) /\ Len(d) = Wanted(req)
        BY <3>1, <4>2, ContinuedType
      <4>5. QED
        BY <4>3, <4>4
    <3> HIDE DEF d, r, s
    <3>4. Begun(r, d) \in Seq(Fr) /\ AllFine(Begun(r, d))
      BY <3>2, <3>3, BegunFine
    <3>5. Closing(r, d) \in Seq(Fr) /\ EndsOnce(Closing(r, d))
      <4>1. Closing(r, d) \in Frames
        BY <3>2, <3>3, ClosingType
      <4>2. QED
        BY <3>2, <4>1, ClosingEnds DEF Frames, Fr
    <3>6. QED
      BY <3>1, <3>4, <3>5, StreamEnds
  <2> HIDE DEF s
  <2>2. EndTold(cur) = "none"
    <3>1. EndsOnce(w \o todo)
      BY <1>9, <2>1
    <3>2. w = <<>> \/ Fine(w[Len(w)])
      BY <1>1, <3>1, FineSoFar
    <3>3. QED
      BY <1>6, <3>2, NotEnded
  <2>3. x \notin Deltas /\ NoDelta(u)
    BY <1>1, <1>9, NoDeltaTail
  <2>4. Heard(v) = Heard(w)
    BY <1>1, <1>3, <2>3, HeardSame
  <2> HIDE DEF x, u, v, w
  <2>5. CASE u = <<>>
    <3>1. v = s /\ Whole(cur) = s
      BY <1>3, <1>9, <2>5 DEF Whole, s
    <3>2. s[Len(s)].kind \in Ends /\ s[Len(s)].kind \notin Errors
      BY <2>1 DEF EndsOnce
    <3>3. EndTold(cur)' = "complete"
      BY <1>6, <1>7, <3>1, <3>2 DEF EndOf
    <3>4. QED
      BY <1>5, <1>8, <1>9, <2>2, <2>4, <2>5, <3>3 DEF Told, Completed
  <2>6. CASE u # <<>>
    <3>1. Fine(x)
      <4>1. Len(w) + 1 \in 1..(Len(s) - 1) /\ x = s[Len(w) + 1]
        BY <1>3, <1>9, <2>6
      <4>2. QED
        BY <2>1, <4>1 DEF EndsOnce
    <3>2. Nothing(cur)
      <4>1. wire[cur] \in Seq(Fr) /\ wire'[cur] = Append(wire[cur], x)
        BY <1>1 DEF v, w
      <4>2. QED
        BY <1>1, <1>3, <1>9, <2>2, <2>3, <3>1, <4>1, NothingTold
    <3>3. Ending'
      <4>1. wire'[cur'] = v /\ v \o u = s /\ Heard(v) = Text(Due(cur))
        BY <1>1, <1>3, <1>9, <2>4
      <4>2. QED
        BY <1>1, <1>4, <1>9, <2>3, <4>1 DEF Ending
    <3>4. QED
      BY <1>5, <2>6, <3>2, <3>3 DEF Told
  <2>7. QED
    BY <2>5, <2>6
<1>10. CASE Streams(cur) /\ MayFail(cur) /\ todo = <<Error>> /\ EndTold(cur) = "none"
  <2>1. x = Error /\ u = <<>>
    BY <1>10
  <2> HIDE DEF x, v, u, w
  <2>2. EndTold(cur)' = "error"
    <3>1. x.kind \in Errors
      BY <2>1 DEF Error, Event, Frame, Errors
    <3>2. QED
      BY <1>6, <1>7, <3>1 DEF EndOf
  <2>3. Heard(v) = Heard(w)
    BY <1>1, <1>3, <2>1, HeaderFine, HeardSame DEF v
  <2>4. QED
    BY <1>5, <1>8, <1>10, <2>1, <2>2, <2>3 DEF Told, Failed
<1>11. CASE /\ ~Streams(cur) /\ w = <<>>
            /\ \/ todo = <<Answer("200", Due(cur))>>
               \/ MayFail(cur) /\ \E st \in Errors : todo = <<Answer(st, <<>>)>>
  <2>1. EndTold(cur) = "none"
    BY <1>6, <1>11, NotEnded
  <2>2. TextGiven(cur) = <<>> /\ TextGiven(cur)' = Text(x.text)
    BY <1>8, <1>11
  <2>3. CASE todo = <<Answer("200", Due(cur))>>
    <3> DEFINE a == Answer("200", Due(cur))
    <3>1. a.kind \in Ends /\ a.kind \notin Errors /\ a.text = Due(cur)
      BY DEF Answer, Frame, Ends, Errors
    <3>2. Whole(cur) = <<a>>
      BY <1>11 DEF Whole
    <3>3. x = a /\ u = <<>> /\ v = <<a>>
      BY <1>11, <2>3
    <3> HIDE DEF a, x, u, v
    <3>4. EndTold(cur)' = "complete"
      BY <1>6, <1>7, <3>1, <3>2, <3>3 DEF EndOf
    <3>5. QED
      BY <1>5, <2>1, <2>2, <3>1, <3>3, <3>4 DEF Told, Completed
  <2>4. CASE MayFail(cur) /\ \E st \in Errors : todo = <<Answer(st, <<>>)>>
    <3>1. PICK st \in Errors : todo = <<Answer(st, <<>>)>>
      BY <2>4
    <3>2. x = Answer(st, <<>>) /\ u = <<>>
      BY <3>1
    <3>3. x.kind = st /\ x.text = <<>>
      BY <3>2 DEF Answer, Frame
    <3> HIDE DEF x, u, v
    <3>4. EndTold(cur)' = "error"
      BY <1>6, <1>7, <3>3 DEF EndOf
    <3>5. QED
      BY <1>5, <2>1, <2>2, <2>4, <3>2, <3>3, <3>4, TextNone DEF Told, Failed
  <2>5. QED
    BY <1>11, <2>3, <2>4
<1>12. QED
  BY <1>2, <1>9, <1>10, <1>11 DEF Ending

LEMMA EmitTells ==
  ASSUME GreedyIsToken, HInv, AInv, Emit
  PROVE  AInv' /\ (client[cur] # "gone" => Told(cur))
<1>1. CASE client[cur] = "gone"
  BY <1>1, EmitGoneTells
<1>2. CASE client[cur] # "gone"
  <2>1. /\ cur \in Conn /\ \A c \in Conn : c # cur => wire'[c] = wire[c]
        /\ pc \in {"prefill", "close"} \cup Talking /\ pc' = pc /\ cur' = cur /\ req' = req
        /\ UNCHANGED <<asks, client, sent, queue, closed, got, toks, sess>> /\ UNCHANGED clients
    BY <1>2, EmitHere DEF clients
  <2>2. Quiet'
    BY <2>1 DEF AInv, Quiet, Talking
  <2>3. Hearing'
    BY <2>1, StillHeard DEF AInv, Talking
  <2>4. Deciding'
    BY <2>1 DEF AInv, Deciding
  <2>5. Told(cur) /\ Telling'
    BY <1>2, <2>1, EmitHeader, EmitTalk, EmitEnd DEF Told
  <2>6. QED
    BY <2>2, <2>3, <2>4, <2>5 DEF AInv
<1>3. QED
  BY <1>1, <1>2

-----------------------------------------------------------------------------
(***************************************************************************)
(* Whatever the clients do                                                 *)
(***************************************************************************)
\* A step of the clients that is no new part of a request that is past its headers.
LEMMA ClientsTell ==
  ASSUME HInv, AInv, UNCHANGED <<asks, wire, closed, server, sess>>, pc # "accept" => cur' = cur,
         \A c \in closed : Settled(c)',
         pc \in {"headers", "body"} => sent'[cur] \in 0..3 /\ sent[cur] \in 0..3 /\ sent[cur] <= sent'[cur],
         pc \notin {"accept", "headers", "body"} => sent'[cur] = sent[cur] /\ (Settled(cur) => Settled(cur)'),
         pc # "accept" /\ client[cur] = "gone" => client'[cur] = "gone"
  PROVE  AInv'
<1>1. pc' = pc /\ got' = got /\ todo' = todo /\ toks' = toks /\ asks' = asks /\ wire' = wire /\ closed' = closed
      /\ sess' = sess
  BY DEF server
<1>2. pc # "accept" => cur' = cur /\ req' = req
  BY <1>1 DEF req
<1>3. Quiet'
  BY <1>1, <1>2 DEF AInv, Quiet
<1>4. Hearing'
  <2>1. pc \in {"headers", "body"} => got' <= sent'[cur'] /\ wire'[cur'] = <<>>
    <3> SUFFICES ASSUME pc \in {"headers", "body"} PROVE got' <= sent'[cur'] /\ wire'[cur'] = <<>>
      OBVIOUS
    <3>1. got \in 0..3 /\ got <= sent[cur] /\ wire[cur] = <<>>
      BY DEF HInv, AnswerOK, AInv, Hearing
    <3>2. QED
      BY <1>1, <1>2, <3>1
  <2>2. pc \notin {"accept", "headers", "body"} =>
          Settled(cur)' /\ (client'[cur'] # "gone" => got' = sent'[cur'])
    BY <1>1, <1>2 DEF AInv, Hearing
  <2>3. pc = "body" => got' = 2 /\ Parts(req') = 3
    BY <1>1, <1>2 DEF AInv, Hearing
  <2>4. /\ pc \in {"handle", "generate"} => wire'[cur'] = <<>> /\ todo' = <<>>
        /\ pc = "dead" => client'[cur'] = "gone"
    BY <1>1, <1>2 DEF AInv, Hearing
  <2>5. QED
    BY <1>1, <2>1, <2>2, <2>3, <2>4 DEF Hearing
<1>5. Deciding'
  BY <1>1, <1>2 DEF AInv, Deciding, Talking
<1>6. Telling'
  <2> SUFFICES ASSUME pc # "accept", client'[cur'] # "gone"
               PROVE  /\ pc = "prefill" => wire'[cur'] \o todo' = <<Header>>
                      /\ pc \in Talking => wire'[cur'] \o todo' = Begun(req'.route, toks') /\ Speaking'
                      /\ pc = "close" => IF todo' = <<>> THEN EndTold(cur)' # "none" ELSE Ending'
    BY <1>1 DEF Telling
  <2>1. cur' = cur /\ req' = req /\ client[cur] # "gone"
    BY <1>2
  <2>2. pc = "prefill" => wire[cur] \o todo = <<Header>>
    BY <2>1 DEF AInv, Telling
  <2>3. pc \in Talking => wire[cur] \o todo = Begun(req.route, toks) /\ Speaking'
    <3>1. pc \in Talking => wire[cur] \o todo = Begun(req.route, toks) /\ Speaking
      BY <2>1 DEF AInv, Telling
    <3>2. Speaking <=> Speaking'
      BY <1>1, <2>1 DEF Speaking
    <3>3. QED
      BY <3>1, <3>2
  <2>4. pc = "close" => IF todo = <<>> THEN EndTold(cur)' # "none" ELSE Ending'
    <3> SUFFICES ASSUME pc = "close" PROVE IF todo = <<>> THEN EndTold(cur)' # "none" ELSE Ending'
      OBVIOUS
    <3>1. IF todo = <<>> THEN EndTold(cur) # "none" ELSE Ending
      BY <2>1 DEF AInv, Telling
    <3>2. asks'[cur] = asks[cur] /\ sent'[cur] = sent[cur] /\ wire'[cur] = wire[cur]
      BY <1>1
    <3>3. /\ Due(cur)' = Due(cur) /\ Streams(cur)' = Streams(cur) /\ MayFail(cur)' = MayFail(cur)
          /\ Stream(cur)' = Stream(cur) /\ EndTold(cur)' = EndTold(cur)
      BY <2>1, <3>2, SameDueOf, SameTold
    <3>4. Ending => Ending'
      BY <1>1, <2>1, <3>3 DEF Ending
    <3>5. QED
      BY <3>1, <3>3, <3>4
  <2>5. QED
    BY <1>1, <2>1, <2>2, <2>3, <2>4
<1>7. QED
  BY <1>3, <1>4, <1>5, <1>6 DEF AInv

LEMMA ConnectTells ==
  ASSUME HInv, AInv, NEW c \in Conn, Connect(c)
  PROVE  AInv'
<1>1. /\ client[c] = "away" /\ client' = [client EXCEPT ![c] = "open"] /\ queue' = Append(queue, c)
      /\ UNCHANGED <<asks, sent, wire, closed, server, sess>>
  BY DEF Connect
<1>2. /\ client \in [Conn -> {"away", "open", "ended", "gone"}] /\ sent \in [Conn -> 0..3] /\ queue \in Seq(Conn)
      /\ \A i \in 1..Len(queue) : client[queue[i]] # "away"
      /\ \A d \in closed : client[d] # "away" /\ d \in Conn
  BY DEF HInv, ClientsOK, Line
<1>3. \A d \in Conn : d # c => client'[d] = client[d]
  BY <1>1, <1>2
<1>4. pc # "accept" => cur' = cur /\ cur \in Conn /\ cur # c
  <2> SUFFICES ASSUME pc # "accept" PROVE cur' = cur /\ cur \in Conn /\ cur # c
    OBVIOUS
  <2>1. queue # <<>>
    BY DEF HInv, Serving
  <2>2. cur = queue[1] /\ Len(queue) >= 1 /\ cur \in Conn
    BY <2>1, CurType
  <2>3. cur' = cur
    BY <1>1, <1>2, <2>1 DEF cur
  <2>4. client[queue[1]] # "away"
    <3>1. 1 \in 1..Len(queue)
      BY <1>2, <2>2
    <3>2. QED
      BY <1>2, <3>1
  <2>5. QED
    BY <1>1, <2>2, <2>3, <2>4
<1>5. \A d \in closed : Settled(d)'
  <2> TAKE d \in closed
  <2>1. Settled(d) /\ d \in Conn /\ d # c
    BY <1>1, <1>2 DEF AInv, Hearing
  <2>2. QED
    BY <1>1, <1>3, <2>1 DEF Settled
<1>6. pc # "accept" => sent[cur] \in 0..3 /\ sent' = sent /\ client'[cur] = client[cur]
  BY <1>1, <1>2, <1>3, <1>4
<1>7. pc # "accept" /\ Settled(cur) => Settled(cur)'
  BY <1>1, <1>4, <1>6 DEF Settled
<1>8. pc \in {"headers", "body"} => sent'[cur] \in 0..3 /\ sent[cur] \in 0..3 /\ sent[cur] <= sent'[cur]
  BY <1>6
<1>9. QED
  BY <1>1, <1>4, <1>5, <1>6, <1>7, <1>8, ClientsTell

LEMMA SendPartTells ==
  ASSUME HInv, AInv, NEW c \in Conn, SendPart(c)
  PROVE  AInv'
<1>1. /\ client[c] = "open" /\ sent[c] < Parts(asks[c]) /\ sent' = [sent EXCEPT ![c] = @ + 1]
      /\ UNCHANGED <<asks, client, wire, queue, closed, server, sess>>
  BY DEF SendPart
<1>2. asks \in [Conn -> Requests] /\ sent \in [Conn -> 0..3] /\ closed \subseteq Conn
  BY DEF HInv, ClientsOK, Line
<1>3. ~Settled(c)
  <2>1. asks[c] \in Requests
    BY <1>2
  <2>2. Parts(asks[c]) \in 2..3 /\ sent[c] \in 0..3
    BY <1>2, <2>1, RequestType
  <2>3. sent[c] # Parts(asks[c])
    BY <1>1, <2>2
  <2>4. QED
    BY <1>1, <2>3 DEF Settled
<1>4. /\ \A d \in Conn : d # c => sent'[d] = sent[d]
      /\ sent'[c] = sent[c] + 1
  BY <1>1, <1>2
<1>5. c \notin closed /\ (pc \notin {"accept", "headers", "body"} => cur # c)
  BY <1>3 DEF AInv, Hearing
<1>6. \A d \in closed : Settled(d)'
  <2> TAKE d \in closed
  <2>1. Settled(d) /\ d \in Conn /\ d # c
    BY <1>2, <1>5 DEF AInv, Hearing
  <2>2. QED
    BY <1>1, <1>4, <2>1 DEF Settled
<1>7. pc # "accept" => cur \in Conn
  BY CurType DEF HInv, Serving
<1>8. cur' = cur
  BY <1>1 DEF cur
<1>9. pc \in {"headers", "body"} => sent'[cur] \in 0..3 /\ sent[cur] \in 0..3 /\ sent[cur] <= sent'[cur]
  <2>1. HInv'
    BY SendPartInv
  <2>2. sent' \in [Conn -> 0..3]
    BY <2>1 DEF HInv, ClientsOK
  <2> SUFFICES ASSUME cur \in Conn PROVE sent'[cur] \in 0..3 /\ sent[cur] \in 0..3 /\ sent[cur] <= sent'[cur]
    BY <1>7
  <2>3. sent'[cur] \in 0..3 /\ sent[cur] \in 0..3
    BY <1>2, <2>2
  <2>4. sent'[cur] = sent[cur] \/ sent'[cur] = sent[cur] + 1
    BY <1>4
  <2>5. QED
    BY <2>3, <2>4
<1>10. pc \notin {"accept", "headers", "body"} => sent'[cur] = sent[cur]
  BY <1>4, <1>5, <1>7
<1>11. pc \notin {"accept", "headers", "body"} => (Settled(cur) => Settled(cur)')
  BY <1>1, <1>8, <1>10 DEF Settled
<1>12. QED
  BY <1>1, <1>6, <1>8, <1>9, <1>10, <1>11, ClientsTell

LEMMA DepartureTells ==
  ASSUME HInv, AInv, NEW c \in Conn, NEW to \in {"ended", "gone"}, client[c] # "gone",
         client' = [client EXCEPT ![c] = to], UNCHANGED <<asks, sent, wire, queue, closed, server, sess>>
  PROVE  AInv'
<1>1. client \in [Conn -> {"away", "open", "ended", "gone"}] /\ sent \in [Conn -> 0..3] /\ closed \subseteq Conn
  BY DEF HInv, ClientsOK, Line
<1>2. \A d \in Conn : client'[d] = client[d] \/ client'[d] = to
  BY <1>1
<1>3. \A d \in Conn : (Settled(d) => Settled(d)') /\ (client[d] = "gone" => client'[d] = "gone")
  BY <1>1, <1>2 DEF Settled
<1>4. \A d \in closed : Settled(d)'
  BY <1>1, <1>3 DEF AInv, Hearing
<1>5. pc # "accept" => cur \in Conn /\ sent[cur] \in 0..3
  BY <1>1, CurType DEF HInv, Serving
<1>6. cur' = cur
  BY DEF cur
<1>7. pc # "accept" => (Settled(cur) => Settled(cur)') /\ (client[cur] = "gone" => client'[cur] = "gone")
  BY <1>3, <1>5, <1>6
<1>8. pc \in {"headers", "body"} => sent'[cur] \in 0..3 /\ sent[cur] \in 0..3 /\ sent[cur] <= sent'[cur]
  BY <1>5
<1>9. QED
  BY <1>4, <1>6, <1>7, <1>8, ClientsTell

LEMMA ClientTells ==
  ASSUME HInv, AInv, ClientStep
  PROVE  AInv'
<1>1. PICK c \in Conn : Connect(c) \/ SendPart(c) \/ Shut(c) \/ Leave(c)
  BY DEF ClientStep
<1>2. CASE Connect(c)
  BY <1>2, ConnectTells
<1>3. CASE SendPart(c)
  BY <1>3, SendPartTells
<1>4. CASE Shut(c)
  BY <1>4, DepartureTells DEF Shut
<1>5. CASE Leave(c)
  BY <1>5, DepartureTells DEF Leave
<1>6. QED
  BY <1>1, <1>2, <1>3, <1>4, <1>5

LEMMA InitTells == Init => AInv
BY DEF Init, AInv, Quiet, Hearing, Deciding, Telling, Talking

LEMMA NextTells ==
  ASSUME RequestsFit, GreedyIsToken, HInv, AInv, [Next]_vars
  PROVE  AInv'
<1>1. CASE ClientStep
  BY <1>1, ClientTells
<1>2. CASE ServerStep
  BY <1>2, AcceptTells, RecvTells, HandleTells, EmitTells, GenerateTells, PrefillTells, SampleTells, DecodeTells,
     FinishTells, CloseTells DEF ServerStep
<1>3. CASE UNCHANGED vars
  <2>1. UNCHANGED <<asks, client, sent, wire, queue, closed, server, sess>> /\ cur' = cur
    BY <1>3 DEF vars, clients, cur
  <2>2. \A d \in closed : Settled(d)'
    BY <2>1 DEF AInv, Hearing, Settled
  <2>3. pc # "accept" => sent[cur] \in 0..3
    BY CurType DEF HInv, Serving, ClientsOK
  <2>4. pc \in {"headers", "body"} => sent'[cur] \in 0..3 /\ sent[cur] \in 0..3 /\ sent[cur] <= sent'[cur]
    BY <2>1, <2>3
  <2>5. Settled(cur) => Settled(cur)'
    BY <2>1 DEF Settled
  <2>6. QED
    BY <2>1, <2>2, <2>4, <2>5, ClientsTell
<1>4. QED
  BY <1>1, <1>2, <1>3 DEF Next

-----------------------------------------------------------------------------
(***************************************************************************)
(* The server keeps what Answers promises                                  *)
(***************************************************************************)
\* What Answers sees of the clients, the texts and the ends.
Asking == [c \in Conn |-> [expects |-> Text(Due(c)), mayFail |-> MayFail(c), there |-> client[c] # "gone"]]
Texts  == [c \in Conn |-> TextGiven(c)]
Closes == [c \in Conn |-> EndTold(c)]

LEMMA SameAsking ==
  ASSUME UNCHANGED <<asks, client, sent>>
  PROVE  Asking' = Asking
<1>1. \A c \in Conn : Due(c)' = Due(c) /\ MayFail(c)' = MayFail(c) /\ (client[c] # "gone")' = (client[c] # "gone")
  BY SameDue
<1>2. QED
  BY <1>1 DEF Asking

LEMMA SameTexts ==
  ASSUME UNCHANGED <<asks, sent, wire>>
  PROVE  Texts' = Texts /\ Closes' = Closes
<1>1. \A c \in Conn : TextGiven(c)' = TextGiven(c) /\ EndTold(c)' = EndTold(c)
  BY SameTold
<1>2. QED
  BY <1>1 DEF Texts, Closes

\* The server's own business is none of Answers'.
LEMMA Unseen ==
  ASSUME UNCHANGED <<clients, wire, queue, closed>>, (pc' = "dead") = (pc = "dead")
  PROVE  UNCHANGED Promised!vars
<1>1. Asking' = Asking /\ Texts' = Texts /\ Closes' = Closes
  BY SameAsking, SameTexts DEF clients
<1>2. QED
  BY <1>1 DEF Promised!vars, Asking, Texts, Closes

\* What the clients do: before anything was sent to a client, what is due to it may change.
LEMMA ClientPromised ==
  ASSUME HInv, AInv, ClientStep
  PROVE  Promised!Client
<1>1. PICK c \in Conn : Connect(c) \/ SendPart(c) \/ Shut(c) \/ Leave(c)
  BY DEF ClientStep
<1>2. /\ queue' = queue \/ \E d \in Conn : queue' = Append(queue, d)
      /\ UNCHANGED <<asks, wire, closed, pc>>
  BY <1>1 DEF Connect, SendPart, Shut, Leave, server
<1>3. ASSUME sent' = sent
      PROVE  /\ Texts' = Texts /\ Closes' = Closes
             /\ \A d \in Conn : Due(d)' = Due(d)
  BY <1>2, <1>3, SameTexts, SameDue
<1>4. ASSUME SendPart(c)
      PROVE  /\ Texts' = Texts /\ Closes' = Closes
             /\ \A d \in Conn : TextGiven(d) # <<>> => Due(d)' = Due(d)
  <2>1. /\ client[c] = "open" /\ sent[c] < Parts(asks[c]) /\ sent' = [sent EXCEPT ![c] = @ + 1]
    BY <1>4 DEF SendPart
  <2>2. asks \in [Conn -> Requests] /\ sent \in [Conn -> 0..3]
    BY DEF HInv, ClientsOK
  <2>3. ~Settled(c)
    <3>1. asks[c] \in Requests
      BY <2>2
    <3>2. Parts(asks[c]) \in 2..3 /\ sent[c] \in 0..3
      BY <2>2, <3>1, RequestType
    <3>3. sent[c] # Parts(asks[c])
      BY <2>1, <3>2
    <3>4. QED
      BY <2>1, <3>3 DEF Settled
  <2>4. wire[c] = <<>>
    <3>1. c \notin closed /\ (pc \notin {"accept", "headers", "body"} => cur # c)
      BY <2>3 DEF AInv, Hearing
    <3>2. pc \in {"headers", "body"} => wire[cur] = <<>>
      BY DEF AInv, Hearing
    <3>3. QED
      BY <3>1, <3>2 DEF AInv, Quiet
  <2>5. wire'[c] = <<>>
    BY <1>2, <2>4
  <2>6. TextGiven(c) = <<>> /\ EndTold(c) = "none"
    BY <2>4, HeardNone, NotEnded DEF TextGiven, EndTold
  <2>7. TextGiven(c)' = <<>> /\ EndTold(c)' = "none"
    <3>1. EndTold(c)' = EndOf(<<>>, Whole(c)')
      BY <2>5 DEF EndTold
    <3>2. EndTold(c)' = "none"
      BY <3>1, NotEnded
    <3>3. TextGiven(c)' = <<>>
      BY <2>5, HeardNone DEF TextGiven
    <3>4. QED
      BY <3>2, <3>3
  <2>8. ASSUME NEW d \in Conn, d # c
        PROVE  TextGiven(d)' = TextGiven(d) /\ EndTold(d)' = EndTold(d) /\ Due(d)' = Due(d)
    <3>1. sent'[d] = sent[d] /\ asks'[d] = asks[d] /\ wire'[d] = wire[d]
      BY <1>2, <2>1, <2>2, <2>8
    <3>2. QED
      BY <3>1, SameDueOf, SameTold
  <2>9. \A d \in Conn : TextGiven(d)' = TextGiven(d) /\ EndTold(d)' = EndTold(d)
    BY <2>6, <2>7, <2>8
  <2>10. Texts' = Texts /\ Closes' = Closes
    BY <2>9 DEF Texts, Closes
  <2>11. QED
    BY <2>6, <2>8, <2>10
<1>5. Texts' = Texts /\ Closes' = Closes /\ \A d \in Conn : TextGiven(d) # <<>> => Due(d)' = Due(d)
  <2>1. CASE SendPart(c)
    BY <1>4, <2>1
  <2>2. CASE Connect(c) \/ Shut(c) \/ Leave(c)
    BY <1>3, <2>2 DEF Connect, Shut, Leave
  <2>3. QED
    BY <1>1, <2>1, <2>2
<1>6. \A d \in Conn : Texts[d] # <<>> => Asking'[d].expects = Asking[d].expects
  BY <1>5 DEF Texts, Asking
<1>7. QED
  BY <1>2, <1>5, <1>6 DEF Promised!Client, Asking, Texts, Closes

\* What a frame tells the client whose turn it is.
LEMMA EmitPromised ==
  ASSUME GreedyIsToken, HInv, AInv, Emit
  PROVE  Promised!Next \/ UNCHANGED Promised!vars
<1>1. CASE client[cur] = "gone"
  <2>1. /\ UNCHANGED <<asks, client, sent, wire, queue, closed>> /\ UNCHANGED clients
        /\ todo # <<>> /\ pc' \in {pc, "close", "dead"}
    BY <1>1 DEF Emit, clients
  <2>2. queue # <<>> /\ pc # "dead"
    BY <2>1 DEF HInv, Serving
  <2>3. CASE pc' # "dead"
    BY <2>1, <2>2, <2>3, Unseen
  <2>4. CASE pc' = "dead"
    <3>1. Asking' = Asking /\ Texts' = Texts /\ Closes' = Closes
      BY <2>1, SameAsking, SameTexts
    <3>2. cur \in Conn
      BY <2>2, CurType
    <3>3. ~Asking[Head(queue)].there
      BY <1>1, <3>2 DEF Asking, cur
    <3>4. Promised!GoDown
      BY <2>1, <2>2, <2>4, <3>1, <3>3 DEF Promised!GoDown, Asking, Texts, Closes
    <3>5. QED
      BY <3>4 DEF Promised!Next
  <2>5. QED
    BY <2>3, <2>4
<1>2. CASE client[cur] # "gone"
  <2>1. /\ cur \in Conn /\ \A c \in Conn : c # cur => wire'[c] = wire[c]
        /\ todo # <<>> /\ pc' = pc /\ UNCHANGED <<asks, client, sent, queue, closed>>
    BY <1>2, EmitHere
  <2>2. queue # <<>> /\ pc # "dead" /\ pc' # "dead"
    BY <2>1 DEF HInv, Serving
  <2>3. Asking' = Asking
    BY <2>1, SameAsking
  <2>4. PICK c \in Conn : c = cur
    BY <2>1
  <2>5. \A d \in Conn : d # c => TextGiven(d)' = TextGiven(d) /\ EndTold(d)' = EndTold(d)
    BY <2>1, <2>4, SameTold
  <2>6. Told(c)
    <3>1. Told(cur)
      BY <1>2, EmitTells
    <3>2. cur' = cur
      BY <2>1 DEF cur
    <3>3. QED
      BY <2>4, <3>1, <3>2 DEF Told, Nothing, OneToken, Completed, Failed
  <2>7. /\ Asking[c].expects = Text(Due(c)) /\ Asking[c].there /\ Asking[c].mayFail = MayFail(c)
        /\ Texts[c] = TextGiven(c) /\ Closes[c] = EndTold(c) /\ c = Head(queue)
    BY <1>2, <2>4 DEF Asking, Texts, Closes, cur
  <2>8. /\ Texts' = [Texts EXCEPT ![c] = TextGiven(c)']
        /\ Closes' = [Closes EXCEPT ![c] = EndTold(c)']
    BY <2>5 DEF Texts, Closes
  <2>9. CASE Nothing(c)
    <3>1. Texts' = Texts /\ Closes' = Closes
      BY <2>5, <2>9 DEF Nothing, Texts, Closes
    <3>2. QED
      BY <2>1, <2>3, <3>1 DEF Promised!vars, Asking, Texts, Closes
  <2>10. CASE OneToken(c)
    <3>1. Closes' = Closes
      BY <2>5, <2>10 DEF OneToken, Closes
    <3>2. Texts' = [Texts EXCEPT ![c] = Append(@, Asking[c].expects[Len(@) + 1])]
      BY <2>7, <2>8, <2>10 DEF OneToken, Texts
    <3>3. Promised!Say(c)
      BY <2>1, <2>2, <2>3, <2>7, <2>10, <3>1, <3>2
      DEF OneToken, Promised!Say, Promised!Serving, Asking, Texts, Closes
    <3>4. QED
      BY <3>3 DEF Promised!Next
  <2>11. CASE Completed(c)
    <3>1. Promised!Complete(c)
      BY <2>1, <2>2, <2>3, <2>7, <2>8, <2>11
      DEF Completed, Promised!Complete, Promised!Serving, Asking, Texts, Closes
    <3>2. QED
      BY <3>1 DEF Promised!Next
  <2>12. CASE Failed(c)
    <3>1. Texts' = Texts
      BY <2>5, <2>12 DEF Failed, Texts
    <3>2. Promised!Fail(c)
      BY <2>1, <2>2, <2>3, <2>7, <2>8, <2>12, <3>1
      DEF Failed, Promised!Fail, Promised!Serving, Asking, Texts, Closes
    <3>3. QED
      BY <3>2 DEF Promised!Next
  <2>13. QED
    BY <2>6, <2>9, <2>10, <2>11, <2>12 DEF Told
<1>3. QED
  BY <1>1, <1>2

\* A connection is closed when its answer has ended or its client is gone.
LEMMA ClosePromised ==
  ASSUME HInv, AInv, CloseConnection
  PROVE  Promised!Next
<1>1. /\ pc = "close" /\ todo = <<>> /\ closed' = closed \cup {cur} /\ queue' = Tail(queue)
      /\ pc' = "accept" /\ UNCHANGED <<asks, client, sent, wire>>
  BY DEF CloseConnection, Ready, clients
<1>2. queue # <<>>
  BY <1>1 DEF HInv, Serving
<1>3. cur \in Conn
  BY <1>2, CurType
<1>4. PICK c \in Conn : c = cur
  BY <1>3
<1>5. EndTold(c) # "none" \/ client[c] = "gone"
  BY <1>1, <1>4 DEF AInv, Telling
<1>6. Asking' = Asking /\ Texts' = Texts /\ Closes' = Closes
  BY <1>1, SameAsking, SameTexts
<1>7. Closes[c] # "none" \/ ~Asking[c].there
  BY <1>5 DEF Closes, Asking
<1>8. Promised!Close(c)
  BY <1>1, <1>2, <1>4, <1>6, <1>7 DEF Promised!Close, Asking, Texts, Closes, cur
<1>9. QED
  BY <1>8 DEF Promised!Next

LEMMA NextPromised ==
  ASSUME GreedyIsToken, HInv, AInv, [Next]_vars
  PROVE  [Promised!Next]_(Promised!vars)
<1>1. CASE ClientStep
  BY <1>1, ClientPromised DEF Promised!Next
<1>2. CASE Emit
  BY <1>2, EmitPromised
<1>3. CASE CloseConnection
  BY <1>3, ClosePromised
<1>4. CASE Accept \/ RecvHeaders \/ RecvBody \/ Handle \/ Generate \/ Prefill \/ Sample \/ Decode \/ Finish
  <2>1. UNCHANGED <<clients, wire, queue, closed>> /\ pc # "dead" /\ pc' # "dead"
    BY <1>4 DEF Accept, RecvHeaders, RecvBody, Handle, Generate, Prefill, Sample, Decode, Finish, Ready
  <2>2. QED
    BY <2>1, Unseen
<1>5. CASE UNCHANGED vars
  <2>1. UNCHANGED <<clients, wire, queue, closed>> /\ pc' = pc
    BY <1>5 DEF vars, server
  <2>2. QED
    BY <2>1, Unseen
<1>6. QED
  BY <1>1, <1>2, <1>3, <1>4, <1>5 DEF Next, ServerStep

LEMMA InitPromised == Init => Promised!Init
<1> SUFFICES ASSUME Init PROVE Promised!Init
  OBVIOUS
<1>1. queue = <<>> /\ closed = {} /\ pc = "accept" /\ \A c \in Conn : wire[c] = <<>>
  BY DEF Init
<1>2. \A c \in Conn : TextGiven(c) = <<>> /\ EndTold(c) = "none"
  BY <1>1, HeardNone, NotEnded DEF TextGiven, EndTold
<1>3. QED
  BY <1>1, <1>2 DEF Promised!Init

\* For any clients and model, and requests that fit the session's cache and what
\* its generate is good for, each client is given a beginning of the one text
\* greedy decoding has for its own request, and its connection is closed when
\* that is complete, has failed for a reason or found nobody there: what
\* handle_http and serve_listen write is what Answers promises.  A request that
\* does not fit is not refused, and what it is answered is then any text.
THEOREM Implements == RequestsFit /\ GreedyIsToken /\ Spec => ImplementsAnswers
<1> SUFFICES ASSUME RequestsFit, GreedyIsToken PROVE Spec => ImplementsAnswers
  OBVIOUS
<1>1. Init => HInv /\ AInv /\ Promised!Init
  BY InitInv, InitTells, InitPromised
<1>2. HInv /\ AInv /\ [Next]_vars => HInv' /\ AInv' /\ [Promised!Next]_(Promised!vars)
  BY NextInv, NextTells, NextPromised
<1>3. QED
  BY <1>1, <1>2, PTL DEF Spec, ImplementsAnswers, Promised!Spec
=============================================================================
