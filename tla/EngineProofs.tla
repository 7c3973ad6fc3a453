---------------------------- MODULE EngineProofs ----------------------------
(***************************************************************************)
(* The CUDA engine implements DecodingEngine, for every model, vocabulary, *)
(* number of rows and length of a call, whichever of the short graphs were *)
(* captured, as long as those of more than two tokens save their snapshot. *)
(***************************************************************************)
EXTENDS EngineProps, SequenceTheorems, FiniteSetTheorems, TLAPS

Drafter == INSTANCE NgramProofs WITH MaxLen <- 0, MaxTake <- 0, ctx <- <<>>

\* A non-empty set of positions has a last one.
LEMMA LastExists ==
  ASSUME NEW m \in Nat, NEW S \in SUBSET (1..m), S # {}
  PROVE  \E x \in S : \A y \in S : x >= y
<1>1. Drafter!HasLast(S, m)
  BY Drafter!SetHasLast
<1>2. QED
  BY <1>1 DEF Drafter!HasLast

LEMMA MaxInSet ==
  ASSUME NEW m \in Nat, NEW S \in SUBSET (1..m), S # {}
  PROVE  Max(S) \in S
BY LastExists DEF Max

LEMMA MinOfTwo ==
  ASSUME NEW a \in Int, NEW b \in Int
  PROVE  Min({a, b}) = IF a <= b THEN a ELSE b
BY DEF Min

\* What the code repairs after a miss: graphs up to four tokens with a snapshot,
\* that of two without, and the paths of the MTP head that keep to them.  No more
\* tokens are asked of decode_steps than its buffer holds.
GraphsRepaired(graphs, snap) == graphs \subseteq {2, 3, 4} /\ (snap \/ graphs \subseteq {2})

Repaired ==
  /\ \A b \in Builds : GraphsRepaired(b.graphs, b.snap)
  /\ Paths \subseteq GoodPaths
  /\ MaxSteps <= GenCap

Engines ==
  [pos : 0..Ctx, last : Token, tok : Token, rec : Seq(Token), kv : [0..(Ctx - 1) -> Token],
   gen : [0..(GenCap - 1) -> Token], genN : Nat, graphs : SUBSET GraphSizes, snap : BOOLEAN,
   mtp : BOOLEAN, onDev : BOOLEAN, toks : Seq(Token)]

\* An engine that is the tokens it consumed.
Sound(e) ==
  /\ e \in Engines /\ GraphsRepaired(e.graphs, e.snap)
  /\ e.rec = Rows(e.kv, e.pos)
  /\ e.last = Greedy(e.rec)

\* toks fit behind what e has consumed.
Fits(e, toks) == toks \in Seq(Token) /\ Len(toks) >= 1 /\ e.pos + Len(toks) <= Ctx

\* The first n of toks are what greedy decoding yields, but for the first.
Holds(e, toks, n) == \A i \in 1..(n - 1) : toks[i + 1] = Greedy(e.rec \o SubSeq(toks, 1, i))

\* f is e after it consumed the first n of toks.
Consumed(e, f, toks, n) ==
  n \in 1..Len(toks) /\ Sound(f) /\ f.rec = e.rec \o SubSeq(toks, 1, n) /\ Holds(e, toks, n)

-----------------------------------------------------------------------------
(***************************************************************************)
(* Rows and sequences                                                      *)
(***************************************************************************)
LEMMA SampleType == \A r, c : Sample(r, c) \in Token
BY EngineAssumption DEF Sample, Token

LEMMA GreedyType == \A h : Greedy(h) \in Token
BY SampleType, EngineAssumption DEF Greedy, Token

LEMMA Prefix ==
  ASSUME NEW s \in Seq(Token), NEW n \in 0..Len(s)
  PROVE  /\ SubSeq(s, 1, n) \in Seq(Token) /\ Len(SubSeq(s, 1, n)) = n
         /\ \A k \in 1..n : SubSeq(s, 1, n)[k] = s[k]
OBVIOUS

LEMMA Joined ==
  ASSUME NEW s \in Seq(Token), NEW t \in Seq(Token)
  PROVE  /\ s \o t \in Seq(Token) /\ Len(s \o t) = Len(s) + Len(t)
         /\ \A k \in 1..(Len(s) + Len(t)) : (s \o t)[k] = IF k <= Len(s) THEN s[k] ELSE t[k - Len(s)]
BY ConcatProperties

LEMMA PrefixOfPrefix ==
  ASSUME NEW s \in Seq(Token), NEW n \in 0..Len(s), NEW m \in 0..n
  PROVE  SubSeq(SubSeq(s, 1, n), 1, m) = SubSeq(s, 1, m)
<1>1. /\ SubSeq(s, 1, n) \in Seq(Token) /\ Len(SubSeq(s, 1, n)) = n
      /\ \A k \in 1..n : SubSeq(s, 1, n)[k] = s[k]
  BY Prefix
<1>2. m \in 0..Len(s) /\ m \in 0..Len(SubSeq(s, 1, n)) /\ \A k \in 1..m : k \in 1..n
  BY <1>1
<1>3. /\ SubSeq(s, 1, m) \in Seq(Token) /\ Len(SubSeq(s, 1, m)) = m
      /\ \A k \in 1..m : SubSeq(s, 1, m)[k] = s[k]
  BY <1>2, Prefix
<1> DEFINE t == SubSeq(s, 1, n)
<1>4. t \in Seq(Token) /\ m \in 0..Len(t)
  BY <1>1, <1>2
<1> HIDE DEF t
<1>5. /\ SubSeq(t, 1, m) \in Seq(Token) /\ Len(SubSeq(t, 1, m)) = m
      /\ \A k \in 1..m : SubSeq(t, 1, m)[k] = t[k]
  BY <1>4, Prefix
<1>6. \A k \in 1..m : SubSeq(t, 1, m)[k] = SubSeq(s, 1, m)[k]
  BY <1>1, <1>2, <1>3, <1>5 DEF t
<1>7. SubSeq(t, 1, m) = SubSeq(s, 1, m)
  BY <1>3, <1>5, <1>6, SeqEqual
<1>8. QED
  BY <1>7 DEF t

\* The rows of positions before n, as a sequence.
LEMMA RowsShape ==
  ASSUME NEW c \in [0..(Ctx - 1) -> Token], NEW n \in 0..Ctx
  PROVE  /\ Rows(c, n) \in Seq(Token) /\ Len(Rows(c, n)) = n
         /\ \A k \in 1..n : Rows(c, n)[k] = c[k - 1]
<1>1. \A k \in 1..n : k - 1 \in 0..(Ctx - 1)
  BY EngineAssumption
<1>2. Rows(c, n) \in [1..n -> Token] /\ \A k \in 1..n : Rows(c, n)[k] = c[k - 1]
  BY <1>1 DEF Rows
<1> HIDE DEF Rows
<1>3. QED
  BY <1>2, EngineAssumption

\* Tokens written behind what was consumed are the rows of a longer sequence.
LEMMA WriteRows ==
  ASSUME NEW c \in [0..(Ctx - 1) -> Token], NEW p \in 0..Ctx, NEW s \in Seq(Token), s = Rows(c, p),
         NEW toks \in Seq(Token), p + Len(toks) <= Ctx
  PROVE  /\ Write(c, p, toks) \in [0..(Ctx - 1) -> Token]
         /\ \A m \in 0..Len(toks) : Rows(Write(c, p, toks), p + m) = s \o SubSeq(toks, 1, m)
<1> DEFINE d == Write(c, p, toks)
<1>0. Ctx \in Nat /\ p \in Nat /\ Len(toks) \in Nat
  BY EngineAssumption
<1>1. d \in [0..(Ctx - 1) -> Token]
  <2>1. \A r \in 0..(Ctx - 1) : r \in p..(p + Len(toks) - 1) => r - p + 1 \in 1..Len(toks)
    BY <1>0
  <2>2. \A r \in 0..(Ctx - 1) : r \in p..(p + Len(toks) - 1) => toks[r - p + 1] \in Token
    BY <2>1, ElementOfSeq
  <2>3. QED
    BY <2>2 DEF Write
<1>2. \A r \in 0..(Ctx - 1) : d[r] = IF r \in p..(p + Len(toks) - 1) THEN toks[r - p + 1] ELSE c[r]
  BY DEF Write
<1> HIDE DEF d
<1>3. ASSUME NEW m \in 0..Len(toks) PROVE Rows(d, p + m) = s \o SubSeq(toks, 1, m)
  <2>1. p + m \in 0..Ctx /\ m \in Nat
    BY <1>0
  <2>2. /\ Rows(d, p + m) \in Seq(Token) /\ Len(Rows(d, p + m)) = p + m
        /\ \A k \in 1..(p + m) : Rows(d, p + m)[k] = d[k - 1]
    BY <1>1, <2>1, RowsShape
  <2>3. Len(s) = p /\ \A k \in 1..p : s[k] = c[k - 1]
    BY RowsShape
  <2>4. /\ SubSeq(toks, 1, m) \in Seq(Token) /\ Len(SubSeq(toks, 1, m)) = m
        /\ \A k \in 1..m : SubSeq(toks, 1, m)[k] = toks[k]
    BY Prefix
  <2> DEFINE t == SubSeq(toks, 1, m)
             q == s \o t
  <2>5. /\ q \in Seq(Token) /\ Len(q) = p + m
        /\ \A k \in 1..(p + m) : q[k] = IF k <= p THEN s[k] ELSE t[k - p]
    <3>1. t \in Seq(Token) /\ Len(t) = m
      BY <2>4
    <3> HIDE DEF t
    <3>2. /\ q \in Seq(Token) /\ Len(q) = Len(s) + Len(t)
          /\ \A k \in 1..(Len(s) + Len(t)) : q[k] = IF k <= Len(s) THEN s[k] ELSE t[k - Len(s)]
      BY <3>1, Joined
    <3> HIDE DEF q
    <3>3. QED
      BY <2>3, <3>1, <3>2
  <2> HIDE DEF q
  <2>6. ASSUME NEW k \in 1..(p + m) PROVE Rows(d, p + m)[k] = q[k]
    <3>1. k - 1 \in 0..(Ctx - 1) /\ Rows(d, p + m)[k] = d[k - 1]
      BY <1>0, <2>1, <2>2
    <3>2. CASE k <= p
      <4>1. k - 1 \notin p..(p + Len(toks) - 1) /\ k \in 1..p
        BY <1>0, <3>2
      <4>2. QED
        BY <1>2, <2>3, <2>5, <3>1, <3>2, <4>1
    <3>3. CASE k > p
      <4>1. k - 1 \in p..(p + Len(toks) - 1) /\ k - p \in 1..m /\ k - 1 - p + 1 = k - p
        BY <1>0, <2>1, <3>3
      <4>2. d[k - 1] = toks[k - p]
        BY <1>2, <3>1, <4>1
      <4>3. q[k] = t[k - p]
        BY <1>0, <2>1, <2>5, <3>3
      <4>4. t[k - p] = toks[k - p]
        BY <2>4, <4>1
      <4>5. QED
        BY <3>1, <4>2, <4>3, <4>4
    <3>4. QED
      BY <1>0, <3>2, <3>3
  <2>7. Rows(d, p + m) = q
    BY <2>2, <2>5, <2>6, SeqEqual
  <2>8. QED
    BY <2>7 DEF q
<1>4. QED
  BY <1>1, <1>3 DEF d

-----------------------------------------------------------------------------
(***************************************************************************)
(* Decoding and launching                                                  *)
(***************************************************************************)
LEMMA BestType == \A e, toks, k : Best(e, toks, k) \in Token
BY SampleType DEF Best

LEMMA EngineParts ==
  ASSUME NEW e \in Engines
  PROVE  /\ e.pos \in 0..Ctx /\ e.last \in Token /\ e.tok \in Token /\ e.rec \in Seq(Token)
         /\ e.kv \in [0..(Ctx - 1) -> Token] /\ e.gen \in [0..(GenCap - 1) -> Token] /\ e.genN \in Nat
         /\ e.graphs \in SUBSET GraphSizes /\ e.snap \in BOOLEAN /\ e.mtp \in BOOLEAN
         /\ e.onDev \in BOOLEAN /\ e.toks \in Seq(Token)
BY DEF Engines

\* The token after the first i of toks is what greedy decoding yields there.
LEMMA BestIsGreedy ==
  ASSUME NEW e, Sound(e), NEW toks \in Seq(Token), NEW i \in 1..Len(toks)
  PROVE  Best(e, toks, i) = Greedy(e.rec \o SubSeq(toks, 1, i))
<1>1. e.rec \in Seq(Token) /\ Rows(e.kv, e.pos) = e.rec
  BY EngineParts DEF Sound
<1>2. SubSeq(toks, 1, i) \in Seq(Token) /\ Len(SubSeq(toks, 1, i)) = i
  BY Prefix
<1> DEFINE r == e.rec
           t == SubSeq(toks, 1, i)
<1> HIDE DEF r, t
<1>3. r \in Seq(Token) /\ t \in Seq(Token) /\ Len(t) >= 1
  BY <1>1, <1>2 DEF r, t
<1>4. Len(r \o t) = Len(r) + Len(t)
  BY <1>3, Joined
<1>5. r \o t # <<>>
  BY <1>3, <1>4
<1>6. QED
  BY <1>1, <1>5 DEF Best, Greedy, r, t

LEMMA DecodeFields ==
  ASSUME NEW e \in Engines, NEW toks \in Seq(Token), e.pos + Len(toks) <= Ctx,
         Write(e.kv, e.pos, toks) \in [0..(Ctx - 1) -> Token]
  PROVE  LET f == Decode(e, toks)
         IN  /\ f \in Engines /\ f.rec = e.rec \o toks /\ f.kv = Write(e.kv, e.pos, toks)
             /\ f.pos = e.pos + Len(toks) /\ f.last = Best(e, toks, Len(toks)) /\ f.tok = f.last
             /\ f.graphs = e.graphs /\ f.snap = e.snap
<1> DEFINE n == Len(toks)
           b == Best(e, toks, n)
           r == e.rec \o toks
           w == Write(e.kv, e.pos, toks)
           g == [k \in DOMAIN e.gen |-> IF k \in e.genN..(e.genN + n - 1)
                                         THEN Best(e, toks, k - e.genN + 1) ELSE e.gen[k]]
           m == Min({e.genN + n, GenCap})
           p == e.pos + n
<1>1. n \in Nat /\ e.genN \in Nat /\ e.pos \in 0..Ctx /\ GenCap \in Nat /\ Ctx \in Nat
  BY EngineParts, EngineAssumption
<1>2. b \in Token
  BY BestType
<1>3. r \in Seq(Token)
  BY EngineParts, Joined
<1>4. g \in [0..(GenCap - 1) -> Token]
  BY EngineParts, BestType
<1>5. m \in Nat
  <2> DEFINE x == e.genN + n
  <2>1. x \in Nat /\ x \in Int /\ GenCap \in Int
    BY <1>1
  <2> HIDE DEF x
  <2>2. Min({x, GenCap}) = IF x <= GenCap THEN x ELSE GenCap
    BY <2>1, MinOfTwo
  <2>3. QED
    BY <1>1, <2>1, <2>2 DEF x
<1>6. p \in 0..Ctx
  BY <1>1
<1>7. w \in [0..(Ctx - 1) -> Token]
  OBVIOUS
<1>8. Decode(e, toks) = [e EXCEPT !.rec = r, !.kv = w, !.pos = p, !.last = b, !.tok = b, !.gen = g, !.genN = m]
  BY DEF Decode, Engines
<1> HIDE DEF n, b, r, w, g, m, p
<1>9. QED
  <2>1. Decode(e, toks) \in Engines
    BY <1>2, <1>3, <1>4, <1>5, <1>6, <1>7, <1>8 DEF Engines
  <2>2. /\ Decode(e, toks).rec = r /\ Decode(e, toks).kv = w /\ Decode(e, toks).pos = p
        /\ Decode(e, toks).last = b /\ Decode(e, toks).tok = b
        /\ Decode(e, toks).graphs = e.graphs /\ Decode(e, toks).snap = e.snap
    BY <1>8 DEF Engines
  <2>3. QED
    BY <2>1, <2>2 DEF n, b, r, w, p

\* An engine that wrote the first g tokens and stands after m of them.
LEMMA SoundAfter ==
  ASSUME NEW e, Sound(e), NEW toks \in Seq(Token), NEW g \in 1..Len(toks), NEW m \in 1..g, e.pos + g <= Ctx,
         NEW f \in Engines, f.graphs = e.graphs, f.snap = e.snap,
         f.rec = e.rec \o SubSeq(toks, 1, m), f.kv = Write(e.kv, e.pos, SubSeq(toks, 1, g)),
         f.pos = e.pos + m, f.last = Best(e, toks, m)
  PROVE  Sound(f)
<1>1. e \in Engines /\ e.rec = Rows(e.kv, e.pos)
  BY DEF Sound
<1> DEFINE t == SubSeq(toks, 1, g)
<1>2. t \in Seq(Token) /\ Len(t) = g /\ m \in 0..Len(t) /\ g \in 0..Len(toks) /\ m \in 0..g
  BY Prefix
<1>3. SubSeq(t, 1, m) = SubSeq(toks, 1, m)
  BY <1>2, PrefixOfPrefix
<1> HIDE DEF t
<1>4. /\ e.kv \in [0..(Ctx - 1) -> Token] /\ e.pos \in 0..Ctx /\ e.rec \in Seq(Token)
  BY <1>1, EngineParts
<1>5. Rows(Write(e.kv, e.pos, t), e.pos + m) = e.rec \o SubSeq(t, 1, m)
  BY <1>1, <1>2, <1>4, WriteRows
<1>6. f.rec = Rows(f.kv, f.pos)
  BY <1>3, <1>5 DEF t
<1>7. f.last = Greedy(f.rec)
  <2>1. m \in 1..Len(toks)
    OBVIOUS
  <2>2. QED
    BY <2>1, BestIsGreedy
<1>8. QED
  BY <1>6, <1>7 DEF Sound

LEMMA WrittenType ==
  ASSUME NEW e, Sound(e), NEW toks \in Seq(Token), e.pos + Len(toks) <= Ctx
  PROVE  Write(e.kv, e.pos, toks) \in [0..(Ctx - 1) -> Token]
<1>1. /\ e.kv \in [0..(Ctx - 1) -> Token] /\ e.pos \in 0..Ctx /\ e.rec \in Seq(Token) /\ e.rec = Rows(e.kv, e.pos)
  BY EngineParts DEF Sound
<1>2. QED
  BY <1>1, WriteRows

\* Tokens that are decoded are consumed, all of them.
LEMMA DecodeSound ==
  ASSUME NEW e, Sound(e), NEW toks, Fits(e, toks)
  PROVE  /\ Sound(Decode(e, toks)) /\ Decode(e, toks).rec = e.rec \o toks
         /\ Decode(e, toks).pos = e.pos + Len(toks) /\ Decode(e, toks).tok = Decode(e, toks).last
         /\ Decode(e, toks).graphs = e.graphs /\ Decode(e, toks).snap = e.snap
<1> DEFINE f == Decode(e, toks)
<1>1. toks \in Seq(Token) /\ Len(toks) \in 1..Len(toks) /\ e.pos + Len(toks) <= Ctx /\ e \in Engines
  BY DEF Fits, Sound
<1>2. Write(e.kv, e.pos, toks) \in [0..(Ctx - 1) -> Token]
  BY <1>1, WrittenType
<1>3. /\ f \in Engines /\ f.rec = e.rec \o toks /\ f.kv = Write(e.kv, e.pos, toks)
      /\ f.pos = e.pos + Len(toks) /\ f.last = Best(e, toks, Len(toks)) /\ f.tok = f.last
      /\ f.graphs = e.graphs /\ f.snap = e.snap
  BY <1>1, <1>2, DecodeFields
<1>4. SubSeq(toks, 1, Len(toks)) = toks
  BY <1>1, SubSeqFull
<1> HIDE DEF f
<1>5. Sound(f)
  BY <1>1, <1>3, <1>4, SoundAfter
<1>6. QED
  BY <1>3, <1>5 DEF f

\* The state of an engine between a launch and what the code does with it.
LEMMA LaunchFields ==
  ASSUME NEW e, Sound(e), NEW toks \in Seq(Token), NEW g \in 1..Len(toks), e.pos + g <= Ctx
  PROVE  /\ Launch(e, toks, g) \in Engines
         /\ Launch(e, toks, g).rec = e.rec \o SubSeq(toks, 1, g)
         /\ Launch(e, toks, g).kv = Write(e.kv, e.pos, SubSeq(toks, 1, g))
         /\ Launch(e, toks, g).pos = e.pos
         /\ Launch(e, toks, g).graphs = e.graphs /\ Launch(e, toks, g).snap = e.snap
<1> DEFINE t == SubSeq(toks, 1, g)
           r == e.rec \o t
           w == Write(e.kv, e.pos, t)
<1>1. e \in Engines /\ e.rec \in Seq(Token)
  BY EngineParts DEF Sound
<1>2. t \in Seq(Token) /\ Len(t) = g
  BY Prefix
<1>3. r \in Seq(Token)
  BY <1>1, <1>2, Joined
<1>4. w \in [0..(Ctx - 1) -> Token]
  BY <1>2, WrittenType
<1>5. Launch(e, toks, g) = [e EXCEPT !.rec = r, !.kv = w]
  BY <1>1 DEF Launch, Engines
<1> HIDE DEF t, r, w
<1>6. /\ Launch(e, toks, g) \in Engines /\ Launch(e, toks, g).rec = r /\ Launch(e, toks, g).kv = w
      /\ Launch(e, toks, g).pos = e.pos /\ Launch(e, toks, g).graphs = e.graphs /\ Launch(e, toks, g).snap = e.snap
  BY <1>1, <1>3, <1>4, <1>5 DEF Engines
<1>7. QED
  BY <1>5, <1>6 DEF t, r, w

-----------------------------------------------------------------------------
(***************************************************************************)
(* spec_verify                                                             *)
(***************************************************************************)
LEMMA HoldingHolds ==
  ASSUME NEW e, Sound(e), NEW toks \in Seq(Token), NEW g \in 1..Len(toks)
  PROVE  Holding(e, toks, g) \in 1..g /\ Holds(e, toks, Holding(e, toks, g))
<1> DEFINE S == {m \in 1..g : \A i \in 1..(m - 1) : toks[i + 1] = Best(e, toks, i)}
<1>1. 1 \in S /\ g \in Nat
  OBVIOUS
<1>2. S \in SUBSET (1..g) /\ S # {}
  BY <1>1
<1>3. Holding(e, toks, g) = Max(S)
  BY DEF Holding
<1> HIDE DEF S
<1>4. Max(S) \in S
  BY <1>1, <1>2, MaxInSet
<1> DEFINE m == Max(S)
<1>5. m \in 1..g /\ \A i \in 1..(m - 1) : toks[i + 1] = Best(e, toks, i)
  BY <1>4 DEF S
<1> HIDE DEF m
<1>6. \A i \in 1..(m - 1) : i \in 1..Len(toks)
  <2>1. Len(toks) \in Nat /\ g <= Len(toks) /\ g \in Nat
    OBVIOUS
  <2>2. QED
    BY <1>5, <2>1
<1>7. \A i \in 1..(m - 1) : toks[i + 1] = Greedy(e.rec \o SubSeq(toks, 1, i))
  BY <1>5, <1>6, BestIsGreedy
<1>8. QED
  BY <1>3, <1>5, <1>7 DEF Holds, m

LEMMA HitConsumes ==
  ASSUME NEW e, Sound(e), NEW toks, Fits(e, toks), NEW g \in 1..Len(toks), Holds(e, toks, g)
  PROVE  Hit(e, toks, g).n = g /\ Consumed(e, Hit(e, toks, g).e, toks, g)
<1> DEFINE f == Launch(e, toks, g)
           b == Best(e, toks, g)
           h == [f EXCEPT !.pos = @ + g, !.last = b]
<1>1. toks \in Seq(Token) /\ e.pos + g <= Ctx /\ e \in Engines /\ e.pos \in 0..Ctx /\ Ctx \in Nat
  BY EngineParts, EngineAssumption DEF Fits, Sound
<1>2. /\ f \in Engines /\ f.rec = e.rec \o SubSeq(toks, 1, g) /\ f.kv = Write(e.kv, e.pos, SubSeq(toks, 1, g))
      /\ f.pos = e.pos /\ f.graphs = e.graphs /\ f.snap = e.snap
  BY <1>1, LaunchFields
<1>3. b \in Token
  BY BestType
<1>4. Hit(e, toks, g) = [e |-> h, n |-> g]
  BY DEF Hit
<1>5. e.pos + g \in 0..Ctx
  BY <1>1
<1> HIDE DEF f, b
<1>6. /\ h \in Engines /\ h.rec = f.rec /\ h.kv = f.kv /\ h.pos = e.pos + g /\ h.last = b
      /\ h.graphs = f.graphs /\ h.snap = f.snap
  BY <1>2, <1>3, <1>5 DEF Engines
<1> HIDE DEF h
<1>7. Sound(h)
  <2>1. g \in 1..g
    OBVIOUS
  <2>2. /\ h.rec = e.rec \o SubSeq(toks, 1, g) /\ h.kv = Write(e.kv, e.pos, SubSeq(toks, 1, g))
        /\ h.last = Best(e, toks, g) /\ h.graphs = e.graphs /\ h.snap = e.snap
    BY <1>2, <1>6 DEF b
  <2>3. QED
    BY <1>1, <1>6, <2>1, <2>2, SoundAfter
<1>8. QED
  BY <1>2, <1>4, <1>6, <1>7 DEF Consumed

LEMMA OnePrefix ==
  ASSUME NEW r \in Seq(Token), NEW toks \in Seq(Token), Len(toks) >= 1
  PROVE  /\ toks[1] \in Token /\ SubSeq(toks, 1, 1) = <<toks[1]>>
         /\ Append(r, toks[1]) = r \o SubSeq(toks, 1, 1) /\ Append(r, toks[1]) \in Seq(Token)
<1>1. toks[1] \in Token
  BY ElementOfSeq
<1>2. SubSeq(toks, 1, 1) = <<toks[1]>>
  <2>1. 1 \in 0..Len(toks) /\ <<toks[1]>> \in Seq(Token) /\ Len(<<toks[1]>>) = 1 /\ <<toks[1]>>[1] = toks[1]
    BY <1>1
  <2>2. /\ SubSeq(toks, 1, 1) \in Seq(Token) /\ Len(SubSeq(toks, 1, 1)) = 1
        /\ \A k \in 1..1 : SubSeq(toks, 1, 1)[k] = toks[k]
    BY <2>1, Prefix
  <2> DEFINE t == SubSeq(toks, 1, 1)
             u == <<toks[1]>>
  <2>3. t \in Seq(Token) /\ u \in Seq(Token) /\ Len(t) = Len(u) /\ Len(t) = 1 /\ t[1] = u[1]
    BY <2>1, <2>2
  <2> HIDE DEF t, u
  <2>4. \A i \in 1..Len(t) : i = 1
    BY <2>3
  <2>5. \A i \in 1..Len(t) : t[i] = u[i]
    BY <2>3, <2>4
  <2>6. t = u
    BY <2>3, <2>5, SeqEqual
  <2>7. QED
    BY <2>6 DEF t, u
<1> DEFINE x == toks[1]
<1> HIDE DEF x
<1>3. Append(r, x) \in Seq(Token) /\ Append(r, x) = r \o <<x>>
  BY <1>1, AppendProperties, AppendIsConcat DEF x
<1>4. QED
  BY <1>1, <1>2, <1>3 DEF x

\* Only the first token is kept, and the state comes back from the snapshot.
LEMMA KeepFirstSound ==
  ASSUME NEW e, Sound(e), NEW toks, Fits(e, toks), NEW g \in 1..Len(toks)
  PROVE  LET h == KeepFirst(e, toks, g)
         IN  /\ Sound(h) /\ h.rec = e.rec \o SubSeq(toks, 1, 1) /\ h.pos = e.pos + 1
             /\ h.graphs = e.graphs /\ h.snap = e.snap
<1> DEFINE f == Launch(e, toks, g)
           b == Best(e, toks, 1)
           r == Append(e.rec, toks[1])
           h == [f EXCEPT !.rec = r, !.pos = @ + 1, !.last = b, !.tok = toks[1]]
<1>1. /\ toks \in Seq(Token) /\ Len(toks) >= 1 /\ e.pos + g <= Ctx /\ e \in Engines /\ e.pos \in 0..Ctx /\ Ctx \in Nat
      /\ e.rec \in Seq(Token)
  BY EngineParts, EngineAssumption DEF Fits, Sound
<1>2. /\ f \in Engines /\ f.kv = Write(e.kv, e.pos, SubSeq(toks, 1, g))
      /\ f.pos = e.pos /\ f.graphs = e.graphs /\ f.snap = e.snap
  BY <1>1, LaunchFields
<1>3. b \in Token
  BY BestType
<1>4. KeepFirst(e, toks, g) = h
  BY <1>2 DEF KeepFirst, Restored, Engines
<1>5. e.pos + 1 \in 0..Ctx
  BY <1>1
<1>6. r \in Seq(Token) /\ r = e.rec \o SubSeq(toks, 1, 1) /\ toks[1] \in Token
  BY <1>1, OnePrefix
<1> HIDE DEF f, b, r
<1>7. /\ h \in Engines /\ h.rec = r /\ h.kv = f.kv /\ h.pos = e.pos + 1 /\ h.last = b
      /\ h.graphs = f.graphs /\ h.snap = f.snap
  BY <1>2, <1>3, <1>5, <1>6 DEF Engines
<1> HIDE DEF h
<1>8. 1 \in 1..g
  OBVIOUS
<1>9. Sound(h)
  BY <1>1, <1>2, <1>6, <1>7, <1>8, SoundAfter DEF b
<1>10. QED
  BY <1>2, <1>4, <1>6, <1>7, <1>9

LEMMA MissConsumes ==
  ASSUME NEW e, Sound(e), NEW toks, Fits(e, toks), NEW g \in e.graphs, g \in 1..Len(toks)
  PROVE  Miss(e, toks, g).n = 1 /\ Consumed(e, Miss(e, toks, g).e, toks, 1)
<1>1. toks \in Seq(Token) /\ Len(toks) >= 1 /\ e.rec \in Seq(Token) /\ 1 \in 1..Len(toks)
  BY EngineParts DEF Fits, Sound
<1>2. Holds(e, toks, 1)
  BY DEF Holds
<1>3. CASE e.snap
  BY <1>1, <1>2, <1>3, KeepFirstSound DEF Miss, Consumed
<1>4. CASE ~e.snap
  <2>1. g = 2
    BY <1>4 DEF Sound, GraphsRepaired
  <2>2. toks[1] \in Token /\ SubSeq(toks, 1, 1) = <<toks[1]>>
    BY <1>1, OnePrefix
  <2>3. Fits(e, <<toks[1]>>)
    <3>1. <<toks[1]>> \in Seq(Token) /\ Len(<<toks[1]>>) = 1
      BY <2>2
    <3>2. e.pos + 1 <= Ctx
      BY <1>1, EngineParts, EngineAssumption DEF Fits, Sound
    <3>3. QED
      BY <3>1, <3>2 DEF Fits
  <2>4. Sound(Decode(e, <<toks[1]>>)) /\ Decode(e, <<toks[1]>>).rec = e.rec \o SubSeq(toks, 1, 1)
    BY <2>2, <2>3, DecodeSound
  <2>5. QED
    BY <1>1, <1>2, <1>4, <2>1, <2>4 DEF Miss, Consumed
<1>5. QED
  BY <1>3, <1>4

LEMMA TwoPhaseConsumes ==
  ASSUME NEW e, Sound(e), NEW toks, Fits(e, toks), NEW T \in 1..Len(toks)
  PROVE  LET v == TwoPhase(e, toks, T) IN v.n \in 1..T /\ Consumed(e, v.e, toks, v.n)
<1> DEFINE m == Holding(e, toks, T)
           t == SubSeq(toks, 1, m)
<1>1. toks \in Seq(Token) /\ e.pos + Len(toks) <= Ctx /\ e.pos \in 0..Ctx /\ Ctx \in Nat
  BY EngineParts, EngineAssumption DEF Fits, Sound
<1>2. m \in 1..T /\ Holds(e, toks, m)
  BY <1>1, HoldingHolds
<1> HIDE DEF m
<1>3. m \in 0..Len(toks) /\ m \in 1..Len(toks)
  BY <1>2
<1>4. t \in Seq(Token) /\ Len(t) = m
  BY <1>1, <1>3, Prefix
<1> HIDE DEF t
<1>5. Fits(e, t)
  BY <1>1, <1>2, <1>3, <1>4 DEF Fits
<1>6. Sound(Decode(e, t)) /\ Decode(e, t).rec = e.rec \o t
  BY <1>5, DecodeSound
<1>7. TwoPhase(e, toks, T) = [e |-> Decode(e, t), n |-> m]
  BY DEF TwoPhase, m, t
<1>8. QED
  BY <1>2, <1>3, <1>6, <1>7 DEF Consumed, t

LEMMA HoldsLess ==
  ASSUME NEW e, NEW toks, NEW n \in Nat, NEW m \in 1..n, Holds(e, toks, n)
  PROVE  Holds(e, toks, m)
<1>1. \A i \in 1..(m - 1) : i \in 1..(n - 1)
  OBVIOUS
<1>2. QED
  BY <1>1 DEF Holds

LEMMA Regroup ==
  ASSUME NEW r \in Seq(Token), NEW t \in Seq(Token), NEW u \in Seq(Token)
  PROVE  (r \o t) \o u = r \o (t \o u)
OBVIOUS

LEMMA OneMore ==
  ASSUME NEW r \in Seq(Token), NEW toks \in Seq(Token), NEW i \in 1..Len(toks), i + 1 <= Len(toks)
  PROVE  /\ toks[i + 1] \in Token
         /\ (r \o SubSeq(toks, 1, i)) \o <<toks[i + 1]>> = r \o SubSeq(toks, 1, i + 1)
<1>1. i + 1 \in 1..Len(toks) /\ 1 \in 1..Len(toks) /\ i + 1 - 1 = i
  OBVIOUS
<1>2. toks[i + 1] \in Token
  BY <1>1, ElementOfSeq
<1> DEFINE j == i + 1
<1>3. j \in 1..Len(toks) /\ 1 \in 1..Len(toks) /\ j - 1 = i
  BY <1>1
<1> HIDE DEF j
<1>4. SubSeq(toks, 1, j) = SubSeq(toks, 1, i) \o <<toks[j]>>
  BY <1>3, SubSeqRecursiveSecond
<1>5. i \in 0..Len(toks)
  OBVIOUS
<1>6. SubSeq(toks, 1, i) \in Seq(Token)
  BY <1>5, Prefix
<1>7. <<toks[j]>> \in Seq(Token)
  BY <1>2 DEF j
<1> DEFINE t == SubSeq(toks, 1, i)
           u == <<toks[j]>>
<1>8. t \in Seq(Token) /\ u \in Seq(Token)
  BY <1>6, <1>7
<1> HIDE DEF t, u
<1>9. (r \o t) \o u = r \o (t \o u)
  BY <1>8, Regroup
<1>10. QED
  BY <1>2, <1>4, <1>9 DEF t, u, j

\* The state comes back from the snapshot and a second token is decoded.
LEMMA KeepTwoConsumes ==
  ASSUME NEW e, Sound(e), NEW toks, Fits(e, toks), NEW g \in 2..Len(toks), Holds(e, toks, 2)
  PROVE  Consumed(e, Decode(KeepFirst(e, toks, g), <<toks[2]>>), toks, 2)
<1> DEFINE h == KeepFirst(e, toks, g)
<1>1. /\ toks \in Seq(Token) /\ Len(toks) \in Nat /\ Len(toks) >= 2 /\ e.pos + Len(toks) <= Ctx
      /\ e.pos \in 0..Ctx /\ Ctx \in Nat /\ e.rec \in Seq(Token)
  BY EngineParts, EngineAssumption DEF Fits, Sound
<1>2. g \in 1..Len(toks)
  OBVIOUS
<1>3. Sound(h) /\ h.rec = e.rec \o SubSeq(toks, 1, 1) /\ h.pos = e.pos + 1
  BY <1>2, KeepFirstSound
<1> HIDE DEF h
<1>4. 1 \in 1..Len(toks) /\ 1 + 1 <= Len(toks) /\ 2 \in 1..Len(toks) /\ 1 + 1 = 2
  BY <1>1
<1>5. toks[2] \in Token
  BY <1>1, <1>4, ElementOfSeq
<1>6. <<toks[2]>> \in Seq(Token) /\ Len(<<toks[2]>>) = 1
  BY <1>5
<1>7. Fits(h, <<toks[2]>>)
  <2>1. h.pos + 1 <= Ctx
    BY <1>1, <1>3
  <2>2. QED
    BY <1>6, <2>1 DEF Fits
<1>8. Sound(Decode(h, <<toks[2]>>)) /\ Decode(h, <<toks[2]>>).rec = h.rec \o <<toks[2]>>
  BY <1>3, <1>7, DecodeSound
<1>9. (e.rec \o SubSeq(toks, 1, 1)) \o <<toks[1 + 1]>> = e.rec \o SubSeq(toks, 1, 1 + 1)
  BY <1>1, <1>4, OneMore
<1>10. QED
  BY <1>3, <1>4, <1>8, <1>9 DEF Consumed, h

LEMMA VerifyShortConsumes ==
  ASSUME NEW e, Sound(e), NEW toks, Fits(e, toks), NEW T \in 1..Len(toks)
  PROVE  Consumed(e, VerifyShort(e, toks, T).e, toks, VerifyShort(e, toks, T).n)
<1> DEFINE fits == Captured(e, T, {2, 3, 4})
           g == Max(fits)
           m == Holding(e, toks, g)
           v == VerifyShort(e, toks, T)
<1>1. /\ toks \in Seq(Token) /\ Len(toks) \in Nat /\ T \in Nat /\ T <= Len(toks)
      /\ e.graphs \in SUBSET GraphSizes
  BY EngineParts DEF Fits, Sound
<1>2. fits \in SUBSET (1..4) /\ \A x \in fits : x \in e.graphs /\ x \in 2..4 /\ x <= T
  BY DEF Captured
<1>3. CASE fits = {}
  <2>1. v = TwoPhase(e, toks, T)
    BY <1>3 DEF VerifyShort
  <2> HIDE DEF v
  <2>2. QED
    BY <2>1, TwoPhaseConsumes DEF v
<1>4. CASE fits # {}
  <2>1. g \in fits
    <3> HIDE DEF fits
    <3>1. QED
      BY <1>2, <1>4, MaxInSet
  <2> HIDE DEF g
  <2>2. g \in e.graphs /\ g \in 2..4 /\ g <= T
    BY <1>2, <2>1
  <2>3. g \in 1..Len(toks) /\ g \in 2..Len(toks)
    BY <1>1, <2>2
  <2>4. m \in 1..g /\ Holds(e, toks, m)
    BY <1>1, <2>3, HoldingHolds
  <2>5. CASE m = g
    <3>1. v = Hit(e, toks, g)
      BY <1>4, <2>5 DEF VerifyShort, g
    <3>2. Holds(e, toks, g)
      BY <2>4, <2>5
    <3>3. Hit(e, toks, g).n = g /\ Consumed(e, Hit(e, toks, g).e, toks, g)
      BY <2>3, <3>2, HitConsumes
    <3> HIDE DEF v
    <3>4. QED
      BY <3>1, <3>3 DEF v
  <2>6. CASE m # g /\ g = 4 /\ m >= 2 /\ e.snap
    <3>1. v = [e |-> Decode(KeepFirst(e, toks, 4), <<toks[2]>>), n |-> 2]
      BY <1>4, <2>6 DEF VerifyShort, g
    <3> HIDE DEF m, v
    <3>2. m \in Nat /\ 2 \in 1..m
      BY <2>2, <2>4, <2>6
    <3>3. Holds(e, toks, 2)
      BY <2>4, <3>2, HoldsLess
    <3>4. Consumed(e, Decode(KeepFirst(e, toks, g), <<toks[2]>>), toks, 2)
      BY <2>3, <3>3, KeepTwoConsumes
    <3>5. QED
      BY <2>6, <3>1, <3>4 DEF v
  <2>7. CASE m # g /\ ~(g = 4 /\ m >= 2 /\ e.snap)
    <3>1. v = Miss(e, toks, g)
      BY <1>4, <2>7 DEF VerifyShort, g
    <3>2. Miss(e, toks, g).n = 1 /\ Consumed(e, Miss(e, toks, g).e, toks, 1)
      BY <2>2, <2>3, MissConsumes
    <3> HIDE DEF v
    <3>3. QED
      BY <3>1, <3>2 DEF v
  <2>8. QED
    BY <2>5, <2>6, <2>7
<1>5. QED
  BY <1>3, <1>4

LEMMA SpecVerifyConsumes ==
  ASSUME NEW e, Sound(e), NEW toks, Fits(e, toks), Fed(e, toks) = toks
  PROVE  Consumed(e, SpecVerify(e, toks).e, toks, SpecVerify(e, toks).n)
<1>1. Len(toks) \in 1..Len(toks)
  BY DEF Fits
<1>2. Captured(e, Len(toks), {12}) = {}
  BY DEF Captured, Sound, GraphsRepaired
<1>3. SpecVerify(e, toks) = VerifyShort(e, toks, Len(toks))
  BY <1>2 DEF SpecVerify, Verify12
<1>4. QED
  BY <1>1, <1>3, VerifyShortConsumes

-----------------------------------------------------------------------------
(***************************************************************************)
(* The MTP head                                                            *)
(***************************************************************************)
Flagged(e, flag, toks) == [e EXCEPT !.onDev = flag, !.toks = toks]

LEMMA FlagSound ==
  ASSUME NEW e, Sound(e), NEW flag \in BOOLEAN, NEW toks \in Seq(Token)
  PROVE  /\ Sound(Flagged(e, flag, toks))
         /\ Flagged(e, flag, toks).rec = e.rec /\ Flagged(e, flag, toks).pos = e.pos
         /\ Flagged(e, flag, toks).toks = toks
<1> DEFINE f == Flagged(e, flag, toks)
<1>1. e \in Engines
  BY DEF Sound
<1>2. /\ f \in Engines /\ f.rec = e.rec /\ f.pos = e.pos /\ f.last = e.last /\ f.kv = e.kv
      /\ f.onDev = flag /\ f.toks = toks /\ f.graphs = e.graphs /\ f.snap = e.snap
  BY <1>1 DEF Engines, Flagged
<1> HIDE DEF f
<1>3. Sound(f)
  BY <1>2 DEF Sound
<1>4. QED
  BY <1>2, <1>3 DEF f

LEMMA LeaveSound ==
  ASSUME Repaired, NEW e, Sound(e), NEW flag \in BOOLEAN, NEW toks
  PROVE  Sound(Leave(e, flag, toks)) /\ Leave(e, flag, toks).rec = e.rec
<1>1. "mixed" \notin Paths
  BY DEF Repaired, GoodPaths
<1> DEFINE t == <<>>
<1>2. Leave(e, flag, toks) = Flagged(e, flag, t)
  BY <1>1 DEF Leave, Flagged
<1>3. t \in Seq(Token)
  OBVIOUS
<1> HIDE DEF t
<1>4. QED
  BY <1>2, <1>3, FlagSound

\* What is consumed of a prefix is consumed of the whole.
LEMMA ConsumedPrefix ==
  ASSUME NEW e, NEW f, NEW toks \in Seq(Token), NEW T \in 1..Len(toks), NEW n,
         Consumed(e, f, SubSeq(toks, 1, T), n)
  PROVE  Consumed(e, f, toks, n)
<1> DEFINE t == SubSeq(toks, 1, T)
<1>1. T \in 0..Len(toks) /\ T \in Nat /\ Len(toks) \in Nat /\ T <= Len(toks)
  OBVIOUS
<1>2. t \in Seq(Token) /\ Len(t) = T /\ \A k \in 1..T : t[k] = toks[k]
  BY <1>1, Prefix
<1>3. n \in 1..T /\ n \in Nat
  BY <1>2 DEF Consumed
<1>4. \A i \in 0..T : SubSeq(t, 1, i) = SubSeq(toks, 1, i)
  BY <1>1, PrefixOfPrefix
<1> HIDE DEF t
<1>5. Holds(e, t, n) /\ Sound(f) /\ f.rec = e.rec \o SubSeq(t, 1, n)
  BY DEF Consumed, t
<1>6. \A i \in 1..(n - 1) : i \in 0..T /\ i + 1 \in 1..T
  BY <1>1, <1>3
<1>7. Holds(e, toks, n)
  BY <1>2, <1>4, <1>5, <1>6 DEF Holds
<1>8. n \in 0..T /\ n \in 1..Len(toks)
  BY <1>1, <1>3
<1>9. QED
  BY <1>4, <1>5, <1>7, <1>8 DEF Consumed

LEMMA WindowConsumes ==
  ASSUME Repaired, NEW e, Sound(e), NEW toks, Fits(e, toks), Len(toks) = 4, NEW T \in {3, 4}
  PROVE  Consumed(e, Window(e, toks, T).e, toks, Window(e, toks, T).n)
<1> DEFINE d == Flagged(e, TRUE, toks)
           t == SubSeq(toks, 1, T)
           v == SpecVerify(d, t)
<1>1. toks \in Seq(Token) /\ T \in 1..Len(toks) /\ T \in 0..Len(toks) /\ e.pos + Len(toks) <= Ctx /\ T <= 4
  BY DEF Fits
<1>2. Sound(d) /\ d.rec = e.rec /\ d.pos = e.pos /\ d.toks = toks
  BY <1>1, FlagSound
<1>3. t \in Seq(Token) /\ Len(t) = T
  BY <1>1, Prefix
<1> HIDE DEF d
<1>4. e.pos \in 0..Ctx /\ Ctx \in Nat
  BY EngineParts, EngineAssumption DEF Sound
<1>5. Fits(d, t)
  BY <1>1, <1>2, <1>3, <1>4 DEF Fits
<1>6. Fed(d, t) = t
  BY <1>2, <1>3 DEF Fed
<1>7. Consumed(d, v.e, t, v.n)
  BY <1>2, <1>5, <1>6, SpecVerifyConsumes
<1>8. Window(e, toks, T) = [e |-> Leave(v.e, ~(T = 4 /\ v.n = 2), toks), n |-> v.n]
  BY DEF Window, Flagged, d
<1> HIDE DEF v
<1> DEFINE flag == ~(T = 4 /\ v.n = 2)
           w == Leave(v.e, flag, toks)
<1>9. flag \in BOOLEAN /\ Sound(v.e)
  BY <1>7 DEF Consumed
<1>10. Sound(w) /\ w.rec = v.e.rec
  BY <1>9, LeaveSound
<1> HIDE DEF flag, w
<1>11. Consumed(e, w, t, v.n)
  BY <1>2, <1>7, <1>10 DEF Consumed, Holds
<1>12. Consumed(e, w, toks, v.n)
  BY <1>1, <1>11, ConsumedPrefix
<1>13. QED
  BY <1>8, <1>12 DEF w, flag

LEMMA FusedConsumes ==
  ASSUME NEW e, Sound(e), NEW toks, Fits(e, toks), Len(toks) = 2, e.snap, 2 \in e.graphs
  PROVE  Consumed(e, Fused(e, toks).e, toks, Fused(e, toks).n)
<1>1. toks \in Seq(Token) /\ 1 \in 1..Len(toks) /\ 2 \in 1..Len(toks)
  BY DEF Fits
<1>2. CASE toks[2] = Best(e, toks, 1)
  <2>1. Holds(e, toks, 2)
    <3>1. toks[2] = Greedy(e.rec \o SubSeq(toks, 1, 1))
      BY <1>1, <1>2, BestIsGreedy
    <3>2. \A i \in 1..(2 - 1) : i = 1 /\ i + 1 = 2
      OBVIOUS
    <3>3. QED
      BY <3>1, <3>2 DEF Holds
  <2>2. Fused(e, toks) = Hit(e, toks, 2)
    BY <1>2 DEF Fused
  <2>3. Hit(e, toks, 2).n = 2 /\ Consumed(e, Hit(e, toks, 2).e, toks, 2)
    BY <1>1, <2>1, HitConsumes
  <2>4. QED
    BY <2>2, <2>3
<1>3. CASE toks[2] # Best(e, toks, 1)
  <2>1. Miss(e, toks, 2).n = 1 /\ Consumed(e, Miss(e, toks, 2).e, toks, 1)
    BY <1>1, MissConsumes
  <2>2. Fused(e, toks) = Miss(e, toks, 2)
    BY <1>3 DEF Fused, Miss
  <2>3. QED
    BY <2>1, <2>2
<1>4. QED
  BY <1>2, <1>3

\* Whatever the head drafted and whatever came of it, tokens were consumed.
LEMMA OutcomeConsumes ==
  ASSUME Repaired, NEW e, Sound(e), NEW path \in Paths, NEW toks, Fits(e, toks),
         Len(toks) = 1 + DraftCount[path], path = "fused" => 2 \in e.graphs /\ e.snap
  PROVE  Consumed(e, Outcome(path, e, toks).e, toks, Outcome(path, e, toks).n)
<1>1. path \in {"one", "fused", "three", "four"}
  BY DEF Repaired, GoodPaths
<1>2. CASE path = "one"
  <2>1. toks \in Seq(Token) /\ Len(toks) = 1 /\ SubSeq(toks, 1, 1) = toks
    <3>1. toks \in Seq(Token) /\ Len(toks) = 1
      BY <1>2 DEF DraftCount, Fits
    <3>2. SubSeq(toks, 1, Len(toks)) = toks
      BY <3>1, SubSeqFull
    <3>3. QED
      BY <3>1, <3>2
  <2>2. Outcome(path, e, toks) = [e |-> Decode(e, toks), n |-> 1]
    BY <1>2 DEF Outcome
  <2>3. Sound(Decode(e, toks)) /\ Decode(e, toks).rec = e.rec \o toks
    BY DecodeSound
  <2>4. Holds(e, toks, 1)
    BY DEF Holds
  <2> DEFINE f == Decode(e, toks)
             x == SubSeq(toks, 1, 1)
  <2>5. Outcome(path, e, toks).e = f /\ Outcome(path, e, toks).n = 1
    BY <2>2
  <2>6. Sound(f) /\ f.rec = e.rec \o x
    BY <2>1, <2>3
  <2>7. 1 \in 1..Len(toks)
    BY <2>1
  <2> HIDE DEF f
  <2>8. Consumed(e, f, toks, 1)
    BY <2>4, <2>6, <2>7 DEF Consumed
  <2>9. QED
    BY <2>5, <2>8
<1>3. CASE path = "fused"
  <2> DEFINE v == Fused(e, toks)
             t == toks \o SubSeq(e.toks, 3, 4)
  <2>1. Len(toks) = 2
    BY <1>3 DEF DraftCount
  <2>2. Consumed(e, v.e, toks, v.n)
    BY <1>3, <2>1, FusedConsumes
  <2>3. Outcome(path, e, toks).e = Leave(v.e, e.onDev, t) /\ Outcome(path, e, toks).n = v.n
    BY <1>3 DEF Outcome, Fused, Hit
  <2> HIDE DEF v, t
  <2>4. e.onDev \in BOOLEAN
    BY EngineParts DEF Sound
  <2>5. Sound(Leave(v.e, e.onDev, t)) /\ Leave(v.e, e.onDev, t).rec = v.e.rec
    BY <2>2, <2>4, LeaveSound DEF Consumed
  <2>6. QED
    BY <2>2, <2>3, <2>5 DEF Consumed
<1>4. CASE path = "three"
  <2>1. Len(toks) = 4
    BY <1>4 DEF DraftCount
  <2>2. Outcome(path, e, toks) = Window(e, toks, 3)
    BY <1>4 DEF Outcome
  <2>3. QED
    BY <2>1, <2>2, WindowConsumes
<1>5. CASE path = "four"
  <2>1. Len(toks) = 4
    BY <1>5 DEF DraftCount
  <2>2. Outcome(path, e, toks) = Window(e, toks, 4)
    BY <1>5 DEF Outcome, AfterWindow
  <2>3. QED
    BY <2>1, <2>2, WindowConsumes
<1>6. QED
  BY <1>1, <1>2, <1>3, <1>4, <1>5

-----------------------------------------------------------------------------
(***************************************************************************)
(* prefill and decode_steps                                                *)
(***************************************************************************)
LEMMA EmptyJoin ==
  ASSUME NEW toks \in Seq(Token)
  PROVE  <<>> \o toks = toks /\ SubSeq(toks, 1, Len(toks)) = toks
OBVIOUS

LEMMA NoRows == \A c : Rows(c, 0) = <<>>
BY DEF Rows

\* The rows of a prompt, whatever was in the cache before.
LEMMA PromptRows ==
  ASSUME NEW c \in [0..(Ctx - 1) -> Token], NEW ids \in Seq(Token), Len(ids) <= Ctx
  PROVE  /\ Write(c, 0, ids) \in [0..(Ctx - 1) -> Token]
         /\ Rows(Write(c, 0, ids), Len(ids)) = ids
<1> DEFINE s == <<>>
           n == Len(ids)
<1>1. s \in Seq(Token) /\ s = Rows(c, 0) /\ 0 \in 0..Ctx /\ 0 + n <= Ctx /\ n \in 0..n /\ 0 + n = n
  BY NoRows, EngineAssumption
<1>2. s \o SubSeq(ids, 1, n) = ids
  BY EmptyJoin
<1> HIDE DEF s
<1>3. /\ Write(c, 0, ids) \in [0..(Ctx - 1) -> Token]
      /\ \A m \in 0..n : Rows(Write(c, 0, ids), 0 + m) = s \o SubSeq(ids, 1, m)
  BY <1>1, WriteRows
<1>4. QED
  BY <1>1, <1>2, <1>3

\* An engine with a history of its own, at the start of a context.
Cleared(e) == [e EXCEPT !.rec = <<>>, !.pos = 0]

LEMMA ClearedFields ==
  ASSUME NEW e \in Engines
  PROVE  /\ Cleared(e) \in Engines /\ Cleared(e).rec = <<>> /\ Cleared(e).pos = 0 /\ Cleared(e).kv = e.kv
         /\ Cleared(e).graphs = e.graphs /\ Cleared(e).snap = e.snap
<1> DEFINE s == <<>>
           z == 0
<1>1. s \in Seq(Token) /\ z \in 0..Ctx
  BY EngineAssumption
<1>2. Cleared(e) = [e EXCEPT !.rec = s, !.pos = z]
  BY DEF Cleared
<1> HIDE DEF s, z
<1>3. /\ Cleared(e) \in Engines /\ Cleared(e).rec = s /\ Cleared(e).pos = z /\ Cleared(e).kv = e.kv
      /\ Cleared(e).graphs = e.graphs /\ Cleared(e).snap = e.snap
  BY <1>1, <1>2 DEF Engines
<1>4. QED
  BY <1>3 DEF s, z

\* The fields of an engine that was filled with a prompt of several tokens.
Filled(e, ids) ==
  LET b == Sample(ids, ids)
  IN  [e EXCEPT !.rec = ids, !.kv = Write(@, 0, ids), !.pos = Len(ids), !.last = b, !.tok = b]

LEMMA FilledFields ==
  ASSUME NEW e \in Engines, NEW ids \in Seq(Token), Len(ids) <= Ctx
  PROVE  /\ Filled(e, ids) \in Engines /\ Filled(e, ids).rec = ids /\ Filled(e, ids).kv = Write(e.kv, 0, ids)
         /\ Filled(e, ids).pos = Len(ids) /\ Filled(e, ids).last = Sample(ids, ids)
         /\ Filled(e, ids).tok = Filled(e, ids).last
         /\ Filled(e, ids).graphs = e.graphs /\ Filled(e, ids).snap = e.snap
<1> DEFINE b == Sample(ids, ids)
           w == Write(e.kv, 0, ids)
           n == Len(ids)
<1>1. b \in Token
  BY SampleType
<1>2. w \in [0..(Ctx - 1) -> Token]
  BY EngineParts, PromptRows
<1>3. n \in 0..Ctx
  BY EngineAssumption
<1>4. Filled(e, ids) = [e EXCEPT !.rec = ids, !.kv = w, !.pos = n, !.last = b, !.tok = b]
  BY DEF Filled, Engines
<1> HIDE DEF b, w, n
<1>5. /\ Filled(e, ids) \in Engines /\ Filled(e, ids).rec = ids /\ Filled(e, ids).kv = w
      /\ Filled(e, ids).pos = n /\ Filled(e, ids).last = b /\ Filled(e, ids).tok = b
      /\ Filled(e, ids).graphs = e.graphs /\ Filled(e, ids).snap = e.snap
  BY <1>1, <1>2, <1>3, <1>4 DEF Engines
<1>6. QED
  BY <1>5 DEF b, w, n

LEMMA PrefillSound ==
  ASSUME NEW e \in Engines, GraphsRepaired(e.graphs, e.snap),
         NEW ids \in Seq(Token), Len(ids) >= 1, Len(ids) <= Ctx
  PROVE  /\ Sound(PrefillEngine(e, ids)) /\ PrefillEngine(e, ids).rec = ids
         /\ PrefillEngine(e, ids).tok = PrefillEngine(e, ids).last
<1> DEFINE f == PrefillEngine(e, ids)
<1>1. /\ Write(e.kv, 0, ids) \in [0..(Ctx - 1) -> Token] /\ Rows(Write(e.kv, 0, ids), Len(ids)) = ids
  BY EngineParts, PromptRows
<1>2. /\ f \in Engines /\ f.rec = ids /\ f.kv = Write(e.kv, 0, ids) /\ f.pos = Len(ids)
      /\ f.last = Sample(ids, ids) /\ f.tok = f.last /\ f.graphs = e.graphs /\ f.snap = e.snap
  <2>1. CASE Len(ids) = 1
    <3> DEFINE d == Cleared(e)
    <3>1. f = Decode(d, ids)
      BY <2>1 DEF PrefillEngine, Cleared
    <3>2. /\ d \in Engines /\ d.rec = <<>> /\ d.pos = 0 /\ d.kv = e.kv
          /\ d.graphs = e.graphs /\ d.snap = e.snap
      BY ClearedFields
    <3> HIDE DEF d, f
    <3>3. 0 + Len(ids) = Len(ids) /\ d.pos + Len(ids) <= Ctx
      BY <3>2
    <3>4. Write(d.kv, d.pos, ids) \in [0..(Ctx - 1) -> Token]
      BY <1>1, <3>2
    <3>5. /\ Decode(d, ids) \in Engines /\ Decode(d, ids).rec = d.rec \o ids
          /\ Decode(d, ids).kv = Write(d.kv, d.pos, ids) /\ Decode(d, ids).pos = d.pos + Len(ids)
          /\ Decode(d, ids).last = Best(d, ids, Len(ids)) /\ Decode(d, ids).tok = Decode(d, ids).last
          /\ Decode(d, ids).graphs = d.graphs /\ Decode(d, ids).snap = d.snap
      BY <3>2, <3>3, <3>4, DecodeFields
    <3>6. Best(d, ids, Len(ids)) = Sample(ids, ids)
      BY <3>2, NoRows, EmptyJoin DEF Best
    <3>7. d.rec \o ids = ids
      BY <3>2, EmptyJoin
    <3>8. QED
      BY <3>1, <3>2, <3>3, <3>5, <3>6, <3>7
  <2>2. CASE Len(ids) # 1
    <3>1. f = Filled(e, ids)
      BY <2>2 DEF PrefillEngine, Filled
    <3> HIDE DEF f
    <3>2. QED
      BY <3>1, FilledFields
  <2>3. QED
    BY <2>1, <2>2
<1> HIDE DEF f
<1>3. ids # <<>>
  OBVIOUS
<1>4. f.last = Greedy(f.rec)
  BY <1>2, <1>3 DEF Greedy
<1>5. QED
  BY <1>1, <1>2, <1>4 DEF Sound, f

\* s is what an engine decodes that is fed first and then its own tokens.
FedBack(e, first, s) == s[1] = first /\ \A k \in 2..Len(s) : s[k] = Best(e, s, k - 1)

LEMMA SameBest ==
  ASSUME NEW e, NEW s \in Seq(Token), NEW t \in Seq(Token), NEW i \in 1..Len(s), i <= Len(t),
         \A k \in 1..i : t[k] = s[k]
  PROVE  Best(e, t, i) = Best(e, s, i)
<1>1. i \in 0..Len(s) /\ i \in 0..Len(t)
  OBVIOUS
<1> DEFINE x == SubSeq(s, 1, i)
           y == SubSeq(t, 1, i)
<1>2. x \in Seq(Token) /\ Len(x) = i /\ \A k \in 1..i : x[k] = s[k]
  BY <1>1, Prefix
<1>3. y \in Seq(Token) /\ Len(y) = i /\ \A k \in 1..i : y[k] = t[k]
  BY <1>1, Prefix
<1> HIDE DEF x, y
<1>4. x = y
  BY <1>2, <1>3, SeqEqual
<1>5. QED
  BY <1>4 DEF Best, x, y

LEMMA SelfFedExists ==
  ASSUME NEW e, NEW first \in Token, NEW n \in Nat, n >= 1
  PROVE  \E s \in [1..n -> Token] : FedBack(e, first, s)
<1> DEFINE S == {m \in 1..n : \E s \in [1..m -> Token] : FedBack(e, first, s)}
<1>1. 1 \in S
  <2> DEFINE s == [k \in 1..1 |-> first]
  <2>1. s \in [1..1 -> Token] /\ Len(s) = 1 /\ s[1] = first
    OBVIOUS
  <2> HIDE DEF s
  <2>2. FedBack(e, first, s)
    BY <2>1 DEF FedBack
  <2>3. QED
    BY <2>1, <2>2
<1>2. S \in SUBSET (1..n)
  OBVIOUS
<1>3. ASSUME NEW m \in S, m < n PROVE m + 1 \in S
  <2>1. m \in 1..n /\ m \in Nat /\ m + 1 \in 1..n
    BY <1>3
  <2>2. PICK s \in [1..m -> Token] : FedBack(e, first, s)
    OBVIOUS
  <2>3. s \in Seq(Token) /\ Len(s) = m
    BY <2>1
  <2> DEFINE b == Best(e, s, m)
             t == [k \in 1..(m + 1) |-> IF k <= m THEN s[k] ELSE b]
  <2>4. b \in Token
    BY BestType
  <2>5. /\ t \in [1..(m + 1) -> Token] /\ t[m + 1] = b
        /\ \A k \in 1..m : t[k] = s[k]
    <3> HIDE DEF b
    <3>1. QED
      BY <2>1, <2>4
  <2> HIDE DEF b, t
  <2>6. t \in Seq(Token) /\ Len(t) = m + 1
    BY <2>1, <2>5
  <2>7. \A i \in 1..m : Best(e, t, i) = Best(e, s, i)
    <3> SUFFICES ASSUME NEW i \in 1..m PROVE Best(e, t, i) = Best(e, s, i)
      OBVIOUS
    <3>1. i \in 1..Len(s) /\ i <= Len(t) /\ \A k \in 1..i : k \in 1..m
      BY <2>1, <2>3, <2>6
    <3>2. \A k \in 1..i : t[k] = s[k]
      BY <2>5, <3>1
    <3>3. QED
      BY <2>3, <2>6, <3>1, <3>2, SameBest
  <2>8. t[1] = first
    BY <2>1, <2>2, <2>5 DEF FedBack
  <2>9. ASSUME NEW k \in 2..(m + 1) PROVE t[k] = Best(e, t, k - 1)
    <3>1. k - 1 \in 1..m
      BY <2>1
    <3>2. CASE k <= m
      <4>1. k \in 2..Len(s) /\ k \in 1..m
        BY <2>1, <2>3, <3>2
      <4>2. s[k] = Best(e, s, k - 1)
        BY <2>2, <4>1 DEF FedBack
      <4>3. QED
        BY <2>5, <2>7, <3>1, <4>1, <4>2
    <3>3. CASE ~(k <= m)
      <4>1. k = m + 1 /\ k - 1 = m
        BY <2>1, <3>3
      <4>2. QED
        BY <2>5, <2>7, <3>1, <4>1 DEF b
    <3>4. QED
      BY <3>2, <3>3
  <2>10. FedBack(e, first, t)
    BY <2>6, <2>8, <2>9 DEF FedBack
  <2>11. QED
    BY <2>1, <2>5, <2>10
<1> HIDE DEF S
<1>4. PICK m \in S : \A y \in S : m >= y
  BY <1>1, <1>2, LastExists
<1>5. m = n
  <2>1. m \in 1..n
    BY <1>2
  <2>2. CASE m < n
    <3>1. m + 1 \in S /\ ~(m >= m + 1)
      BY <1>3, <2>1, <2>2
    <3>2. QED
      BY <1>4, <3>1
  <2>3. QED
    BY <2>1, <2>2
<1>6. QED
  BY <1>5 DEF S

LEMMA SelfFedShape ==
  ASSUME NEW e, NEW first \in Token, NEW n \in Nat, n >= 1
  PROVE  LET s == SelfFed(e, first, n)
         IN  s \in Seq(Token) /\ Len(s) = n /\ FedBack(e, first, s)
<1> DEFINE P(s) == s[1] = first /\ \A k \in 2..n : s[k] = Best(e, s, k - 1)
           s == SelfFed(e, first, n)
<1>1. \A t \in [1..n -> Token] : Len(t) = n /\ t \in Seq(Token)
  OBVIOUS
<1>2. \E t \in [1..n -> Token] : P(t)
  <2>1. PICK t \in [1..n -> Token] : FedBack(e, first, t)
    BY SelfFedExists
  <2>2. Len(t) = n
    BY <1>1
  <2>3. P(t)
    BY <2>1, <2>2 DEF FedBack
  <2>4. QED
    BY <2>3
<1>3. s = CHOOSE t \in [1..n -> Token] : P(t)
  BY DEF SelfFed
<1> HIDE DEF P
<1>4. s \in [1..n -> Token] /\ P(s)
  BY <1>2, <1>3
<1> HIDE DEF s
<1>5. QED
  BY <1>1, <1>4 DEF FedBack, P, s

\* The engine whose next decode goes to the front of d_gen_out_.
Rewound(e) == [e EXCEPT !.genN = 0]

LEMMA RewoundSound ==
  ASSUME NEW e, Sound(e)
  PROVE  /\ Sound(Rewound(e)) /\ Rewound(e).rec = e.rec /\ Rewound(e).kv = e.kv /\ Rewound(e).pos = e.pos
         /\ Rewound(e).genN = 0
<1> DEFINE f == Rewound(e)
           z == 0
<1>1. e \in Engines /\ z \in Nat
  BY DEF Sound
<1>2. f = [e EXCEPT !.genN = z]
  BY DEF Rewound
<1> HIDE DEF z, f
<1>3. /\ f \in Engines /\ f.rec = e.rec /\ f.pos = e.pos /\ f.last = e.last /\ f.kv = e.kv
      /\ f.graphs = e.graphs /\ f.snap = e.snap /\ f.genN = z
  BY <1>1, <1>2 DEF Engines
<1>4. Sound(f)
  BY <1>3 DEF Sound
<1>5. QED
  BY <1>3, <1>4 DEF f, z

\* The tokens decoded into an empty d_gen_out_ are at its front.
LEMMA DecodeGen ==
  ASSUME NEW e \in Engines, NEW toks \in Seq(Token), e.genN = 0, Len(toks) <= GenCap,
         NEW k \in 1..Len(toks)
  PROVE  Decode(e, toks).gen[k - 1] = Best(e, toks, k)
<1> DEFINE n == Len(toks)
           g == [j \in DOMAIN e.gen |-> IF j \in e.genN..(e.genN + n - 1)
                                         THEN Best(e, toks, j - e.genN + 1) ELSE e.gen[j]]
<1>1. Decode(e, toks).gen = g
  BY DEF Decode, Engines
<1>2. k - 1 \in 0..(GenCap - 1) /\ k - 1 \in 0..(0 + n - 1) /\ k - 1 - 0 + 1 = k
  BY EngineAssumption
<1>3. DOMAIN e.gen = 0..(GenCap - 1)
  BY EngineParts
<1>4. g[k - 1] = Best(e, toks, k)
  BY <1>2, <1>3
<1>5. QED
  BY <1>1, <1>4

\* decode_steps consumes n tokens, each the greedy one, and they can be copied out.
LEMMA StepsSound ==
  ASSUME NEW e, Sound(e), e.tok = e.last, NEW n \in 1..GenCap, e.pos + n <= Ctx
  PROVE  LET s == SelfFed(e, e.tok, n)
             f == Steps(e, n)
         IN  /\ s \in Seq(Token) /\ Len(s) = n /\ FedBack(e, e.last, s)
             /\ Sound(f) /\ f.rec = e.rec \o s
             /\ f.last = Best(e, s, n)
             /\ \A k \in 1..n : f.gen[k - 1] = Best(e, s, k)
<1> DEFINE s == SelfFed(e, e.tok, n)
           d == Rewound(e)
           f == Steps(e, n)
<1>1. n \in Nat /\ n >= 1 /\ n <= GenCap /\ GenCap \in Nat /\ e.last \in Token /\ ~(n > GenCap)
  <2>1. GenCap \in Nat
    BY EngineAssumption
  <2>2. e.last \in Token
    BY EngineParts DEF Sound
  <2>3. QED
    BY <2>1, <2>2
<1>2. s \in Seq(Token) /\ Len(s) = n /\ FedBack(e, e.last, s)
  BY <1>1, SelfFedShape
<1>3. f = Decode(d, s)
  BY <1>1 DEF Steps, Rewound
<1>4. Sound(d) /\ d.rec = e.rec /\ d.kv = e.kv /\ d.pos = e.pos /\ d.genN = 0 /\ d \in Engines
  BY RewoundSound DEF Sound
<1> HIDE DEF s, d, f
<1>5. Fits(d, s)
  BY <1>1, <1>2, <1>4 DEF Fits
<1>6. Sound(f) /\ f.rec = e.rec \o s
  BY <1>3, <1>4, <1>5, DecodeSound
<1>7. \A k : Best(d, s, k) = Best(e, s, k)
  BY <1>4 DEF Best
<1>8. f.last = Best(e, s, n)
  BY <1>2, <1>3, <1>7 DEF Decode, Engines
<1>9. ASSUME NEW k \in 1..n PROVE f.gen[k - 1] = Best(e, s, k)
  <2>1. Decode(d, s).gen[k - 1] = Best(d, s, k)
    BY <1>1, <1>2, <1>4, DecodeGen
  <2>2. QED
    BY <1>3, <1>7, <2>1
<1>10. QED
  BY <1>2, <1>6, <1>8, <1>9 DEF s, f

-----------------------------------------------------------------------------
(***************************************************************************)
(* What was consumed is greedy                                             *)
(***************************************************************************)
LEMMA PrefixOfJoined ==
  ASSUME NEW r \in Seq(Token), NEW t \in Seq(Token), NEW i \in 0..Len(t)
  PROVE  SubSeq(r \o t, 1, Len(r) + i) = r \o SubSeq(t, 1, i)
<1> DEFINE x == r \o t
           y == SubSeq(t, 1, i)
           n == Len(r) + i
<1>1. /\ x \in Seq(Token) /\ Len(x) = Len(r) + Len(t)
      /\ \A k \in 1..(Len(r) + Len(t)) : x[k] = IF k <= Len(r) THEN r[k] ELSE t[k - Len(r)]
  BY Joined
<1>2. y \in Seq(Token) /\ Len(y) = i /\ \A k \in 1..i : y[k] = t[k]
  BY Prefix
<1>3. n \in Nat /\ Len(r) \in Nat /\ Len(t) \in Nat /\ i \in Nat /\ n \in 0..(Len(r) + Len(t)) /\ n = Len(r) + i
  OBVIOUS
<1> HIDE DEF x, y, n
<1>4. /\ SubSeq(x, 1, n) \in Seq(Token) /\ Len(SubSeq(x, 1, n)) = n
      /\ \A k \in 1..n : SubSeq(x, 1, n)[k] = x[k]
  BY <1>1, <1>3, Prefix
<1>5. /\ r \o y \in Seq(Token) /\ Len(r \o y) = Len(r) + Len(y)
      /\ \A k \in 1..(Len(r) + Len(y)) : (r \o y)[k] = IF k <= Len(r) THEN r[k] ELSE y[k - Len(r)]
  BY <1>2, Joined
<1> DEFINE u == SubSeq(x, 1, n)
           v == r \o y
<1>6. /\ u \in Seq(Token) /\ v \in Seq(Token) /\ Len(u) = n /\ Len(v) = n
      /\ \A k \in 1..n : u[k] = x[k]
      /\ \A k \in 1..n : v[k] = IF k <= Len(r) THEN r[k] ELSE y[k - Len(r)]
  BY <1>2, <1>3, <1>4, <1>5
<1> HIDE DEF u, v
<1>7. ASSUME NEW k \in 1..n PROVE u[k] = v[k]
  <2>1. k \in 1..(Len(r) + Len(t))
    BY <1>3
  <2>2. CASE k <= Len(r)
    BY <1>1, <1>6, <2>1, <2>2
  <2>3. CASE ~(k <= Len(r))
    <3>1. k - Len(r) \in 1..i
      BY <1>3, <2>3
    <3>2. x[k] = t[k - Len(r)] /\ y[k - Len(r)] = t[k - Len(r)]
      BY <1>1, <1>2, <2>1, <2>3, <3>1
    <3>3. QED
      BY <1>6, <2>3, <3>2
  <2>4. QED
    BY <2>2, <2>3
<1>8. u = v
  BY <1>6, <1>7, SeqEqual
<1>9. QED
  BY <1>8 DEF u, v, x, y, n

\* Tokens that are greedy one by one continue a sequence as greedy decoding does.
LEMMA ChainGreedy ==
  ASSUME NEW r \in Seq(Token), NEW t \in Seq(Token), NEW a \in 1..2,
         \A i \in a..Len(t) : t[i] = Greedy(r \o SubSeq(t, 1, i - 1))
  PROVE  Abs!GreedyFrom(r \o t, Len(r) + a)
<1> DEFINE x == r \o t
<1>1. /\ Len(x) = Len(r) + Len(t) /\ Len(r) \in Nat /\ Len(t) \in Nat
      /\ \A k \in 1..(Len(r) + Len(t)) : x[k] = IF k <= Len(r) THEN r[k] ELSE t[k - Len(r)]
  BY Joined
<1>2. \A i \in 0..Len(t) : SubSeq(x, 1, Len(r) + i) = r \o SubSeq(t, 1, i)
  BY PrefixOfJoined
<1> HIDE DEF x
<1>3. ASSUME NEW j \in (Len(r) + a)..Len(x) PROVE x[j] = Greedy(SubSeq(x, 1, j - 1))
  <2> DEFINE i == j - Len(r)
  <2>1. /\ i \in a..Len(t) /\ i - 1 \in 0..Len(t) /\ Len(r) + (i - 1) = j - 1
        /\ j \in 1..(Len(r) + Len(t)) /\ ~(j <= Len(r))
    BY <1>1
  <2>2. x[j] = t[i]
    BY <1>1, <2>1
  <2> HIDE DEF i
  <2>3. t[i] = Greedy(r \o SubSeq(t, 1, i - 1))
    BY <2>1
  <2>4. SubSeq(x, 1, j - 1) = r \o SubSeq(t, 1, i - 1)
    BY <1>2, <2>1
  <2>5. QED
    BY <2>2, <2>3, <2>4
<1>4. QED
  BY <1>3 DEF Abs!GreedyFrom, x

LEMMA ConsumedGreedy ==
  ASSUME NEW e, Sound(e), NEW f, NEW toks \in Seq(Token), NEW n, Consumed(e, f, toks, n)
  PROVE  Abs!GreedyFrom(f.rec, Len(e.rec) + 2)
<1> DEFINE t == SubSeq(toks, 1, n)
           r == e.rec
<1>1. n \in 1..Len(toks) /\ n \in 0..Len(toks) /\ n \in Nat /\ r \in Seq(Token)
  BY EngineParts DEF Consumed, Sound
<1>2. t \in Seq(Token) /\ Len(t) = n /\ \A k \in 1..n : t[k] = toks[k]
  BY <1>1, Prefix
<1>3. \A i \in 0..n : SubSeq(t, 1, i) = SubSeq(toks, 1, i)
  BY <1>1, PrefixOfPrefix
<1>4. Holds(e, toks, n) /\ f.rec = r \o t
  BY DEF Consumed
<1> HIDE DEF t
<1>5. ASSUME NEW i \in 2..Len(t) PROVE t[i] = Greedy(r \o SubSeq(t, 1, i - 1))
  <2> DEFINE j == i - 1
  <2>1. j \in 1..(n - 1) /\ j \in 0..n /\ i \in 1..n /\ j + 1 = i
    BY <1>1, <1>2
  <2> HIDE DEF j
  <2>2. toks[j + 1] = Greedy(r \o SubSeq(toks, 1, j))
    BY <1>4, <2>1 DEF Holds
  <2>3. t[i] = toks[i] /\ SubSeq(t, 1, j) = SubSeq(toks, 1, j)
    BY <1>2, <1>3, <2>1
  <2>4. t[i] = Greedy(r \o SubSeq(t, 1, j))
    BY <2>1, <2>2, <2>3
  <2>5. QED
    BY <2>4 DEF j
<1> HIDE DEF r
<1>6. Abs!GreedyFrom(r \o t, Len(r) + 2)
  BY <1>1, <1>2, <1>5, ChainGreedy
<1>7. QED
  BY <1>4, <1>6 DEF r

LEMMA FedBackGreedy ==
  ASSUME NEW e, Sound(e), NEW s \in Seq(Token), Len(s) >= 1, FedBack(e, e.last, s)
  PROVE  Abs!GreedyFrom(e.rec \o s, Len(e.rec) + 1)
<1> DEFINE r == e.rec
<1>1. r \in Seq(Token) /\ e.last = Greedy(r)
  BY EngineParts DEF Sound
<1>2. ASSUME NEW i \in 1..Len(s) PROVE s[i] = Greedy(r \o SubSeq(s, 1, i - 1))
  <2>1. CASE i = 1
    <3>1. r \o SubSeq(s, 1, 0) = r
      BY <1>1
    <3>2. i - 1 = 0
      BY <2>1
    <3>3. s[i] = Greedy(r)
      BY <1>1, <2>1 DEF FedBack
    <3>4. QED
      BY <3>1, <3>2, <3>3
  <2>2. CASE i # 1
    <3>1. i \in 2..Len(s) /\ i - 1 \in 1..Len(s)
      BY <2>2
    <3>2. s[i] = Best(e, s, i - 1)
      BY <3>1 DEF FedBack
    <3>3. QED
      BY <3>1, <3>2, BestIsGreedy
  <2>3. QED
    BY <2>1, <2>2
<1> HIDE DEF r
<1>3. QED
  BY <1>1, <1>2, ChainGreedy DEF r

-----------------------------------------------------------------------------
(***************************************************************************)
(* The invariant, and the step of the refinement                           *)
(***************************************************************************)
IInv ==
  /\ Repaired /\ Sound(gpu)
  /\ call.op = "prefill" => gpu.tok = gpu.last
  /\ GenHoldsTokens

LEMMA SeenIs == Sound(gpu) => Seen = gpu.rec
BY DEF Sound, Seen

\* What a step keeps, and what it is to a reader of the interface.
Kept == IInv' /\ Abs!Next

LEMMA PrefillKeeps ==
  ASSUME IInv, NEW ids \in Seq(Token), Len(ids) >= 1, Prefill(ids)
  PROVE  Kept
<1>1. gpu' = PrefillEngine(gpu, ids) /\ call'.op = "prefill" /\ call'.toks = ids /\ Len(ids) <= Ctx
  BY EngineAssumption DEF Prefill
<1>2. gpu \in Engines /\ GraphsRepaired(gpu.graphs, gpu.snap)
  BY DEF IInv, Sound
<1>3. Sound(gpu') /\ gpu'.rec = ids /\ gpu'.tok = gpu'.last
  BY <1>1, <1>2, PrefillSound
<1>4. Seen' = ids /\ gpu'.last = Greedy(ids)
  BY <1>3 DEF Seen, Sound
<1>5. IInv'
  BY <1>1, <1>3 DEF IInv, Repaired, GenHoldsTokens
<1>6. Abs!Next
  BY <1>1, <1>4 DEF Abs!Next, Abs!Prefill
<1>7. QED
  BY <1>5, <1>6 DEF Kept

LEMMA DecodeKeeps ==
  ASSUME IInv, NEW t \in Token, DecodeToken(t)
  PROVE  Kept
<1> DEFINE toks == <<t>>
<1>1. gpu' = Decode(gpu, toks) /\ call'.op = "decode" /\ call'.toks = toks /\ gpu.pos < Ctx
  BY DEF DecodeToken
<1>2. toks \in Seq(Token) /\ Len(toks) = 1
  OBVIOUS
<1>3. Sound(gpu) /\ gpu.pos \in 0..Ctx /\ Ctx \in Nat
  BY EngineParts, EngineAssumption DEF IInv, Sound
<1> HIDE DEF toks
<1>4. Fits(gpu, toks)
  BY <1>1, <1>2, <1>3 DEF Fits
<1>5. Sound(gpu') /\ gpu'.rec = gpu.rec \o toks
  BY <1>1, <1>3, <1>4, DecodeSound
<1>6. Seen = gpu.rec /\ Seen' = gpu'.rec /\ gpu'.last = Greedy(gpu'.rec)
  BY <1>3, <1>5 DEF Seen, Sound
<1>7. IInv'
  BY <1>1, <1>5 DEF IInv, Repaired, GenHoldsTokens
<1>8. Abs!Next
  BY <1>1, <1>5, <1>6 DEF Abs!Next, Abs!DecodeToken
<1>9. QED
  BY <1>7, <1>8 DEF Kept

LEMMA RestOfJoined ==
  ASSUME NEW r \in Seq(Token), NEW s \in Seq(Token)
  PROVE  SubSeq(r \o s, Len(r) + 1, Len(r \o s)) = s
<1> DEFINE x == r \o s
<1>1. /\ x \in Seq(Token) /\ Len(x) = Len(r) + Len(s) /\ Len(r) \in Nat /\ Len(s) \in Nat
      /\ \A k \in 1..(Len(r) + Len(s)) : x[k] = IF k <= Len(r) THEN r[k] ELSE s[k - Len(r)]
  BY Joined
<1> HIDE DEF x
<1>2. SubSeq(x, Len(r) + 1, Len(x)) = s
  <2> DEFINE m == Len(r) + 1
             n == Len(x)
             t == SubSeq(x, m, n)
  <2>1. m \in Int /\ n \in Int /\ \A i \in m..n : x[i] \in Token
    BY <1>1
  <2>2. n - m + 1 = Len(s) /\ m = Len(r) + 1 /\ n = Len(r) + Len(s)
    BY <1>1
  <2> HIDE DEF m, n
  <2>3. /\ t \in Seq(Token) /\ Len(t) = IF m <= n THEN n - m + 1 ELSE 0
        /\ \A i \in 1..(n - m + 1) : t[i] = x[m + i - 1]
    BY <2>1, SubSeqProperties
  <2> HIDE DEF t
  <2>4. Len(t) = Len(s)
    BY <1>1, <2>2, <2>3
  <2>5. ASSUME NEW i \in 1..Len(t) PROVE t[i] = s[i]
    <3> DEFINE k == m + i - 1
    <3>1. i \in 1..(n - m + 1) /\ k \in 1..(Len(r) + Len(s)) /\ ~(k <= Len(r)) /\ k - Len(r) = i
      BY <1>1, <2>2, <2>4
    <3>2. t[i] = x[k]
      BY <2>3, <3>1
    <3> HIDE DEF k
    <3>3. x[k] = s[k - Len(r)]
      BY <1>1, <3>1
    <3>4. QED
      BY <3>1, <3>2, <3>3
  <2>6. t = s
    BY <2>3, <2>4, <2>5, SeqEqual
  <2>7. QED
    BY <2>6 DEF t, m, n
<1>3. QED
  BY <1>2 DEF x

LEMMA Appended ==
  ASSUME NEW r \in Seq(Token), NEW s \in Seq(Token), NEW b \in Token
  PROVE  /\ Len(r \o s) = Len(r) + Len(s) /\ Len(r) \in Nat
         /\ \A j \in 1..Len(s) : Append(r \o s, b)[Len(r) + j + 1] = IF j = Len(s) THEN b ELSE s[j + 1]
<1> DEFINE x == r \o s
           y == Append(x, b)
<1>1. /\ x \in Seq(Token) /\ Len(x) = Len(r) + Len(s) /\ Len(r) \in Nat /\ Len(s) \in Nat
      /\ \A k \in 1..(Len(r) + Len(s)) : x[k] = IF k <= Len(r) THEN r[k] ELSE s[k - Len(r)]
  BY Joined
<1> HIDE DEF x
<1>2. Len(y) = Len(x) + 1 /\ (\A i \in 1..Len(x) : y[i] = x[i]) /\ y[Len(x) + 1] = b
  BY <1>1, AppendProperties
<1> HIDE DEF y
<1>3. ASSUME NEW j \in 1..Len(s) PROVE y[Len(r) + j + 1] = IF j = Len(s) THEN b ELSE s[j + 1]
  <2>1. CASE j = Len(s)
    BY <1>1, <1>2, <2>1
  <2>2. CASE j # Len(s)
    <3> DEFINE i == Len(r) + j + 1
    <3>1. /\ i \in 1..(Len(r) + Len(s)) /\ i \in 1..Len(x)
          /\ ~(i <= Len(r)) /\ i - Len(r) = j + 1
      BY <1>1, <2>2
    <3> HIDE DEF i
    <3>2. x[i] = s[j + 1]
      BY <1>1, <3>1
    <3>3. y[i] = x[i]
      BY <1>2, <3>1
    <3>4. QED
      BY <2>2, <3>2, <3>3 DEF i
  <2>3. QED
    BY <2>1, <2>2
<1>4. QED
  BY <1>1, <1>3 DEF x, y

\* The tokens that decode_steps produced are those the copy out returns.
CopiedOut(e, n) ==
  GenTokens(e, n) = [k \in 1..n |-> Append(e.rec, e.last)[Len(e.rec) + 1 - n + k]]

LEMMA StepsGen ==
  ASSUME NEW f, NEW r \in Seq(Token), NEW s \in Seq(Token), NEW n \in Nat, n >= 1, n <= GenCap,
         Len(s) = n, f.rec = r \o s, f.last \in Token,
         \A k \in 1..n : f.gen[k - 1] = IF k = n THEN f.last ELSE s[k + 1]
  PROVE  CopiedOut(f, n)
<1> DEFINE x == r \o s
           b == f.last
           y == Append(x, b)
<1>1. b \in Token
  OBVIOUS
<1> HIDE DEF b
<1>2. /\ Len(r \o s) = Len(r) + Len(s) /\ Len(r) \in Nat
      /\ \A j \in 1..Len(s) : Append(r \o s, b)[Len(r) + j + 1] = IF j = Len(s) THEN b ELSE s[j + 1]
  BY <1>1, Appended
<1>3. /\ Len(x) = Len(r) + n /\ Len(r) \in Nat
      /\ \A j \in 1..n : y[Len(r) + j + 1] = IF j = n THEN b ELSE s[j + 1]
  BY <1>2
<1> HIDE DEF x, y
<1>4. ASSUME NEW k \in 1..n PROVE f.gen[k - 1] = y[Len(x) + 1 - n + k]
  <2>1. Len(x) + 1 - n + k = Len(r) + k + 1
    BY <1>3
  <2>2. f.gen[k - 1] = IF k = n THEN b ELSE s[k + 1]
    BY DEF b
  <2>3. QED
    BY <1>3, <2>1, <2>2
<1>5. Min({n, GenCap}) = n
  BY MinOfTwo, EngineAssumption
<1>6. GenTokens(f, n) = [k \in 1..n |-> f.gen[k - 1]]
  BY <1>5 DEF GenTokens
<1>7. [k \in 1..n |-> f.gen[k - 1]] = [k \in 1..n |-> y[Len(x) + 1 - n + k]]
  BY <1>4
<1>8. QED
  BY <1>6, <1>7 DEF CopiedOut, x, y, b

LEMMA StepsKeep ==
  ASSUME IInv, NEW n \in 1..GenCap, DecodeSteps(n)
  PROVE  Kept
<1> DEFINE s == SelfFed(gpu, gpu.tok, n)
           r == gpu.rec
<1>1. /\ gpu' = Steps(gpu, n) /\ call'.op = "steps" /\ call'.ret = n /\ gpu.pos + n <= Ctx
      /\ gpu.tok = gpu.last
  BY DEF DecodeSteps, IInv
<1>2. Sound(gpu) /\ r \in Seq(Token) /\ Repaired /\ n \in Nat /\ n >= 1 /\ n <= GenCap
  <2>1. Sound(gpu) /\ r \in Seq(Token) /\ Repaired
    BY EngineParts DEF IInv, Sound
  <2>2. GenCap \in Nat
    BY EngineAssumption
  <2>3. QED
    BY <2>1, <2>2
<1>3. /\ s \in Seq(Token) /\ Len(s) = n /\ FedBack(gpu, gpu.last, s)
      /\ Sound(gpu') /\ gpu'.rec = r \o s
      /\ gpu'.last = Best(gpu, s, n)
      /\ \A k \in 1..n : gpu'.gen[k - 1] = Best(gpu, s, k)
  BY <1>1, <1>2, StepsSound
<1> HIDE DEF s
<1>4. Seen = r /\ Seen' = gpu'.rec /\ gpu'.last = Greedy(gpu'.rec)
  BY <1>2, <1>3 DEF Seen, Sound
<1>5. Abs!GreedyFrom(r \o s, Len(r) + 1)
  BY <1>2, <1>3, FedBackGreedy
<1> HIDE DEF r
<1>6. CopiedOut(gpu', n)
  <2>1. ASSUME NEW k \in 1..n PROVE gpu'.gen[k - 1] = IF k = n THEN gpu'.last ELSE s[k + 1]
    <3>1. gpu'.gen[k - 1] = Best(gpu, s, k)
      BY <1>3
    <3>2. CASE k = n
      BY <1>3, <3>1, <3>2
    <3>3. CASE k # n
      <4> DEFINE j == k + 1
      <4>1. j \in 2..Len(s) /\ j - 1 = k
        BY <1>2, <1>3, <3>3
      <4> HIDE DEF j
      <4>2. s[j] = Best(gpu, s, k)
        BY <1>3, <4>1 DEF FedBack
      <4>3. QED
        BY <3>1, <3>3, <4>2 DEF j
    <3>4. QED
      BY <3>2, <3>3
  <2>2. gpu'.last \in Token
    BY <1>3, BestType
  <2> DEFINE f == gpu'
  <2>3. /\ Len(s) = n /\ f.rec = r \o s /\ f.last \in Token /\ s \in Seq(Token) /\ r \in Seq(Token)
        /\ n \in Nat /\ n >= 1 /\ n <= GenCap
        /\ \A k \in 1..n : f.gen[k - 1] = IF k = n THEN f.last ELSE s[k + 1]
    BY <1>2, <1>3, <2>1, <2>2
  <2> HIDE DEF f
  <2>4. CopiedOut(f, n)
    BY <2>3, StepsGen
  <2>5. QED
    BY <2>4 DEF f
<1>7. IInv'
  <2>1. GenHoldsTokens'
    BY <1>1, <1>6 DEF GenHoldsTokens, CopiedOut
  <2>2. QED
    BY <1>1, <1>2, <1>3, <2>1 DEF IInv, Repaired
<1>8. Abs!Next
  <2>1. SubSeq(r \o s, Len(r) + 1, Len(r \o s)) = s
    BY <1>2, <1>3, RestOfJoined
  <2>2. Abs!Consumed = s
    BY <1>3, <1>4, <2>1 DEF Abs!Consumed
  <2>3. Abs!DecodeSteps
    BY <1>1, <1>3, <1>4, <1>5, <2>2 DEF Abs!DecodeSteps
  <2>4. QED
    BY <1>4, <2>3 DEF Abs!Next
<1>9. QED
  BY <1>7, <1>8 DEF Kept

\* A verify, of a caller's drafts or of those of the MTP head.
LEMMA ConsumedKeeps ==
  ASSUME IInv, NEW toks \in Seq(Token), Consumed(gpu, gpu', toks, call'.ret),
         call'.op \in {"verify", "mtp"}, call'.toks = toks
  PROVE  Kept
<1> DEFINE n == call'.ret
<1>1. Sound(gpu) /\ Repaired
  BY DEF IInv
<1>2. n \in 1..Len(toks) /\ Sound(gpu') /\ gpu'.rec = gpu.rec \o SubSeq(toks, 1, n)
  BY DEF Consumed
<1>3. Seen = gpu.rec /\ Seen' = gpu'.rec /\ gpu'.last = Greedy(gpu'.rec)
  BY <1>1, <1>2 DEF Seen, Sound
<1>4. Abs!GreedyFrom(gpu'.rec, Len(gpu.rec) + 2)
  BY <1>1, ConsumedGreedy
<1>5. IInv'
  BY <1>1, <1>2 DEF IInv, Repaired, GenHoldsTokens
<1>6. Abs!SpecVerify
  BY <1>2, <1>3, <1>4 DEF Abs!SpecVerify
<1>7. Abs!Next
  BY <1>3, <1>6 DEF Abs!Next
<1>8. QED
  BY <1>5, <1>7 DEF Kept

LEMMA VerifyKeeps ==
  ASSUME IInv, NEW T \in 1..MaxDraft, NEW toks \in [1..T -> Token], HostVerify(toks)
  PROVE  Kept
<1>1. toks \in Seq(Token) /\ Len(toks) = T /\ Len(toks) >= 1
  <2>1. T \in Nat /\ T >= 1
    BY EngineAssumption
  <2>2. QED
    BY <2>1
<1>2. Repaired /\ Sound(gpu)
  BY DEF IInv
<1>3. ~gpu.onDev
  BY <1>2 DEF HostVerify, Repaired, GoodPaths
<1>4. Fits(gpu, toks)
  BY <1>1 DEF HostVerify, SpecVerifyCall, Fits
<1>5. Fed(gpu, toks) = toks
  BY <1>3 DEF Fed
<1>6. Consumed(gpu, SpecVerify(gpu, toks).e, toks, SpecVerify(gpu, toks).n)
  BY <1>2, <1>4, <1>5, SpecVerifyConsumes
<1>7. /\ gpu' = SpecVerify(gpu, toks).e /\ call'.ret = SpecVerify(gpu, toks).n
      /\ call'.op = "verify" /\ call'.toks = toks
  BY DEF HostVerify, SpecVerifyCall
<1>8. QED
  BY <1>1, <1>6, <1>7, ConsumedKeeps

LEMMA MtpKeeps ==
  ASSUME IInv, NEW path \in Paths \cap DOMAIN DraftCount,
         NEW d \in [1..DraftCount[path] -> Token], MtpSpec2(path, d)
  PROVE  Kept
<1> DEFINE toks == <<gpu.last>> \o d
           v == Outcome(path, gpu, toks)
           c == DraftCount[path]
<1>1. Repaired /\ Sound(gpu) /\ gpu.last \in Token
  BY EngineParts DEF IInv, Sound
<1>2. path \in Paths /\ path \in {"one", "fused", "three", "four"} /\ "unsaved" \notin Paths
  BY <1>1 DEF Repaired, GoodPaths
<1>3. c \in Nat
  BY <1>2 DEF DraftCount
<1>4. toks \in Seq(Token) /\ Len(toks) = 1 + c
  <2> DEFINE a == <<gpu.last>>
  <2>1. a \in Seq(Token) /\ Len(a) = 1
    BY <1>1
  <2>2. d \in Seq(Token) /\ Len(d) = c
    BY <1>3
  <2> HIDE DEF a, c
  <2>3. QED
    BY <2>1, <2>2, Joined DEF a
<1>5. /\ gpu' = v.e /\ call'.ret = v.n /\ call'.op = "mtp" /\ call'.toks = toks
      /\ gpu.pos + Len(toks) <= Ctx /\ Open(path)
  BY DEF MtpSpec2
<1> HIDE DEF toks
<1>6. Fits(gpu, toks)
  BY <1>3, <1>4, <1>5 DEF Fits
<1>7. path = "fused" => 2 \in gpu.graphs /\ gpu.snap
  BY <1>2, <1>5 DEF Open
<1>8. Consumed(gpu, v.e, toks, v.n)
  BY <1>1, <1>2, <1>4, <1>6, <1>7, OutcomeConsumes
<1> HIDE DEF v
<1>9. QED
  BY <1>4, <1>5, <1>8, ConsumedKeeps

LEMMA InitInv == Repaired /\ Init => IInv /\ Abs!Init
<1> SUFFICES ASSUME Repaired, Init PROVE IInv /\ Abs!Init
  OBVIOUS
<1>1. PICK b \in Builds :
        gpu = [pos |-> 0, last |-> 0, tok |-> 0, rec |-> <<>>,
               kv |-> [r \in 0..(Ctx - 1) |-> 0],
               gen |-> [k \in 0..(GenCap - 1) |-> 0], genN |-> 0,
               graphs |-> b.graphs, snap |-> b.snap, mtp |-> b.mtp,
               onDev |-> FALSE, toks |-> <<>>]
  BY DEF Init
<1>2. /\ b.graphs \in SUBSET GraphSizes /\ b.snap \in BOOLEAN /\ b.mtp \in BOOLEAN
      /\ GraphsRepaired(b.graphs, b.snap)
  BY EngineAssumption DEF Repaired
<1>3. 0 \in Token /\ 0 \in 0..Ctx
  BY EngineAssumption DEF Token
<1>4. gpu \in Engines
  BY <1>1, <1>2, <1>3 DEF Engines
<1>5. /\ gpu.rec = <<>> /\ gpu.pos = 0 /\ gpu.last = 0 /\ gpu.tok = 0
      /\ gpu.graphs = b.graphs /\ gpu.snap = b.snap
  BY <1>1
<1>6. Sound(gpu)
  BY <1>2, <1>4, <1>5, NoRows DEF Sound, Greedy
<1>7. call.op = "build"
  BY DEF Init
<1>8. IInv
  BY <1>6, <1>7 DEF IInv, GenHoldsTokens
<1>9. Abs!Init
  BY <1>5, <1>6, <1>7, SeenIs DEF Abs!Init
<1>10. QED
  BY <1>8, <1>9

LEMMA NextKeeps == IInv /\ MtpNext => Kept
<1> SUFFICES ASSUME IInv, MtpNext PROVE Kept
  OBVIOUS
<1>1. ASSUME NEW n \in 1..MaxPrompt, NEW ids \in [1..n -> Token], Prefill(ids) PROVE Kept
  <2>1. ids \in Seq(Token) /\ Len(ids) >= 1
    BY EngineAssumption
  <2>2. QED
    BY <1>1, <2>1, PrefillKeeps
<1>2. ASSUME NEW t \in Token, DecodeToken(t) PROVE Kept
  BY <1>2, DecodeKeeps
<1>3. ASSUME NEW n \in 1..MaxSteps, DecodeSteps(n) PROVE Kept
  <2>1. n \in 1..GenCap
    BY EngineAssumption DEF IInv, Repaired
  <2>2. QED
    BY <1>3, <2>1, StepsKeep
<1>4. ASSUME NEW T \in 1..MaxDraft, NEW toks \in [1..T -> Token], HostVerify(toks) PROVE Kept
  BY <1>4, VerifyKeeps
<1>5. ASSUME MtpCall PROVE Kept
  <2>1. PICK path \in Paths \cap DOMAIN DraftCount :
          \E d \in [1..DraftCount[path] -> Token] : MtpSpec2(path, d)
    BY <1>5 DEF MtpCall
  <2>2. PICK d \in [1..DraftCount[path] -> Token] : MtpSpec2(path, d)
    BY <2>1
  <2>3. QED
    BY <2>2, MtpKeeps
<1>6. QED
  BY <1>1, <1>2, <1>3, <1>4, <1>5 DEF MtpNext

LEMMA NextInv == IInv /\ [MtpNext]_evars => IInv' /\ [Abs!Next]_(Abs!vars)
<1>1. CASE MtpNext
  BY <1>1, NextKeeps DEF Kept
<1>2. CASE UNCHANGED evars
  <2>1. gpu' = gpu /\ call' = call
    BY <1>2 DEF evars
  <2>2. IInv => IInv'
    BY <2>1 DEF IInv, Repaired, GenHoldsTokens
  <2>3. UNCHANGED Abs!vars
    BY <2>1 DEF Abs!vars, Seen
  <2>4. QED
    BY <2>2, <2>3
<1>3. QED
  BY <1>1, <1>2

\* Behind every call the engine is the tokens it consumed: recurrent state, rows
\* and greedy() of cuda_engine.cu belong to one sequence.  This and what follows is
\* of the graphs and of the MTP head's paths that Repaired names.
THEOREM Invariance == Repaired /\ MtpSpec => []IInv
BY InitInv, NextInv, PTL DEF MtpSpec

\* The fields of the engine have the types the code gives them.
THEOREM TypeCorrect == Repaired /\ MtpSpec => []EngineTypeOK
<1>1. IInv => EngineTypeOK
  BY EngineParts DEF IInv, Sound, EngineTypeOK
<1>2. QED
  BY Invariance, <1>1, PTL

\* copy_gen_tokens returns the tokens decode_steps produced.
THEOREM GenCopied == Repaired /\ MtpSpec => []GenHoldsTokens
<1>1. IInv => GenHoldsTokens
  BY DEF IInv
<1>2. QED
  BY Invariance, <1>1, PTL

\* spec_verify, and mtp_spec2 on the paths of GoodPaths, consume only what greedy
\* decoding yields, and roll the rest back, from whatever state earlier calls on
\* such paths have left.
THEOREM Implements == Repaired /\ MtpSpec => ImplementsEngine
BY InitInv, NextInv, Invariance, PTL DEF MtpSpec, ImplementsEngine, Abs!Spec

\* After a verify, the head's on a path of GoodPaths, the recurrent state is that of
\* the tokens it says it consumed behind the state before, none of the rejected ones
\* and none of them twice.
THEOREM RolledBack == Repaired /\ MtpSpec => RollsBack
<1> DEFINE A == call'.op \in {"verify", "mtp"} => gpu'.rec = gpu.rec \o SubSeq(call'.toks, 1, call'.ret)
<1>1. IInv /\ [MtpNext]_evars => [A]_evars
  <2>1. CASE UNCHANGED evars
    BY <2>1
  <2>2. CASE MtpNext
    <3> SUFFICES ASSUME IInv, call'.op \in {"verify", "mtp"}
                 PROVE  gpu'.rec = gpu.rec \o SubSeq(call'.toks, 1, call'.ret)
      OBVIOUS
    <3>1. Kept
      BY <2>2, NextKeeps
    <3>2. Seen = gpu.rec /\ Seen' = gpu'.rec
      BY <3>1 DEF Kept, IInv, Sound, Seen
    <3>3. Abs!SpecVerify
      BY <3>1 DEF Kept, Abs!Next, Abs!Prefill, Abs!DecodeToken, Abs!DecodeSteps
    <3>4. QED
      BY <3>2, <3>3 DEF Abs!SpecVerify
  <2>3. QED
    BY <2>1, <2>2
<1>2. QED
  BY Invariance, <1>1, PTL DEF MtpSpec, RollsBack
=============================================================================
