-------------------------- MODULE GpuSessionProofs --------------------------
(***************************************************************************)
(* A session on the GPU generates what greedy decoding generates, with and *)
(* without drafts, over the engine of EngineProofs.                        *)
(***************************************************************************)
EXTENDS GpuSessionProps, EngineProofs

\* The engine repairs what it rejects, the head takes none of the paths that lose
\* or repeat tokens, and a generate without drafts asks decode_steps for no more
\* tokens than d_gen_out_ holds.
Served == Repaired /\ MaxWant - 1 <= GenCap

SessionTypeOK ==
  /\ ctx_tokens_ \in Seq(Token) /\ out \in Seq(Token) /\ drafts \in Seq(Token)
  /\ want \in 0..MaxWant /\ spec_n \in Nat
  /\ kind \in {"off", "ngram", "mtp"} /\ behind \in BOOLEAN
  /\ pc \in {"idle", "first", "steps", "head", "feed", "ask", "hand over"}

\* The engine has consumed the context but for its last token, which is the one
\* that greedy() gives.
OneShort == out # <<>> /\ ctx_tokens_ = Append(gpu.rec, gpu.last)

\* What the engine will be left with has been decided: its state is no longer
\* that of the context.
Left == behind \/ (kind = "off" /\ want > 0)

\* The tokens that wait to be handed over continue the context.
Pending == ctx_tokens_ \o drafts

AtIdle == pc = "idle" /\ ~behind => gpu.rec = ctx_tokens_

AtFirst ==
  pc = "first" => out = <<>> /\ want > 0 /\ kind = "off" /\ ~behind /\ gpu.rec = ctx_tokens_

AtSteps == pc = "steps" => Len(out) = 1 /\ want > 1 /\ kind = "off" /\ ~behind /\ OneShort

AtHead == pc = "head" => IF Left THEN Len(out) = want ELSE gpu.rec = ctx_tokens_

\* Between the token that was produced and the call that feeds it.
AtFeed ==
  pc \in {"feed", "ask"} =>
    /\ ~Left /\ OneShort /\ Len(out) + Len(drafts) <= want /\ out[Len(out)] = gpu.last
    /\ pc = "ask" => kind = "mtp" /\ drafts = <<>>
    /\ drafts # <<>> => ~gpu.onDev

AtHandOver ==
  pc = "hand over" =>
    /\ Abs!GreedyFrom(Pending, Len(ctx_tokens_) + 1)
    /\ IF behind THEN Len(out) + Len(drafts) >= want
       ELSE kind # "off" /\ gpu.rec = Pending /\ Len(out) + Len(drafts) <= want
    /\ call.op = "mtp" => kind = "mtp" /\ gpu.rec = Pending

\* The prompt and what is to be produced have room.
Room == pc # "idle" => Len(out) <= want /\ Len(ctx_tokens_) - Len(out) + want <= Ctx

\* Drafts of the head are left on the device only where there is a head, and a
\* session that drafts from its own context does not meet them.
OwnDrafts ==
  /\ gpu.onDev => gpu.mtp
  /\ pc # "idle" /\ kind = "ngram" => ~gpu.onDev

SInv ==
  /\ Served /\ IInv /\ SessionTypeOK
  /\ AtIdle /\ AtFirst /\ AtSteps /\ AtHead /\ AtFeed /\ AtHandOver
  /\ Room /\ OwnDrafts

\* The drafter's draft, whatever context its own module has as a variable.
LEMMA SameDraft ==
  ASSUME NEW s, NEW first, NEW n
  PROVE  Drafter!NgramDraft(s, first, n) = NgramDraft(s, first, n)
BY DEF Drafter!NgramDraft, NgramDraft, Drafter!Hay, Hay, Drafter!Occurrences, Occurrences,
       Drafter!Continuation, Continuation, Drafter!Max, Max, Drafter!Min, Min

LEMMA DraftType ==
  ASSUME NEW S, NEW s \in Seq(S), NEW first \in S, NEW n \in Nat
  PROVE  NgramDraft(s, first, n) \in Seq(S) /\ Len(NgramDraft(s, first, n)) <= n
<1>1. Drafter!NgramDraft(s, first, n) \in Seq(S) /\ Len(Drafter!NgramDraft(s, first, n)) <= n
  BY Drafter!DraftType
<1>2. QED
  BY <1>1, SameDraft

-----------------------------------------------------------------------------
(***************************************************************************)
(* The engine's MTP head and the drafts it left on the device              *)
(***************************************************************************)
\* A call that drafts nothing of its own.
SameHead(e, f) == f.mtp = e.mtp /\ f.onDev = e.onDev

LEMMA DecodeHead ==
  ASSUME NEW e \in Engines, NEW toks
  PROVE  SameHead(e, Decode(e, toks))
BY DEF Decode, Engines, SameHead

LEMMA LaunchHead ==
  ASSUME NEW e \in Engines, NEW toks, NEW g
  PROVE  SameHead(e, Launch(e, toks, g))
BY DEF Launch, Engines, SameHead

LEMMA HitHead ==
  ASSUME NEW e, Sound(e), NEW toks, Fits(e, toks), NEW g \in 1..Len(toks)
  PROVE  SameHead(e, Hit(e, toks, g).e)
<1> DEFINE f == Launch(e, toks, g)
<1>1. f \in Engines /\ SameHead(e, f)
  <2>1. toks \in Seq(Token) /\ e.pos + g <= Ctx /\ e \in Engines
    BY EngineParts, EngineAssumption DEF Fits, Sound
  <2>2. QED
    BY <2>1, LaunchFields, LaunchHead
<1>2. Hit(e, toks, g).e = [f EXCEPT !.pos = @ + g, !.last = Best(e, toks, g)]
  BY DEF Hit
<1> HIDE DEF f
<1>3. QED
  BY <1>1, <1>2 DEF Engines, SameHead

LEMMA KeepFirstHead ==
  ASSUME NEW e, Sound(e), NEW toks, Fits(e, toks), NEW g \in 1..Len(toks)
  PROVE  SameHead(e, KeepFirst(e, toks, g))
<1> DEFINE f == Launch(e, toks, g)
           r == Append(e.rec, toks[1])
           b == Best(e, toks, 1)
<1>1. f \in Engines /\ SameHead(e, f)
  <2>1. toks \in Seq(Token) /\ e.pos + g <= Ctx /\ e \in Engines
    BY EngineParts, EngineAssumption DEF Fits, Sound
  <2>2. QED
    BY <2>1, LaunchFields, LaunchHead
<1>2. KeepFirst(e, toks, g) = [f EXCEPT !.rec = r, !.pos = @ + 1, !.last = b, !.tok = toks[1]]
  BY <1>1 DEF KeepFirst, Restored, Engines
<1> HIDE DEF f, r, b
<1>3. QED
  BY <1>1, <1>2 DEF Engines, SameHead

LEMMA MissHead ==
  ASSUME NEW e, Sound(e), NEW toks, Fits(e, toks), NEW g \in 1..Len(toks), g \in e.graphs
  PROVE  SameHead(e, Miss(e, toks, g).e)
<1>1. CASE e.snap
  BY <1>1, KeepFirstHead DEF Miss
<1>2. CASE ~e.snap
  <2>1. g = 2
    BY <1>2 DEF Sound, GraphsRepaired
  <2>2. Miss(e, toks, g).e = Decode(e, <<toks[1]>>)
    BY <1>2, <2>1 DEF Miss
  <2>3. QED
    BY <2>2, DecodeHead DEF Sound
<1>3. QED
  BY <1>1, <1>2

LEMMA VerifyHeadSame ==
  ASSUME NEW e, Sound(e), NEW toks, Fits(e, toks), Fed(e, toks) = toks
  PROVE  SameHead(e, SpecVerify(e, toks).e)
<1> DEFINE T == Len(toks)
           fits == Captured(e, T, {2, 3, 4})
           g == Max(fits)
           m == Holding(e, toks, g)
           v == VerifyShort(e, toks, T)
<1>1. SpecVerify(e, toks) = v
  <2>1. Captured(e, Len(toks), {12}) = {}
    BY DEF Captured, Sound, GraphsRepaired
  <2>2. QED
    BY <2>1 DEF SpecVerify, Verify12
<1>2. fits \in SUBSET (1..4) /\ \A x \in fits : x \in e.graphs /\ x \in 2..4 /\ x <= T
  BY DEF Captured
<1>3. T \in Nat /\ e \in Engines
  BY DEF Fits, Sound
<1>4. CASE fits = {}
  <2>1. v = TwoPhase(e, toks, T)
    BY <1>4 DEF VerifyShort
  <2> HIDE DEF v
  <2>2. QED
    BY <1>1, <1>3, <2>1, DecodeHead DEF TwoPhase
<1>5. CASE fits # {}
  <2>1. g \in fits
    <3> HIDE DEF fits
    <3>1. QED
      BY <1>2, <1>5, MaxInSet
  <2> HIDE DEF g
  <2>2. g \in e.graphs /\ g \in 1..T
    BY <1>2, <1>3, <2>1
  <2>3. CASE m = g
    <3>1. v = Hit(e, toks, g)
      BY <1>5, <2>3 DEF VerifyShort, g
    <3> HIDE DEF v
    <3>2. QED
      BY <1>1, <2>2, <3>1, HitHead
  <2>4. CASE m # g /\ g = 4 /\ m >= 2 /\ e.snap
    <3> DEFINE h == KeepFirst(e, toks, g)
    <3>1. v.e = Decode(h, <<toks[2]>>)
      BY <1>5, <2>4 DEF VerifyShort, g
    <3>2. SameHead(e, h) /\ h \in Engines
      BY <2>2, KeepFirstHead, KeepFirstSound DEF Sound
    <3> HIDE DEF v, h, m
    <3>3. SameHead(h, Decode(h, <<toks[2]>>))
      BY <3>2, DecodeHead
    <3>4. QED
      BY <1>1, <3>1, <3>2, <3>3 DEF SameHead
  <2>5. CASE m # g /\ ~(g = 4 /\ m >= 2 /\ e.snap)
    <3>1. v = Miss(e, toks, g)
      BY <1>5, <2>5 DEF VerifyShort, g
    <3> HIDE DEF v
    <3>2. QED
      BY <1>1, <2>2, <3>1, MissHead
  <2>6. QED
    BY <2>3, <2>4, <2>5
<1>6. QED
  BY <1>4, <1>5

LEMMA PrefillHead ==
  ASSUME NEW e \in Engines, NEW ids
  PROVE  SameHead(e, PrefillEngine(e, ids))
<1>1. CASE Len(ids) = 1
  <2> DEFINE d == Cleared(e)
  <2>1. PrefillEngine(e, ids) = Decode(d, ids)
    BY <1>1 DEF PrefillEngine, Cleared
  <2>2. d \in Engines
    BY ClearedFields
  <2>3. SameHead(e, d)
    BY DEF Cleared, SameHead, Engines
  <2> HIDE DEF d
  <2>4. SameHead(d, Decode(d, ids))
    BY <2>2, DecodeHead
  <2>5. QED
    BY <2>1, <2>3, <2>4 DEF SameHead
<1>2. CASE Len(ids) # 1
  BY <1>2 DEF PrefillEngine, SameHead, Engines
<1>3. QED
  BY <1>1, <1>2

\* The head is still there after a draft of its own.
LEMMA LeaveMtp ==
  ASSUME NEW e \in Engines, NEW flag, NEW toks
  PROVE  Leave(e, flag, toks).mtp = e.mtp
BY DEF Leave, Engines

LEMMA FusedMtp ==
  ASSUME NEW e, Sound(e), NEW toks, Fits(e, toks), Len(toks) = 2, e.snap, 2 \in e.graphs
  PROVE  Fused(e, toks).e.mtp = e.mtp
<1>1. 2 \in 1..Len(toks)
  OBVIOUS
<1>2. CASE toks[2] = Best(e, toks, 1)
  <2>1. Fused(e, toks) = Hit(e, toks, 2)
    BY <1>2 DEF Fused
  <2>2. SameHead(e, Hit(e, toks, 2).e)
    BY <1>1, HitHead
  <2>3. QED
    BY <2>1, <2>2 DEF SameHead
<1>3. CASE toks[2] # Best(e, toks, 1)
  <2>1. Fused(e, toks).e = KeepFirst(e, toks, 2)
    BY <1>3 DEF Fused
  <2>2. SameHead(e, KeepFirst(e, toks, 2))
    BY <1>1, KeepFirstHead
  <2>3. QED
    BY <2>1, <2>2 DEF SameHead
<1>4. QED
  BY <1>2, <1>3

LEMMA WindowMtp ==
  ASSUME Repaired, NEW e, Sound(e), NEW toks, Fits(e, toks), Len(toks) = 4, NEW T \in {3, 4}
  PROVE  Window(e, toks, T).e.mtp = e.mtp
<1> DEFINE d == Flagged(e, TRUE, toks)
           t == SubSeq(toks, 1, T)
           v == SpecVerify(d, t)
<1>1. toks \in Seq(Token) /\ T \in 1..Len(toks) /\ T \in 0..Len(toks) /\ e.pos + Len(toks) <= Ctx /\ T <= 4
  BY DEF Fits
<1>2. Sound(d) /\ d.pos = e.pos /\ d.toks = toks /\ d.mtp = e.mtp
  <2>1. d.mtp = e.mtp
    BY DEF Flagged, Sound, Engines
  <2>2. QED
    BY <1>1, <2>1, FlagSound
<1>3. t \in Seq(Token) /\ Len(t) = T
  BY <1>1, Prefix
<1> HIDE DEF d
<1>4. e.pos \in 0..Ctx /\ Ctx \in Nat
  BY EngineParts, EngineAssumption DEF Sound
<1>5. Fits(d, t) /\ Fed(d, t) = t
  BY <1>1, <1>2, <1>3, <1>4 DEF Fits, Fed
<1>6. SameHead(d, v.e) /\ Consumed(d, v.e, t, v.n)
  BY <1>2, <1>5, VerifyHeadSame, SpecVerifyConsumes
<1>7. Window(e, toks, T).e = Leave(v.e, ~(T = 4 /\ v.n = 2), toks)
  BY DEF Window, Flagged, d
<1> HIDE DEF v
<1>8. v.e \in Engines
  BY <1>6 DEF Consumed, Sound
<1>9. QED
  BY <1>2, <1>6, <1>7, <1>8, LeaveMtp DEF SameHead

LEMMA OutcomeMtp ==
  ASSUME Repaired, NEW e, Sound(e), NEW path \in Paths, NEW toks, Fits(e, toks),
         Len(toks) = 1 + DraftCount[path], path = "fused" => 2 \in e.graphs /\ e.snap
  PROVE  Outcome(path, e, toks).e.mtp = e.mtp
<1>1. path \in {"one", "fused", "three", "four"}
  BY DEF Repaired, GoodPaths
<1>2. CASE path = "one"
  BY <1>2, DecodeHead DEF Outcome, Sound, SameHead
<1>3. CASE path = "fused"
  <2> DEFINE v == Fused(e, toks)
             t == toks \o SubSeq(e.toks, 3, 4)
  <2>1. Len(toks) = 2
    BY <1>3 DEF DraftCount
  <2>2. v.e.mtp = e.mtp /\ v.e \in Engines
    BY <1>3, <2>1, FusedConsumes, FusedMtp DEF Consumed, Sound
  <2>3. Outcome(path, e, toks).e = Leave(v.e, e.onDev, t)
    BY <1>3 DEF Outcome, Fused, Hit
  <2> HIDE DEF v, t
  <2>4. QED
    BY <2>2, <2>3, LeaveMtp
<1>4. CASE path = "three"
  BY <1>4, WindowMtp DEF Outcome, DraftCount
<1>5. CASE path = "four"
  BY <1>5, WindowMtp DEF Outcome, AfterWindow, DraftCount
<1>6. QED
  BY <1>1, <1>2, <1>3, <1>4, <1>5

-----------------------------------------------------------------------------
(***************************************************************************)
(* Contexts and what waits behind them                                     *)
(***************************************************************************)
LEMMA Longer ==
  ASSUME NEW s \in Seq(Token), NEW t \in Token
  PROVE  /\ Append(s, t) \in Seq(Token) /\ Len(Append(s, t)) = Len(s) + 1 /\ Append(s, t) # <<>>
         /\ Append(s, t) = s \o <<t>> /\ <<t>> \in Seq(Token) /\ Len(<<t>>) = 1 /\ Len(s) \in Nat
         /\ Append(s, t)[Len(s) + 1] = t
<1>1. Append(s, t) \in Seq(Token) /\ Len(Append(s, t)) = Len(s) + 1 /\ Append(s, t)[Len(s) + 1] = t
  BY AppendProperties
<1>2. Append(s, t) = s \o <<t>>
  BY AppendIsConcat
<1>3. <<t>> \in Seq(Token) /\ Len(<<t>>) = 1 /\ Len(s) \in Nat
  OBVIOUS
<1>4. Append(s, t) # <<>>
  BY <1>1, <1>3
<1>5. QED
  BY <1>1, <1>2, <1>3, <1>4

\* The first of the tokens that wait is the greedy one, and the others wait
\* behind it.
LEMMA NextPending ==
  ASSUME NEW c \in Seq(Token), NEW d \in Seq(Token), d # <<>>, Abs!GreedyFrom(c \o d, Len(c) + 1)
  PROVE  /\ Head(d) \in Token /\ Tail(d) \in Seq(Token) /\ Len(Tail(d)) = Len(d) - 1
         /\ Head(d) = Greedy(c) /\ Append(c, Head(d)) \o Tail(d) = c \o d
<1> DEFINE x == Head(d)
           r == Tail(d)
           p == c \o d
           u == <<x>>
<1>1. /\ x \in Token /\ r \in Seq(Token) /\ Len(r) = Len(d) - 1 /\ d = u \o r /\ x = d[1]
      /\ Len(d) \in Nat /\ Len(d) >= 1 /\ Len(c) \in Nat
  BY HeadTailProperties
<1>2. /\ Append(c, x) = c \o u /\ u \in Seq(Token)
  BY <1>1, Longer
<1>3. (c \o u) \o r = c \o (u \o r)
  <2> HIDE DEF u, r
  <2>1. QED
    BY <1>1, <1>2, Regroup
<1>4. Append(c, x) \o r = c \o d
  BY <1>1, <1>2, <1>3
<1>5. /\ Len(p) = Len(c) + Len(d)
      /\ \A k \in 1..(Len(c) + Len(d)) : p[k] = IF k <= Len(c) THEN c[k] ELSE d[k - Len(c)]
  BY Joined
<1>6. SubSeq(p, 1, Len(c)) = c
  <2>1. SubSeq(c \o d, 1, Len(c) + 0) = c \o SubSeq(d, 1, 0)
    BY PrefixOfJoined
  <2>2. c \o SubSeq(d, 1, 0) = c /\ Len(c) + 0 = Len(c)
    OBVIOUS
  <2>3. QED
    BY <2>1, <2>2
<1> DEFINE j == Len(c) + 1
<1>7. j \in (Len(c) + 1)..Len(p) /\ j \in 1..(Len(c) + Len(d)) /\ ~(j <= Len(c)) /\ j - Len(c) = 1 /\ j - 1 = Len(c)
  BY <1>1, <1>5
<1> HIDE DEF p, j
<1>8. p[j] = Greedy(SubSeq(p, 1, j - 1))
  BY <1>7 DEF Abs!GreedyFrom, p
<1>9. p[j] = d[1]
  BY <1>5, <1>7
<1>10. x = Greedy(c)
  BY <1>1, <1>6, <1>7, <1>8, <1>9
<1>11. QED
  BY <1>1, <1>4, <1>10

LEMMA GreedyLater ==
  ASSUME NEW s \in Seq(Token), NEW a \in Nat, Abs!GreedyFrom(s, a)
  PROVE  Abs!GreedyFrom(s, a + 1)
<1>1. Len(s) \in Nat /\ \A j \in (a + 1)..Len(s) : j \in a..Len(s)
  OBVIOUS
<1>2. QED
  BY <1>1 DEF Abs!GreedyFrom

\* Of u, the greedy token behind e, and the drafts d, n were consumed, which
\* made f: the context c ends in u, and i drafts wait behind it.
Level(e, c) == c = Append(e.rec, e.last)

Waits(f, c, u, d, n, i) ==
  /\ SubSeq(d, 1, i) \in Seq(Token) /\ Len(SubSeq(d, 1, i)) = i /\ i <= Len(d)
  /\ f.rec = c \o SubSeq(d, 1, i) /\ SubSeq(u \o d, 1, n) = u \o SubSeq(d, 1, i)
  /\ Abs!GreedyFrom(c \o SubSeq(d, 1, i), Len(c) + 1)

LEMMA ConsumedPending ==
  ASSUME NEW e, Sound(e), NEW f, NEW d \in Seq(Token), NEW c, Level(e, c),
         NEW u \in Seq(Token), Len(u) = 1, u[1] = e.last,
         NEW n, Consumed(e, f, u \o d, n), NEW i \in Nat, i = n - 1
  PROVE  Waits(f, c, u, d, n, i)
<1> DEFINE toks == u \o d
<1>0. u = <<e.last>>
  OBVIOUS
<1>1. e.rec \in Seq(Token) /\ e.last \in Token
  BY EngineParts DEF Sound
<1>2. /\ c \in Seq(Token) /\ c = e.rec \o u /\ u \in Seq(Token) /\ Len(u) = 1 /\ Len(c) = Len(e.rec) + 1
      /\ Len(e.rec) \in Nat
  BY <1>0, <1>1, Longer DEF Level
<1>3. toks \in Seq(Token) /\ Len(toks) = 1 + Len(d) /\ Len(d) \in Nat
  BY <1>2, Joined
<1>4. n \in 1..Len(toks) /\ f.rec = e.rec \o SubSeq(toks, 1, n)
  BY DEF Consumed
<1>5. i \in 0..Len(d) /\ n = 1 + i /\ n \in Nat /\ i \in Nat
  BY <1>3, <1>4
<1>6. SubSeq(u \o d, 1, Len(u) + i) = u \o SubSeq(d, 1, i)
  BY <1>2, <1>5, PrefixOfJoined
<1>7. SubSeq(d, 1, i) \in Seq(Token) /\ Len(SubSeq(d, 1, i)) = i
  BY <1>5, Prefix
<1> DEFINE v == SubSeq(d, 1, i)
<1> HIDE DEF v
<1>8. (e.rec \o u) \o v = e.rec \o (u \o v)
  <2> DEFINE r == e.rec
  <2>1. r \in Seq(Token) /\ u \in Seq(Token) /\ v \in Seq(Token)
    BY <1>1, <1>7 DEF v
  <2> HIDE DEF r
  <2>2. (r \o u) \o v = r \o (u \o v)
    BY <2>1, Regroup
  <2>3. QED
    BY <2>2 DEF r
<1>9. SubSeq(toks, 1, n) = u \o v /\ f.rec = c \o v
  BY <1>2, <1>3, <1>4, <1>5, <1>6, <1>8 DEF v
<1>10. Abs!GreedyFrom(f.rec, Len(e.rec) + 2)
  BY <1>3, ConsumedGreedy
<1>11. Len(c) + 1 = Len(e.rec) + 2
  BY <1>2
<1>12. QED
  BY <1>3, <1>5, <1>7, <1>9, <1>10, <1>11 DEF v, Waits

LEMMA GreedyOnce ==
  ASSUME NEW s \in Seq(Token), NEW a \in Nat \ {0}, Abs!GreedyFrom(s, a)
  PROVE  Abs!GreedyFrom(Append(s, Greedy(s)), a)
<1> DEFINE b == Greedy(s)
           y == Append(s, b)
<1>1. b \in Token
  BY GreedyType
<1>2. y = s \o <<b>> /\ <<b>> \in Seq(Token) /\ Len(<<b>>) = 1 /\ Len(y) = Len(s) + 1 /\ Len(s) \in Nat
  BY <1>1, Longer
<1>3. (\A i \in 1..Len(s) : y[i] = s[i]) /\ y[Len(s) + 1] = b
  BY <1>1, AppendProperties
<1> DEFINE u == <<b>>
<1> HIDE DEF u
<1>4. ASSUME NEW i \in 0..Len(s) PROVE SubSeq(y, 1, i) = SubSeq(s, 1, i)
  <2>1. SubSeq(s \o u, 1, Len(s) + 0) = s \o SubSeq(u, 1, 0)
    BY <1>2, PrefixOfJoined DEF u
  <2>2. s \o SubSeq(u, 1, 0) = s /\ Len(s) + 0 = Len(s)
    BY <1>2
  <2>3. SubSeq(y, 1, Len(s)) = s
    BY <1>2, <2>1, <2>2 DEF u
  <2>4. y \in Seq(Token) /\ Len(s) \in 0..Len(y)
    BY <1>1, <1>2, Longer
  <2> HIDE DEF y
  <2>5. SubSeq(SubSeq(y, 1, Len(s)), 1, i) = SubSeq(y, 1, i)
    BY <2>4, PrefixOfPrefix
  <2>6. QED
    BY <2>3, <2>5
<1> HIDE DEF y, b
<1>5. ASSUME NEW j \in a..Len(y) PROVE y[j] = Greedy(SubSeq(y, 1, j - 1))
  <2>1. CASE j <= Len(s)
    <3>1. j \in a..Len(s) /\ j \in 1..Len(s) /\ j - 1 \in 0..Len(s)
      BY <1>2, <2>1
    <3>2. QED
      BY <1>3, <1>4, <3>1 DEF Abs!GreedyFrom
  <2>2. CASE ~(j <= Len(s))
    <3>1. j = Len(s) + 1 /\ j - 1 = Len(s) /\ Len(s) \in 0..Len(s) /\ SubSeq(s, 1, Len(s)) = s
      BY <1>2, <2>2, EmptyJoin
    <3>2. QED
      BY <1>3, <1>4, <3>1 DEF b
  <2>3. QED
    BY <2>1, <2>2
<1>6. QED
  BY <1>5 DEF Abs!GreedyFrom, y, b

LEMMA NotEmpty ==
  ASSUME NEW s \in Seq(Token), s # <<>>
  PROVE  Len(s) \in Nat /\ Len(s) >= 1
OBVIOUS

LEMMA TokensAreSeq ==
  ASSUME NEW n \in Nat, NEW w \in [1..n -> Token]
  PROVE  w \in Seq(Token) /\ Len(w) = n
OBVIOUS

\* The tokens that decode_steps produced when it fed s behind r.
Produced(r, s, b) == [k \in 1..Len(s) |-> Append(r \o s, b)[Len(r \o s) + 1 - Len(s) + k]]

LEMMA StepsPending ==
  ASSUME NEW r \in Seq(Token), NEW s \in Seq(Token), Len(s) >= 1, NEW b \in Token
  PROVE  /\ Produced(r, s, b) \in Seq(Token) /\ Len(Produced(r, s, b)) = Len(s)
         /\ Append(r, s[1]) \o Produced(r, s, b) = Append(r \o s, b)
<1> DEFINE x == r \o s
           y == Append(x, b)
           n == Len(s)
           l == s[1]
           c == Append(r, l)
           w == Produced(r, s, b)
<1>1. /\ x \in Seq(Token) /\ Len(x) = Len(r) + n /\ Len(r) \in Nat /\ n \in Nat
      /\ \A k \in 1..(Len(r) + n) : x[k] = IF k <= Len(r) THEN r[k] ELSE s[k - Len(r)]
  BY Joined
<1>2. l \in Token
  BY ElementOfSeq
<1> HIDE DEF x, l
<1>3. y \in Seq(Token) /\ Len(y) = Len(x) + 1 /\ (\A i \in 1..Len(x) : y[i] = x[i]) /\ y[Len(x) + 1] = b
  <2>1. x \in Seq(Token) /\ b \in Token
    BY <1>1
  <2>2. QED
    BY <2>1, AppendProperties
<1>4. c \in Seq(Token) /\ Len(c) = Len(r) + 1 /\ (\A i \in 1..Len(r) : c[i] = r[i]) /\ c[Len(r) + 1] = l
  BY <1>2, AppendProperties
<1> HIDE DEF y, c
<1>5. \A k \in 1..n : w[k] = y[Len(r) + 1 + k] /\ Len(r) + 1 + k \in 1..Len(y)
  <2>1. \A k \in 1..n : Len(x) + 1 - n + k = Len(r) + 1 + k /\ Len(r) + 1 + k \in 1..Len(y)
    BY <1>1, <1>3
  <2>2. QED
    BY <2>1 DEF y, x, n, Produced
<1>6. w \in [1..n -> Token]
  <2>1. \A i \in 1..Len(y) : y[i] \in Token
    BY <1>3, ElementOfSeq
  <2>2. \A k \in 1..n : w[k] \in Token
    BY <1>5, <2>1
  <2>3. w = [k \in 1..n |-> w[k]]
    BY DEF n, Produced
  <2>4. QED
    BY <2>2, <2>3
<1>7. w \in Seq(Token) /\ Len(w) = n
  <2> HIDE DEF n
  <2>1. n \in Nat
    BY <1>1
  <2>2. QED
    BY <1>6, <2>1, TokensAreSeq
<1> HIDE DEF w
<1> DEFINE z == c \o w
<1>8. /\ z \in Seq(Token) /\ Len(z) = Len(c) + Len(w)
      /\ \A k \in 1..(Len(c) + Len(w)) : z[k] = IF k <= Len(c) THEN c[k] ELSE w[k - Len(c)]
  BY <1>4, <1>7, Joined
<1> HIDE DEF z, n
<1>9. Len(z) = Len(y)
  BY <1>1, <1>3, <1>4, <1>7, <1>8
<1>10. ASSUME NEW k \in 1..Len(z) PROVE z[k] = y[k]
  <2>1. k \in 1..(Len(c) + Len(w))
    BY <1>8
  <2>2. CASE k <= Len(r)
    <3>1. k \in 1..Len(r) /\ k <= Len(c) /\ k \in 1..(Len(r) + n) /\ k \in 1..Len(x)
      BY <1>1, <1>4, <2>2
    <3>2. QED
      BY <1>1, <1>3, <1>4, <1>8, <2>1, <2>2, <3>1
  <2>3. CASE k = Len(r) + 1
    <3>1. k <= Len(c) /\ k \in 1..(Len(r) + n) /\ k \in 1..Len(x) /\ ~(k <= Len(r)) /\ k - Len(r) = 1
      BY <1>1, <1>4, <2>3 DEF n
    <3>2. z[k] = l
      BY <1>4, <1>8, <2>1, <2>3, <3>1
    <3>3. y[k] = x[k] /\ x[k] = s[k - Len(r)]
      BY <1>1, <1>3, <3>1
    <3>4. QED
      BY <3>1, <3>2, <3>3 DEF l
  <2>4. CASE k > Len(r) + 1
    <3> DEFINE j == k - Len(c)
    <3>1. j \in 1..n /\ ~(k <= Len(c)) /\ Len(r) + 1 + j = k
      BY <1>1, <1>3, <1>4, <1>9, <2>4
    <3>2. z[k] = w[j]
      BY <1>8, <2>1, <3>1
    <3> HIDE DEF j
    <3>3. QED
      BY <1>5, <3>1, <3>2
  <2>5. QED
    BY <1>1, <1>8, <2>2, <2>3, <2>4
<1>11. z = y
  BY <1>3, <1>8, <1>9, <1>10, SeqEqual
<1>12. QED
  BY <1>7, <1>11 DEF z, y, x, c, l, n, w

-----------------------------------------------------------------------------
(***************************************************************************)
(* The steps                                                               *)
(***************************************************************************)
\* What a step keeps, and what it is to the client.
SKept == SInv' /\ [Promise!Next]_(Promise!vars)

LEMMA SParts ==
  ASSUME SInv
  PROVE  /\ Sound(gpu) /\ gpu \in Engines /\ gpu.rec \in Seq(Token) /\ gpu.last \in Token
         /\ gpu.last = Greedy(gpu.rec)
         /\ gpu.pos \in 0..Ctx /\ Len(gpu.rec) = gpu.pos /\ Ctx \in Nat
<1>1. Sound(gpu)
  BY DEF SInv, IInv
<1>2. gpu \in Engines /\ gpu.last = Greedy(gpu.rec) /\ gpu.rec = Rows(gpu.kv, gpu.pos)
  BY <1>1 DEF Sound
<1>3. /\ gpu.rec \in Seq(Token) /\ gpu.last \in Token /\ gpu.pos \in 0..Ctx
      /\ gpu.kv \in [0..(Ctx - 1) -> Token]
  BY <1>2, EngineParts
<1>4. Len(gpu.rec) = gpu.pos
  BY <1>2, <1>3, RowsShape
<1>5. QED
  BY <1>1, <1>2, <1>3, <1>4, EngineAssumption

\* A step of generate that hands nothing over.
LEMMA Quiet ==
  ASSUME pc # "idle", pc' # "idle", UNCHANGED <<ctx_tokens_, want, out>>
  PROVE  UNCHANGED Promise!vars
BY DEF Promise!vars, Answers, Context, Busy

\* A step that hands over a token.
LEMMA Emitted ==
  ASSUME SInv, pc # "idle", pc' # "idle", Len(out) < want, Produce(Greedy(ctx_tokens_)), UNCHANGED want
  PROVE  /\ Promise!Next /\ ctx_tokens_' \in Seq(Token) /\ out' \in Seq(Token) /\ Room'
         /\ Len(out') = Len(out) + 1 /\ out' # <<>> /\ out'[Len(out')] = Greedy(ctx_tokens_)
<1> DEFINE t == Greedy(ctx_tokens_)
<1>1. t \in Token
  BY GreedyType
<1>2. /\ ctx_tokens_ \in Seq(Token) /\ out \in Seq(Token) /\ want \in Nat /\ Ctx \in Nat
      /\ Len(out) \in Nat /\ Len(ctx_tokens_) \in Nat
  <2>1. ctx_tokens_ \in Seq(Token) /\ out \in Seq(Token) /\ want \in 0..MaxWant
    BY DEF SInv, SessionTypeOK
  <2>2. QED
    BY <2>1, EngineAssumption, GpuSessionAssumption
<1>3. Len(ctx_tokens_) - Len(out) + want <= Ctx
  BY DEF SInv, Room
<1>4. Len(ctx_tokens_) < Ctx
  BY <1>2, <1>3
<1>5. out' = Append(out, t) /\ ctx_tokens_' = Append(ctx_tokens_, t) /\ want' = want
  BY DEF Produce
<1>6. Answers /\ Answers' /\ Context = ctx_tokens_ /\ Context' = ctx_tokens_' /\ Busy /\ Busy'
  BY DEF Answers, Context, Busy
<1>7. Promise!Emit
  <2>1. Promise!Extend(t)
    BY <1>4, <1>5, <1>6 DEF Promise!Extend
  <2>2. t = Greedy(Context)
    BY <1>6
  <2> HIDE DEF t
  <2>3. QED
    BY <1>1, <1>5, <1>6, <2>1, <2>2 DEF Promise!Emit
<1>8. /\ ctx_tokens_' \in Seq(Token) /\ out' \in Seq(Token)
      /\ Len(out') = Len(out) + 1 /\ Len(ctx_tokens_') = Len(ctx_tokens_) + 1
      /\ out' # <<>> /\ out'[Len(out')] = t
  <2> HIDE DEF t
  <2>1. /\ Append(out, t) \in Seq(Token) /\ Len(Append(out, t)) = Len(out) + 1
        /\ Append(out, t) # <<>> /\ Append(out, t)[Len(out) + 1] = t
    BY <1>1, <1>2, Longer
  <2>2. Append(ctx_tokens_, t) \in Seq(Token) /\ Len(Append(ctx_tokens_, t)) = Len(ctx_tokens_) + 1
    BY <1>1, <1>2, Longer
  <2>3. QED
    BY <1>5, <2>1, <2>2
<1>9. Room'
  BY <1>2, <1>3, <1>5, <1>8 DEF Room
<1>10. QED
  BY <1>7, <1>8, <1>9 DEF Promise!Next

LEMMA SessionInitKeeps == Served /\ SessionInit => SInv /\ Promise!Init
<1> SUFFICES ASSUME Served, SessionInit PROVE SInv /\ Promise!Init
  OBVIOUS
<1>1. IInv
  BY InitInv DEF Served, SessionInit
<1>2. /\ ctx_tokens_ = <<>> /\ behind = FALSE /\ pc = "idle" /\ want = 0 /\ kind = "off"
      /\ spec_n = 0 /\ out = <<>> /\ drafts = <<>> /\ gpu.rec = <<>> /\ gpu.onDev = FALSE
  BY DEF SessionInit, Init
<1>3. SessionTypeOK
  <2>1. want \in 0..MaxWant /\ spec_n \in Nat
    BY <1>2, GpuSessionAssumption
  <2>2. behind \in BOOLEAN
    BY <1>2
  <2>3. ctx_tokens_ \in Seq(Token) /\ out \in Seq(Token) /\ drafts \in Seq(Token)
    BY <1>2
  <2>4. QED
    BY <1>2, <2>1, <2>2, <2>3 DEF SessionTypeOK
<1>4. /\ AtIdle /\ AtFirst /\ AtSteps /\ AtHead /\ AtFeed /\ AtHandOver /\ Room /\ OwnDrafts
  BY <1>2 DEF AtIdle, AtFirst, AtSteps, AtHead, AtFeed, AtHandOver, Room, OwnDrafts
<1>5. Promise!Init
  BY <1>2 DEF Promise!Init, Answers, Context, Busy
<1>6. QED
  BY <1>1, <1>3, <1>4, <1>5 DEF SInv

\* A prompt takes the place of the context.
LEMMA SessionPrefills ==
  ASSUME SInv, NEW ids \in Seq(Token), Len(ids) >= 1, SessionPrefill(ids)
  PROVE  /\ IInv' /\ gpu'.rec = ids /\ SameHead(gpu, gpu') /\ Len(ids) \in 1..Ctx
         /\ ctx_tokens_' = ids /\ behind' = FALSE
<1>1. Prefill(ids) /\ ctx_tokens_' = ids /\ behind' = FALSE
  BY DEF SessionPrefill
<1>2. gpu' = PrefillEngine(gpu, ids) /\ Len(ids) \in 1..Ctx /\ Len(ids) <= Ctx
  BY <1>1, EngineAssumption DEF Prefill
<1>3. IInv /\ gpu \in Engines /\ GraphsRepaired(gpu.graphs, gpu.snap)
  BY DEF SInv, IInv, Sound
<1>4. IInv'
  BY <1>1, <1>3, PrefillKeeps DEF Kept
<1>5. gpu'.rec = ids
  BY <1>2, <1>3, PrefillSound
<1>6. SameHead(gpu, gpu')
  BY <1>2, <1>3, PrefillHead
<1>7. QED
  BY <1>1, <1>2, <1>4, <1>5, <1>6

LEMMA ClientPrefillKeeps ==
  ASSUME SInv, NEW ids \in Seq(Token), Len(ids) >= 1, ClientPrefill(ids)
  PROVE  SKept
<1>1. /\ pc = "idle" /\ pc' = pc /\ want' = want /\ kind' = kind /\ spec_n' = spec_n /\ out' = out
      /\ drafts' = drafts /\ SessionPrefill(ids)
  BY DEF ClientPrefill, run
<1>2. /\ IInv' /\ gpu'.rec = ids /\ SameHead(gpu, gpu') /\ Len(ids) \in 1..Ctx
      /\ ctx_tokens_' = ids /\ behind' = FALSE
  BY <1>1, SessionPrefills
<1>3. SessionTypeOK' /\ Served'
  BY <1>1, <1>2 DEF SInv, SessionTypeOK, Served, Repaired
<1>4. /\ AtIdle' /\ AtFirst' /\ AtSteps' /\ AtHead' /\ AtFeed' /\ AtHandOver' /\ Room'
  BY <1>1, <1>2 DEF AtIdle, AtFirst, AtSteps, AtHead, AtFeed, AtHandOver, Room
<1>5. OwnDrafts'
  BY <1>1, <1>2 DEF SInv, OwnDrafts, SameHead
<1>6. Promise!Reset
  BY <1>1, <1>2 DEF Promise!Reset, Answers, Context, Busy
<1>7. QED
  BY <1>2, <1>3, <1>4, <1>5, <1>6 DEF SKept, SInv, Promise!Next

LEMMA DecodeTokenRec ==
  ASSUME SInv, NEW t \in Token, DecodeToken(t)
  PROVE  IInv' /\ gpu'.rec = Append(gpu.rec, t) /\ SameHead(gpu, gpu') /\ gpu.pos < Ctx
<1> DEFINE toks == <<t>>
<1>1. gpu' = Decode(gpu, toks) /\ gpu.pos < Ctx
  BY DEF DecodeToken
<1>2. /\ Sound(gpu) /\ gpu \in Engines /\ gpu.pos \in 0..Ctx /\ Ctx \in Nat /\ IInv /\ gpu.rec \in Seq(Token)
  BY SParts DEF SInv
<1>3. toks \in Seq(Token) /\ Len(toks) = 1 /\ Append(gpu.rec, t) = gpu.rec \o toks
  BY <1>2, Longer
<1> HIDE DEF toks
<1>4. Fits(gpu, toks)
  BY <1>1, <1>2, <1>3 DEF Fits
<1>5. gpu'.rec = gpu.rec \o toks /\ SameHead(gpu, gpu')
  BY <1>1, <1>2, <1>4, DecodeSound, DecodeHead
<1>6. IInv'
  BY <1>2, DecodeKeeps DEF Kept
<1>7. QED
  BY <1>1, <1>3, <1>5, <1>6

LEMMA ClientDecodeKeeps ==
  ASSUME SInv, NEW t \in Token, ClientDecode(t)
  PROVE  SKept
<1>1. /\ pc = "idle" /\ pc' = pc /\ want' = want /\ kind' = kind /\ spec_n' = spec_n /\ out' = out
      /\ drafts' = drafts /\ behind' = behind /\ ctx_tokens_' = Append(ctx_tokens_, t) /\ DecodeToken(t)
  BY DEF ClientDecode, run
<1>2. IInv' /\ gpu'.rec = Append(gpu.rec, t) /\ SameHead(gpu, gpu') /\ gpu.pos < Ctx
  BY <1>1, DecodeTokenRec
<1>3. ctx_tokens_ \in Seq(Token) /\ ctx_tokens_' \in Seq(Token)
  BY <1>1, Longer DEF SInv, SessionTypeOK
<1>4. SessionTypeOK' /\ Served'
  BY <1>1, <1>3 DEF SInv, SessionTypeOK, Served, Repaired
<1>5. ~behind => gpu.rec = ctx_tokens_
  BY <1>1 DEF SInv, AtIdle
<1>6. /\ AtIdle' /\ AtFirst' /\ AtSteps' /\ AtHead' /\ AtFeed' /\ AtHandOver' /\ Room'
  BY <1>1, <1>2, <1>5 DEF AtIdle, AtFirst, AtSteps, AtHead, AtFeed, AtHandOver, Room
<1>7. OwnDrafts'
  BY <1>1, <1>2 DEF SInv, OwnDrafts, SameHead
<1>8. Promise!Extend(t)
  <2>1. CASE behind
    BY <1>1, <2>1 DEF Promise!Extend, Answers, Context
  <2>2. CASE ~behind
    <3>1. Len(ctx_tokens_) < Ctx
      BY <1>2, <1>5, <2>2, SParts
    <3>2. QED
      BY <1>1, <2>2, <3>1 DEF Promise!Extend, Answers, Context
  <2>3. QED
    BY <2>1, <2>2
<1>9. Promise!Consume
  BY <1>1, <1>8 DEF Promise!Consume, Busy
<1>10. QED
  BY <1>2, <1>4, <1>6, <1>7, <1>9 DEF SKept, SInv, Promise!Next

LEMMA GenerateKeeps ==
  ASSUME SInv, NEW ids \in Seq(Token), Len(ids) >= 1, NEW w \in 0..MaxWant,
         NEW k \in {"off", "ngram", "mtp"}, NEW n \in Nat, Generate(ids, w, k, n)
  PROVE  SKept
<1>1. /\ pc = "idle" /\ Len(ids) + w <= Ctx /\ SessionPrefill(ids)
      /\ pc' = (IF k = "off" /\ w > 0 THEN "first" ELSE "head")
      /\ want' = w /\ kind' = k /\ spec_n' = n /\ out' = <<>> /\ drafts' = <<>>
  BY DEF Generate
<1>2. /\ IInv' /\ gpu'.rec = ids /\ SameHead(gpu, gpu') /\ Len(ids) \in 1..Ctx
      /\ ctx_tokens_' = ids /\ behind' = FALSE
  BY <1>1, SessionPrefills
<1>3. Len(<<>>) = 0 /\ w \in Nat /\ Len(ids) \in Nat
  BY GpuSessionAssumption
<1>4. SessionTypeOK' /\ Served'
  <2>1. want' \in 0..MaxWant /\ spec_n' \in Nat /\ kind' \in {"off", "ngram", "mtp"}
    BY <1>1
  <2>2. behind' \in BOOLEAN
    BY <1>2
  <2>3. ctx_tokens_' \in Seq(Token) /\ out' \in Seq(Token) /\ drafts' \in Seq(Token)
    BY <1>1, <1>2
  <2>4. pc' \in {"first", "head"}
    BY <1>1
  <2>5. QED
    BY <2>1, <2>2, <2>3, <2>4 DEF SInv, SessionTypeOK, Served, Repaired
<1>5. AtHead'
  <2>1. CASE pc' = "head"
    <3>1. Left' => w = 0
      BY <1>1, <1>2, <1>3, <2>1 DEF Left
    <3>2. QED
      BY <1>1, <1>2, <1>3, <3>1 DEF AtHead
  <2>2. QED
    BY <2>1 DEF AtHead
<1>6. /\ AtIdle' /\ AtFirst' /\ AtSteps' /\ AtFeed' /\ AtHandOver'
  BY <1>1, <1>2, <1>3 DEF AtIdle, AtFirst, AtSteps, AtFeed, AtHandOver
<1>7. Room'
  BY <1>1, <1>2, <1>3 DEF Room
<1>8. OwnDrafts'
  <2>1. k = "ngram" => ~gpu.onDev
    BY DEF Generate, SInv, Served, Repaired, GoodPaths
  <2>2. QED
    BY <1>1, <1>2, <2>1 DEF SInv, OwnDrafts, SameHead
<1>9. Promise!Begin
  <2>1. pc' # "idle"
    BY <1>1
  <2>2. QED
    BY <1>1, <1>2, <1>3, <2>1 DEF Promise!Begin, Answers, Context, Busy
<1>10. QED
  BY <1>2, <1>4, <1>5, <1>6, <1>7, <1>8, <1>9 DEF SKept, SInv, Promise!Next

LEMMA MinOfThree ==
  ASSUME NEW a \in Nat, NEW b \in Nat, NEW c \in Nat
  PROVE  Min({a, b, c}) \in Nat /\ Min({a, b, c}) <= b
<1> DEFINE S == {a, b, c}
<1>1. \E x \in S : \A y \in S : x <= y
  <2>1. CASE a <= b /\ a <= c
    BY <2>1
  <2>2. CASE b <= a /\ b <= c
    BY <2>2
  <2>3. CASE c <= a /\ c <= b
    BY <2>3
  <2>4. QED
    BY <2>1, <2>2, <2>3
<1>2. b \in S /\ \A x \in S : x \in Nat
  OBVIOUS
<1> HIDE DEF S
<1>3. Min(S) \in S /\ \A y \in S : Min(S) <= y
  BY <1>1 DEF Min
<1>4. QED
  BY <1>2, <1>3 DEF S

LEMMA WantType ==
  ASSUME SessionTypeOK
  PROVE  want \in Nat /\ want <= MaxWant /\ MaxWant \in Nat /\ spec_n \in Nat /\ DraftCap \in Nat
<1>1. MaxWant \in Nat /\ DraftCap \in Nat
  BY GpuSessionAssumption
<1>2. want \in 0..MaxWant /\ spec_n \in Nat
  BY DEF SessionTypeOK
<1>3. QED
  BY <1>1, <1>2

\* The drafts behind a token fit what is still wanted, and tokens are drafted
\* here only by the n-gram drafter or for an engine without a head.
LEMMA DraftsFit ==
  ASSUME SessionTypeOK, NEW ctx \in Seq(Token), NEW t \in Token, NEW produced \in Nat, produced <= want,
         NEW d \in DraftsAfter(ctx, t, produced)
  PROVE  /\ d \in Seq(Token) /\ produced + Len(d) <= want
         /\ d # <<>> => kind # "off" /\ spec_n > 0 /\ produced < want
<1>1. want \in Nat /\ spec_n \in Nat /\ DraftCap \in Nat
  BY WantType
<1>2. CASE kind = "off" \/ spec_n = 0 \/ produced >= want
  <2>1. d = <<>>
    BY <1>2 DEF DraftsAfter
  <2>2. QED
    BY <1>1, <2>1
<1>3. CASE ~(kind = "off" \/ spec_n = 0 \/ produced >= want)
  <2>1. kind # "off" /\ spec_n > 0 /\ produced < want
    BY <1>1, <1>3
  <2>2. d \in Seq(Token) /\ Len(d) <= want - produced
    <3>1. CASE kind = "ngram"
      <4> DEFINE n == Min({spec_n, want - produced, DraftCap})
      <4>1. d = NgramDraft(ctx, t, n)
        BY <1>3, <3>1 DEF DraftsAfter
      <4>2. want - produced \in Nat
        BY <1>1, <2>1
      <4>3. n \in Nat /\ n <= want - produced
        BY <1>1, <4>2, MinOfThree
      <4> HIDE DEF n
      <4>4. NgramDraft(ctx, t, n) \in Seq(Token) /\ Len(NgramDraft(ctx, t, n)) <= n
        BY <4>3, DraftType
      <4>5. Len(d) \in Nat
        BY <4>1, <4>4
      <4>6. QED
        BY <1>1, <4>1, <4>3, <4>4, <4>5
    <3>2. CASE kind # "ngram"
      <4>1. d \in {<<>>} \cup [1..1 -> Token]
        BY <1>3, <3>2 DEF DraftsAfter
      <4>2. CASE d = <<>>
        BY <1>1, <2>1, <4>2
      <4>3. CASE d \in [1..1 -> Token]
        <5>1. 1 \in Nat
          OBVIOUS
        <5>2. d \in Seq(Token) /\ Len(d) = 1
          BY <4>3, <5>1, TokensAreSeq
        <5>3. QED
          BY <1>1, <2>1, <5>2
      <4>4. QED
        BY <4>1, <4>2, <4>3
    <3>3. QED
      BY <3>1, <3>2
  <2>3. Len(d) \in Nat
    BY <2>2
  <2>4. QED
    BY <1>1, <2>1, <2>2, <2>3
<1>4. QED
  BY <1>2, <1>3

LEMMA EngineRests ==
  ASSUME SInv, UNCHANGED evars
  PROVE  gpu' = gpu /\ IInv' /\ OneShort' = (out' # <<>> /\ ctx_tokens_' = Append(gpu.rec, gpu.last))
<1>1. gpu' = gpu /\ call' = call
  BY DEF evars
<1>2. IInv'
  BY <1>1 DEF SInv, IInv, Repaired, GenHoldsTokens
<1>3. QED
  BY <1>1, <1>2 DEF OneShort

LEMMA EmitFirstKeeps ==
  ASSUME SInv, EmitFirst
  PROVE  SKept
<1>1. /\ pc = "first" /\ pc' = (IF want = 1 THEN "head" ELSE "steps") /\ Produce(gpu.last)
      /\ want' = want /\ kind' = kind /\ spec_n' = spec_n /\ drafts' = drafts /\ behind' = behind
      /\ UNCHANGED evars
  BY DEF EmitFirst
<1>2. out = <<>> /\ want > 0 /\ kind = "off" /\ ~behind /\ gpu.rec = ctx_tokens_
  BY <1>1 DEF SInv, AtFirst
<1>3. gpu' = gpu /\ IInv' /\ OneShort' = (out' # <<>> /\ ctx_tokens_' = Append(gpu.rec, gpu.last))
  BY <1>1, EngineRests
<1>4. want \in Nat /\ Len(out) = 0 /\ Len(out) < want
  <2>1. want \in Nat
    BY WantType DEF SInv
  <2>2. QED
    BY <1>2, <2>1
<1>5. gpu.last = Greedy(ctx_tokens_)
  BY <1>2, SParts
<1>6. /\ Promise!Next /\ ctx_tokens_' \in Seq(Token) /\ out' \in Seq(Token) /\ Room'
      /\ Len(out') = Len(out) + 1 /\ out' # <<>>
  <2>1. pc # "idle" /\ pc' # "idle"
    BY <1>1
  <2>2. QED
    BY <1>1, <1>4, <1>5, <2>1, Emitted
<1>7. Len(out') = 1
  BY <1>4, <1>6
<1>8. ctx_tokens_' = Append(gpu.rec, gpu.last)
  BY <1>1, <1>2 DEF Produce
<1>9. SessionTypeOK' /\ Served'
  BY <1>1, <1>6 DEF SInv, SessionTypeOK, Served, Repaired
<1>10. AtSteps'
  <2>1. CASE pc' = "steps"
    <3>1. want > 1
      BY <1>1, <1>4, <2>1
    <3>2. QED
      BY <1>1, <1>2, <1>3, <1>6, <1>7, <1>8, <3>1 DEF AtSteps
  <2>2. QED
    BY <2>1 DEF AtSteps
<1>11. AtHead'
  <2>1. CASE pc' = "head"
    <3>1. want = 1
      BY <1>1, <2>1
    <3>2. Left'
      BY <1>1, <1>2, <3>1 DEF Left
    <3>3. QED
      BY <1>1, <1>7, <3>1, <3>2 DEF AtHead
  <2>2. QED
    BY <2>1 DEF AtHead
<1>12. AtIdle' /\ AtFirst' /\ AtFeed' /\ AtHandOver'
  <2>1. pc' \in {"head", "steps"}
    BY <1>1
  <2>2. QED
    BY <2>1 DEF AtIdle, AtFirst, AtFeed, AtHandOver
<1>13. OwnDrafts'
  BY <1>1, <1>3 DEF SInv, OwnDrafts
<1>14. QED
  BY <1>3, <1>6, <1>9, <1>10, <1>11, <1>12, <1>13 DEF SKept, SInv

\* decode_steps produces the tokens after the first.
LEMMA RunStepsKeeps ==
  ASSUME SInv, RunSteps
  PROVE  SKept
<1> DEFINE n == want - 1
           s == SelfFed(gpu, gpu.tok, n)
           r == gpu.rec
           b == gpu'.last
<1>1. /\ pc = "steps" /\ pc' = "hand over" /\ DecodeSteps(n) /\ drafts' = GenTokens(gpu', n)
      /\ behind' = TRUE /\ ctx_tokens_' = ctx_tokens_ /\ want' = want /\ kind' = kind
      /\ spec_n' = spec_n /\ out' = out
  BY DEF RunSteps
<1>2. Len(out) = 1 /\ want > 1 /\ kind = "off" /\ ~behind /\ ctx_tokens_ = Append(r, gpu.last)
  BY <1>1 DEF SInv, AtSteps, OneShort
<1>3. want \in Nat /\ n \in Nat /\ n >= 1 /\ n \in 1..GenCap /\ ~(n > GenCap)
  <2>1. want \in Nat /\ want <= MaxWant /\ MaxWant \in Nat
    BY WantType DEF SInv
  <2>2. MaxWant - 1 <= GenCap /\ GenCap \in Nat
    BY EngineAssumption DEF SInv, Served
  <2>3. QED
    BY <1>2, <2>1, <2>2
<1>4. IInv' /\ CopiedOut(gpu', n)
  <2> HIDE DEF n
  <2>1. IInv'
    BY <1>1, <1>3, StepsKeep DEF SInv, Kept
  <2>2. call'.op = "steps" /\ call'.ret = n
    BY <1>1 DEF DecodeSteps
  <2>3. QED
    BY <2>1, <2>2 DEF IInv, GenHoldsTokens, CopiedOut
<1>5. /\ s \in Seq(Token) /\ Len(s) = n /\ FedBack(gpu, gpu.last, s)
      /\ Sound(gpu') /\ gpu'.rec = r \o s
  <2> HIDE DEF n
  <2>1. /\ gpu' = Steps(gpu, n) /\ gpu.pos + n <= Ctx /\ gpu.tok = gpu.last /\ Sound(gpu)
    BY <1>1 DEF DecodeSteps, SInv, IInv
  <2>2. QED
    BY <1>3, <2>1, StepsSound
<1>6. r \in Seq(Token) /\ b \in Token /\ b = Greedy(r \o s) /\ gpu.last = s[1] /\ Len(s) >= 1
  <2>1. b \in Token
    BY <1>5, EngineParts DEF Sound
  <2>2. b = Greedy(r \o s)
    BY <1>5 DEF Sound
  <2>3. gpu.last = s[1]
    BY <1>5 DEF FedBack
  <2>4. QED
    BY <1>3, <1>5, <2>1, <2>2, <2>3, SParts
<1>7. SameHead(gpu, gpu')
  <2> DEFINE d == Rewound(gpu)
  <2>1. d \in Engines /\ SameHead(gpu, d)
    <3>1. gpu \in Engines /\ Sound(gpu)
      BY SParts
    <3>2. d \in Engines
      BY <3>1, RewoundSound DEF Sound
    <3>3. SameHead(gpu, d)
      BY <3>1 DEF SameHead, Rewound, Engines
    <3>4. QED
      BY <3>2, <3>3
  <2>2. gpu' = Decode(d, s)
    <3> HIDE DEF n
    <3>1. gpu' = Steps(gpu, n)
      BY <1>1 DEF DecodeSteps
    <3>2. QED
      BY <1>3, <3>1 DEF Steps, Rewound
  <2> HIDE DEF d, s
  <2>3. QED
    BY <2>1, <2>2, DecodeHead DEF SameHead
<1> DEFINE w == drafts'
<1>8. w \in Seq(Token) /\ Len(w) = n /\ ctx_tokens_ \o w = Append(r \o s, b)
  <2>1. w = Produced(r, s, b)
    <3> HIDE DEF n, s, b
    <3>1. QED
      BY <1>1, <1>4, <1>5 DEF CopiedOut, Produced, b
  <2> HIDE DEF w, s, b, r, n
  <2>2. r \in Seq(Token) /\ s \in Seq(Token) /\ Len(s) >= 1 /\ b \in Token
    BY <1>5, <1>6
  <2>3. w \in Seq(Token) /\ Len(w) = Len(s) /\ Append(r, s[1]) \o w = Append(r \o s, b)
    BY <2>1, <2>2, StepsPending
  <2>4. QED
    BY <1>2, <1>5, <1>6, <2>3
<1>9. Abs!GreedyFrom(ctx_tokens_ \o w, Len(ctx_tokens_) + 1)
  <2>1. Sound(gpu) /\ Len(r) \in Nat
    BY <1>6, SParts
  <2> HIDE DEF w, s, n
  <2>2. Abs!GreedyFrom(r \o s, Len(r) + 1)
    BY <1>5, <1>6, <2>1, FedBackGreedy
  <2>3. r \o s \in Seq(Token)
    BY <1>5, <1>6, Joined
  <2> DEFINE a == Len(r) + 1
             x == r \o s
  <2>4. a \in Nat \ {0} /\ Len(ctx_tokens_) = a
    BY <1>2, <1>6, <2>1, SParts, Longer
  <2> HIDE DEF a, x, b
  <2>5. Abs!GreedyFrom(Append(x, Greedy(x)), a)
    BY <2>2, <2>3, <2>4, GreedyOnce DEF a, x
  <2>6. Append(x, Greedy(x)) \in Seq(Token)
    BY <2>3, GreedyType, Longer DEF x
  <2>7. Abs!GreedyFrom(Append(x, Greedy(x)), a + 1)
    BY <2>4, <2>5, <2>6, GreedyLater
  <2>8. QED
    BY <1>6, <1>8, <2>4, <2>7 DEF x
<1>10. SessionTypeOK' /\ Served'
  <2>1. behind' \in BOOLEAN /\ w \in Seq(Token)
    BY <1>1, <1>8
  <2> HIDE DEF s, n, b
  <2>2. QED
    BY <1>1, <2>1 DEF SInv, SessionTypeOK, Served, Repaired
<1>11. AtHandOver'
  <2>1. Len(out) + Len(w) >= want
    BY <1>2, <1>3, <1>8
  <2>2. call'.op = "steps"
    BY <1>1 DEF DecodeSteps
  <2> HIDE DEF s, n, b
  <2>3. QED
    BY <1>1, <1>9, <2>1, <2>2 DEF AtHandOver, Pending
<1>12. AtIdle' /\ AtFirst' /\ AtSteps' /\ AtHead' /\ AtFeed'
  BY <1>1 DEF AtIdle, AtFirst, AtSteps, AtHead, AtFeed
<1>13. Room' /\ OwnDrafts'
  BY <1>1, <1>2, <1>7 DEF SInv, Room, OwnDrafts, SameHead
<1>14. UNCHANGED Promise!vars
  BY <1>1, Quiet
<1>15. QED
  BY <1>4, <1>10, <1>11, <1>12, <1>13, <1>14 DEF SKept, SInv

LEMMA EmitHeadKeeps ==
  ASSUME SInv, EmitHead
  PROVE  SKept
<1>1. /\ pc = "head" /\ Len(out) < want /\ Produce(gpu.last) /\ pc' \in {"ask", "feed"}
      /\ want' = want /\ kind' = kind /\ spec_n' = spec_n /\ behind' = behind /\ UNCHANGED evars
      /\ pc' = "ask" => AsksEngine(Len(out')) /\ drafts' = <<>>
      /\ pc' = "feed" => /\ ~AsksEngine(Len(out'))
                         /\ drafts' \in DraftsAfter(ctx_tokens_', gpu.last, Len(out'))
  BY DEF EmitHead
<1>2. want \in Nat /\ Len(out) \in Nat /\ SessionTypeOK
  <2>1. SessionTypeOK /\ out \in Seq(Token)
    BY DEF SInv, SessionTypeOK
  <2>2. want \in Nat
    BY <2>1, WantType
  <2>3. QED
    BY <2>1, <2>2
<1>3. ~Left /\ gpu.rec = ctx_tokens_
  BY <1>1, <1>2 DEF SInv, AtHead
<1>4. gpu' = gpu /\ IInv' /\ OneShort' = (out' # <<>> /\ ctx_tokens_' = Append(gpu.rec, gpu.last))
  BY <1>1, EngineRests
<1>5. gpu.last = Greedy(ctx_tokens_) /\ gpu.last \in Token
  BY <1>3, SParts
<1>6. /\ Promise!Next /\ ctx_tokens_' \in Seq(Token) /\ out' \in Seq(Token) /\ Room'
      /\ Len(out') = Len(out) + 1 /\ out' # <<>> /\ out'[Len(out')] = gpu.last
  <2>1. pc # "idle" /\ pc' # "idle"
    BY <1>1
  <2>2. QED
    BY <1>1, <1>5, <2>1, Emitted
<1>7. ctx_tokens_' = Append(gpu.rec, gpu.last)
  BY <1>1, <1>3 DEF Produce
<1>8. Len(out') \in Nat /\ Len(out') <= want
  BY <1>1, <1>2, <1>6
<1>9. /\ drafts' \in Seq(Token) /\ Len(out') + Len(drafts') <= want
      /\ drafts' # <<>> => pc' = "feed" /\ kind # "off" /\ spec_n > 0 /\ Len(out') < want
  <2>1. CASE pc' = "ask"
    BY <1>1, <1>2, <1>8, <2>1
  <2>2. CASE pc' = "feed"
    <3>1. drafts' \in DraftsAfter(ctx_tokens_', gpu.last, Len(out'))
      BY <1>1, <2>2
    <3> DEFINE c == ctx_tokens_'
               p == Len(out')
               d == drafts'
    <3>2. c \in Seq(Token) /\ p \in Nat /\ p <= want /\ d \in DraftsAfter(c, gpu.last, p)
      BY <1>6, <1>8, <3>1
    <3> HIDE DEF c, p, d
    <3>3. /\ d \in Seq(Token) /\ p + Len(d) <= want
          /\ d # <<>> => kind # "off" /\ spec_n > 0 /\ p < want
      BY <1>2, <1>5, <3>2, DraftsFit
    <3>4. QED
      BY <2>2, <3>3 DEF c, p, d
  <2>3. QED
    BY <1>1, <2>1, <2>2
<1>10. drafts' # <<>> => ~gpu.onDev
  <2> SUFFICES ASSUME drafts' # <<>> PROVE ~gpu.onDev
    OBVIOUS
  <2>1. ~AsksEngine(Len(out')) /\ kind # "off" /\ spec_n > 0 /\ Len(out') < want
    BY <1>1, <1>9
  <2>2. CASE kind = "ngram"
    BY <1>1, <2>2 DEF SInv, OwnDrafts
  <2>3. CASE kind # "ngram"
    <3>1. kind = "mtp"
      BY <1>2, <2>1, <2>3 DEF SessionTypeOK
    <3>2. ~gpu.mtp
      BY <2>1, <3>1 DEF AsksEngine
    <3>3. QED
      BY <3>2 DEF SInv, OwnDrafts
  <2>4. QED
    BY <2>2, <2>3
<1>11. SessionTypeOK' /\ Served'
  <2>1. pc' \in {"idle", "first", "steps", "head", "feed", "ask", "hand over"}
    BY <1>1
  <2>2. QED
    BY <1>1, <1>6, <1>9, <2>1 DEF SInv, SessionTypeOK, Served, Repaired
<1>12. AtFeed'
  <2>1. pc' = "ask" => kind' = "mtp" /\ drafts' = <<>>
    BY <1>1 DEF AsksEngine
  <2>2. ~Left'
    BY <1>1, <1>3 DEF Left
  <2>3. Len(out') + Len(drafts') <= want'
    BY <1>1, <1>9
  <2>4. QED
    BY <1>4, <1>6, <1>7, <1>10, <2>1, <2>2, <2>3 DEF AtFeed
<1>13. AtIdle' /\ AtFirst' /\ AtSteps' /\ AtHead' /\ AtHandOver'
  BY <1>1 DEF AtIdle, AtFirst, AtSteps, AtHead, AtHandOver
<1>14. OwnDrafts'
  BY <1>1, <1>4 DEF SInv, OwnDrafts
<1>15. QED
  BY <1>4, <1>6, <1>11, <1>12, <1>13, <1>14 DEF SKept, SInv

\* Without drafts the token is decoded, and the engine is level again.
LEMMA FeedHeadKeeps ==
  ASSUME SInv, FeedHead
  PROVE  SKept
<1>1. /\ pc = "feed" /\ pc' = "head" /\ DecodeToken(out[Len(out)])
      /\ ctx_tokens_' = ctx_tokens_ /\ want' = want /\ kind' = kind /\ spec_n' = spec_n /\ out' = out
      /\ drafts' = drafts /\ behind' = behind
  BY DEF FeedHead
<1>2. ~Left /\ ctx_tokens_ = Append(gpu.rec, gpu.last) /\ out[Len(out)] = gpu.last
  BY <1>1 DEF SInv, AtFeed, OneShort
<1>3. IInv' /\ gpu'.rec = Append(gpu.rec, gpu.last) /\ SameHead(gpu, gpu')
  <2>1. gpu.last \in Token /\ DecodeToken(gpu.last)
    BY <1>1, <1>2, SParts
  <2>2. QED
    BY <2>1, DecodeTokenRec
<1>4. SessionTypeOK' /\ Served'
  BY <1>1 DEF SInv, SessionTypeOK, Served, Repaired
<1>5. AtHead'
  <2>1. ~Left'
    BY <1>1, <1>2 DEF Left
  <2>2. QED
    BY <1>1, <1>2, <1>3, <2>1 DEF AtHead
<1>6. AtIdle' /\ AtFirst' /\ AtSteps' /\ AtFeed' /\ AtHandOver'
  BY <1>1 DEF AtIdle, AtFirst, AtSteps, AtFeed, AtHandOver
<1>7. Room' /\ OwnDrafts'
  BY <1>1, <1>3 DEF SInv, Room, OwnDrafts, SameHead
<1>8. UNCHANGED Promise!vars
  BY <1>1, Quiet
<1>9. QED
  BY <1>3, <1>4, <1>5, <1>6, <1>7, <1>8 DEF SKept, SInv

\* The tokens of the drafts that were consumed wait to be handed over.
LEMMA VerifyHeadKeeps ==
  ASSUME SInv, VerifyHead
  PROVE  SKept
<1> DEFINE toks == <<gpu.last>> \o drafts
           v == SpecVerify(gpu, toks)
           w == drafts'
<1>1. /\ pc = "feed" /\ pc' = "hand over" /\ drafts # <<>>
      /\ SpecVerifyCall(<<out[Len(out)]>> \o drafts) /\ w = SubSeq(drafts, 1, call'.ret - 1)
      /\ ctx_tokens_' = ctx_tokens_ /\ want' = want /\ kind' = kind /\ spec_n' = spec_n /\ out' = out
      /\ behind' = behind
  BY DEF VerifyHead
<1>2. /\ ~Left /\ ctx_tokens_ = Append(gpu.rec, gpu.last) /\ out[Len(out)] = gpu.last
      /\ Len(out) + Len(drafts) <= want /\ ~gpu.onDev
  BY <1>1 DEF SInv, AtFeed, OneShort
<1>3. /\ SpecVerifyCall(toks) /\ drafts \in Seq(Token) /\ out \in Seq(Token) /\ IInv /\ Sound(gpu)
      /\ want \in Nat /\ gpu.last \in Token
  BY <1>1, <1>2, SParts, WantType DEF SInv, SessionTypeOK
<1>4. /\ gpu' = v.e /\ call'.ret = v.n /\ call'.op = "verify" /\ call'.toks = toks
      /\ gpu.pos + Len(toks) <= Ctx
  BY <1>3 DEF SpecVerifyCall
<1>5. Fits(gpu, toks) /\ toks \in Seq(Token)
  <2> DEFINE u == <<gpu.last>>
  <2>1. u \in Seq(Token) /\ Len(u) = 1
    BY <1>3
  <2> HIDE DEF u
  <2>2. u \o drafts \in Seq(Token) /\ Len(u \o drafts) = Len(u) + Len(drafts)
    BY <1>3, <2>1, Joined
  <2>3. Len(drafts) \in Nat
    BY <1>3
  <2>4. QED
    BY <1>4, <2>1, <2>2, <2>3 DEF Fits, u
<1>6. Fed(gpu, toks) = toks
  BY <1>2 DEF Fed
<1> HIDE DEF toks
<1>7. Consumed(gpu, gpu', toks, call'.ret) /\ SameHead(gpu, gpu')
  BY <1>3, <1>4, <1>5, <1>6, SpecVerifyConsumes, VerifyHeadSame
<1> HIDE DEF v
<1>8. IInv'
  BY <1>3, <1>4, <1>5, <1>7, ConsumedKeeps DEF Kept
<1>9. /\ w \in Seq(Token) /\ Len(w) <= Len(drafts) /\ gpu'.rec = ctx_tokens_ \o w
      /\ Abs!GreedyFrom(ctx_tokens_ \o w, Len(ctx_tokens_) + 1)
  <2> DEFINE n == call'.ret
             f == gpu'
             u == <<gpu.last>>
  <2>1. u \in Seq(Token) /\ Len(u) = 1 /\ u[1] = gpu.last
    BY <1>3
  <2>2. Consumed(gpu, f, u \o drafts, n) /\ w = SubSeq(drafts, 1, n - 1)
    BY <1>1, <1>7 DEF toks
  <2>3. n \in 1..Len(toks)
    BY <1>7 DEF Consumed
  <2> DEFINE i == n - 1
  <2>4. i \in Nat /\ i = n - 1 /\ Level(gpu, ctx_tokens_)
    BY <1>2, <1>5, <2>3 DEF Level
  <2> HIDE DEF n, f, w, u, i
  <2>5. Waits(f, ctx_tokens_, u, drafts, n, i)
    BY <1>3, <2>1, <2>2, <2>4, ConsumedPending
  <2>6. QED
    BY <2>2, <2>4, <2>5 DEF f, Waits
<1>10. SessionTypeOK' /\ Served'
  BY <1>1, <1>9 DEF SInv, SessionTypeOK, Served, Repaired
<1>11. AtHandOver'
  <2>1. Len(out) + Len(w) <= want
    <3>1. Len(out) \in Nat /\ Len(w) \in Nat /\ Len(drafts) \in Nat
      BY <1>3, <1>9
    <3>2. QED
      BY <1>2, <1>3, <1>9, <3>1
  <2>2. kind # "off" /\ ~behind
    <3>1. Len(out) \in Nat /\ Len(drafts) \in Nat /\ Len(drafts) >= 1
      <4>1. out \in Seq(Token) /\ drafts \in Seq(Token) /\ drafts # <<>>
        BY <1>1, <1>3
      <4>2. QED
        BY <4>1, NotEmpty
    <3>2. want > 0
      BY <1>2, <1>3, <3>1
    <3>3. QED
      BY <1>2, <3>2 DEF Left
  <2>3. QED
    BY <1>1, <1>4, <1>9, <2>1, <2>2 DEF AtHandOver, Pending
<1>12. AtIdle' /\ AtFirst' /\ AtSteps' /\ AtHead' /\ AtFeed'
  BY <1>1 DEF AtIdle, AtFirst, AtSteps, AtHead, AtFeed
<1>13. Room' /\ OwnDrafts'
  BY <1>1, <1>7 DEF SInv, Room, OwnDrafts, SameHead
<1>14. UNCHANGED Promise!vars
  BY <1>1, Quiet
<1>15. QED
  BY <1>8, <1>10, <1>11, <1>12, <1>13, <1>14 DEF SKept, SInv

\* The head drafted d after the token that greedy() gives, and what the engine
\* consumed of them is greedy decoding's.
AskedWith(d) ==
  LET toks == <<gpu.last>> \o d
  IN  /\ call'.op = "mtp" /\ call'.preds = SubSeq(toks, 1, call'.ret)
      /\ Consumed(gpu, gpu', toks, call'.ret)
      /\ gpu'.mtp /\ IInv'

LEMMA MtpAsked ==
  ASSUME SInv, MtpCall
  PROVE  \E d \in Seq(Token) : AskedWith(d)
<1>1. PICK path \in Paths \cap DOMAIN DraftCount :
        \E d \in [1..DraftCount[path] -> Token] : MtpSpec2(path, d)
  BY DEF MtpCall
<1>2. PICK d \in [1..DraftCount[path] -> Token] : MtpSpec2(path, d)
  BY <1>1
<1> DEFINE toks == <<gpu.last>> \o d
           v == Outcome(path, gpu, toks)
           c == DraftCount[path]
<1>3. IInv /\ Repaired /\ Sound(gpu) /\ gpu.last \in Token
  BY SParts DEF SInv, IInv
<1>4. path \in Paths /\ path \in {"one", "fused", "three", "four"} /\ "unsaved" \notin Paths
  BY <1>3 DEF Repaired, GoodPaths
<1>5. c \in Nat
  BY <1>4 DEF DraftCount
<1>6. d \in Seq(Token) /\ Len(d) = c
  <2> HIDE DEF c
  <2>1. d \in [1..c -> Token]
    BY DEF c
  <2>2. QED
    BY <1>5, <2>1, TokensAreSeq
<1>7. toks \in Seq(Token) /\ Len(toks) = 1 + c
  <2> DEFINE u == <<gpu.last>>
  <2>1. u \in Seq(Token) /\ Len(u) = 1
    BY <1>3
  <2> HIDE DEF u, c
  <2>2. QED
    BY <1>6, <2>1, Joined DEF u
<1>8. /\ gpu' = v.e /\ call'.ret = v.n /\ call'.op = "mtp" /\ call'.toks = toks
       /\ call'.preds = SubSeq(toks, 1, v.n)
       /\ gpu.mtp /\ gpu.pos + Len(toks) <= Ctx /\ Open(path)
  BY <1>2 DEF MtpSpec2
<1> HIDE DEF toks
<1>9. Fits(gpu, toks)
  BY <1>5, <1>7, <1>8 DEF Fits
<1>10. path = "fused" => 2 \in gpu.graphs /\ gpu.snap
  BY <1>4, <1>8 DEF Open
<1>11. Consumed(gpu, v.e, toks, v.n)
  BY <1>3, <1>4, <1>7, <1>9, <1>10, OutcomeConsumes
<1>12. v.e.mtp = gpu.mtp
  BY <1>3, <1>4, <1>7, <1>9, <1>10, OutcomeMtp
<1> HIDE DEF v, c
<1>13. Consumed(gpu, gpu', toks, call'.ret) /\ gpu'.mtp
  BY <1>8, <1>11, <1>12
<1>14. IInv'
  BY <1>3, <1>7, <1>8, <1>13, ConsumedKeeps DEF Kept
<1>15. QED
  BY <1>6, <1>8, <1>13, <1>14 DEF AskedWith, toks

\* The head drafts for itself; what it consumed beyond the request is not
\* handed over.
LEMMA AskKeeps ==
  ASSUME SInv, AskEngine, pc = "ask"
  PROVE  SKept
<1>1. /\ pc' = "hand over" /\ MtpCall /\ drafts' = drafts \o SubSeq(call'.preds, 2, call'.ret)
      /\ behind' = (behind \/ Len(out) + Len(drafts') > want)
      /\ ctx_tokens_' = ctx_tokens_ /\ want' = want /\ kind' = kind /\ spec_n' = spec_n /\ out' = out
  BY DEF AskEngine
<1>2. ~Left /\ ctx_tokens_ = Append(gpu.rec, gpu.last) /\ kind = "mtp" /\ drafts = <<>>
  BY DEF SInv, AtFeed, OneShort
<1>3. PICK d \in Seq(Token) : AskedWith(d)
  BY <1>1, MtpAsked
<1> DEFINE toks == <<gpu.last>> \o d
           n == call'.ret
           s == SubSeq(d, 1, n - 1)
           w == drafts'
<1>4. Sound(gpu) /\ gpu.last \in Token /\ out \in Seq(Token) /\ want \in Nat
  BY SParts, WantType DEF SInv, IInv, SessionTypeOK
<1>5. /\ call'.op = "mtp" /\ call'.preds = SubSeq(toks, 1, n)
      /\ Consumed(gpu, gpu', toks, n) /\ gpu'.mtp /\ IInv'
  BY <1>3 DEF AskedWith
<1>6. toks \in Seq(Token)
  <2> DEFINE u == <<gpu.last>>
  <2>1. u \in Seq(Token)
    BY <1>4
  <2> HIDE DEF u
  <2>2. QED
    BY <1>3, <2>1, Joined DEF u
<1>7. /\ s \in Seq(Token) /\ Len(s) = n - 1 /\ n \in Nat /\ gpu'.rec = ctx_tokens_ \o s
      /\ Abs!GreedyFrom(ctx_tokens_ \o s, Len(ctx_tokens_) + 1)
      /\ SubSeq(toks, 1, n) = <<gpu.last>> \o s
  <2> DEFINE f == gpu'
             u == <<gpu.last>>
             i == n - 1
  <2>1. u \in Seq(Token) /\ Len(u) = 1 /\ u[1] = gpu.last
    BY <1>4
  <2>2. Consumed(gpu, f, u \o d, n)
    BY <1>5
  <2>3. n \in 1..Len(toks)
    BY <1>5 DEF Consumed
  <2>4. i \in Nat /\ i = n - 1 /\ n \in Nat /\ Level(gpu, ctx_tokens_)
    BY <1>2, <1>6, <2>3 DEF Level
  <2> HIDE DEF n, f, s, u, i
  <2>5. Waits(f, ctx_tokens_, u, d, n, i)
    BY <1>3, <1>4, <2>1, <2>2, <2>4, ConsumedPending
  <2>6. s = SubSeq(d, 1, i)
    BY <2>4 DEF s
  <2>7. /\ s \in Seq(Token) /\ Len(s) = i /\ gpu'.rec = ctx_tokens_ \o s
        /\ Abs!GreedyFrom(ctx_tokens_ \o s, Len(ctx_tokens_) + 1)
    BY <2>5, <2>6 DEF f, Waits
  <2>8. SubSeq(toks, 1, n) = <<gpu.last>> \o s
    BY <2>5, <2>6 DEF u, Waits
  <2>9. QED
    BY <2>4, <2>7, <2>8
<1> HIDE DEF toks, s, n
<1>8. w = s
  <2> DEFINE u == <<gpu.last>>
  <2>1. u \in Seq(Token) /\ Len(u) = 1
    BY <1>4
  <2>2. w = SubSeq(u \o s, 2, n)
    <3>1. w = <<>> \o SubSeq(u \o s, 2, n)
      BY <1>1, <1>2, <1>5, <1>7 DEF n
    <3>2. SubSeq(u \o s, 2, n) \in Seq(Token)
      BY <1>7, <2>1, Joined
    <3>3. QED
      BY <3>1, <3>2, EmptyJoin
  <2> HIDE DEF u
  <2>3. SubSeq(u \o s, Len(u) + 1, Len(u \o s)) = s
    BY <1>7, <2>1, RestOfJoined
  <2>4. Len(u \o s) = Len(u) + Len(s)
    BY <1>7, <2>1, Joined
  <2>5. Len(u) + 1 = 2 /\ Len(u \o s) = n
    BY <1>7, <2>1, <2>4
  <2>6. QED
    BY <2>2, <2>3, <2>5
<1>9. w \in Seq(Token) /\ Len(w) \in Nat /\ Len(out) \in Nat
  BY <1>4, <1>7, <1>8
<1>10. SessionTypeOK' /\ Served'
  <2>1. behind' \in BOOLEAN
    BY <1>1 DEF SInv, SessionTypeOK
  <2>2. QED
    BY <1>1, <1>9, <2>1 DEF SInv, SessionTypeOK, Served, Repaired
<1>11. AtHandOver'
  <2> DEFINE over == Len(out) + Len(w) > want
  <2>1. behind' <=> over
    <3>1. behind' = (behind \/ over) /\ ~behind
      BY <1>1, <1>2 DEF Left
    <3> HIDE DEF over
    <3>2. QED
      BY <3>1
  <2>2. IF over THEN Len(out) + Len(w) >= want ELSE Len(out) + Len(w) <= want
    BY <1>4, <1>9
  <2> HIDE DEF over
  <2>3. IF behind' THEN Len(out) + Len(w) >= want ELSE Len(out) + Len(w) <= want
    BY <2>1, <2>2
  <2>4. QED
    BY <1>1, <1>2, <1>7, <1>8, <2>3 DEF AtHandOver, Pending
<1>12. AtIdle' /\ AtFirst' /\ AtSteps' /\ AtHead' /\ AtFeed'
  BY <1>1 DEF AtIdle, AtFirst, AtSteps, AtHead, AtFeed
<1>13. Room' /\ OwnDrafts'
  BY <1>1, <1>2, <1>5 DEF SInv, Room, OwnDrafts
<1>14. UNCHANGED Promise!vars
  BY <1>1, Quiet
<1>15. QED
  BY <1>5, <1>10, <1>11, <1>12, <1>13, <1>14 DEF SKept, SInv

\* e, which continues greedy decoding from a on, still does when it has consumed
\* more of it.
LEMMA StillGreedy ==
  ASSUME NEW e, Sound(e), NEW f, NEW toks \in Seq(Token), NEW n, Consumed(e, f, toks, n),
         toks[1] = e.last, NEW a \in Nat \ {0}, a <= Len(e.rec) + 1, Abs!GreedyFrom(e.rec, a)
  PROVE  Abs!GreedyFrom(f.rec, a)
<1> DEFINE r == e.rec
           x == SubSeq(toks, 1, n)
           y == r \o x
<1>1. r \in Seq(Token) /\ e.last = Greedy(r) /\ n \in 1..Len(toks) /\ n \in 0..Len(toks) /\ f.rec = y
  BY EngineParts DEF Sound, Consumed
<1>2. x \in Seq(Token) /\ Len(x) = n /\ x[1] = e.last
  BY <1>1, Prefix
<1>3. Abs!GreedyFrom(y, Len(r) + 2)
  BY <1>1, ConsumedGreedy
<1>4. Abs!GreedyFrom(r, a)
  OBVIOUS
<1> HIDE DEF x, r
<1>5. /\ y \in Seq(Token) /\ Len(y) = Len(r) + Len(x) /\ Len(r) \in Nat
      /\ (\A i \in 1..Len(r) : y[i] = r[i]) /\ y[Len(r) + 1] = x[1]
  <2>1. /\ y \in Seq(Token) /\ Len(y) = Len(r) + Len(x)
        /\ \A i \in 1..(Len(r) + Len(x)) : y[i] = IF i <= Len(r) THEN r[i] ELSE x[i - Len(r)]
    BY <1>1, <1>2, Joined
  <2>2. Len(r) \in Nat /\ Len(x) \in Nat /\ Len(x) >= 1
    BY <1>1, <1>2
  <2> HIDE DEF y
  <2>3. \A i \in 1..Len(r) : i \in 1..(Len(r) + Len(x)) /\ i <= Len(r)
    BY <2>2
  <2>4. LET i == Len(r) + 1 IN i \in 1..(Len(r) + Len(x)) /\ ~(i <= Len(r)) /\ i - Len(r) = 1
    BY <2>2
  <2>5. y[Len(r) + 1] = x[1]
    BY <2>1, <2>4
  <2>6. QED
    BY <2>1, <2>2, <2>3, <2>5
<1>6. ASSUME NEW i \in 0..Len(r) PROVE SubSeq(y, 1, i) = SubSeq(r, 1, i)
  <2>1. SubSeq(y, 1, Len(r)) = r
    <3>1. SubSeq(r \o x, 1, Len(r) + 0) = r \o SubSeq(x, 1, 0)
      BY <1>1, <1>2, PrefixOfJoined
    <3>2. r \o SubSeq(x, 1, 0) = r /\ Len(r) + 0 = Len(r)
      BY <1>1, <1>2
    <3>3. QED
      BY <3>1, <3>2
  <2>2. Len(r) \in 0..Len(y)
    BY <1>2, <1>5
  <2> HIDE DEF y
  <2>3. SubSeq(SubSeq(y, 1, Len(r)), 1, i) = SubSeq(y, 1, i)
    BY <1>5, <2>2, PrefixOfPrefix
  <2>4. QED
    BY <2>1, <2>3
<1> HIDE DEF y
<1>7. ASSUME NEW j \in a..Len(y) PROVE y[j] = Greedy(SubSeq(y, 1, j - 1))
  <2>1. CASE j <= Len(r)
    <3>1. j \in a..Len(r) /\ j \in 1..Len(r) /\ j - 1 \in 0..Len(r)
      BY <1>5, <2>1
    <3>2. QED
      BY <1>4, <1>5, <1>6, <3>1 DEF Abs!GreedyFrom
  <2>2. CASE j = Len(r) + 1
    <3>1. j - 1 = Len(r) /\ Len(r) \in 0..Len(r) /\ SubSeq(r, 1, Len(r)) = r
      BY <1>1, <1>5, <2>2, EmptyJoin
    <3>2. QED
      BY <1>1, <1>2, <1>5, <1>6, <2>2, <3>1
  <2>3. CASE j >= Len(r) + 2
    <3>1. j \in (Len(r) + 2)..Len(y)
      BY <1>5, <2>3
    <3>2. QED
      BY <1>3, <3>1 DEF Abs!GreedyFrom
  <2>4. QED
    BY <1>5, <2>1, <2>2, <2>3
<1>8. QED
  BY <1>1, <1>7 DEF Abs!GreedyFrom

\* Where the head's drafts held, the engine may draft on behind them.
LEMMA AskOnKeeps ==
  ASSUME SInv, AskEngine, pc # "ask"
  PROVE  SKept
<1>1. /\ pc = "hand over" /\ pc' = pc /\ call.op = "mtp" /\ MtpCall
      /\ drafts' = drafts \o SubSeq(call'.preds, 1, call'.ret)
      /\ behind' = (behind \/ Len(out) + Len(drafts') > want)
      /\ ctx_tokens_' = ctx_tokens_ /\ want' = want /\ kind' = kind /\ spec_n' = spec_n /\ out' = out
  BY DEF AskEngine
<1>2. /\ kind = "mtp" /\ gpu.rec = ctx_tokens_ \o drafts /\ behind \in BOOLEAN
      /\ Abs!GreedyFrom(ctx_tokens_ \o drafts, Len(ctx_tokens_) + 1)
      /\ behind => Len(out) + Len(drafts) >= want
  BY <1>1 DEF SInv, SessionTypeOK, AtHandOver, Pending
<1>3. /\ Sound(gpu) /\ gpu.last \in Token /\ out \in Seq(Token) /\ want \in Nat
      /\ ctx_tokens_ \in Seq(Token) /\ drafts \in Seq(Token)
  BY SParts, WantType DEF SInv, IInv, SessionTypeOK
<1>4. PICK d \in Seq(Token) : AskedWith(d)
  BY <1>1, MtpAsked
<1> DEFINE u == <<gpu.last>>
           toks == u \o d
           n == call'.ret
           s == SubSeq(toks, 1, n)
           w == drafts'
<1>5. /\ call'.op = "mtp" /\ call'.preds = s /\ Consumed(gpu, gpu', toks, n) /\ gpu'.mtp /\ IInv'
  BY <1>4 DEF AskedWith
<1>6. toks \in Seq(Token) /\ toks[1] = gpu.last
  <2>1. u \in Seq(Token) /\ Len(u) = 1 /\ u[1] = gpu.last
    BY <1>3
  <2>2. Len(d) \in Nat /\ Len(u) \in Nat
    BY <1>4, <2>1
  <2> HIDE DEF u
  <2>3. toks \in Seq(Token) /\ \A k \in 1..(Len(u) + Len(d)) : toks[k] = IF k <= Len(u) THEN u[k] ELSE d[k - Len(u)]
    BY <1>4, <2>1, Joined
  <2>4. QED
    BY <2>1, <2>2, <2>3
<1> HIDE DEF u, toks, n
<1>7. n \in 1..Len(toks) /\ gpu'.rec = gpu.rec \o s
  BY <1>5 DEF Consumed
<1>8. s \in Seq(Token) /\ Len(s) = n /\ n \in Nat
  <2>1. n \in 0..Len(toks)
    BY <1>7
  <2>2. QED
    BY <1>6, <1>7, <2>1, Prefix
<1>9. w = drafts \o s
  <2>1. SubSeq(s, 1, n) = s
    BY <1>8, EmptyJoin
  <2>2. QED
    BY <1>1, <1>5, <2>1 DEF n
<1> HIDE DEF s
<1>10. w \in Seq(Token) /\ Len(w) = Len(drafts) + n /\ Len(drafts) \in Nat /\ Len(out) \in Nat
  <2>1. drafts \o s \in Seq(Token) /\ Len(drafts \o s) = Len(drafts) + Len(s)
    BY <1>3, <1>8, Joined
  <2>2. Len(drafts) \in Nat /\ Len(out) \in Nat
    BY <1>3
  <2> HIDE DEF w
  <2>3. QED
    BY <1>8, <1>9, <2>1, <2>2
<1>11. Pending' = gpu'.rec
  <2>1. (ctx_tokens_ \o drafts) \o s = ctx_tokens_ \o (drafts \o s)
    BY <1>3, <1>8, Regroup
  <2>2. QED
    BY <1>1, <1>2, <1>7, <1>9, <2>1 DEF Pending
<1>12. Abs!GreedyFrom(gpu'.rec, Len(ctx_tokens_) + 1)
  <2> DEFINE a == Len(ctx_tokens_) + 1
  <2>1. a \in Nat \ {0} /\ a <= Len(gpu.rec) + 1
    BY <1>2, <1>3, Joined
  <2>2. Abs!GreedyFrom(gpu.rec, a)
    BY <1>2
  <2> HIDE DEF a
  <2>3. Abs!GreedyFrom(gpu'.rec, a)
    BY <1>3, <1>5, <1>6, <2>1, <2>2, StillGreedy
  <2>4. QED
    BY <2>3 DEF a
<1>13. SessionTypeOK' /\ Served'
  <2>1. behind' \in BOOLEAN
    BY <1>1, <1>2
  <2>2. QED
    BY <1>1, <1>10, <2>1 DEF SInv, SessionTypeOK, Served, Repaired
<1>14. AtHandOver'
  <2> DEFINE over == Len(out) + Len(w) > want
  <2>1. behind' = (behind \/ over)
    BY <1>1
  <2>2. /\ over => Len(out) + Len(w) >= want
        /\ ~over => Len(out) + Len(w) <= want
        /\ behind => Len(out) + Len(w) >= want
    BY <1>2, <1>3, <1>8, <1>10
  <2> HIDE DEF over
  <2>3. IF behind' THEN Len(out) + Len(w) >= want ELSE Len(out) + Len(w) <= want
    BY <1>2, <2>1, <2>2
  <2>4. QED
    BY <1>1, <1>2, <1>11, <1>12, <2>3 DEF AtHandOver
<1>15. AtIdle' /\ AtFirst' /\ AtSteps' /\ AtHead' /\ AtFeed'
  BY <1>1 DEF AtIdle, AtFirst, AtSteps, AtHead, AtFeed
<1>16. Room' /\ OwnDrafts'
  BY <1>1, <1>2, <1>5 DEF SInv, Room, OwnDrafts
<1>17. UNCHANGED Promise!vars
  BY <1>1, Quiet
<1>18. QED
  BY <1>5, <1>13, <1>14, <1>15, <1>16, <1>17 DEF SKept, SInv

LEMMA HandOverKeeps ==
  ASSUME SInv, HandOver
  PROVE  SKept
<1>1. /\ pc = "hand over" /\ pc' = pc /\ drafts # <<>> /\ Len(out) < want /\ Produce(Head(drafts))
      /\ drafts' = Tail(drafts) /\ UNCHANGED evars
      /\ want' = want /\ kind' = kind /\ spec_n' = spec_n /\ behind' = behind
  BY DEF HandOver
<1>2. /\ ctx_tokens_ \in Seq(Token) /\ drafts \in Seq(Token) /\ out \in Seq(Token) /\ want \in Nat
      /\ Abs!GreedyFrom(ctx_tokens_ \o drafts, Len(ctx_tokens_) + 1)
      /\ IF behind THEN Len(out) + Len(drafts) >= want
         ELSE kind # "off" /\ gpu.rec = Pending /\ Len(out) + Len(drafts) <= want
      /\ call.op = "mtp" => kind = "mtp" /\ gpu.rec = Pending
  BY <1>1, WantType DEF SInv, SessionTypeOK, AtHandOver, Pending
<1>3. gpu' = gpu /\ IInv'
  BY <1>1, EngineRests
<1> DEFINE x == Head(drafts)
           r == Tail(drafts)
<1>4. /\ x \in Token /\ r \in Seq(Token) /\ Len(r) = Len(drafts) - 1
      /\ x = Greedy(ctx_tokens_) /\ Append(ctx_tokens_, x) \o r = ctx_tokens_ \o drafts
  BY <1>1, <1>2, NextPending
<1> HIDE DEF x, r
<1>5. /\ Promise!Next /\ ctx_tokens_' \in Seq(Token) /\ out' \in Seq(Token) /\ Room'
      /\ Len(out') = Len(out) + 1
  <2>1. pc # "idle" /\ pc' # "idle" /\ Produce(Greedy(ctx_tokens_))
    BY <1>1, <1>4 DEF x
  <2>2. QED
    BY <1>1, <2>1, Emitted
<1>6. drafts' = r /\ ctx_tokens_' = Append(ctx_tokens_, x) /\ Pending' = ctx_tokens_ \o drafts
  <2>1. drafts' = r /\ ctx_tokens_' = Append(ctx_tokens_, x)
    BY <1>1 DEF Produce, x, r
  <2>2. QED
    BY <1>4, <2>1 DEF Pending
<1>7. Abs!GreedyFrom(Pending', Len(ctx_tokens_') + 1)
  <2> DEFINE p == ctx_tokens_ \o drafts
             a == Len(ctx_tokens_) + 1
  <2>1. p \in Seq(Token) /\ a \in Nat
    BY <1>2, Joined
  <2>2. Len(ctx_tokens_') = a
    BY <1>2, <1>4, <1>6, Longer
  <2>3. Abs!GreedyFrom(p, a)
    BY <1>2
  <2> HIDE DEF p, a
  <2>4. Abs!GreedyFrom(p, a + 1)
    BY <2>1, <2>3, GreedyLater
  <2>5. QED
    BY <1>6, <2>2, <2>4 DEF p
<1>8. SessionTypeOK' /\ Served'
  <2>1. drafts' \in Seq(Token)
    BY <1>4, <1>6
  <2>2. SessionTypeOK /\ Served
    BY DEF SInv
  <2>3. SessionTypeOK'
    BY <1>1, <1>5, <2>1, <2>2 DEF SessionTypeOK
  <2>4. Served'
    BY <2>2 DEF Served, Repaired
  <2>5. QED
    BY <2>3, <2>4
<1>9. AtHandOver'
  <2>1. Len(out') + Len(drafts') = Len(out) + Len(drafts)
    <3>1. Len(out) \in Nat /\ Len(drafts) \in Nat
      BY <1>2
    <3>2. Len(out') = Len(out) + 1
      BY <1>5
    <3>3. Len(drafts') = Len(drafts) - 1
      BY <1>4, <1>6
    <3>4. QED
      BY <3>1, <3>2, <3>3
  <2>2. gpu' = gpu /\ call' = call /\ Pending' = Pending
    BY <1>1, <1>3, <1>6 DEF Pending, evars
  <2>3. QED
    BY <1>1, <1>2, <1>7, <2>1, <2>2 DEF AtHandOver
<1>10. AtIdle' /\ AtFirst' /\ AtSteps' /\ AtHead' /\ AtFeed'
  BY <1>1 DEF AtIdle, AtFirst, AtSteps, AtHead, AtFeed
<1>11. OwnDrafts'
  BY <1>1, <1>3 DEF SInv, OwnDrafts
<1>12. QED
  BY <1>3, <1>5, <1>8, <1>9, <1>10, <1>11 DEF SKept, SInv

\* What is left over past the request is dropped: the engine is ahead then.
LEMMA EndHandOverKeeps ==
  ASSUME SInv, EndHandOver
  PROVE  SKept
<1>1. /\ pc = "hand over" /\ pc' = "head" /\ (drafts = <<>> \/ Len(out) >= want) /\ drafts' = <<>>
      /\ UNCHANGED evars /\ ctx_tokens_' = ctx_tokens_ /\ want' = want /\ kind' = kind
      /\ spec_n' = spec_n /\ out' = out /\ behind' = behind
  BY DEF EndHandOver
<1>2. /\ ctx_tokens_ \in Seq(Token) /\ drafts \in Seq(Token) /\ out \in Seq(Token) /\ want \in Nat
      /\ IF behind THEN Len(out) + Len(drafts) >= want
         ELSE kind # "off" /\ gpu.rec = Pending /\ Len(out) + Len(drafts) <= want
  BY <1>1, WantType DEF SInv, SessionTypeOK, AtHandOver
<1>3. gpu' = gpu /\ IInv'
  BY <1>1, EngineRests
<1>4. SessionTypeOK' /\ Served'
  <2>1. drafts' \in Seq(Token)
    <3>1. <<>> \in Seq(Token)
      OBVIOUS
    <3>2. drafts' = <<>>
      BY <1>1
    <3>3. QED
      BY <3>1, <3>2
  <2>2. SessionTypeOK /\ Served
    BY DEF SInv
  <2>3. SessionTypeOK'
    BY <1>1, <2>1, <2>2 DEF SessionTypeOK
  <2>4. Served'
    BY <2>2 DEF Served, Repaired
  <2>5. QED
    BY <2>3, <2>4
<1>5. Len(out) \in Nat /\ Len(drafts) \in Nat /\ Len(out) <= want
  <2>1. Len(out) <= want
    BY <1>1 DEF SInv, Room
  <2>2. QED
    BY <1>2, <2>1
<1>6. AtHead'
  <2>1. CASE behind
    <3>1. Len(out) = want
      <4>1. CASE drafts = <<>>
        <5>1. Len(drafts) = 0
          BY <4>1
        <5>2. Len(out) + Len(drafts) >= want
          BY <1>2, <2>1
        <5>3. QED
          BY <1>2, <1>5, <5>1, <5>2
      <4>2. CASE Len(out) >= want
        BY <1>2, <1>5, <4>2
      <4>3. QED
        BY <1>1, <4>1, <4>2
    <3>2. Left'
      BY <1>1, <2>1 DEF Left
    <3>3. QED
      BY <1>1, <3>1, <3>2 DEF AtHead
  <2>2. CASE ~behind
    <3>1. drafts = <<>>
      <4>1. CASE Len(out) >= want
        <5>1. Len(out) + Len(drafts) <= want
          BY <1>2, <2>2
        <5>2. Len(drafts) = 0
          BY <1>2, <1>5, <4>1, <5>1
        <5>3. QED
          BY <1>2, <5>2, NotEmpty
      <4>2. QED
        BY <1>1, <4>1
    <3>2. Pending = ctx_tokens_
      BY <1>2, <3>1 DEF Pending
    <3>3. ~Left' /\ gpu.rec = ctx_tokens_
      BY <1>1, <1>2, <2>2, <3>2 DEF Left
    <3>4. QED
      BY <1>1, <1>3, <3>3 DEF AtHead
  <2>3. QED
    BY <2>1, <2>2
<1>7. AtIdle' /\ AtFirst' /\ AtSteps' /\ AtFeed' /\ AtHandOver'
  BY <1>1 DEF AtIdle, AtFirst, AtSteps, AtFeed, AtHandOver
<1>8. Room' /\ OwnDrafts'
  BY <1>1, <1>3 DEF SInv, Room, OwnDrafts
<1>9. UNCHANGED Promise!vars
  BY <1>1, Quiet
<1>10. QED
  BY <1>3, <1>4, <1>6, <1>7, <1>8, <1>9 DEF SKept, SInv

\* The request is answered in full, and the context is kept unless the engine
\* is behind or ahead of it.
LEMMA ReturnKeeps ==
  ASSUME SInv, Return
  PROVE  SKept
<1>1. /\ pc = "head" /\ Len(out) >= want /\ pc' = "idle" /\ want' = 0 /\ kind' = "off" /\ spec_n' = 0
      /\ out' = <<>> /\ drafts' = <<>> /\ behind' = Left /\ UNCHANGED evars
      /\ ctx_tokens_' = ctx_tokens_
  BY DEF Return, Left
<1>2. out \in Seq(Token) /\ want \in Nat /\ ctx_tokens_ \in Seq(Token) /\ Len(out) <= want
  BY <1>1, WantType DEF SInv, SessionTypeOK, Room
<1>3. gpu' = gpu /\ IInv'
  BY <1>1, EngineRests
<1>4. Len(out) = want
  <2>1. Len(out) \in Nat
    BY <1>2
  <2>2. QED
    BY <1>1, <1>2, <2>1
<1>5. Left \in BOOLEAN
  BY DEF SInv, SessionTypeOK, Left
<1>6. SessionTypeOK' /\ Served'
  <2>1. want' \in 0..MaxWant /\ spec_n' \in Nat
    BY <1>1, WantType DEF SInv
  <2>2. ctx_tokens_' \in Seq(Token) /\ out' \in Seq(Token) /\ drafts' \in Seq(Token)
    BY <1>1, <1>2
  <2>3. QED
    BY <1>1, <1>5, <2>1, <2>2 DEF SInv, SessionTypeOK, Served, Repaired
<1>7. AtIdle'
  BY <1>1, <1>3 DEF SInv, AtHead, AtIdle
<1>8. AtFirst' /\ AtSteps' /\ AtHead' /\ AtFeed' /\ AtHandOver' /\ Room'
  BY <1>1 DEF AtFirst, AtSteps, AtHead, AtFeed, AtHandOver, Room
<1>9. OwnDrafts'
  BY <1>1, <1>3 DEF SInv, OwnDrafts
<1>10. Promise!End
  <2>1. Answers /\ Context = ctx_tokens_ /\ Busy /\ ~Busy'
    BY <1>1 DEF Answers, Context, Busy
  <2>2. CASE Left
    BY <1>1, <1>4, <2>1, <2>2 DEF Promise!End, Answers, Context
  <2>3. CASE ~Left
    BY <1>1, <1>4, <2>1, <2>3 DEF Promise!End, Answers, Context
  <2>4. QED
    BY <2>2, <2>3
<1>11. QED
  BY <1>3, <1>6, <1>7, <1>8, <1>9, <1>10 DEF SKept, SInv, Promise!Next

LEMMA StepKeeps == SInv /\ (ClientCall \/ GenerateStep) => SKept
<1> SUFFICES ASSUME SInv, ClientCall \/ GenerateStep PROVE SKept
  OBVIOUS
<1>1. ASSUME NEW ids \in Prompt PROVE ids \in Seq(Token) /\ Len(ids) >= 1
  <2>1. PICK n \in 1..MaxPrompt : ids \in [1..n -> Token]
    BY DEF Prompt
  <2>2. n \in Nat /\ n >= 1
    BY EngineAssumption
  <2>3. QED
    BY <2>1, <2>2, TokensAreSeq
<1>2. ASSUME NEW ids \in Prompt, ClientPrefill(ids) PROVE SKept
  BY <1>1, <1>2, ClientPrefillKeeps
<1>3. ASSUME NEW t \in Token, ClientDecode(t) PROVE SKept
  BY <1>3, ClientDecodeKeeps
<1>4. ASSUME NEW ids \in Prompt, NEW w \in 0..MaxWant, NEW k \in {"off", "ngram", "mtp"}, NEW n \in Nat,
             Generate(ids, w, k, n)
      PROVE  SKept
  BY <1>1, <1>4, GenerateKeeps
<1>5. ASSUME NEW ids \in Prompt, NEW w \in 0..MaxWant, Generate(ids, w, "off", 0) PROVE SKept
  BY <1>4, <1>5
<1>6. ASSUME NEW ids \in Prompt, NEW w \in 0..MaxWant, NEW k \in {"ngram", "mtp"}, NEW n \in SpecSizes,
             Generate(ids, w, k, n)
      PROVE  SKept
  <2>1. n \in Nat
    BY GpuSessionAssumption
  <2>2. k \in {"off", "ngram", "mtp"}
    OBVIOUS
  <2>3. QED
    BY <1>4, <1>6, <2>1, <2>2
<1>7. CASE ClientCall
  BY <1>2, <1>3, <1>5, <1>6, <1>7 DEF ClientCall
<1>8. CASE GenerateStep
  <2>1. AskEngine => SKept
    BY AskKeeps, AskOnKeeps DEF AskEngine
  <2>2. QED
    BY <1>8, <2>1, EmitFirstKeeps, RunStepsKeeps, EmitHeadKeeps, FeedHeadKeeps, VerifyHeadKeeps,
     HandOverKeeps, EndHandOverKeeps, ReturnKeeps DEF GenerateStep
<1>9. QED
  BY <1>7, <1>8

LEMMA SessionNextInv ==
  SInv /\ [ClientCall \/ GenerateStep]_vars => SInv' /\ [Promise!Next]_(Promise!vars)
<1>1. CASE ClientCall \/ GenerateStep
  BY <1>1, StepKeeps DEF SKept
<1>2. CASE UNCHANGED vars
  <2> SUFFICES ASSUME SInv PROVE SInv' /\ [Promise!Next]_(Promise!vars)
    OBVIOUS
  <2>1. /\ UNCHANGED evars /\ ctx_tokens_' = ctx_tokens_ /\ behind' = behind
        /\ pc' = pc /\ want' = want /\ kind' = kind /\ spec_n' = spec_n /\ out' = out /\ drafts' = drafts
    BY <1>2 DEF vars, run
  <2>2. gpu' = gpu /\ call' = call /\ IInv' /\ OneShort' = OneShort
    BY <2>1, EngineRests DEF OneShort, evars
  <2>3. SessionTypeOK' /\ Served'
    BY <2>1 DEF SInv, SessionTypeOK, Served, Repaired
  <2>4. AtIdle' /\ AtFirst' /\ AtSteps' /\ AtHead'
    BY <2>1, <2>2 DEF SInv, AtIdle, AtFirst, AtSteps, AtHead, Left
  <2>5. AtFeed' /\ AtHandOver' /\ Room' /\ OwnDrafts'
    BY <2>1, <2>2 DEF SInv, AtFeed, AtHandOver, Room, OwnDrafts, Left, Pending
  <2>6. UNCHANGED Promise!vars
    BY <2>1 DEF Promise!vars, Answers, Context, Busy
  <2>7. QED
    BY <2>2, <2>3, <2>4, <2>5, <2>6 DEF SInv
<1>3. QED
  BY <1>1, <1>2

\* Wherever a generate of session.cpp stands, the engine, the token list and
\* what it has produced fit together.
THEOREM SessionInvariance == Served /\ SessionSpec => []SInv
BY SessionInitKeeps, SessionNextInv, PTL DEF SessionSpec

\* Between calls the engine is the context of the client, unless a generate left
\* it a token short or some ahead, where the engine is one that repairs what it
\* rejects and its head keeps to GoodPaths.
THEOREM MatchesContext == Served /\ SessionSpec => []EngineMatchesContext
<1>1. SInv => EngineMatchesContext
  <2> SUFFICES ASSUME SInv, pc = "idle", ~behind
               PROVE  /\ gpu.rec = ctx_tokens_
                      /\ gpu.pos = Len(ctx_tokens_) /\ Rows(gpu.kv, gpu.pos) = ctx_tokens_
                      /\ gpu.last = Greedy(ctx_tokens_)
    BY DEF EngineMatchesContext
  <2>1. gpu.rec = ctx_tokens_
    BY DEF SInv, AtIdle
  <2>2. gpu.rec = Rows(gpu.kv, gpu.pos)
    BY SParts DEF Sound
  <2>3. QED
    BY <2>1, <2>2, SParts
<1>2. QED
  BY SessionInvariance, <1>1, PTL

\* With and without drafts, from the host or from the head on the device (on the
\* paths of GoodPaths), and with any graphs whose misses are repaired, generate
\* produces what greedy decoding does.
THEOREM SessionImplements == Served /\ SessionSpec => ImplementsGreedy
BY SessionInitKeeps, SessionNextInv, SessionInvariance, PTL DEF SessionSpec, ImplementsGreedy, Promise!Spec
=============================================================================
