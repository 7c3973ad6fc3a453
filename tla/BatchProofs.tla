---------------------------- MODULE BatchProofs ----------------------------
(***************************************************************************)
(* Batched generation: for every model, vocabulary, number of slots,       *)
(* window and batch, the slots stand for the sequences of the batch.       *)
(***************************************************************************)
EXTENDS BatchProps, SequenceTheorems, TLAPS

Positions == INSTANCE NgramProofs WITH MaxLen <- 0, MaxTake <- 0, ctx <- <<>>

LEMMA MinOfTwo ==
  ASSUME NEW a \in Int, NEW b \in Int
  PROVE  Min({a, b}) = IF a <= b THEN a ELSE b
BY DEF Min

LEMMA MaxOfTwo ==
  ASSUME NEW a \in Int, NEW b \in Int
  PROVE  Max({a, b}) = IF a >= b THEN a ELSE b
BY DEF Max

-----------------------------------------------------------------------------
(***************************************************************************)
(* Rows                                                                    *)
(***************************************************************************)
\* w rows for each of m slots: each row is that of one position of one slot.
LEMMA RowOf ==
  ASSUME NEW m \in Nat, NEW w \in Nat \ {0}, NEW s \in 0..(m - 1), NEW q \in 0..(w - 1)
  PROVE  s * w + q \in 0..(m * w - 1) /\ (s * w + q) \div w = s /\ (s * w + q) % w = q
OBVIOUS

LEMMA FewerRows ==
  ASSUME NEW n \in Nat, NEW m \in Nat \ {0}, NEW w \in Nat \ {0}, n <= m
  PROVE  n * w \in Nat /\ m * w \in Nat /\ n * w <= m * w /\ w <= m * w
OBVIOUS

LEMMA Remainder ==
  ASSUME NEW r \in Nat, NEW w \in Nat \ {0}
  PROVE  r % w \in 0..(w - 1)
OBVIOUS

-----------------------------------------------------------------------------
(***************************************************************************)
(* Engines                                                                 *)
(***************************************************************************)
Stored == Token \cup {Blank}
Slots(e) == 0..(e.max - 1)

Fields == {"max", "win", "tq", "flash", "tile", "pos", "last", "rec", "kv", "compact", "best"}
Shaped(e) == DOMAIN e = Fields

Typed(e) ==
  /\ Shaped(e)
  /\ e.max \in Nat \ {0} /\ e.win \in 1..Ctx /\ (~e.tq => e.win = Ctx)
  /\ e.pos \in 0..Ctx /\ e.last \in Token
  /\ e.rec \in [Slots(e) -> TokenSeq]
  /\ e.kv \in [0..(e.max * e.win - 1) -> Stored]
  /\ e.compact \in [Slots(e) -> [0..(Ctx - 1) -> Stored]]
  /\ e.best \in [Slots(e) -> Token]

\* What was built stays.
SameBuild(e, f) == f.max = e.max /\ f.win = e.win /\ f.tq = e.tq /\ f.flash = e.flash /\ f.tile = e.tile

\* The F16 row of a position of a slot.
Cell(e, s, q) == e.kv[Row(e, s, q)]

LEMMA Sizes ==
  /\ Vocab \in Nat \ {0} /\ Ctx \in Nat \ {0} /\ PfCap \in Nat \ {0} /\ SeqCap \in Nat
  /\ 0 \in Token /\ Token \subseteq Stored /\ Blank \in Stored
BY SlotEngineAssumption DEF Token, Stored, Blank

LEMMA SampleType == \A r, c : Sample(r, c) \in Token
BY Sizes DEF Sample

\* The memory that an operation writes, and the results it leaves.
Put(e, r, k, c) == [e EXCEPT !.rec = r, !.kv = k, !.compact = c]
Leave(e, p, l) == [e EXCEPT !.pos = p, !.last = l]

LEMMA PutFields ==
  ASSUME NEW e, Shaped(e), NEW r, NEW k, NEW c
  PROVE  LET f == Put(e, r, k, c)
         IN  Shaped(f) /\ SameBuild(e, f) /\ f.pos = e.pos /\ f.last = e.last /\ f.best = e.best
             /\ f.rec = r /\ f.kv = k /\ f.compact = c
BY DEF Put, Shaped, Fields, SameBuild

LEMMA LeaveFields ==
  ASSUME NEW e, Shaped(e), NEW p, NEW l
  PROVE  LET f == Leave(e, p, l)
         IN  Shaped(f) /\ SameBuild(e, f) /\ f.pos = p /\ f.last = l /\ f.best = e.best
             /\ f.rec = e.rec /\ f.kv = e.kv /\ f.compact = e.compact
BY DEF Leave, Shaped, Fields, SameBuild

\* ts can be stored from position p on, rows for W and compact rows for C.
Storable(e, p, ts, W, C) ==
  /\ p \in 0..Ctx /\ ts \in Seq(Token) /\ p + Len(ts) <= Ctx
  /\ W \subseteq p..(p + Len(ts) - 1) /\ W \subseteq 0..(e.win - 1)
  /\ C \subseteq p..(p + Len(ts) - 1)

\* Stores of tokens at the positions of a set.
StoreRows(e, s, p, ts, W) ==
  Over([r \in {Row(e, s, q) : q \in W} \cap DOMAIN e.kv |-> ts[r - Row(e, s, p) + 1]], e.kv)
StoreCompact(e, s, p, ts, C) == Over([q \in C |-> ts[q - p + 1]], e.compact[s])
FedRec(e, s, ts) == [e.rec EXCEPT ![s] = @ \o ts]
FedCompact(e, s, p, ts, C) == [e.compact EXCEPT ![s] = StoreCompact(e, s, p, ts, C)]

LEMMA FedFields ==
  ASSUME NEW e, Shaped(e), NEW s, NEW p, NEW ts, NEW W, NEW C
  PROVE  LET f == Fed(e, s, p, ts, W, C)
         IN  Shaped(f) /\ SameBuild(e, f) /\ f.pos = e.pos /\ f.last = e.last /\ f.best = e.best
             /\ f.rec = FedRec(e, s, ts) /\ f.kv = StoreRows(e, s, p, ts, W)
             /\ f.compact = FedCompact(e, s, p, ts, C)
<1> DEFINE r == FedRec(e, s, ts)
           k == StoreRows(e, s, p, ts, W)
           c == FedCompact(e, s, p, ts, C)
<1>1. Fed(e, s, p, ts, W, C) = Put(e, r, k, c)
  BY DEF Fed, Put, StoreRows, StoreCompact, FedRec, FedCompact, Shaped, Fields
<1> HIDE DEF r, k, c
<1>2. LET f == Put(e, r, k, c)
      IN  Shaped(f) /\ SameBuild(e, f) /\ f.pos = e.pos /\ f.last = e.last /\ f.best = e.best
          /\ f.rec = r /\ f.kv = k /\ f.compact = c
  BY PutFields
<1>3. QED
  BY <1>1, <1>2 DEF r, k, c

\* Rows of different positions are different rows.
LEMMA RowIs ==
  ASSUME NEW e, e.max \in Nat \ {0}, e.win \in 1..Ctx, NEW s \in Slots(e), NEW q \in 0..(e.win - 1)
  PROVE  /\ Row(e, s, q) \in 0..(e.max * e.win - 1)
         /\ Row(e, s, q) \div e.win = s /\ Row(e, s, q) % e.win = q
<1>1. e.win \in Nat \ {0} /\ e.max \in Nat /\ s \in 0..(e.max - 1)
  BY Sizes DEF Slots
<1> DEFINE m == e.max
           w == e.win
<1>2. m \in Nat /\ w \in Nat \ {0} /\ s \in 0..(m - 1) /\ q \in 0..(w - 1)
  BY <1>1
<1>3. Row(e, s, q) = s * w + q
  BY DEF Row
<1> HIDE DEF m, w
<1>4. s * w + q \in 0..(m * w - 1) /\ (s * w + q) \div w = s /\ (s * w + q) % w = q
  BY <1>2, RowOf
<1>5. QED
  BY <1>3, <1>4 DEF m, w

\* Where the tokens of a store go in the window.
LEMMA StoredRows ==
  ASSUME NEW e, Typed(e), NEW s \in Slots(e), NEW p, NEW ts, NEW W, NEW C, Storable(e, p, ts, W, C)
  PROVE  /\ StoreRows(e, s, p, ts, W) \in [0..(e.max * e.win - 1) -> Stored]
         /\ \A t \in Slots(e) : \A q \in 0..(e.win - 1) :
              StoreRows(e, s, p, ts, W)[Row(e, t, q)] =
                IF t = s /\ q \in W THEN ts[q - p + 1] ELSE Cell(e, t, q)
<1> DEFINE D == 0..(e.max * e.win - 1)
           S == {Row(e, s, q) : q \in W} \cap D
           f == [r \in S |-> ts[r - Row(e, s, p) + 1]]
<1>0. /\ e.max \in Nat \ {0} /\ e.win \in 1..Ctx /\ e.kv \in [D -> Stored] /\ Ctx \in Nat
      /\ p \in 0..Ctx /\ ts \in Seq(Token) /\ Len(ts) \in Nat
      /\ W \subseteq p..(p + Len(ts) - 1) /\ W \subseteq 0..(e.win - 1)
  BY Sizes DEF Typed, Storable
<1>1. \A q \in W : Row(e, s, q) - Row(e, s, p) = q - p
  BY <1>0 DEF Row, Slots
<1>2. f \in [S -> Stored]
  <2>1. ASSUME NEW r \in S PROVE ts[r - Row(e, s, p) + 1] \in Stored
    <3>1. PICK q \in W : r = Row(e, s, q)
      OBVIOUS
    <3>2. r - Row(e, s, p) + 1 = q - p + 1 /\ q - p + 1 \in 1..Len(ts)
      BY <1>0, <1>1, <3>1
    <3>3. QED
      BY <1>0, <3>2, Sizes, ElementOfSeq
  <2>2. QED
    BY <2>1
<1>3. StoreRows(e, s, p, ts, W) = Over(f, e.kv)
  BY <1>0 DEF StoreRows
<1>s. S \in SUBSET D /\ e.kv \in [D -> Stored]
  BY <1>0
<1> HIDE DEF f, D, S
<1>o. Over(f, e.kv) = [x \in D |-> IF x \in S THEN f[x] ELSE e.kv[x]]
  <2>1. DOMAIN f = S /\ DOMAIN e.kv = D /\ S \subseteq D
    BY <1>s, <1>2
  <2>2. QED
    BY <2>1 DEF Over
<1>4. /\ Over(f, e.kv) \in [D -> Stored]
      /\ \A x \in D : Over(f, e.kv)[x] = IF x \in S THEN f[x] ELSE e.kv[x]
  BY <1>s, <1>2, <1>o
<1>5. ASSUME NEW t \in Slots(e), NEW q \in 0..(e.win - 1)
      PROVE  Over(f, e.kv)[Row(e, t, q)] = IF t = s /\ q \in W THEN ts[q - p + 1] ELSE Cell(e, t, q)
  <2>1. Row(e, t, q) \in D /\ Row(e, t, q) \div e.win = t /\ Row(e, t, q) % e.win = q
    BY <1>0, RowIs DEF D
  <2>2. CASE t = s /\ q \in W
    <3>1. Row(e, t, q) \in S
      BY <2>1, <2>2 DEF S
    <3>2. f[Row(e, t, q)] = ts[q - p + 1]
      BY <1>1, <2>2, <3>1 DEF f
    <3>3. QED
      BY <1>4, <2>1, <2>2, <3>1, <3>2
  <2>3. CASE ~(t = s /\ q \in W)
    <3>1. Row(e, t, q) \notin S
      <4>1. SUFFICES ASSUME Row(e, t, q) \in S PROVE FALSE
        OBVIOUS
      <4>2. PICK x \in W : Row(e, t, q) = Row(e, s, x)
        BY <4>1 DEF S
      <4>3. Row(e, s, x) \div e.win = s /\ Row(e, s, x) % e.win = x
        BY <1>0, RowIs
      <4>4. QED
        BY <2>1, <2>3, <4>2, <4>3
    <3>2. QED
      BY <1>4, <2>1, <2>3, <3>1 DEF Cell
  <2>4. QED
    BY <2>2, <2>3
<1>6. QED
  BY <1>3, <1>4, <1>5 DEF D

LEMMA StoredCompact ==
  ASSUME NEW e, Typed(e), NEW s \in Slots(e), NEW p, NEW ts, NEW W, NEW C, Storable(e, p, ts, W, C)
  PROVE  /\ StoreCompact(e, s, p, ts, C) \in [0..(Ctx - 1) -> Stored]
         /\ \A q \in 0..(Ctx - 1) :
              StoreCompact(e, s, p, ts, C)[q] = IF q \in C THEN ts[q - p + 1] ELSE e.compact[s][q]
<1> DEFINE f == [q \in C |-> ts[q - p + 1]]
<1>0. /\ Ctx \in Nat /\ Len(ts) \in Nat /\ e.compact[s] \in [0..(Ctx - 1) -> Stored]
      /\ p \in 0..Ctx /\ ts \in Seq(Token) /\ p + Len(ts) <= Ctx /\ C \subseteq p..(p + Len(ts) - 1)
  BY Sizes DEF Typed, Storable
<1>1. f \in [C -> Stored]
  <2>1. \A q \in C : q - p + 1 \in 1..Len(ts)
    BY <1>0
  <2>2. QED
    BY <1>0, <2>1, Sizes, ElementOfSeq
<1> DEFINE D == 0..(Ctx - 1)
           g == e.compact[s]
<1>2. C \in SUBSET D /\ f \in [C -> Stored] /\ g \in [D -> Stored]
  BY <1>0, <1>1
<1>3. StoreCompact(e, s, p, ts, C) = Over(f, e.compact[s])
  BY DEF StoreCompact
<1>4. \A q \in C : f[q] = ts[q - p + 1]
  OBVIOUS
<1> HIDE DEF f, D, g
<1>o. Over(f, g) = [q \in D |-> IF q \in C THEN f[q] ELSE g[q]]
  <2>1. DOMAIN f = C /\ DOMAIN g = D /\ C \subseteq D
    BY <1>2
  <2>2. QED
    BY <2>1 DEF Over
<1>5. /\ Over(f, g) \in [D -> Stored]
      /\ \A q \in D : Over(f, g)[q] = IF q \in C THEN f[q] ELSE g[q]
  BY <1>2, <1>o
<1>6. QED
  BY <1>3, <1>4, <1>5 DEF D, g

\* f is e after ts were fed to slot s from position p on, and nothing else was.
Wrote(e, f, s, p, ts, W, C) ==
  /\ f.rec[s] = e.rec[s] \o ts
  /\ \A t \in Slots(e) : t # s => f.rec[t] = e.rec[t] /\ f.compact[t] = e.compact[t]
  /\ \A t \in Slots(e) : \A q \in 0..(e.win - 1) :
       Cell(f, t, q) = IF t = s /\ q \in W THEN ts[q - p + 1] ELSE Cell(e, t, q)
  /\ \A q \in 0..(Ctx - 1) : f.compact[s][q] = IF q \in C THEN ts[q - p + 1] ELSE e.compact[s][q]

\* A store reaches the slot it is for, at the positions it is for.
LEMMA FedIs ==
  ASSUME NEW e, Typed(e), NEW s \in Slots(e), NEW p, NEW ts, NEW W, NEW C, Storable(e, p, ts, W, C)
  PROVE  LET f == Fed(e, s, p, ts, W, C)
         IN  /\ Typed(f) /\ SameBuild(e, f) /\ f.pos = e.pos /\ f.last = e.last /\ f.best = e.best
             /\ Wrote(e, f, s, p, ts, W, C)
<1> DEFINE f == Fed(e, s, p, ts, W, C)
           K == StoreRows(e, s, p, ts, W)
           M == StoreCompact(e, s, p, ts, C)
<1>1. /\ Shaped(f) /\ SameBuild(e, f) /\ f.pos = e.pos /\ f.last = e.last /\ f.best = e.best
      /\ f.rec = FedRec(e, s, ts) /\ f.kv = K /\ f.compact = FedCompact(e, s, p, ts, C)
  <2>1. Shaped(e)
    BY DEF Typed
  <2>2. QED
    BY <2>1, FedFields
<1>2. /\ K \in [0..(e.max * e.win - 1) -> Stored]
      /\ \A t \in Slots(e) : \A q \in 0..(e.win - 1) :
           K[Row(e, t, q)] = IF t = s /\ q \in W THEN ts[q - p + 1] ELSE Cell(e, t, q)
  BY StoredRows
<1>3. /\ M \in [0..(Ctx - 1) -> Stored]
      /\ \A q \in 0..(Ctx - 1) : M[q] = IF q \in C THEN ts[q - p + 1] ELSE e.compact[s][q]
  BY StoredCompact
<1> HIDE DEF f, K, M
<1>4. f.rec \in [Slots(e) -> TokenSeq] /\ f.rec[s] = e.rec[s] \o ts
      /\ \A t \in Slots(e) : t # s => f.rec[t] = e.rec[t]
  <2>1. e.rec \in [Slots(e) -> TokenSeq] /\ e.rec[s] \in Seq(Token)
    BY DEF Typed, TokenSeq
  <2>t. ts \in Seq(Token)
    BY DEF Storable
  <2>2. e.rec[s] \o ts \in TokenSeq
    BY <2>1, <2>t, ConcatProperties DEF TokenSeq
  <2>3. QED
    BY <1>1, <2>1, <2>2 DEF FedRec
<1>5. f.compact \in [Slots(e) -> [0..(Ctx - 1) -> Stored]] /\ f.compact[s] = M
      /\ \A t \in Slots(e) : t # s => f.compact[t] = e.compact[t]
  BY <1>1, <1>3 DEF Typed, FedCompact, M
<1>6. Slots(f) = Slots(e) /\ f.max = e.max /\ f.win = e.win /\ (~f.tq <=> ~e.tq)
  BY <1>1 DEF Slots, SameBuild
<1>7. Typed(f)
  BY <1>1, <1>2, <1>4, <1>5, <1>6 DEF Typed
<1>8. \A t, q : Cell(f, t, q) = K[Row(e, t, q)]
  BY <1>1, <1>6 DEF Cell, Row
<1>9. QED
  BY <1>1, <1>2, <1>3, <1>4, <1>5, <1>7, <1>8 DEF f, Wrote

-----------------------------------------------------------------------------
(***************************************************************************)
(* One sequence in a slot                                                  *)
(***************************************************************************)
\* The rows of slot s are those of h, in the window or compact.
InWindow(e, s, h) == \A q \in 0..(Len(h) - 1) : q < e.win /\ Cell(e, s, q) = h[q + 1]
InCompact(e, s, h) == \A q \in 0..(Len(h) - 1) : e.compact[s][q] = h[q + 1]

\* What an operation on slot s leaves of slot t.
Untouched(e, f, t) ==
  /\ f.rec[t] = e.rec[t] /\ f.compact[t] = e.compact[t]
  /\ \A q \in 0..(e.win - 1) : Cell(f, t, q) = Cell(e, t, q)

LEMMA SeqIs ==
  ASSUME NEW h \in Seq(Token)
  PROVE  Len(h) \in Nat /\ h = [k \in 1..Len(h) |-> h[k]] /\ \A k \in 1..Len(h) : h[k] \in Token
OBVIOUS

LEMMA AttendedIs ==
  ASSUME NEW e, Typed(e), NEW s \in Slots(e), NEW h \in Seq(Token), NEW c,
         IF c THEN InCompact(e, s, h) ELSE InWindow(e, s, h)
  PROVE  Attended(e, s, Len(h), c) = h
<1>0. Len(h) \in Nat /\ h = [k \in 1..Len(h) |-> h[k]]
  BY SeqIs
<1>1. CASE c
  <2>1. \A k \in 1..Len(h) : e.compact[s][k - 1] = h[k]
    <3>1. TAKE k \in 1..Len(h)
    <3>2. k - 1 \in 0..(Len(h) - 1) /\ k - 1 + 1 = k
      BY <1>0
    <3>3. QED
      BY <1>1, <3>2 DEF InCompact
  <2>2. Attended(e, s, Len(h), c) = [k \in 1..Len(h) |-> e.compact[s][k - 1]]
    BY <1>1 DEF Attended
  <2>3. QED
    BY <1>0, <2>1, <2>2
<1>2. CASE ~c
  <2>1. \A k \in 1..Len(h) : Row(e, s, k - 1) \in DOMAIN e.kv /\ e.kv[Row(e, s, k - 1)] = h[k]
    <3>1. TAKE k \in 1..Len(h)
    <3>2. k - 1 \in 0..(Len(h) - 1) /\ k - 1 + 1 = k
      BY <1>0
    <3>3. k - 1 < e.win /\ e.kv[Row(e, s, k - 1)] = h[k]
      BY <1>2, <3>2 DEF InWindow, Cell
    <3>4. e.max \in Nat \ {0} /\ e.win \in 1..Ctx /\ k - 1 \in 0..(e.win - 1)
      BY <3>2, <3>3, Sizes DEF Typed
    <3>5. Row(e, s, k - 1) \in 0..(e.max * e.win - 1)
      BY <3>4, RowIs
    <3>6. QED
      BY <3>3, <3>5 DEF Typed
  <2>2. Attended(e, s, Len(h), c) =
          [k \in 1..Len(h) |-> IF Row(e, s, k - 1) \in DOMAIN e.kv THEN e.kv[Row(e, s, k - 1)] ELSE Blank]
    BY <1>2 DEF Attended, WindowRows
  <2>3. QED
    BY <1>0, <2>1, <2>2
<1>3. QED
  BY <1>1, <1>2

LEMMA AttendedSame ==
  ASSUME NEW e, NEW f, SameBuild(e, f), f.kv = e.kv, f.compact = e.compact, NEW s, NEW n, NEW c
  PROVE  Attended(f, s, n, c) = Attended(e, s, n, c)
BY DEF Attended, WindowRows, Row, SameBuild

SameMemory(g, f) == SameBuild(g, f) /\ f.rec = g.rec /\ f.kv = g.kv /\ f.compact = g.compact

LEMMA WroteSame ==
  ASSUME NEW e, NEW g, NEW f, NEW s, NEW p, NEW ts, NEW W, NEW C,
         Wrote(e, g, s, p, ts, W, C), SameMemory(g, f)
  PROVE  Wrote(e, f, s, p, ts, W, C)
<1>1. \A t, q : Cell(f, t, q) = Cell(g, t, q)
  BY DEF SameMemory, SameBuild, Cell, Row
<1>2. QED
  BY <1>1 DEF Wrote, SameMemory

\* The results an operation leaves are a position and a token.
LEMMA LeaveTyped ==
  ASSUME NEW e, Typed(e), NEW p \in 0..Ctx, NEW l \in Token
  PROVE  LET f == Leave(e, p, l)
         IN  Typed(f) /\ SameMemory(e, f) /\ f.pos = p /\ f.last = l /\ f.best = e.best
<1> DEFINE f == Leave(e, p, l)
<1>0. Shaped(e)
  BY DEF Typed
<1>1. Shaped(f) /\ SameBuild(e, f) /\ f.pos = p /\ f.last = l /\ f.best = e.best
      /\ f.rec = e.rec /\ f.kv = e.kv /\ f.compact = e.compact
  BY <1>0, LeaveFields
<1> HIDE DEF f
<1>2. Slots(f) = Slots(e) /\ f.max = e.max /\ f.win = e.win /\ (~f.tq <=> ~e.tq)
  BY <1>1 DEF Slots, SameBuild
<1>3. Typed(f) /\ SameMemory(e, f)
  BY <1>1, <1>2 DEF Typed, SameMemory
<1>4. QED
  BY <1>1, <1>3 DEF f

LEMMA LikeBuilt ==
  ASSUME NEW e, NEW f, NEW g, SameBuild(e, f), SameBuild(f, g)
  PROVE  SameBuild(e, g)
BY DEF SameBuild

\* What a chain of decodes stores: the positions that get a row in the window,
\* and those that get a compact one.
DecodedRows(e, n) == {q \in e.pos..(e.pos + n - 1) : e.tq => q < e.win}
DecodedCompact(e, n) == {q \in e.pos..(e.pos + n - 1) : e.tq /\ (q >= e.win \/ ~e.flash)}

LEMMA DecodeIs ==
  ASSUME NEW e, Typed(e), NEW ts \in Seq(Token), e.pos + Len(ts) <= Ctx
  PROVE  LET f == Decode(e, ts)
         IN  /\ Typed(f) /\ SameBuild(e, f) /\ f.pos = e.pos + Len(ts) /\ f.best = e.best
             /\ Wrote(e, f, 0, e.pos, ts, DecodedRows(e, Len(ts)), DecodedCompact(e, Len(ts)))
             /\ f.last = Sample(f.rec[0], Attended(f, 0, f.pos, e.tq /\ f.pos > e.win))
<1> DEFINE n == Len(ts)
           W == DecodedRows(e, n)
           C == DecodedCompact(e, n)
           g == Fed(e, 0, e.pos, ts, W, C)
           h == [g EXCEPT !.pos = @ + n]
           l == Sample(h.rec[0], Attended(h, 0, h.pos, e.tq /\ h.pos > e.win))
           f == Leave(g, e.pos + n, l)
<1>0. /\ e.pos \in 0..Ctx /\ n \in Nat /\ e.win \in 1..Ctx /\ (~e.tq => e.win = Ctx) /\ Ctx \in Nat
      /\ e.max \in Nat \ {0} /\ 0 \in Slots(e) /\ e.pos + n <= Ctx
  BY Sizes DEF Typed, Slots
<1>1. Storable(e, e.pos, ts, W, C)
  BY <1>0 DEF Storable, DecodedRows, DecodedCompact
<1>2. /\ Typed(g) /\ SameBuild(e, g) /\ g.pos = e.pos /\ g.best = e.best
      /\ Wrote(e, g, 0, e.pos, ts, W, C)
  BY <1>0, <1>1, FedIs
<1>3. Decode(e, ts) = f
  <2>1. Shaped(g)
    BY <1>2 DEF Typed
  <2>2. Decode(e, ts) = [h EXCEPT !.last = l]
    BY DEF Decode, DecodedRows, DecodedCompact
  <2>3. [h EXCEPT !.last = l] = [g EXCEPT !.pos = e.pos + n, !.last = l]
    <3> HIDE DEF g, l, n
    <3>1. QED
      BY <1>2, <2>1 DEF Shaped, Fields
  <2>4. QED
    BY <2>2, <2>3 DEF Leave
<1>4. SameBuild(g, h) /\ h.kv = g.kv /\ h.compact = g.compact /\ h.rec = g.rec /\ h.pos = e.pos + n
  <2> HIDE DEF g, n
  <2>1. QED
    BY <1>2 DEF Typed, Shaped, Fields, SameBuild
<1>5. l \in Token /\ e.pos + n \in 0..Ctx
  BY <1>0, SampleType
<1> HIDE DEF W, C, g, h, l, n
<1>6. Typed(f) /\ SameMemory(g, f) /\ f.pos = e.pos + n /\ f.last = l /\ f.best = g.best
  BY <1>2, <1>5, LeaveTyped
<1> HIDE DEF f
<1>7. Wrote(e, f, 0, e.pos, ts, W, C)
  BY <1>2, <1>6, WroteSame
<1>8. SameBuild(e, f)
  BY <1>2, <1>6, LikeBuilt DEF SameMemory
<1>9. l = Sample(f.rec[0], Attended(f, 0, f.pos, e.tq /\ f.pos > e.win))
  <2>1. \A c : Attended(h, 0, e.pos + n, c) = Attended(g, 0, e.pos + n, c)
    BY <1>4, AttendedSame
  <2>2. \A c : Attended(f, 0, e.pos + n, c) = Attended(g, 0, e.pos + n, c)
    BY <1>6, AttendedSame DEF SameMemory
  <2>3. f.rec[0] = h.rec[0]
    BY <1>4, <1>6 DEF SameMemory
  <2>4. QED
    BY <1>4, <1>6, <2>1, <2>2, <2>3 DEF l
<1>10. QED
  BY <1>2, <1>3, <1>6, <1>7, <1>8, <1>9 DEF n, W, C

-----------------------------------------------------------------------------
(***************************************************************************)
(* A prompt fed by launches                                                *)
(***************************************************************************)
LEMMA TiledIs ==
  ASSUME NEW e, NEW n \in Nat
  PROVE  Tiled(e, n) \in 0..n /\ (~e.tile \/ n < PfCap => Tiled(e, n) = 0)
<1> DEFINE d == n \div PfCap
<1>1. PfCap \in Nat \ {0}
  BY Sizes
<1>2. d \in Nat /\ d * PfCap <= n /\ (n < PfCap => d = 0)
  BY <1>1
<1>3. Min({d, 2}) = IF d <= 2 THEN d ELSE 2
  BY <1>2, MinOfTwo
<1>4. Tiled(e, n) = IF e.tile THEN Min({d, 2}) * PfCap ELSE 0
  BY DEF Tiled
<1> HIDE DEF d
<1>5. CASE ~e.tile
  BY <1>4, <1>5
<1>6. CASE e.tile /\ d <= 2
  <2>1. Tiled(e, n) = d * PfCap /\ d * PfCap \in Nat
    BY <1>1, <1>2, <1>3, <1>4, <1>6
  <2>2. QED
    BY <1>1, <1>2, <1>6, <2>1
<1>7. CASE e.tile /\ d > 2
  <2>1. Tiled(e, n) = 2 * PfCap
    BY <1>2, <1>3, <1>4, <1>7
  <2>2. 2 * PfCap <= d * PfCap
    BY <1>1, <1>2, <1>7
  <2>3. QED
    BY <1>1, <1>2, <1>7, <2>1, <2>2
<1>8. QED
  BY <1>2, <1>5, <1>6, <1>7

\* A launch ends behind each position it feeds.
LEMMA LaunchEndIs ==
  ASSUME NEW n \in Nat, NEW q \in 0..(n - 1)
  PROVE  LaunchEnd(q, n) \in Nat /\ q < LaunchEnd(q, n) /\ LaunchEnd(q, n) <= n
<1> DEFINE z == (q \div PfCap + 1) * PfCap
<1>1. PfCap \in Nat \ {0}
  BY Sizes
<1>2. z \in Nat /\ q < z
  BY <1>1
<1>3. LaunchEnd(q, n) = Min({z, n})
  BY DEF LaunchEnd
<1> HIDE DEF z
<1>4. Min({z, n}) = IF z <= n THEN z ELSE n
  BY <1>2, MinOfTwo
<1>5. QED
  BY <1>2, <1>3, <1>4

LEMMA Cut ==
  ASSUME NEW ids \in Seq(Token), NEW R \in 0..Len(ids)
  PROVE  /\ SubSeq(ids, 1, R) \in Seq(Token) /\ Len(SubSeq(ids, 1, R)) = R
         /\ \A k \in 1..R : SubSeq(ids, 1, R)[k] = ids[k]
         /\ SubSeq(ids, R + 1, Len(ids)) \in Seq(Token) /\ Len(SubSeq(ids, R + 1, Len(ids))) = Len(ids) - R
         /\ \A k \in 1..(Len(ids) - R) : SubSeq(ids, R + 1, Len(ids))[k] = ids[R + k]
<1>1. Len(ids) \in Nat
  OBVIOUS
<1>2. /\ SubSeq(ids, 1, R) \in Seq(Token) /\ Len(SubSeq(ids, 1, R)) = R
      /\ \A k \in 1..R : SubSeq(ids, 1, R)[k] = ids[k]
  BY <1>1
<1>3. /\ SubSeq(ids, R + 1, Len(ids)) \in Seq(Token) /\ Len(SubSeq(ids, R + 1, Len(ids))) = Len(ids) - R
      /\ \A k \in 1..(Len(ids) - R) : SubSeq(ids, R + 1, Len(ids))[k] = ids[R + k]
  BY <1>1
<1>4. QED
  BY <1>2, <1>3

LEMMA Rejoined ==
  ASSUME NEW ids \in Seq(Token), NEW R \in 0..Len(ids)
  PROVE  /\ (<<>> \o SubSeq(ids, 1, R)) \o SubSeq(ids, R + 1, Len(ids)) = ids
         /\ (R = 0 => SubSeq(ids, R + 1, Len(ids)) = ids)
<1> DEFINE a == SubSeq(ids, 1, R)
           b == SubSeq(ids, R + 1, Len(ids))
<1>0. Len(ids) \in Nat
  OBVIOUS
<1>1. /\ a \in Seq(Token) /\ Len(a) = R /\ \A k \in 1..R : a[k] = ids[k]
      /\ b \in Seq(Token) /\ Len(b) = Len(ids) - R /\ \A k \in 1..(Len(ids) - R) : b[k] = ids[R + k]
  BY Cut
<1> HIDE DEF a, b
<1>2. <<>> \o a = a
  BY <1>1
<1>3. a \o b \in Seq(Token) /\ Len(a \o b) = Len(ids) /\ \A k \in 1..Len(ids) : (a \o b)[k] = ids[k]
  <2>1. /\ a \o b \in Seq(Token) /\ Len(a \o b) = Len(a) + Len(b)
        /\ \A k \in 1..(Len(a) + Len(b)) : (a \o b)[k] = IF k <= Len(a) THEN a[k] ELSE b[k - Len(a)]
    BY <1>1, ConcatProperties
  <2>2. Len(a) + Len(b) = Len(ids)
    BY <1>0, <1>1
  <2>3. ASSUME NEW k \in 1..Len(ids) PROVE (a \o b)[k] = ids[k]
    <3>1. CASE k <= R
      BY <1>1, <2>1, <2>2, <3>1
    <3>2. CASE k > R
      <4>1. k - R \in 1..(Len(ids) - R) /\ R + (k - R) = k
        BY <1>0, <3>2
      <4>2. b[k - R] = ids[k]
        BY <1>1, <4>1
      <4>3. QED
        BY <1>1, <2>1, <2>2, <3>2, <4>2
    <3>3. k <= R \/ k > R
      BY <1>0
    <3>4. QED
      BY <3>1, <3>2, <3>3
  <2>4. QED
    BY <2>1, <2>2, <2>3
<1>4. a \o b = ids
  BY <1>3, SeqEqual
<1>5. R = 0 => b = ids
  <2>1. SUFFICES ASSUME R = 0 PROVE b = ids
    OBVIOUS
  <2>2. Len(b) = Len(ids) /\ \A k \in 1..Len(ids) : b[k] = ids[k]
    BY <1>0, <1>1, <2>1
  <2>3. QED
    BY <1>1, <2>2, SeqEqual
<1>6. QED
  BY <1>2, <1>4, <1>5 DEF a, b

\* What launches store of the positions P of n.
LaunchedRows(e, n, P) == {q \in P : LaunchEnd(q, n) <= e.win}
LaunchedCompact(e, P) == {q \in P : e.tq}

\* The tiles are fed to slot 0, the rest to the slot that was asked for.
FedByLaunches(e, f, slot, ids) ==
  LET n == Len(ids)
      R == Tiled(e, n)
  IN  \E head :
        /\ SameBuild(e, head)
        /\ Wrote(e, head, 0, 0, SubSeq(ids, 1, R),
                 LaunchedRows(e, n, 0..(R - 1)), LaunchedCompact(e, 0..(R - 1)))
        /\ Wrote(head, f, slot, R, SubSeq(ids, R + 1, n),
                 LaunchedRows(e, n, R..(n - 1)), LaunchedCompact(e, R..(n - 1)))

LaunchSlot(e, slot, n) == IF Tiled(e, n) = n THEN 0 ELSE slot

LEMMA LaunchIs ==
  ASSUME NEW e, Typed(e), NEW slot \in Slots(e), NEW ids \in Seq(Token), Len(ids) \in 1..Ctx
  PROVE  LET f == LaunchPrefill(e, slot, ids)
             s == LaunchSlot(e, slot, Len(ids))
         IN  /\ Typed(f) /\ SameBuild(e, f) /\ f.pos = Len(ids) /\ f.best = e.best
             /\ FedByLaunches(e, f, slot, ids)
             /\ f.last = Sample(f.rec[s], Attended(f, s, Len(ids), e.tq /\ Len(ids) > e.win))
<1> DEFINE n == Len(ids)
           R == Tiled(e, n)
           a == SubSeq(ids, 1, R)
           b == SubSeq(ids, R + 1, n)
           s == LaunchSlot(e, slot, n)
           W1 == LaunchedRows(e, n, 0..(R - 1))
           C1 == LaunchedCompact(e, 0..(R - 1))
           W2 == LaunchedRows(e, n, R..(n - 1))
           C2 == LaunchedCompact(e, R..(n - 1))
           head == Fed(e, 0, 0, a, W1, C1)
           g == Fed(head, slot, R, b, W2, C2)
           l == Sample(g.rec[s], Attended(g, s, n, e.tq /\ n > e.win))
           f == Leave(g, n, l)
<1>0. /\ n \in 1..Ctx /\ n \in Nat /\ e.win \in 1..Ctx /\ Ctx \in Nat /\ e.max \in Nat \ {0} /\ 0 \in Slots(e)
  BY Sizes DEF Typed, Slots
<1>1. R \in 0..n
  BY <1>0, TiledIs
<1>2. /\ a \in Seq(Token) /\ Len(a) = R /\ b \in Seq(Token) /\ Len(b) = n - R
  <2> HIDE DEF R
  <2>1. QED
    BY <1>1, Cut
<1>3. \A q \in 0..(n - 1) : q < LaunchEnd(q, n) /\ LaunchEnd(q, n) \in Nat
  BY <1>0, LaunchEndIs
<1>4. LaunchPrefill(e, slot, ids) = f
  <2>1. LaunchPrefill(e, slot, ids) = [g EXCEPT !.pos = n, !.last = l]
    BY DEF LaunchPrefill, LaunchedRows, LaunchedCompact, LaunchSlot
  <2>2. QED
    BY <2>1 DEF Leave
<1> HIDE DEF R, n
<1>5. Storable(e, 0, a, W1, C1)
  <2>1. 0 \in 0..Ctx /\ 0 + Len(a) <= Ctx /\ 0 + Len(a) - 1 = R - 1
    BY <1>0, <1>1, <1>2
  <2>2. W1 \subseteq 0..(R - 1) /\ W1 \subseteq 0..(e.win - 1) /\ C1 \subseteq 0..(R - 1)
    BY <1>0, <1>1, <1>3 DEF LaunchedRows, LaunchedCompact
  <2> HIDE DEF a, W1, C1
  <2>3. QED
    BY <1>2, <2>1, <2>2 DEF Storable
<1>6. /\ Typed(head) /\ SameBuild(e, head) /\ head.pos = e.pos /\ head.best = e.best
      /\ Wrote(e, head, 0, 0, a, W1, C1)
  BY <1>0, <1>5, FedIs
<1>7. slot \in Slots(head) /\ head.win = e.win
  BY <1>6 DEF Slots, SameBuild
<1>8. Storable(head, R, b, W2, C2)
  <2>1. R \in 0..Ctx /\ R + Len(b) <= Ctx /\ R + Len(b) - 1 = n - 1
    BY <1>0, <1>1, <1>2
  <2>2. W2 \subseteq R..(n - 1) /\ W2 \subseteq 0..(e.win - 1) /\ C2 \subseteq R..(n - 1)
    BY <1>0, <1>1, <1>3 DEF LaunchedRows, LaunchedCompact
  <2> HIDE DEF b, W2, C2, head
  <2>3. QED
    BY <1>2, <1>7, <2>1, <2>2 DEF Storable
<1> HIDE DEF head, a, b, W1, C1, W2, C2
<1>9. Typed(g) /\ SameBuild(head, g) /\ g.best = head.best /\ Wrote(head, g, slot, R, b, W2, C2)
  BY <1>6, <1>7, <1>8, FedIs
<1>10. l \in Token /\ n \in 0..Ctx
  BY <1>0, SampleType
<1> HIDE DEF g, l
<1>11. Typed(f) /\ SameMemory(g, f) /\ f.pos = n /\ f.last = l /\ f.best = g.best
  BY <1>9, <1>10, LeaveTyped
<1> HIDE DEF f
<1>12. Wrote(head, f, slot, R, b, W2, C2)
  BY <1>9, <1>11, WroteSame
<1>13. SameBuild(e, f)
  BY <1>6, <1>9, <1>11, LikeBuilt DEF SameMemory
<1>14. FedByLaunches(e, f, slot, ids)
  BY <1>6, <1>12 DEF FedByLaunches, n, R, a, b, W1, C1, W2, C2
<1>15. f.last = Sample(f.rec[s], Attended(f, s, n, e.tq /\ n > e.win))
  <2>1. \A c : Attended(f, s, n, c) = Attended(g, s, n, c)
    BY <1>11, AttendedSame DEF SameMemory
  <2>2. QED
    BY <1>11, <2>1 DEF l, SameMemory
<1>16. QED
  BY <1>4, <1>6, <1>9, <1>11, <1>13, <1>14, <1>15 DEF n

\* f is e after ids were fed to the empty slot s alone.
Prefilled(e, f, s, ids) ==
  /\ f.rec[s] = ids
  /\ \A t \in Slots(e) : t # s => Untouched(e, f, t)
  /\ Len(ids) <= e.win => InWindow(f, s, ids)
  /\ f.last = Sample(ids, ids)

\* Launches put a prompt into the slot it is for, if that is the one the tiles
\* were captured for, or no tile is used.
LEMMA LaunchWrites ==
  ASSUME NEW e, Typed(e), NEW f, Typed(f), SameBuild(e, f), NEW slot \in Slots(e), NEW ids \in Seq(Token),
         Len(ids) \in 1..Ctx, FedByLaunches(e, f, slot, ids), e.rec[slot] = <<>>,
         slot = 0 \/ ~e.tile \/ Len(ids) < PfCap
  PROVE  /\ f.rec[slot] = ids /\ (\A t \in Slots(e) : t # slot => Untouched(e, f, t))
         /\ (Len(ids) <= e.win => InWindow(f, slot, ids)) /\ (e.tq => InCompact(f, slot, ids))
<1> DEFINE n == Len(ids)
           R == Tiled(e, n)
           a == SubSeq(ids, 1, R)
           b == SubSeq(ids, R + 1, n)
           W1 == LaunchedRows(e, n, 0..(R - 1))
           C1 == LaunchedCompact(e, 0..(R - 1))
           W2 == LaunchedRows(e, n, R..(n - 1))
           C2 == LaunchedCompact(e, R..(n - 1))
<1>0. /\ n \in 1..Ctx /\ n \in Nat /\ e.win \in 1..Ctx /\ Ctx \in Nat /\ e.max \in Nat \ {0} /\ 0 \in Slots(e)
  BY Sizes DEF Typed, Slots
<1>1. R \in 0..n /\ (slot # 0 => R = 0)
  BY <1>0, TiledIs
<1>2. PICK head : /\ SameBuild(e, head) /\ Wrote(e, head, 0, 0, a, W1, C1)
                  /\ Wrote(head, f, slot, R, b, W2, C2)
  BY DEF FedByLaunches
<1>3. /\ Len(a) = R /\ \A k \in 1..R : a[k] = ids[k]
  <2> HIDE DEF R, n
  <2>1. QED
    BY <1>1, Cut DEF n
<1>4. /\ Len(b) = n - R /\ \A k \in 1..(n - R) : b[k] = ids[R + k]
  <2> HIDE DEF R
  <2>1. QED
    BY <1>1, Cut
<1>5. (<<>> \o a) \o b = ids /\ (R = 0 => b = ids)
  <2> HIDE DEF R
  <2>1. QED
    BY <1>1, Rejoined
<1>6. Slots(head) = Slots(e) /\ head.win = e.win /\ Slots(f) = Slots(e) /\ f.win = e.win
  BY <1>2 DEF SameBuild, Slots
<1>7. \A q \in 0..(n - 1) : LaunchEnd(q, n) \in Nat /\ LaunchEnd(q, n) <= n
  BY <1>0, LaunchEndIs
<1>8. \A q \in 0..(n - 1) : /\ n <= e.win => (q < R => q \in W1) /\ (q >= R => q \in W2)
                            /\ e.tq => (q < R => q \in C1) /\ (q >= R => q \in C2)
                            /\ q < R => q \notin W2 /\ q \notin C2
  BY <1>0, <1>1, <1>7 DEF LaunchedRows, LaunchedCompact
<1> HIDE DEF R, n, a, b, W1, W2, C1, C2
<1>9. head.rec[0] = e.rec[0] \o a /\ \A t \in Slots(e) : t # 0 => head.rec[t] = e.rec[t] /\ head.compact[t] = e.compact[t]
  BY <1>2 DEF Wrote
<1>10. \A t \in Slots(e) : \A q \in 0..(e.win - 1) :
         Cell(head, t, q) = IF t = 0 /\ q \in W1 THEN a[q - 0 + 1] ELSE Cell(e, t, q)
  BY <1>2 DEF Wrote
<1>11. \A q \in 0..(Ctx - 1) : head.compact[0][q] = IF q \in C1 THEN a[q - 0 + 1] ELSE e.compact[0][q]
  BY <1>2 DEF Wrote
<1>12. f.rec[slot] = head.rec[slot] \o b
       /\ \A t \in Slots(e) : t # slot => f.rec[t] = head.rec[t] /\ f.compact[t] = head.compact[t]
  BY <1>2, <1>6 DEF Wrote
<1>13. \A t \in Slots(e) : \A q \in 0..(e.win - 1) :
         Cell(f, t, q) = IF t = slot /\ q \in W2 THEN b[q - R + 1] ELSE Cell(head, t, q)
  BY <1>2, <1>6 DEF Wrote
<1>14. \A q \in 0..(Ctx - 1) : f.compact[slot][q] = IF q \in C2 THEN b[q - R + 1] ELSE head.compact[slot][q]
  BY <1>2, <1>6 DEF Wrote
<1>15. f.rec[slot] = ids
  <2>1. CASE slot = 0
    BY <1>5, <1>9, <1>12, <2>1
  <2>2. CASE slot # 0
    <3>1. f.rec[slot] = <<>> \o b /\ b = ids
      BY <1>1, <1>5, <1>9, <1>12, <2>2
    <3>2. QED
      BY <3>1
  <2>3. QED
    BY <2>1, <2>2
<1>16. ASSUME NEW t \in Slots(e), t # slot PROVE Untouched(e, f, t)
  <2>1. CASE t # 0
    <3>1. f.rec[t] = e.rec[t] /\ f.compact[t] = e.compact[t]
      BY <1>9, <1>12, <1>16, <2>1
    <3>2. \A q \in 0..(e.win - 1) : Cell(f, t, q) = Cell(e, t, q)
      BY <1>10, <1>13, <1>16, <2>1
    <3>3. QED
      BY <3>1, <3>2 DEF Untouched
  <2>2. CASE t = 0
    <3>0. R = 0 /\ a = <<>> /\ W1 = {} /\ C1 = {}
      <4>1. R = 0
        BY <1>1, <1>16, <2>2
      <4>2. QED
        BY <4>1 DEF a, W1, C1, LaunchedRows, LaunchedCompact
    <3>1. f.rec[0] = e.rec[0] \o <<>> /\ f.compact[0] = head.compact[0]
      BY <1>0, <1>9, <1>12, <1>16, <2>2, <3>0
    <3>2. e.rec[0] \in Seq(Token) /\ e.rec[0] \o <<>> = e.rec[0]
      <4>1. e.rec[0] \in Seq(Token)
        BY <1>0 DEF Typed, TokenSeq
      <4>2. QED
        BY <4>1
    <3>3. head.compact[0] = e.compact[0]
      <4>1. \A q \in 0..(Ctx - 1) : f.compact[0][q] = e.compact[0][q]
        BY <1>11, <3>0, <3>1
      <4>2. f.compact[0] \in [0..(Ctx - 1) -> Stored] /\ e.compact[0] \in [0..(Ctx - 1) -> Stored]
        BY <1>0, <1>6 DEF Typed
      <4>3. f.compact[0] = e.compact[0]
        <5> DEFINE x == f.compact[0]
                   y == e.compact[0]
                   D == 0..(Ctx - 1)
        <5>1. x \in [D -> Stored] /\ y \in [D -> Stored] /\ \A q \in D : x[q] = y[q]
          BY <4>1, <4>2
        <5> HIDE DEF x, y, D
        <5>2. x = y
          BY <5>1
        <5>3. QED
          BY <5>2 DEF x, y
      <4>4. QED
        BY <3>1, <4>3
    <3>4. \A q \in 0..(e.win - 1) : Cell(f, 0, q) = Cell(e, 0, q)
      BY <1>0, <1>10, <1>13, <1>16, <2>2, <3>0
    <3>5. QED
      BY <2>2, <3>1, <3>2, <3>3, <3>4 DEF Untouched
  <2>3. QED
    BY <2>1, <2>2
<1>17. ASSUME n <= e.win, NEW q \in 0..(n - 1) PROVE q < f.win /\ Cell(f, slot, q) = ids[q + 1]
  <2>0. q \in 0..(e.win - 1) /\ q < f.win
    BY <1>0, <1>6, <1>17
  <2>1. CASE q < R
    <3>1. slot = 0 /\ q \in W1 /\ q \notin W2 /\ q - 0 + 1 = q + 1 /\ q + 1 \in 1..R
      BY <1>0, <1>1, <1>8, <1>17, <2>1
    <3>2. Cell(f, slot, q) = a[q + 1]
      BY <1>0, <1>10, <1>13, <2>0, <3>1
    <3>3. QED
      BY <1>3, <2>0, <3>1, <3>2
  <2>2. CASE q >= R
    <3>1. q \in W2 /\ q - R + 1 \in 1..(n - R) /\ R + (q - R + 1) = q + 1
      BY <1>0, <1>1, <1>8, <1>17, <2>2
    <3>2. Cell(f, slot, q) = b[q - R + 1]
      BY <1>13, <2>0, <3>1
    <3>3. QED
      BY <1>4, <2>0, <3>1, <3>2
  <2>3. QED
    BY <1>0, <1>1, <2>1, <2>2
<1>18. ASSUME e.tq, NEW q \in 0..(n - 1) PROVE f.compact[slot][q] = ids[q + 1]
  <2>0. q \in 0..(Ctx - 1)
    BY <1>0
  <2>1. CASE q < R
    <3>1. slot = 0 /\ q \in C1 /\ q \notin C2 /\ q - 0 + 1 = q + 1 /\ q + 1 \in 1..R
      BY <1>0, <1>1, <1>8, <1>18, <2>1
    <3>2. f.compact[slot][q] = a[q + 1]
      BY <1>0, <1>11, <1>14, <2>0, <3>1
    <3>3. QED
      BY <1>3, <3>1, <3>2
  <2>2. CASE q >= R
    <3>1. q \in C2 /\ q - R + 1 \in 1..(n - R) /\ R + (q - R + 1) = q + 1
      BY <1>0, <1>1, <1>8, <1>18, <2>2
    <3>2. f.compact[slot][q] = b[q - R + 1]
      BY <1>14, <2>0, <3>1
    <3>3. QED
      BY <1>4, <3>1, <3>2
  <2>3. QED
    BY <1>0, <1>1, <2>1, <2>2
<1>19. QED
  BY <1>15, <1>16, <1>17, <1>18 DEF InWindow, InCompact, n

-----------------------------------------------------------------------------
(***************************************************************************)
(* Decoding in slot 0                                                      *)
(***************************************************************************)
\* Slot s stands for h: all of it in the window, or reaching to its end, with a
\* compact row for each position.
Stands(e, s, h, inside) ==
  /\ e.rec[s] = h
  /\ IF inside THEN InWindow(e, s, h) ELSE e.tq /\ Len(h) >= e.win /\ InCompact(e, s, h)

LEMMA JoinedIs ==
  ASSUME NEW h \in Seq(Token), NEW ts \in Seq(Token)
  PROVE  /\ h \o ts \in Seq(Token) /\ Len(h \o ts) = Len(h) + Len(ts)
         /\ \A q \in 0..(Len(h) + Len(ts) - 1) :
              (h \o ts)[q + 1] = IF q < Len(h) THEN h[q + 1] ELSE ts[q - Len(h) + 1]
<1>0. Len(h) \in Nat /\ Len(ts) \in Nat
  OBVIOUS
<1>1. /\ h \o ts \in Seq(Token) /\ Len(h \o ts) = Len(h) + Len(ts)
      /\ \A k \in 1..(Len(h) + Len(ts)) :
           (h \o ts)[k] = IF k <= Len(h) THEN h[k] ELSE ts[k - Len(h)]
  BY ConcatProperties
<1>2. ASSUME NEW q \in 0..(Len(h) + Len(ts) - 1)
      PROVE  (h \o ts)[q + 1] = IF q < Len(h) THEN h[q + 1] ELSE ts[q - Len(h) + 1]
  <2>1. q + 1 \in 1..(Len(h) + Len(ts)) /\ (q + 1 <= Len(h) <=> q < Len(h)) /\ q + 1 - Len(h) = q - Len(h) + 1
    BY <1>0
  <2>2. QED
    BY <1>1, <2>1
<1>3. QED
  BY <1>1, <1>2

\* What a slot attends once it stands for h.
LEMMA AttendsIt ==
  ASSUME NEW e, Typed(e), NEW s \in Slots(e), NEW h \in Seq(Token), NEW inside, Stands(e, s, h, inside),
         NEW c, inside => ~c, ~inside => c
  PROVE  Attended(e, s, Len(h), c) = h
<1>1. IF c THEN InCompact(e, s, h) ELSE InWindow(e, s, h)
  BY DEF Stands
<1>2. QED
  BY <1>1, AttendedIs

LEMMA DecodeStands ==
  ASSUME NEW e, Typed(e), NEW h \in Seq(Token), NEW inside, Stands(e, 0, h, inside), e.pos = Len(h),
         NEW ts \in Seq(Token), Len(ts) >= 1, Len(h) + Len(ts) <= Ctx,
         inside => Len(h) + Len(ts) <= e.win
  PROVE  LET f == Decode(e, ts)
         IN  /\ Typed(f) /\ SameBuild(e, f) /\ f.pos = Len(h \o ts) /\ f.best = e.best
             /\ Stands(f, 0, h \o ts, inside)
             /\ (\A t \in Slots(e) : t # 0 => Untouched(e, f, t))
             /\ f.last = Sample(h \o ts, h \o ts)
<1> DEFINE f == Decode(e, ts)
           n == Len(ts)
           p == Len(h)
           W == DecodedRows(e, n)
           C == DecodedCompact(e, n)
           ht == h \o ts
           c == e.tq /\ f.pos > e.win
           G == Stands(f, 0, ht, inside) /\ f.pos = Len(ht) /\ Attended(f, 0, f.pos, c) = ht
<1>0. /\ n \in Nat /\ p \in Nat /\ n >= 1 /\ e.pos = p /\ p + n <= Ctx /\ Ctx \in Nat /\ e.win \in 1..Ctx
      /\ 0 \in Slots(e) /\ (~e.tq => e.win = Ctx)
  BY Sizes DEF Typed, Slots
<1>1. /\ Typed(f) /\ SameBuild(e, f) /\ f.pos = e.pos + n /\ f.best = e.best
      /\ Wrote(e, f, 0, e.pos, ts, W, C)
      /\ f.last = Sample(f.rec[0], Attended(f, 0, f.pos, e.tq /\ f.pos > e.win))
  BY <1>0, DecodeIs
<1>2. /\ ht \in Seq(Token) /\ Len(ht) = p + n
      /\ \A q \in 0..(p + n - 1) : ht[q + 1] = IF q < p THEN h[q + 1] ELSE ts[q - p + 1]
  BY JoinedIs
<1>3. \A q \in 0..(p + n - 1) : /\ q >= p /\ q < e.win => q \in W
                                /\ q >= p /\ e.tq /\ q >= e.win => q \in C
                                /\ q < p => q \notin W /\ q \notin C
  BY <1>0 DEF DecodedRows, DecodedCompact
<1>4. Slots(f) = Slots(e) /\ f.win = e.win /\ (e.tq => f.tq)
  BY <1>1 DEF Slots, SameBuild
<1> HIDE DEF f, n, p, W, C, ht
<1>5. f.rec[0] = ht
  BY <1>1 DEF Wrote, Stands, ht
<1>6. \A q \in 0..(e.win - 1) : Cell(f, 0, q) = IF q \in W THEN ts[q - p + 1] ELSE Cell(e, 0, q)
  BY <1>0, <1>1 DEF Wrote
<1>7. \A q \in 0..(Ctx - 1) : f.compact[0][q] = IF q \in C THEN ts[q - p + 1] ELSE e.compact[0][q]
  BY <1>0, <1>1 DEF Wrote
<1>8. ASSUME inside PROVE G
  <2>1. InWindow(e, 0, h) /\ p + n <= e.win
    BY <1>8 DEF Stands, p, n
  <2>2. ASSUME NEW q \in 0..(Len(ht) - 1) PROVE q < f.win /\ Cell(f, 0, q) = ht[q + 1]
    <3>1. q \in 0..(p + n - 1) /\ q \in 0..(e.win - 1) /\ q < f.win
      BY <1>0, <1>2, <1>4, <2>1
    <3>2. CASE q < p
      <4>1. q \in 0..(Len(h) - 1) /\ q \notin W
        BY <1>0, <1>3, <3>1, <3>2 DEF p
      <4>2. Cell(e, 0, q) = h[q + 1]
        BY <2>1, <4>1 DEF InWindow
      <4>3. QED
        BY <1>2, <1>6, <3>1, <3>2, <4>1, <4>2
    <3>3. CASE q >= p
      <4>1. q \in W
        BY <1>0, <1>3, <3>1, <3>3
      <4>2. Cell(f, 0, q) = ts[q - p + 1]
        BY <1>6, <3>1, <4>1
      <4>3. ht[q + 1] = ts[q - p + 1]
        BY <1>0, <1>2, <3>1, <3>3
      <4>4. QED
        BY <3>1, <4>2, <4>3
    <3>4. QED
      BY <1>0, <3>1, <3>2, <3>3
  <2>3. Stands(f, 0, ht, inside)
    BY <1>5, <1>8, <2>2 DEF Stands, InWindow
  <2>4. f.pos = Len(ht) /\ ~c
    BY <1>0, <1>1, <1>2, <2>1
  <2>5. Attended(f, 0, f.pos, c) = ht
    <3>1. /\ Typed(f) /\ 0 \in Slots(f) /\ ht \in Seq(Token) /\ Stands(f, 0, ht, inside)
          /\ (inside => ~c) /\ (~inside => c)
      BY <1>0, <1>1, <1>2, <1>4, <1>8, <2>3, <2>4
    <3> HIDE DEF c
    <3>2. QED
      BY <2>4, <3>1, AttendsIt
  <2>6. QED
    BY <2>3, <2>4, <2>5
<1>9. ASSUME ~inside PROVE G
  <2>1. InCompact(e, 0, h) /\ p >= e.win /\ e.tq
    BY <1>9 DEF Stands, p
  <2>2. ASSUME NEW q \in 0..(Len(ht) - 1) PROVE f.compact[0][q] = ht[q + 1]
    <3>1. q \in 0..(p + n - 1) /\ q \in 0..(Ctx - 1)
      BY <1>0, <1>2
    <3>2. CASE q < p
      <4>1. q \in 0..(Len(h) - 1) /\ q \notin C
        BY <1>0, <1>3, <3>1, <3>2 DEF p
      <4>2. e.compact[0][q] = h[q + 1]
        BY <2>1, <4>1 DEF InCompact
      <4>3. QED
        BY <1>2, <1>7, <3>1, <3>2, <4>1, <4>2
    <3>3. CASE q >= p
      <4>1. q \in C
        BY <1>0, <1>3, <2>1, <3>1, <3>3
      <4>2. QED
        BY <1>0, <1>2, <1>7, <3>1, <3>3, <4>1
    <3>4. QED
      BY <1>0, <3>1, <3>2, <3>3
  <2>3. Stands(f, 0, ht, inside)
    <3>1. Len(ht) >= f.win /\ f.tq
      BY <1>0, <1>2, <1>4, <2>1
    <3>2. QED
      BY <1>5, <1>9, <2>2, <3>1 DEF Stands, InCompact
  <2>4. f.pos = Len(ht) /\ c
    BY <1>0, <1>1, <1>2, <2>1
  <2>5. Attended(f, 0, f.pos, c) = ht
    <3>1. /\ Typed(f) /\ 0 \in Slots(f) /\ ht \in Seq(Token) /\ Stands(f, 0, ht, inside)
          /\ (inside => ~c) /\ (~inside => c)
      BY <1>0, <1>1, <1>2, <1>4, <1>9, <2>3, <2>4
    <3>2. c = TRUE
      BY <2>4
    <3> HIDE DEF c
    <3>3. InCompact(f, 0, ht)
      BY <1>9, <2>3 DEF Stands
    <3>c. IF TRUE THEN InCompact(f, 0, ht) ELSE InWindow(f, 0, ht)
      BY <3>3
    <3>d. Attended(f, 0, Len(ht), TRUE) = ht
      BY <3>1, <3>c, AttendedIs
    <3>4. QED
      BY <2>4, <3>2, <3>d
  <2>6. QED
    BY <2>3, <2>4, <2>5
<1>10. G
  BY <1>8, <1>9
<1>11. ASSUME NEW t \in Slots(e), t # 0 PROVE Untouched(e, f, t)
  BY <1>1, <1>11 DEF Wrote, Untouched
<1>12. QED
  BY <1>1, <1>5, <1>10, <1>11 DEF f, ht

-----------------------------------------------------------------------------
(***************************************************************************)
(* A prompt                                                                *)
(***************************************************************************)
Rewound(e) == [e EXCEPT !.pos = 0]

LEMMA RewoundIs ==
  ASSUME NEW e, Typed(e)
  PROVE  Typed(Rewound(e)) /\ SameMemory(e, Rewound(e)) /\ Rewound(e).pos = 0 /\ Rewound(e).best = e.best
<1> DEFINE f == Rewound(e)
<1>0. Shaped(e) /\ Ctx \in Nat
  BY Sizes DEF Typed
<1>1. Shaped(f) /\ SameBuild(e, f) /\ f.pos = 0 /\ f.last = e.last /\ f.best = e.best
      /\ f.rec = e.rec /\ f.kv = e.kv /\ f.compact = e.compact
  BY <1>0 DEF Rewound, Shaped, Fields, SameBuild
<1> HIDE DEF f
<1>2. Slots(f) = Slots(e) /\ f.max = e.max /\ f.win = e.win /\ (~f.tq <=> ~e.tq)
  BY <1>1 DEF Slots, SameBuild
<1>3. Typed(f) /\ SameMemory(e, f)
  BY <1>0, <1>1, <1>2 DEF Typed, SameMemory
<1>4. QED
  BY <1>1, <1>3 DEF f

\* Memory that is the same is untouched.
LEMMA SameUntouched ==
  ASSUME NEW e, NEW f, NEW g, SameMemory(e, f), NEW t
  PROVE  Untouched(e, f, t) /\ (Untouched(f, g, t) => Untouched(e, g, t))
<1>1. f.win = e.win /\ \A s, q : Cell(f, s, q) = Cell(e, s, q)
  BY DEF SameMemory, SameBuild, Cell, Row
<1>2. f.rec = e.rec /\ f.compact = e.compact
  BY DEF SameMemory
<1>3. QED
  BY <1>1, <1>2 DEF Untouched

\* A prompt that fits.
Prompt(ids) == ids \in Seq(Token) /\ Len(ids) \in 1..Ctx

LEMMA FeedTyped ==
  ASSUME NEW e, Typed(e), NEW slot \in Slots(e), NEW ids, Prompt(ids)
  PROVE  LET f == FeedPrompt(e, slot, ids)
         IN  Typed(f) /\ SameBuild(e, f) /\ f.pos = Len(ids) /\ f.best = e.best
<1> DEFINE f == FeedPrompt(e, slot, ids)
           g == Rewound(e)
<1>0. ids \in Seq(Token) /\ Len(ids) \in 1..Ctx /\ Ctx \in Nat
  BY Sizes DEF Prompt
<1>1. CASE Len(ids) = 1 \/ PfCap = 1
  <2>1. f = Decode(g, ids)
    BY <1>1 DEF FeedPrompt, Rewound
  <2>2. Typed(g) /\ SameBuild(e, g) /\ g.pos = 0 /\ g.best = e.best /\ g.pos + Len(ids) <= Ctx
    BY <1>0, RewoundIs DEF SameMemory
  <2> HIDE DEF g, f
  <2>3. LET h == Decode(g, ids)
        IN  Typed(h) /\ SameBuild(g, h) /\ h.pos = g.pos + Len(ids) /\ h.best = g.best
    BY <1>0, <2>2, DecodeIs
  <2>4. Typed(f) /\ SameBuild(g, f) /\ f.pos = 0 + Len(ids) /\ f.best = e.best
    BY <2>1, <2>2, <2>3
  <2>5. QED
    BY <1>0, <2>2, <2>4, LikeBuilt DEF f
<1>2. CASE ~(Len(ids) = 1 \/ PfCap = 1)
  <2>1. f = LaunchPrefill(e, slot, ids)
    BY <1>2 DEF FeedPrompt
  <2>2. QED
    BY <1>0, <2>1, LaunchIs
<1>3. QED
  BY <1>1, <1>2

\* A prompt goes to slot s alone: the slots of the code's decode path and of its
\* tiles are slot 0.
Lands(e, s, ids) == s = 0 \/ (Launched(ids) /\ (e.tile => Len(ids) < PfCap))

LEMMA FeedStands ==
  ASSUME NEW e, Typed(e), NEW s \in Slots(e), NEW ids, Prompt(ids), e.rec[s] = <<>>, Lands(e, s, ids),
         Launched(ids) \/ Len(ids) <= e.win
  PROVE  LET f == FeedPrompt(e, s, ids)
         IN  Prefilled(e, f, s, ids) /\ (e.tq /\ Launched(ids) => InCompact(f, s, ids))
<1> DEFINE f == FeedPrompt(e, s, ids)
<1>0. /\ ids \in Seq(Token) /\ Len(ids) \in 1..Ctx /\ Ctx \in Nat /\ e.win \in 1..Ctx /\ 0 \in Slots(e)
      /\ (~e.tq => e.win = Ctx) /\ PfCap \in Nat \ {0}
  BY Sizes DEF Prompt, Typed, Slots
<1>1. CASE ~Launched(ids)
  <2> DEFINE g == Rewound(e)
             h == Decode(g, ids)
  <2>0. Len(ids) = 1 \/ PfCap = 1
    <3> DEFINE n == Len(ids)
    <3>1. n \in Nat /\ n >= 1 /\ PfCap \in Nat /\ PfCap >= 1 /\ ~(n > 1 /\ PfCap > 1)
      BY <1>0, <1>1 DEF Launched
    <3> HIDE DEF n
    <3>2. n = 1 \/ PfCap = 1
      BY <3>1
    <3>3. QED
      BY <3>2 DEF n
  <2>1. f = h
    BY <2>0 DEF FeedPrompt, Rewound
  <2>2. Typed(g) /\ SameMemory(e, g) /\ g.pos = 0
    BY RewoundIs
  <2>3. s = 0 /\ Len(ids) <= e.win /\ g.win = e.win /\ g.rec[0] = <<>> /\ Slots(g) = Slots(e)
    BY <1>1, <2>2 DEF Lands, SameMemory, SameBuild, Slots
  <2> HIDE DEF f, g
  <2>4. Stands(g, 0, <<>>, TRUE)
    BY <2>3 DEF Stands, InWindow
  <2>5. /\ SameBuild(g, h) /\ Stands(h, 0, <<>> \o ids, TRUE)
        /\ (\A t \in Slots(g) : t # 0 => Untouched(g, h, t))
        /\ h.last = Sample(<<>> \o ids, <<>> \o ids)
    <3>1. /\ <<>> \in Seq(Token) /\ Len(<<>>) = 0 /\ Len(ids) >= 1 /\ Len(<<>>) + Len(ids) <= Ctx
          /\ Len(<<>>) + Len(ids) <= g.win
      BY <1>0, <2>3
    <3>2. QED
      BY <1>0, <2>2, <2>4, <3>1, DecodeStands
  <2>6. <<>> \o ids = ids
    BY <1>0
  <2>7. h.rec[0] = ids /\ InWindow(h, 0, ids) /\ h.last = Sample(ids, ids)
    BY <2>5, <2>6 DEF Stands
  <2>8. \A t \in Slots(e) : t # 0 => Untouched(e, h, t)
    BY <2>2, <2>3, <2>5, SameUntouched
  <2> HIDE DEF h
  <2>9. Prefilled(e, h, s, ids)
    BY <2>3, <2>7, <2>8 DEF Prefilled
  <2>10. QED
    BY <1>1, <2>1, <2>9 DEF f
<1>2. CASE Launched(ids)
  <2>0. ~(Len(ids) = 1 \/ PfCap = 1)
    <3> DEFINE n == Len(ids)
    <3>1. n > 1 /\ PfCap > 1
      BY <1>2 DEF Launched
    <3> HIDE DEF n
    <3>2. ~(n = 1 \/ PfCap = 1)
      BY <3>1
    <3>3. QED
      BY <3>2 DEF n
  <2> DEFINE h == LaunchPrefill(e, s, ids)
             c == e.tq /\ Len(ids) > e.win
  <2>1. f = h
    BY <2>0 DEF FeedPrompt
  <2>2. /\ Typed(h) /\ SameBuild(e, h) /\ FedByLaunches(e, h, s, ids)
        /\ h.last = Sample(h.rec[LaunchSlot(e, s, Len(ids))], Attended(h, LaunchSlot(e, s, Len(ids)), Len(ids), c))
    BY <1>0, LaunchIs
  <2>3. s = 0 \/ ~e.tile \/ Len(ids) < PfCap
    BY DEF Lands
  <2>4. LaunchSlot(e, s, Len(ids)) = s
    <3>1. s # 0 => Tiled(e, Len(ids)) = 0
      BY <1>0, <2>3, TiledIs
    <3>2. QED
      BY <1>0, <3>1 DEF LaunchSlot
  <2> HIDE DEF f, h
  <2>5. /\ h.rec[s] = ids /\ (\A t \in Slots(e) : t # s => Untouched(e, h, t))
        /\ (Len(ids) <= e.win => InWindow(h, s, ids)) /\ (e.tq => InCompact(h, s, ids))
    BY <1>0, <2>2, <2>3, LaunchWrites
  <2>6. Slots(h) = Slots(e)
    BY <2>2 DEF SameBuild, Slots
  <2>7. IF c THEN InCompact(h, s, ids) ELSE InWindow(h, s, ids)
    BY <1>0, <2>5
  <2>8. Attended(h, s, Len(ids), c) = ids
    <3> HIDE DEF c
    <3>1. QED
      BY <1>0, <2>2, <2>6, <2>7, AttendedIs
  <2>9. Prefilled(e, h, s, ids)
    BY <2>2, <2>4, <2>5, <2>8 DEF Prefilled
  <2>10. QED
    BY <2>1, <2>5, <2>9 DEF f
<1>3. QED
  BY <1>1, <1>2

-----------------------------------------------------------------------------
(***************************************************************************)
(* Slots cleared, and slots that are copies of the first                   *)
(***************************************************************************)
ZeroRec(e, S) == Over([s \in S |-> <<>>], e.rec)
ZeroRows(e, S) == Over([r \in {r \in DOMAIN e.kv : r \div e.win \in S} |-> Blank], e.kv)
ZeroCompact(e, S) == Over([s \in S |-> [q \in 0..(Ctx - 1) |-> Blank]], e.compact)

LEMMA ZeroIs ==
  ASSUME NEW e, Typed(e), NEW S, S \subseteq Slots(e)
  PROVE  LET f == Zero(e, S)
         IN  /\ Typed(f) /\ SameBuild(e, f) /\ f.pos = e.pos /\ f.last = e.last /\ f.best = e.best
             /\ \A s \in S : f.rec[s] = <<>>
             /\ \A t \in Slots(e) : t \notin S => Untouched(e, f, t)
<1> DEFINE f == Zero(e, S)
           D == 0..(e.max * e.win - 1)
           R == {r \in D : r \div e.win \in S}
           A == Slots(e)
           P == 0..(Ctx - 1)
           blank == [q \in P |-> Blank]
<1>0. /\ Shaped(e) /\ e.rec \in [A -> TokenSeq] /\ e.kv \in [D -> Stored] /\ e.compact \in [A -> [P -> Stored]]
      /\ e.max \in Nat \ {0} /\ e.win \in 1..Ctx /\ S \subseteq A /\ R \subseteq D
  BY DEF Typed
<1>1. f = Put(e, ZeroRec(e, S), ZeroRows(e, S), ZeroCompact(e, S))
  BY <1>0 DEF Zero, Put, ZeroRec, ZeroRows, ZeroCompact, Shaped, Fields
<1>2. /\ Shaped(f) /\ SameBuild(e, f) /\ f.pos = e.pos /\ f.last = e.last /\ f.best = e.best
      /\ f.rec = ZeroRec(e, S) /\ f.kv = ZeroRows(e, S) /\ f.compact = ZeroCompact(e, S)
  BY <1>0, <1>1, PutFields
<1>3. blank \in [P -> Stored] /\ <<>> \in TokenSeq /\ Blank \in Stored
  BY Sizes DEF TokenSeq
<1>r. \A t \in Slots(e) : \A q \in 0..(e.win - 1) : Row(e, t, q) \in D /\ Row(e, t, q) \div e.win = t
  BY <1>0, RowIs
<1>q. R = {r \in DOMAIN e.kv : r \div e.win \in S}
  BY <1>0
<1> HIDE DEF f, D, R, A, P, blank
<1>4. /\ f.rec \in [A -> TokenSeq]
      /\ \A t \in A : f.rec[t] = IF t \in S THEN <<>> ELSE e.rec[t]
  <2> DEFINE z == [s \in S |-> <<>>]
  <2>1. f.rec = Over(z, e.rec)
    BY <1>2 DEF ZeroRec
  <2>2. DOMAIN z = S /\ DOMAIN e.rec = A /\ S \cup A = A /\ \A t \in S : z[t] = <<>>
    BY <1>0
  <2> HIDE DEF z
  <2>3. f.rec = [t \in A |-> IF t \in S THEN z[t] ELSE e.rec[t]]
    BY <2>1, <2>2 DEF Over
  <2>4. QED
    BY <1>0, <1>3, <2>2, <2>3
<1>5. /\ f.kv \in [D -> Stored]
      /\ \A r \in D : f.kv[r] = IF r \in R THEN Blank ELSE e.kv[r]
  <2> DEFINE z == [r \in R |-> Blank]
  <2>1. f.kv = Over(z, e.kv)
    BY <1>2, <1>q DEF ZeroRows
  <2>2. DOMAIN z = R /\ DOMAIN e.kv = D /\ R \cup D = D /\ \A r \in R : z[r] = Blank
    BY <1>0
  <2> HIDE DEF z
  <2>3. f.kv = [r \in D |-> IF r \in R THEN z[r] ELSE e.kv[r]]
    BY <2>1, <2>2 DEF Over
  <2>4. QED
    BY <1>0, <1>3, <2>2, <2>3
<1>6. /\ f.compact \in [A -> [P -> Stored]]
      /\ \A t \in A : f.compact[t] = IF t \in S THEN blank ELSE e.compact[t]
  <2> DEFINE z == [s \in S |-> blank]
  <2>1. f.compact = Over(z, e.compact)
    BY <1>2 DEF ZeroCompact, blank, P
  <2>2. DOMAIN z = S /\ DOMAIN e.compact = A /\ S \cup A = A /\ \A t \in S : z[t] = blank
    BY <1>0
  <2> HIDE DEF z
  <2>3. f.compact = [t \in A |-> IF t \in S THEN z[t] ELSE e.compact[t]]
    BY <2>1, <2>2 DEF Over
  <2>4. QED
    BY <1>0, <1>3, <2>2, <2>3
<1>7. Slots(f) = Slots(e) /\ f.max = e.max /\ f.win = e.win /\ (~f.tq <=> ~e.tq)
  BY <1>2 DEF Slots, SameBuild
<1>8. Typed(f)
  BY <1>2, <1>4, <1>5, <1>6, <1>7 DEF Typed, A, D, P
<1>9. ASSUME NEW t \in Slots(e), t \notin S PROVE Untouched(e, f, t)
  <2>1. \A q \in 0..(e.win - 1) : Row(e, t, q) \notin R
    BY <1>9, <1>r DEF R
  <2>2. \A q \in 0..(e.win - 1) : Cell(f, t, q) = Cell(e, t, q)
    BY <1>5, <1>7, <1>r, <2>1 DEF Cell, Row
  <2>3. QED
    BY <1>4, <1>6, <1>9, <2>2 DEF Untouched, A
<1>10. \A s \in S : f.rec[s] = <<>>
  BY <1>0, <1>4
<1>11. QED
  BY <1>2, <1>8, <1>9, <1>10 DEF f

Cleared(e) == [e EXCEPT !.rec = [s \in DOMAIN @ |-> <<>>]]

LEMMA ClearedIs ==
  ASSUME NEW e, Typed(e)
  PROVE  LET f == Cleared(e)
         IN  Typed(f) /\ SameBuild(e, f) /\ f.best = e.best /\ \A s \in Slots(e) : f.rec[s] = <<>>
<1> DEFINE f == Cleared(e)
           r == [s \in DOMAIN e.rec |-> <<>>]
<1>0. Shaped(e) /\ DOMAIN e.rec = Slots(e)
  BY DEF Typed
<1>1. Shaped(f) /\ SameBuild(e, f) /\ f.pos = e.pos /\ f.last = e.last /\ f.best = e.best
      /\ f.rec = r /\ f.kv = e.kv /\ f.compact = e.compact
  BY <1>0 DEF Cleared, Shaped, Fields, SameBuild
<1>2. r \in [Slots(e) -> TokenSeq] /\ \A s \in Slots(e) : r[s] = <<>>
  BY <1>0 DEF TokenSeq
<1> HIDE DEF f, r
<1>3. Slots(f) = Slots(e) /\ f.max = e.max /\ f.win = e.win /\ (~f.tq <=> ~e.tq)
  BY <1>1 DEF Slots, SameBuild
<1>4. Typed(f)
  BY <1>1, <1>2, <1>3 DEF Typed
<1>5. QED
  BY <1>1, <1>2, <1>4 DEF f

LEMMA PrefillTyped ==
  ASSUME NEW e, Typed(e), NEW ids, Prompt(ids)
  PROVE  LET f == Prefill(e, ids)
         IN  Typed(f) /\ SameBuild(e, f) /\ f.pos = Len(ids) /\ f.best = e.best
<1> DEFINE g == Cleared(e)
<1>1. Typed(g) /\ SameBuild(e, g) /\ g.best = e.best
  BY ClearedIs
<1>2. Prefill(e, ids) = FeedPrompt(g, 0, ids)
  BY DEF Prefill, Cleared
<1>3. 0 \in Slots(g)
  BY <1>1 DEF Typed, Slots
<1> HIDE DEF g
<1>4. LET f == FeedPrompt(g, 0, ids)
      IN  Typed(f) /\ SameBuild(g, f) /\ f.pos = Len(ids) /\ f.best = g.best
  BY <1>1, <1>3, FeedTyped
<1>5. SameBuild(e, FeedPrompt(g, 0, ids))
  BY <1>1, <1>4, LikeBuilt
<1>6. QED
  BY <1>1, <1>2, <1>4, <1>5

\* Slot 0 holds the prompt, wherever its rows have to be.
LEMMA PrefillStands ==
  ASSUME NEW e, Typed(e), NEW ids, Prompt(ids), Launched(ids) \/ Len(ids) <= e.win
  PROVE  LET f == Prefill(e, ids)
         IN  /\ f.rec[0] = ids /\ f.last = Sample(ids, ids)
             /\ Len(ids) <= e.win => InWindow(f, 0, ids)
             /\ e.tq /\ Launched(ids) => InCompact(f, 0, ids)
<1> DEFINE g == Cleared(e)
           f == FeedPrompt(g, 0, ids)
<1>0. 0 \in Slots(e)
  BY DEF Typed, Slots
<1>1. Typed(g) /\ SameBuild(e, g) /\ g.rec[0] = <<>>
  BY <1>0, ClearedIs
<1>2. Prefill(e, ids) = f
  BY DEF Prefill, Cleared
<1>3. 0 \in Slots(g) /\ g.win = e.win /\ (e.tq => g.tq)
  BY <1>0, <1>1 DEF SameBuild, Slots
<1> HIDE DEF g
<1>4. Lands(g, 0, ids) /\ (Launched(ids) \/ Len(ids) <= g.win)
  BY <1>3 DEF Lands
<1>5. Prefilled(g, f, 0, ids) /\ (g.tq /\ Launched(ids) => InCompact(f, 0, ids))
  BY <1>1, <1>3, <1>4, FeedStands
<1>6. QED
  BY <1>2, <1>3, <1>5 DEF Prefilled

LEMMA PrefillSlotTyped ==
  ASSUME NEW e, Typed(e), NEW s \in Slots(e), NEW ids, Prompt(ids)
  PROVE  LET f == PrefillSlot(e, ids, s)
         IN  Typed(f) /\ SameBuild(e, f) /\ f.pos = Len(ids) /\ f.best = e.best
<1> DEFINE g == Zero(e, {s})
           f == FeedPrompt(g, s, ids)
<1>1. Typed(g) /\ SameBuild(e, g) /\ g.best = e.best
  <2>1. {s} \subseteq Slots(e)
    OBVIOUS
  <2>2. QED
    BY <2>1, ZeroIs
<1>2. PrefillSlot(e, ids, s) = f
  BY DEF PrefillSlot
<1>3. s \in Slots(g)
  BY <1>1 DEF Slots, SameBuild
<1> HIDE DEF g
<1>4. Typed(f) /\ SameBuild(g, f) /\ f.pos = Len(ids) /\ f.best = g.best
  BY <1>1, <1>3, FeedTyped
<1>5. SameBuild(e, f)
  BY <1>1, <1>4, LikeBuilt
<1>6. QED
  BY <1>1, <1>2, <1>4, <1>5

LEMMA PrefillSlotStands ==
  ASSUME NEW e, Typed(e), NEW s \in Slots(e), NEW ids, Prompt(ids), Lands(e, s, ids),
         Launched(ids) \/ Len(ids) <= e.win
  PROVE  LET f == PrefillSlot(e, ids, s)
         IN  Prefilled(e, f, s, ids) /\ (e.tq /\ Launched(ids) => InCompact(f, s, ids))
<1> DEFINE g == Zero(e, {s})
           f == FeedPrompt(g, s, ids)
<1>1. /\ Typed(g) /\ SameBuild(e, g) /\ g.rec[s] = <<>>
      /\ \A t \in Slots(e) : t # s => Untouched(e, g, t)
  <2>1. {s} \subseteq Slots(e) /\ s \in {s} /\ \A t : t # s => t \notin {s}
    OBVIOUS
  <2>2. QED
    BY <2>1, ZeroIs
<1>2. PrefillSlot(e, ids, s) = f
  BY DEF PrefillSlot
<1>3. Slots(g) = Slots(e) /\ g.win = e.win /\ (e.tq => g.tq) /\ (g.tile => e.tile)
  BY <1>1 DEF Slots, SameBuild
<1> HIDE DEF g
<1>4. Lands(g, s, ids) /\ (Launched(ids) \/ Len(ids) <= g.win)
  BY <1>3 DEF Lands
<1>5. Prefilled(g, f, s, ids) /\ (g.tq /\ Launched(ids) => InCompact(f, s, ids))
  BY <1>1, <1>3, <1>4, FeedStands
<1> HIDE DEF f
<1>6. ASSUME NEW t \in Slots(e), t # s PROVE Untouched(e, f, t)
  <2>1. Untouched(e, g, t) /\ Untouched(g, f, t)
    BY <1>1, <1>3, <1>5, <1>6 DEF Prefilled
  <2>2. QED
    BY <1>3, <2>1 DEF Untouched
<1>7. Prefilled(e, f, s, ids)
  BY <1>3, <1>5, <1>6 DEF Prefilled
<1>8. QED
  BY <1>2, <1>3, <1>5, <1>7 DEF f

\* What slot 0 stands for, the first n slots do.
LEMMA ReplicateIs ==
  ASSUME NEW e, Typed(e), NEW n \in 1..e.max
  PROVE  LET f == Replicate(e, n)
         IN  /\ Typed(f) /\ SameBuild(e, f) /\ f.pos = e.pos /\ f.last = e.last /\ f.best = e.best
             /\ \A s \in 0..(n - 1) : /\ f.rec[s] = e.rec[0] /\ f.compact[s] = e.compact[0]
                                      /\ \A q \in 0..(e.win - 1) : Cell(f, s, q) = Cell(e, 0, q)
<1> DEFINE f == Replicate(e, n)
           D == 0..(e.max * e.win - 1)
           R == 0..(n * e.win - 1)
           A == Slots(e)
           S == 0..(n - 1)
           T == [0..(Ctx - 1) -> Stored]
           RR == Over([s \in S |-> e.rec[0]], e.rec)
           KK == Over([r \in R |-> e.kv[r % e.win]], e.kv)
           CC == Over([s \in S |-> e.compact[0]], e.compact)
<1>0. /\ Shaped(e) /\ e.rec \in [A -> TokenSeq] /\ e.kv \in [D -> Stored] /\ e.compact \in [A -> T]
      /\ e.max \in Nat \ {0} /\ e.win \in 1..Ctx /\ e.win \in Nat \ {0} /\ n \in Nat /\ n <= e.max
      /\ S \subseteq A /\ 0 \in A
  BY Sizes DEF Typed, Slots
<1>m. /\ n * e.win \in Nat /\ e.max * e.win \in Nat
      /\ n * e.win <= e.max * e.win /\ e.win <= e.max * e.win
  BY <1>0, FewerRows
<1>1. R \subseteq D /\ \A r \in R : r % e.win \in D
  <2>1. R \subseteq Nat
    BY <1>m
  <2>2. \A r \in R : r % e.win \in 0..(e.win - 1)
    BY <1>0, <2>1, Remainder
  <2>3. QED
    BY <1>0, <1>m, <2>1, <2>2
<1>2. f = Put(e, RR, KK, CC)
  BY <1>0 DEF Replicate, Put, Shaped, Fields
<1>r. \A t \in S : \A q \in 0..(e.win - 1) : Row(e, t, q) \in R /\ Row(e, t, q) % e.win = q /\ Row(e, 0, q) = q
  <2>1. TAKE t \in S
  <2>2. TAKE q \in 0..(e.win - 1)
  <2>3. Row(e, t, q) \in D /\ Row(e, t, q) % e.win = q
    BY <1>0, RowIs
  <2>4. t * e.win + q \in 0..(n * e.win - 1)
    BY <1>0, RowOf
  <2>5. QED
    BY <1>0, <2>3, <2>4 DEF Row
<1> HIDE DEF RR, KK, CC
<1>3. /\ Shaped(f) /\ SameBuild(e, f) /\ f.pos = e.pos /\ f.last = e.last /\ f.best = e.best
      /\ f.rec = RR /\ f.kv = KK /\ f.compact = CC
  BY <1>0, <1>2, PutFields
<1> HIDE DEF f, D, R, A, S, T
<1>4. RR \in [A -> TokenSeq] /\ \A t \in S : RR[t] = e.rec[0]
  <2> DEFINE z == [s \in S |-> e.rec[0]]
  <2>1. RR = Over(z, e.rec) /\ DOMAIN z = S /\ DOMAIN e.rec = A /\ S \cup A = A /\ \A t \in S : z[t] = e.rec[0]
    BY <1>0 DEF RR
  <2> HIDE DEF z
  <2>2. RR = [t \in A |-> IF t \in S THEN z[t] ELSE e.rec[t]]
    BY <2>1 DEF Over
  <2>3. QED
    BY <1>0, <2>1, <2>2
<1>5. KK \in [D -> Stored] /\ \A r \in R : KK[r] = e.kv[r % e.win]
  <2> DEFINE z == [r \in R |-> e.kv[r % e.win]]
  <2>1. /\ KK = Over(z, e.kv) /\ DOMAIN z = R /\ DOMAIN e.kv = D /\ R \cup D = D
        /\ \A r \in R : z[r] = e.kv[r % e.win] /\ z[r] \in Stored
    BY <1>0, <1>1 DEF KK
  <2> HIDE DEF z
  <2>2. KK = [r \in D |-> IF r \in R THEN z[r] ELSE e.kv[r]]
    BY <2>1 DEF Over
  <2>3. QED
    BY <1>0, <1>1, <2>1, <2>2
<1>6. CC \in [A -> T] /\ \A t \in S : CC[t] = e.compact[0]
  <2> DEFINE z == [s \in S |-> e.compact[0]]
  <2>1. CC = Over(z, e.compact) /\ DOMAIN z = S /\ DOMAIN e.compact = A /\ S \cup A = A
        /\ \A t \in S : z[t] = e.compact[0]
    BY <1>0 DEF CC
  <2> HIDE DEF z
  <2>2. CC = [t \in A |-> IF t \in S THEN z[t] ELSE e.compact[t]]
    BY <2>1 DEF Over
  <2>3. QED
    BY <1>0, <2>1, <2>2
<1>7. Slots(f) = Slots(e) /\ f.max = e.max /\ f.win = e.win /\ (~f.tq <=> ~e.tq)
  BY <1>3 DEF Slots, SameBuild
<1>8. Typed(f)
  <2>1. f.compact \in [A -> T] /\ f.rec \in [A -> TokenSeq] /\ f.kv \in [D -> Stored]
    BY <1>3, <1>4, <1>5, <1>6
  <2>2. QED
    BY <1>3, <1>7, <2>1 DEF Typed, A, D, T
<1>9. ASSUME NEW s \in S, NEW q \in 0..(e.win - 1) PROVE Cell(f, s, q) = Cell(e, 0, q)
  BY <1>3, <1>5, <1>7, <1>r DEF Cell, Row
<1>10. QED
  BY <1>3, <1>4, <1>6, <1>8, <1>9 DEF f, S

-----------------------------------------------------------------------------
(***************************************************************************)
(* Prompts packed into one launch                                          *)
(***************************************************************************)
PutBest(e, r, k, c, b) == [e EXCEPT !.rec = r, !.kv = k, !.compact = c, !.best = b]
PutPacked(e, r, k, b) == [e EXCEPT !.rec = r, !.kv = k, !.best = b]

LEMMA PutBestFields ==
  ASSUME NEW e, Shaped(e), NEW r, NEW k, NEW c, NEW b
  PROVE  LET f == PutBest(e, r, k, c, b)
         IN  Shaped(f) /\ SameBuild(e, f) /\ f.pos = e.pos /\ f.last = e.last
             /\ f.rec = r /\ f.kv = k /\ f.compact = c /\ f.best = b
BY DEF PutBest, Shaped, Fields, SameBuild

LEMMA PutPackedFields ==
  ASSUME NEW e, Shaped(e), NEW r, NEW k, NEW b
  PROVE  LET f == PutPacked(e, r, k, b)
         IN  Shaped(f) /\ SameBuild(e, f) /\ f.pos = e.pos /\ f.last = e.last
             /\ f.rec = r /\ f.kv = k /\ f.compact = e.compact /\ f.best = b
BY DEF PutPacked, Shaped, Fields, SameBuild

\* As many prompts as there are slots for, each of T tokens.
Packed(e, ps, T) ==
  /\ ps \in Seq(Seq(Token)) /\ Len(ps) \in 1..e.max
  /\ T \in 1..Ctx /\ \A b \in 1..Len(ps) : Len(ps[b]) = T

LEMMA PrefillEqIs ==
  ASSUME NEW e, Typed(e), NEW ps, NEW T, Packed(e, ps, T)
  PROVE  LET f == PrefillEq(e, ps)
         IN  /\ Typed(f) /\ SameBuild(e, f) /\ f.pos = e.pos /\ f.last = e.last
             /\ \A s \in 0..(Len(ps) - 1) :
                  /\ f.rec[s] = e.rec[s] \o ps[s + 1]
                  /\ f.best[s] = Sample(e.rec[s] \o ps[s + 1], ps[s + 1])
                  /\ T <= e.win => InWindow(f, s, ps[s + 1])
<1> DEFINE f == PrefillEq(e, ps)
           n == Len(ps)
           D == 0..(e.max * e.win - 1)
           A == Slots(e)
           S == 0..(n - 1)
           rows == {r \in D : r \div e.win \in S /\ r % e.win < T}
           RR == Over([s \in S |-> e.rec[s] \o ps[s + 1]], e.rec)
           KK == Over([r \in rows |-> ps[r \div e.win + 1][(r % e.win) + 1]], e.kv)
           BB == Over([s \in S |-> Sample(e.rec[s] \o ps[s + 1], ps[s + 1])], e.best)
<1>0. /\ Shaped(e) /\ e.rec \in [A -> TokenSeq] /\ e.kv \in [D -> Stored]
      /\ e.best \in [A -> Token] /\ e.max \in Nat \ {0} /\ e.win \in 1..Ctx /\ e.win \in Nat \ {0}
      /\ n \in 1..e.max /\ n \in Nat /\ S \subseteq A /\ T \in 1..Ctx /\ T \in Nat /\ rows \subseteq D
  <2>1. /\ Shaped(e) /\ e.rec \in [A -> TokenSeq] /\ e.kv \in [D -> Stored]
        /\ e.best \in [A -> Token] /\ e.max \in Nat \ {0} /\ e.win \in 1..Ctx
    BY DEF Typed
  <2>2. n \in 1..e.max /\ T \in 1..Ctx
    BY DEF Packed
  <2>3. e.win \in Nat \ {0} /\ n \in Nat /\ T \in Nat
    BY <2>1, <2>2, Sizes
  <2>4. S \subseteq A
    BY <2>1, <2>2 DEF Slots
  <2>5. rows \subseteq D
    OBVIOUS
  <2>6. QED
    BY <2>1, <2>2, <2>3, <2>4, <2>5
<1>p. \A s \in S : ps[s + 1] \in Seq(Token) /\ Len(ps[s + 1]) = T
  <2>1. TAKE s \in S
  <2>2. s + 1 \in 1..Len(ps)
    BY <1>0
  <2>3. QED
    BY <2>2, ElementOfSeq DEF Packed
<1>1. Len(ps[1]) = T
  <2>1. 0 \in S
    BY <1>0
  <2>2. QED
    BY <1>p, <2>1
<1>2. f = PutPacked(e, RR, KK, BB)
  BY <1>0, <1>1 DEF PrefillEq, PutPacked, Shaped, Fields
<1>r. \A t \in A : \A q \in 0..(e.win - 1) :
        Row(e, t, q) \in D /\ Row(e, t, q) \div e.win = t /\ Row(e, t, q) % e.win = q
  BY <1>0, RowIs
<1>t. \A r \in rows : ps[r \div e.win + 1][(r % e.win) + 1] \in Stored
  <2>1. TAKE r \in rows
  <2> DEFINE s == r \div e.win
             q == r % e.win
  <2>2. s \in S /\ q < T /\ q \in Nat
    <3>1. r \in Nat /\ e.max * e.win \in Nat
      BY <1>0
    <3>2. q \in 0..(e.win - 1)
      BY <1>0, <3>1, Remainder
    <3>3. QED
      BY <1>0, <3>2
  <2> HIDE DEF s, q
  <2>3. ps[s + 1] \in Seq(Token) /\ q + 1 \in 1..Len(ps[s + 1])
    BY <1>0, <1>p, <2>2
  <2>4. ps[s + 1][q + 1] \in Token
    BY <2>3, ElementOfSeq
  <2>5. QED
    BY <2>4, Sizes DEF s, q
<1> HIDE DEF RR, KK, BB
<1>3. /\ Shaped(f) /\ SameBuild(e, f) /\ f.pos = e.pos /\ f.last = e.last
      /\ f.rec = RR /\ f.kv = KK /\ f.compact = e.compact /\ f.best = BB
  BY <1>0, <1>2, PutPackedFields
<1> HIDE DEF f, D, A, S, rows, n
<1>4. RR \in [A -> TokenSeq] /\ \A s \in S : RR[s] = e.rec[s] \o ps[s + 1]
  <2> DEFINE z == [s \in S |-> e.rec[s] \o ps[s + 1]]
  <2>1. ASSUME NEW s \in S PROVE z[s] = e.rec[s] \o ps[s + 1] /\ z[s] \in TokenSeq
    <3>1. e.rec[s] \in Seq(Token) /\ ps[s + 1] \in Seq(Token)
      BY <1>0, <1>p DEF TokenSeq
    <3>2. QED
      BY <3>1, ConcatProperties DEF TokenSeq
  <2>2. RR = Over(z, e.rec) /\ DOMAIN z = S /\ DOMAIN e.rec = A /\ S \cup A = A
    BY <1>0 DEF RR
  <2> HIDE DEF z
  <2>3. RR = [t \in A |-> IF t \in S THEN z[t] ELSE e.rec[t]]
    BY <2>2 DEF Over
  <2>4. QED
    BY <1>0, <2>1, <2>3
<1>5. /\ KK \in [D -> Stored]
      /\ \A r \in rows : KK[r] = ps[r \div e.win + 1][(r % e.win) + 1]
  <2> DEFINE z == [r \in rows |-> ps[r \div e.win + 1][(r % e.win) + 1]]
  <2>1. /\ KK = Over(z, e.kv) /\ DOMAIN z = rows /\ DOMAIN e.kv = D /\ rows \cup D = D
    BY <1>0 DEF KK
  <2>2. \A r \in rows : z[r] = ps[r \div e.win + 1][(r % e.win) + 1]
    OBVIOUS
  <2> HIDE DEF z
  <2>3. KK = [r \in D |-> IF r \in rows THEN z[r] ELSE e.kv[r]]
    BY <2>1 DEF Over
  <2>4. QED
    BY <1>0, <1>t, <2>2, <2>3
<1>6. BB \in [A -> Token] /\ \A s \in S : BB[s] = Sample(e.rec[s] \o ps[s + 1], ps[s + 1])
  <2> DEFINE z == [s \in S |-> Sample(e.rec[s] \o ps[s + 1], ps[s + 1])]
  <2>1. \A s \in S : z[s] = Sample(e.rec[s] \o ps[s + 1], ps[s + 1]) /\ z[s] \in Token
    BY SampleType
  <2>2. BB = Over(z, e.best) /\ DOMAIN z = S /\ DOMAIN e.best = A /\ S \cup A = A
    BY <1>0 DEF BB
  <2> HIDE DEF z
  <2>3. BB = [t \in A |-> IF t \in S THEN z[t] ELSE e.best[t]]
    BY <2>2 DEF Over
  <2>4. QED
    BY <1>0, <2>1, <2>3
<1>7. Slots(f) = Slots(e) /\ f.max = e.max /\ f.win = e.win /\ (~f.tq <=> ~e.tq)
  BY <1>3 DEF Slots, SameBuild
<1>8. Typed(f)
  <2>1. f.rec \in [A -> TokenSeq] /\ f.kv \in [D -> Stored] /\ f.best \in [A -> Token]
    BY <1>3, <1>4, <1>5, <1>6
  <2>2. QED
    BY <1>3, <1>7, <2>1 DEF Typed, A, D
<1>9. ASSUME NEW s \in S, T <= e.win PROVE InWindow(f, s, ps[s + 1])
  <2>1. s \in A /\ Len(ps[s + 1]) = T
    BY <1>0, <1>p
  <2>2. ASSUME NEW q \in 0..(T - 1) PROVE q < f.win /\ Cell(f, s, q) = ps[s + 1][q + 1]
    <3>1. q \in 0..(e.win - 1) /\ q < f.win /\ q < T
      BY <1>0, <1>7, <1>9
    <3>2. Row(e, s, q) \in rows /\ Row(e, s, q) \div e.win = s /\ Row(e, s, q) % e.win = q
      BY <1>9, <1>r, <2>1, <3>1 DEF rows
    <3>3. f.kv[Row(e, s, q)] = ps[s + 1][q + 1]
      BY <1>3, <1>5, <3>2
    <3>4. QED
      BY <1>7, <3>1, <3>3 DEF Cell, Row
  <2>3. QED
    BY <2>1, <2>2 DEF InWindow
<1>10. QED
  BY <1>3, <1>4, <1>6, <1>8, <1>9 DEF f, S, n

-----------------------------------------------------------------------------
(***************************************************************************)
(* A step of the batch                                                     *)
(***************************************************************************)
Inputs(e, ts, qs) ==
  /\ ts \in Seq(Token) /\ Len(ts) \in 1..e.max
  /\ \A b \in 1..Len(ts) : qs[b] \in 0..Ctx

Compacted(e, qs) == e.tq /\ qs[1] >= e.win

BatchSlots(ts) == 0..(Len(ts) - 1)
Hits(e, ts, qs) == {Row(e, s, qs[s + 1]) : s \in BatchSlots(ts)} \cap DOMAIN e.kv
HitBy(e, ts, qs, r) == CHOOSE s \in BatchSlots(ts) : Row(e, s, qs[s + 1]) = r
Attending(e, qs, s) == Attended(e, s, qs[s + 1], Compacted(e, qs))
BatchDecoded(e, ts, qs, s) ==
  Sample(Append(e.rec[s], ts[s + 1]), Append(Attending(e, qs, s), ts[s + 1]))

\* f is e after each slot was fed its token at its position.
Stepped(e, f, ts, qs) ==
  \A s \in BatchSlots(ts) :
    /\ f.rec[s] = Append(e.rec[s], ts[s + 1])
    /\ f.best[s] = BatchDecoded(e, ts, qs, s)
    /\ ~Compacted(e, qs) /\ (\A b \in 1..Len(ts) : qs[b] < e.win) =>
         \A q \in 0..(e.win - 1) : Cell(f, s, q) = IF q = qs[s + 1] THEN ts[s + 1] ELSE Cell(e, s, q)
    /\ Compacted(e, qs) =>
         \A q \in 0..(Ctx - 1) : f.compact[s][q] = IF q = qs[s + 1] THEN ts[s + 1] ELSE e.compact[s][q]

LEMMA DecodeTokensIs ==
  ASSUME NEW e, Typed(e), NEW ts, NEW qs, Inputs(e, ts, qs)
  PROVE  LET f == DecodeTokens(e, ts, qs)
         IN  Typed(f) /\ SameBuild(e, f) /\ f.pos = e.pos /\ f.last = e.last /\ Stepped(e, f, ts, qs)
<1> DEFINE f == DecodeTokens(e, ts, qs)
           n == Len(ts)
           D == 0..(e.max * e.win - 1)
           P == 0..(Ctx - 1)
           A == Slots(e)
           S == BatchSlots(ts)
           H == Hits(e, ts, qs)
           c == Compacted(e, qs)
           KH == Over([r \in H |-> ts[HitBy(e, ts, qs, r) + 1]], e.kv)
           CH == Over([s \in S |-> [e.compact[s] EXCEPT ![qs[s + 1]] = ts[s + 1]]], e.compact)
           RR == Over([s \in S |-> Append(e.rec[s], ts[s + 1])], e.rec)
           KK == IF c THEN e.kv ELSE KH
           CC == IF ~c THEN e.compact ELSE CH
           BB == Over([s \in S |-> BatchDecoded(e, ts, qs, s)], e.best)
<1>0. /\ Shaped(e) /\ e.rec \in [A -> TokenSeq] /\ e.kv \in [D -> Stored]
      /\ e.compact \in [A -> [P -> Stored]] /\ e.best \in [A -> Token]
      /\ e.max \in Nat \ {0} /\ e.win \in 1..Ctx
  BY DEF Typed
<1>1. n \in 1..e.max /\ n \in Nat /\ ts \in Seq(Token)
  BY <1>0 DEF Inputs
<1>2. S \subseteq A /\ \A s \in S : s + 1 \in 1..n
  BY <1>0, <1>1 DEF Slots, BatchSlots
<1>t. \A s \in S : ts[s + 1] \in Token /\ ts[s + 1] \in Stored
  BY <1>1, <1>2, Sizes, ElementOfSeq
<1>3. f = PutBest(e, RR, KK, CC, BB)
  BY <1>0 DEF DecodeTokens, PutBest, Shaped, Fields, Compacted, Hits, HitBy, Attending, BatchDecoded, BatchSlots
<1>r. \A t \in A : \A q \in 0..(e.win - 1) :
        Row(e, t, q) \in D /\ Row(e, t, q) \div e.win = t /\ Row(e, t, q) % e.win = q
  BY <1>0, RowIs
<1>h. \A r \in H : HitBy(e, ts, qs, r) \in S /\ Row(e, HitBy(e, ts, qs, r), qs[HitBy(e, ts, qs, r) + 1]) = r
  BY DEF Hits, HitBy
<1>d. H \subseteq D
  BY <1>0 DEF Hits
<1> HIDE DEF RR, KK, CC, BB
<1>4. /\ Shaped(f) /\ SameBuild(e, f) /\ f.pos = e.pos /\ f.last = e.last
      /\ f.rec = RR /\ f.kv = KK /\ f.compact = CC /\ f.best = BB
  BY <1>0, <1>3, PutBestFields
<1> HIDE DEF f, D, A, S, H, P, n, KH, CH, c
<1>5. RR \in [A -> TokenSeq] /\ \A s \in S : RR[s] = Append(e.rec[s], ts[s + 1])
  <2> DEFINE z == [s \in S |-> Append(e.rec[s], ts[s + 1])]
  <2>1. ASSUME NEW s \in S PROVE z[s] = Append(e.rec[s], ts[s + 1]) /\ z[s] \in TokenSeq
    <3>1. e.rec[s] \in Seq(Token) /\ ts[s + 1] \in Token
      BY <1>0, <1>2, <1>t DEF TokenSeq
    <3>2. QED
      BY <3>1 DEF TokenSeq
  <2>2. RR = Over(z, e.rec) /\ DOMAIN z = S /\ DOMAIN e.rec = A /\ S \cup A = A
    BY <1>0, <1>2 DEF RR
  <2> HIDE DEF z
  <2>3. RR = [t \in A |-> IF t \in S THEN z[t] ELSE e.rec[t]]
    BY <2>2 DEF Over
  <2>4. QED
    BY <1>0, <1>2, <2>1, <2>3
<1>6. KH \in [D -> Stored] /\ \A r \in D : KH[r] = IF r \in H THEN ts[HitBy(e, ts, qs, r) + 1] ELSE e.kv[r]
  <2> DEFINE z == [r \in H |-> ts[HitBy(e, ts, qs, r) + 1]]
  <2>1. \A r \in H : z[r] = ts[HitBy(e, ts, qs, r) + 1] /\ z[r] \in Stored
    BY <1>h, <1>t
  <2>2. KH = Over(z, e.kv) /\ DOMAIN z = H /\ DOMAIN e.kv = D /\ H \cup D = D
    BY <1>0, <1>d DEF KH
  <2> HIDE DEF z
  <2>3. KH = [r \in D |-> IF r \in H THEN z[r] ELSE e.kv[r]]
    BY <2>2 DEF Over
  <2>4. QED
    BY <1>0, <2>1, <2>3
<1>7. /\ CH \in [A -> [P -> Stored]]
      /\ \A s \in S : CH[s] = [e.compact[s] EXCEPT ![qs[s + 1]] = ts[s + 1]]
  <2> DEFINE z == [s \in S |-> [e.compact[s] EXCEPT ![qs[s + 1]] = ts[s + 1]]]
  <2>1. \A s \in S : z[s] = [e.compact[s] EXCEPT ![qs[s + 1]] = ts[s + 1]] /\ z[s] \in [P -> Stored]
    BY <1>0, <1>2, <1>t
  <2>2. CH = Over(z, e.compact) /\ DOMAIN z = S /\ DOMAIN e.compact = A /\ S \cup A = A
    BY <1>0, <1>2 DEF CH
  <2> HIDE DEF z
  <2>3. CH = [t \in A |-> IF t \in S THEN z[t] ELSE e.compact[t]]
    BY <2>2 DEF Over
  <2>4. QED
    BY <1>0, <1>2, <2>1, <2>3
<1>8. BB \in [A -> Token] /\ \A s \in S : BB[s] = BatchDecoded(e, ts, qs, s)
  <2> DEFINE z == [s \in S |-> BatchDecoded(e, ts, qs, s)]
  <2>1. \A s \in S : z[s] = BatchDecoded(e, ts, qs, s) /\ z[s] \in Token
    BY SampleType DEF BatchDecoded
  <2>2. BB = Over(z, e.best) /\ DOMAIN z = S /\ DOMAIN e.best = A /\ S \cup A = A
    BY <1>0, <1>2 DEF BB
  <2> HIDE DEF z
  <2>3. BB = [t \in A |-> IF t \in S THEN z[t] ELSE e.best[t]]
    BY <2>2 DEF Over
  <2>4. QED
    BY <1>0, <1>2, <2>1, <2>3
<1>9. KK \in [D -> Stored] /\ CC \in [A -> [P -> Stored]] /\ (~c => KK = KH) /\ (c => CC = CH)
  BY <1>0, <1>6, <1>7 DEF KK, CC
<1>10. Slots(f) = Slots(e) /\ f.max = e.max /\ f.win = e.win /\ (~f.tq <=> ~e.tq)
  BY <1>4 DEF Slots, SameBuild
<1>11. Typed(f)
  <2>1. f.rec \in [A -> TokenSeq] /\ f.kv \in [D -> Stored] /\ f.best \in [A -> Token]
        /\ f.compact \in [A -> [P -> Stored]]
    BY <1>4, <1>5, <1>8, <1>9
  <2>2. QED
    BY <1>4, <1>10, <2>1 DEF Typed, A, D, P
<1>12. ASSUME NEW s \in S, ~c, \A b \in 1..Len(ts) : qs[b] < e.win, NEW q \in 0..(e.win - 1)
       PROVE  Cell(f, s, q) = IF q = qs[s + 1] THEN ts[s + 1] ELSE Cell(e, s, q)
  <2>0. s \in A /\ Row(e, s, q) \in D /\ Cell(f, s, q) = KH[Row(e, s, q)] /\ Cell(e, s, q) = e.kv[Row(e, s, q)]
    BY <1>2, <1>4, <1>9, <1>10, <1>12, <1>r DEF Cell, Row
  <2>p. \A t \in S : qs[t + 1] \in 0..(e.win - 1)
    BY <1>0, <1>2, <1>12, Sizes DEF Inputs, n
  <2>1. CASE q = qs[s + 1]
    <3>1. Row(e, s, q) \in H
      BY <1>0, <1>12, <2>0, <2>1 DEF Hits, S, H
    <3> DEFINE t == HitBy(e, ts, qs, Row(e, s, q))
    <3>2. t \in S /\ Row(e, t, qs[t + 1]) = Row(e, s, q)
      BY <1>h, <3>1
    <3> HIDE DEF t
    <3>3. t = s
      BY <1>2, <1>r, <2>0, <2>p, <3>2
    <3>4. KH[Row(e, s, q)] = ts[t + 1]
      BY <1>6, <2>0, <3>1 DEF t
    <3>5. QED
      BY <2>0, <2>1, <3>3, <3>4
  <2>2. CASE q # qs[s + 1]
    <3>1. Row(e, s, q) \notin H
      <4>1. SUFFICES ASSUME Row(e, s, q) \in H PROVE FALSE
        OBVIOUS
      <4> DEFINE t == HitBy(e, ts, qs, Row(e, s, q))
      <4>2. t \in S /\ Row(e, t, qs[t + 1]) = Row(e, s, q)
        BY <1>h, <4>1
      <4> HIDE DEF t
      <4>3. t = s /\ qs[t + 1] = q
        BY <1>2, <1>r, <2>0, <2>p, <4>2
      <4>4. QED
        BY <2>2, <4>3
    <3>2. QED
      BY <1>6, <2>0, <2>2, <3>1
  <2>3. QED
    BY <2>1, <2>2
<1>13. ASSUME NEW s \in S, c, NEW q \in P
       PROVE  f.compact[s][q] = IF q = qs[s + 1] THEN ts[s + 1] ELSE e.compact[s][q]
  <2>1. f.compact[s] = [e.compact[s] EXCEPT ![qs[s + 1]] = ts[s + 1]]
    BY <1>4, <1>7, <1>9, <1>13
  <2>2. e.compact[s] \in [P -> Stored]
    BY <1>0, <1>2
  <2>3. QED
    BY <2>1, <2>2
<1>14. Stepped(e, f, ts, qs)
  BY <1>4, <1>5, <1>8, <1>12, <1>13 DEF Stepped, S, P, c
<1>15. QED
  BY <1>4, <1>11, <1>14 DEF f

LEMMA AppendedIs ==
  ASSUME NEW h \in Seq(Token), NEW x \in Token
  PROVE  /\ Append(h, x) \in Seq(Token) /\ Len(Append(h, x)) = Len(h) + 1
         /\ \A q \in 0..Len(h) : Append(h, x)[q + 1] = IF q = Len(h) THEN x ELSE h[q + 1]
OBVIOUS

\* A slot that stands for h, given its next token at the next position, stands
\* for h with that token, and its answer is what greedy decoding goes on with.
LEMMA StepStands ==
  ASSUME NEW e, Typed(e), NEW ts, NEW qs, Inputs(e, ts, qs), NEW f, Typed(f), SameBuild(e, f),
         Stepped(e, f, ts, qs), NEW s \in BatchSlots(ts), NEW inside,
         NEW h \in Seq(Token), Stands(e, s, h, inside), qs[s + 1] = Len(h), Len(h) < Ctx,
         inside => \A b \in 1..Len(ts) : qs[b] < e.win, ~inside => qs[1] >= e.win
  PROVE  /\ Stands(f, s, Append(h, ts[s + 1]), inside)
         /\ f.best[s] = Sample(Append(h, ts[s + 1]), Append(h, ts[s + 1]))
<1> DEFINE x == ts[s + 1]
           hx == Append(h, x)
           p == Len(h)
<1>0. /\ e.win \in 1..Ctx /\ e.win \in Nat /\ Ctx \in Nat /\ p \in Nat /\ p < Ctx /\ e.max \in Nat \ {0}
  BY Sizes DEF Typed
<1>1. Len(ts) \in 1..e.max /\ ts \in Seq(Token)
  BY DEF Inputs
<1>2. s \in Slots(e) /\ s + 1 \in 1..Len(ts) /\ x \in Token
  <2>1. s \in Slots(e) /\ s + 1 \in 1..Len(ts)
    BY <1>0, <1>1 DEF BatchSlots, Slots
  <2>2. QED
    BY <1>1, <2>1, ElementOfSeq
<1>3. /\ hx \in Seq(Token) /\ Len(hx) = p + 1
      /\ \A q \in 0..p : hx[q + 1] = IF q = p THEN x ELSE h[q + 1]
  BY <1>2, AppendedIs
<1>4. f.win = e.win /\ (e.tq => f.tq)
  BY DEF SameBuild
<1>5. f.rec[s] = hx /\ e.rec[s] = h
  BY DEF Stepped, Stands
<1>6. f.best[s] = Sample(Append(e.rec[s], x), Append(Attending(e, qs, s), x))
  BY DEF Stepped, BatchDecoded
<1>7. Attending(e, qs, s) = Attended(e, s, p, Compacted(e, qs))
  BY DEF Attending
<1>f. /\ ~Compacted(e, qs) /\ (\A b \in 1..Len(ts) : qs[b] < e.win) =>
           \A q \in 0..(e.win - 1) : Cell(f, s, q) = IF q = p THEN x ELSE Cell(e, s, q)
      /\ Compacted(e, qs) =>
           \A q \in 0..(Ctx - 1) : f.compact[s][q] = IF q = p THEN x ELSE e.compact[s][q]
  BY DEF Stepped
<1> HIDE DEF x, hx, p
<1>8. ASSUME inside PROVE Stands(f, s, hx, inside) /\ Attending(e, qs, s) = h
  <2>1. InWindow(e, s, h) /\ p < e.win /\ ~Compacted(e, qs)
    <3>1. InWindow(e, s, h) /\ \A b \in 1..Len(ts) : qs[b] < e.win
      BY <1>8 DEF Stands
    <3>2. 1 \in 1..Len(ts)
      BY <1>0, <1>1
    <3>3. p < e.win /\ qs[1] < e.win /\ qs[1] \in 0..Ctx
      BY <1>2, <3>1, <3>2 DEF p, Inputs
    <3>4. ~(qs[1] >= e.win)
      BY <1>0, <3>3
    <3>5. QED
      BY <3>1, <3>3, <3>4 DEF Compacted
  <2>2. \A q \in 0..(e.win - 1) : Cell(f, s, q) = IF q = p THEN x ELSE Cell(e, s, q)
    BY <1>8, <1>f, <2>1
  <2>3. ASSUME NEW q \in 0..(Len(hx) - 1) PROVE q < f.win /\ Cell(f, s, q) = hx[q + 1]
    <3>1. q \in 0..p /\ q \in 0..(e.win - 1) /\ q < f.win
      BY <1>0, <1>3, <1>4, <2>1
    <3>2. CASE q = p
      BY <1>3, <2>2, <3>1, <3>2
    <3>3. CASE q # p
      <4>1. q \in 0..(Len(h) - 1)
        BY <1>0, <3>1, <3>3 DEF p
      <4>2. Cell(e, s, q) = h[q + 1]
        BY <2>1, <4>1 DEF InWindow
      <4>3. QED
        BY <1>3, <2>2, <3>1, <3>3, <4>2
    <3>4. QED
      BY <3>2, <3>3
  <2>4. Stands(f, s, hx, inside)
    BY <1>5, <1>8, <2>3 DEF Stands, InWindow
  <2>5. IF FALSE THEN InCompact(e, s, h) ELSE InWindow(e, s, h)
    BY <2>1
  <2>6. Attended(e, s, p, FALSE) = h
    BY <1>2, <2>5, AttendedIs DEF p
  <2>7. Compacted(e, qs) = FALSE
    BY <2>1 DEF Compacted
  <2>8. QED
    BY <1>7, <2>4, <2>6, <2>7
<1>9. ASSUME ~inside PROVE Stands(f, s, hx, inside) /\ Attending(e, qs, s) = h
  <2>1. InCompact(e, s, h) /\ e.tq /\ p >= e.win /\ Compacted(e, qs)
    BY <1>9 DEF Stands, p, Compacted
  <2>2. \A q \in 0..(Ctx - 1) : f.compact[s][q] = IF q = p THEN x ELSE e.compact[s][q]
    BY <1>f, <2>1
  <2>3. ASSUME NEW q \in 0..(Len(hx) - 1) PROVE f.compact[s][q] = hx[q + 1]
    <3>1. q \in 0..p /\ q \in 0..(Ctx - 1)
      BY <1>0, <1>3
    <3>2. CASE q = p
      BY <1>3, <2>2, <3>1, <3>2
    <3>3. CASE q # p
      <4>1. q \in 0..(Len(h) - 1)
        BY <1>0, <3>1, <3>3 DEF p
      <4>2. e.compact[s][q] = h[q + 1]
        BY <2>1, <4>1 DEF InCompact
      <4>3. QED
        BY <1>3, <2>2, <3>1, <3>3, <4>2
    <3>4. QED
      BY <3>2, <3>3
  <2>4. Stands(f, s, hx, inside)
    <3>1. Len(hx) >= f.win /\ f.tq
      BY <1>0, <1>3, <1>4, <2>1
    <3>2. QED
      BY <1>5, <1>9, <2>3, <3>1 DEF Stands, InCompact
  <2>5. IF TRUE THEN InCompact(e, s, h) ELSE InWindow(e, s, h)
    BY <2>1
  <2>6. Attended(e, s, p, TRUE) = h
    BY <1>2, <2>5, AttendedIs DEF p
  <2>7. Compacted(e, qs) = TRUE
    BY <2>1 DEF Compacted
  <2>8. QED
    BY <1>7, <2>4, <2>6, <2>7
<1>10. Stands(f, s, hx, inside) /\ Attending(e, qs, s) = h
  BY <1>8, <1>9
<1>11. QED
  BY <1>5, <1>6, <1>10 DEF hx, x

-----------------------------------------------------------------------------
(***************************************************************************)
(* A sequence that goes on by itself                                       *)
(***************************************************************************)
FeedsItself(e, ts, n) ==
  \A k \in 1..n : ts[k] = IF k = 1 THEN e.last ELSE Decode(e, SubSeq(ts, 1, k - 1)).last

LEMMA SamePrefix ==
  ASSUME NEW m \in Nat, NEW s \in [1..m -> Token], NEW t \in [1..(m + 1) -> Token],
         \A k \in 1..m : t[k] = s[k], NEW i \in 0..m
  PROVE  SubSeq(t, 1, i) = SubSeq(s, 1, i)
<1>1. /\ SubSeq(t, 1, i) = [k \in 1..i |-> t[k]] /\ SubSeq(s, 1, i) = [k \in 1..i |-> s[k]]
      /\ \A k \in 1..i : t[k] = s[k]
  <2>1. s \in Seq(Token) /\ Len(s) = m /\ t \in Seq(Token) /\ Len(t) = m + 1
    OBVIOUS
  <2>2. SubSeq(t, 1, i) = [k \in 1..i |-> t[k]]
    BY <2>1
  <2>3. SubSeq(s, 1, i) = [k \in 1..i |-> s[k]]
    BY <2>1
  <2>4. QED
    BY <2>2, <2>3
<1>2. QED
  BY <1>1

LEMMA DecodedToken ==
  ASSUME NEW e, Typed(e), NEW ts \in Seq(Token), e.pos + Len(ts) <= Ctx
  PROVE  Decode(e, ts).last \in Token
<1>1. Typed(Decode(e, ts))
  BY DecodeIs
<1>2. QED
  BY <1>1 DEF Typed

LEMMA FedOneMore ==
  ASSUME NEW e, Typed(e), NEW m \in Nat, NEW s \in [1..m -> Token], FeedsItself(e, s, m), e.pos + m <= Ctx
  PROVE  \E t \in [1..(m + 1) -> Token] : FeedsItself(e, t, m + 1)
<1> DEFINE b == IF m = 0 THEN e.last ELSE Decode(e, s).last
           t == [k \in 1..(m + 1) |-> IF k <= m THEN s[k] ELSE b]
<1>1. s \in Seq(Token) /\ Len(s) = m
  OBVIOUS
<1>2. b \in Token
  <2>1. e.last \in Token
    BY DEF Typed
  <2>2. QED
    BY <1>1, <2>1, DecodedToken
<1>3. b = IF m + 1 = 1 THEN e.last ELSE Decode(e, s).last
  OBVIOUS
<1> HIDE DEF b
<1>4. t \in [1..(m + 1) -> Token] /\ t[m + 1] = b /\ \A k \in 1..m : t[k] = s[k]
  BY <1>2
<1> HIDE DEF t
<1>5. \A i \in 0..m : SubSeq(t, 1, i) = SubSeq(s, 1, i)
  BY <1>4, SamePrefix
<1>6. SubSeq(s, 1, m) = s
  BY <1>1
<1>7. ASSUME NEW k \in 1..(m + 1)
      PROVE  t[k] = IF k = 1 THEN e.last ELSE Decode(e, SubSeq(t, 1, k - 1)).last
  <2>1. k - 1 \in 0..m /\ (k \in 1..m \/ k = m + 1)
    OBVIOUS
  <2>2. SubSeq(t, 1, k - 1) = SubSeq(s, 1, k - 1)
    BY <1>5, <2>1
  <2>3. CASE k \in 1..m
    <3>1. t[k] = s[k]
      BY <1>4, <2>3
    <3>2. s[k] = IF k = 1 THEN e.last ELSE Decode(e, SubSeq(s, 1, k - 1)).last
      BY <2>3 DEF FeedsItself
    <3>3. QED
      BY <2>2, <3>1, <3>2
  <2>4. CASE k = m + 1
    <3>1. k - 1 = m /\ SubSeq(t, 1, k - 1) = s
      BY <1>6, <2>2, <2>4
    <3>2. t[k] = b
      BY <1>4, <2>4
    <3>3. QED
      BY <1>3, <2>4, <3>1, <3>2
  <2>5. QED
    BY <2>1, <2>3, <2>4
<1>8. FeedsItself(e, t, m + 1)
  BY <1>7 DEF FeedsItself
<1>9. QED
  BY <1>4, <1>8

LEMMA SelfFedIs ==
  ASSUME NEW e, Typed(e), NEW n \in Nat, e.pos + n <= Ctx
  PROVE  SelfFed(e, n) \in [1..n -> Token] /\ FeedsItself(e, SelfFed(e, n), n)
<1> DEFINE G == {m \in 0..n : \E s \in [1..m -> Token] : FeedsItself(e, s, m)}
<1>1. e.pos \in Nat
  BY DEF Typed
<1>2. 0 \in G
  <2> DEFINE s == [k \in 1..0 |-> e.last]
  <2>1. s \in [1..0 -> Token]
    OBVIOUS
  <2>2. FeedsItself(e, s, 0)
    BY DEF FeedsItself
  <2> HIDE DEF s
  <2>3. \E x \in [1..0 -> Token] : FeedsItself(e, x, 0)
    BY <2>1, <2>2
  <2>4. 0 \in 0..n
    OBVIOUS
  <2>5. QED
    BY <2>3, <2>4
<1>3. ASSUME NEW m \in 0..(n - 1), m \in G PROVE m + 1 \in G
  <2>1. PICK s \in [1..m -> Token] : FeedsItself(e, s, m)
    BY <1>3
  <2>2. m \in Nat /\ e.pos + m <= Ctx /\ m + 1 \in 0..n
    BY <1>1, Sizes
  <2>3. QED
    BY <2>1, <2>2, FedOneMore
<1>4. Positions!Reaches(G, n)
  BY Positions!Upwards
<1> HIDE DEF G
<1>5. n \in G
  BY <1>2, <1>3, <1>4 DEF Positions!Reaches
<1>6. \E s \in [1..n -> Token] : FeedsItself(e, s, n)
  BY <1>5 DEF G
<1>7. SelfFed(e, n) = CHOOSE s \in [1..n -> Token] : FeedsItself(e, s, n)
  BY DEF SelfFed, FeedsItself
<1>8. QED
  BY <1>6, <1>7

LEMMA StepsTyped ==
  ASSUME NEW e, Typed(e), NEW n \in Nat, e.pos + n <= Ctx
  PROVE  LET f == DecodeSteps(e, n)
         IN  Typed(f) /\ SameBuild(e, f) /\ f.pos = e.pos + n /\ f.best = e.best
<1>1. CASE n = 0
  <2>1. DecodeSteps(e, n) = e
    BY <1>1 DEF DecodeSteps
  <2>2. e.pos + n = e.pos
    BY <1>1 DEF Typed
  <2>3. QED
    BY <2>1, <2>2 DEF SameBuild
<1>2. CASE n # 0
  <2> DEFINE s == SelfFed(e, n)
  <2>1. s \in [1..n -> Token]
    BY SelfFedIs
  <2>2. DecodeSteps(e, n) = Decode(e, s)
    BY <1>2 DEF DecodeSteps
  <2> HIDE DEF s
  <2>3. s \in Seq(Token) /\ Len(s) = n
    BY <2>1
  <2>4. LET f == Decode(e, s)
        IN  Typed(f) /\ SameBuild(e, f) /\ f.pos = e.pos + Len(s) /\ f.best = e.best
    BY <2>3, DecodeIs
  <2>5. QED
    BY <2>2, <2>3, <2>4
<1>3. QED
  BY <1>1, <1>2

-----------------------------------------------------------------------------
(***************************************************************************)
(* generate_batch: the shape of its state                                  *)
(***************************************************************************)
LaneCount == Lanes(eng, prompts)

\* The call's arguments and its answers so far.
Asked ==
  /\ prompts \in Seq(TokenSeq) /\ Len(prompts) >= 1 /\ want \in Nat
  /\ \A i \in 1..Len(prompts) : Len(prompts[i]) >= 1 /\ Len(prompts[i]) + want <= Ctx
  /\ out \in Seq(TokenSeq) /\ Len(out) = Len(prompts)
Slotted == Asked /\ Len(prompts) >= 2 /\ eng.max >= 2

\* The sequences that have an entry in toks have k tokens, the others none.
Shares(k) == \A i \in 1..Len(prompts) : Len(out[i]) = IF i <= Len(toks) THEN k ELSE 0

\* Those sequences have a position too, behind what was fed.
Placed(k) ==
  /\ Shares(k) /\ toks \in TokenSeq /\ poss \in Seq(0..Ctx) /\ Len(poss) = Len(toks)
  /\ \A b \in 1..Len(toks) : poss[b] = Len(prompts[b]) + k - 1

AtIdle == pc = "idle" /\ prompts = <<>> /\ want = 0 /\ toks = <<>> /\ poss = <<>> /\ out = <<>>
AtAlone ==
  /\ pc = "alone" /\ Asked /\ (Len(prompts) = 1 \/ eng.max < 2)
  /\ toks \in TokenSeq /\ Len(toks) <= Len(prompts) /\ poss = <<>> /\ Shares(want)
AtSame == pc = "same" /\ Slotted /\ Same(Batch) /\ toks = <<>> /\ poss = <<>> /\ Shares(0)
AtPacked == pc = "packed" /\ Slotted /\ SameLength(Batch) /\ toks = <<>> /\ poss = <<>> /\ Shares(0)
AtColumns ==
  /\ pc = "columns" /\ Slotted /\ SameLength(Batch) /\ toks = <<>> /\ Shares(0)
  /\ poss \in Seq(0..Ctx) /\ Len(poss) = LaneCount /\ poss[1] < Len(prompts[1])
  /\ \A b \in 1..LaneCount : poss[b] = poss[1]
AtSlots == pc = "slots" /\ Slotted /\ Len(toks) < LaneCount /\ Placed(1)
Rounds == 1..Max({want, 1})
AtDecode == pc = "decode" /\ Slotted /\ Len(toks) = LaneCount /\ \E k \in Rounds : Placed(k)

TInv ==
  /\ Typed(eng)
  /\ \/ AtIdle \/ AtAlone \/ AtSame \/ AtPacked \/ AtColumns \/ AtSlots \/ AtDecode

LEMMA BatchIs ==
  ASSUME Typed(eng), Asked
  PROVE  /\ LaneCount \in 1..Len(prompts) /\ LaneCount \in 1..eng.max
         /\ (Len(prompts) >= 2 /\ eng.max >= 2 => LaneCount >= 2)
         /\ Batch \in Seq(Seq(Token)) /\ Len(Batch) = LaneCount /\ DOMAIN Batch = 1..LaneCount
         /\ \A b \in 1..LaneCount : Batch[b] = prompts[b]
<1> DEFINE l == Len(prompts)
           m == eng.max
           n == LaneCount
<1>1. l \in Nat /\ l >= 1 /\ m \in Nat /\ m >= 1 /\ prompts \in Seq(Seq(Token))
  BY DEF Asked, Typed, TokenSeq
<1>2. n = IF l <= m THEN l ELSE m
  <2>1. n = Min({l, m})
    BY DEF LaneCount, Lanes
  <2> HIDE DEF l, m, n
  <2>2. QED
    BY <1>1, <2>1, MinOfTwo
<1>3. Batch = SubSeq(prompts, 1, n)
  BY DEF Batch, LaneCount
<1> HIDE DEF n, m
<1>4. n \in 1..l /\ n \in 1..m /\ (l >= 2 /\ m >= 2 => n >= 2)
  <2> HIDE DEF l
  <2>1. QED
    BY <1>1, <1>2
<1>5. /\ SubSeq(prompts, 1, n) \in Seq(Seq(Token)) /\ Len(SubSeq(prompts, 1, n)) = n
      /\ \A b \in 1..n : SubSeq(prompts, 1, n)[b] = prompts[b]
  BY <1>1, <1>4
<1>6. DOMAIN Batch = 1..n
  BY <1>3, <1>5
<1>7. QED
  BY <1>3, <1>4, <1>5, <1>6 DEF n, m

\* A prompt of the call.
LEMMA PromptIs ==
  ASSUME Asked, NEW i \in 1..Len(prompts)
  PROVE  Prompt(prompts[i]) /\ prompts[i] \in Seq(Token) /\ Len(prompts[i]) \in Nat
<1>1. prompts[i] \in Seq(Token)
  BY DEF Asked, TokenSeq
<1>2. Len(prompts[i]) \in Nat /\ Len(prompts[i]) >= 1 /\ Len(prompts[i]) + want <= Ctx /\ want \in Nat /\ Ctx \in Nat
  BY <1>1, Sizes DEF Asked
<1>3. Len(prompts[i]) \in 1..Ctx
  BY <1>2
<1>4. QED
  BY <1>1, <1>2, <1>3 DEF Prompt

\* A step that leaves the call alone.
CallStays == prompts' = prompts /\ want' = want /\ Typed(eng') /\ SameBuild(eng, eng')

LEMMA SameBatch ==
  ASSUME CallStays
  PROVE  LaneCount' = LaneCount /\ Batch' = Batch /\ (Slotted => eng'.max >= 2)
<1>1. eng'.max = eng.max
  BY DEF CallStays, SameBuild
<1>2. QED
  BY <1>1 DEF CallStays, LaneCount, Lanes, Batch, Slotted

LEMMA FirstTokensIs ==
  ASSUME Asked, CallStays, NEW ts \in Seq(Token), Len(ts) <= Len(prompts), FirstTokens(ts)
  PROVE  /\ Asked' /\ Placed(1)' /\ toks' = ts
         /\ \A b \in 1..Len(ts) : out'[b] = <<ts[b]>> /\ poss'[b] = Len(prompts[b])
<1> DEFINE m == Len(ts)
           l == Len(prompts)
<1>0. m \in Nat /\ l \in Nat /\ m <= l /\ DOMAIN ts = 1..m /\ DOMAIN prompts = 1..l
  BY DEF Asked
<1>1. /\ toks' = ts /\ poss' = [b \in 1..m |-> Len(prompts[b])]
      /\ out' = [i \in 1..l |-> IF i \in 1..m THEN <<ts[i]>> ELSE <<>>]
  BY <1>0 DEF FirstTokens
<1>2. \A b \in 1..m : Len(prompts[b]) \in 0..Ctx /\ ts[b] \in Token
  <2> TAKE b \in 1..m
  <2>1. b \in 1..l
    BY <1>0
  <2>2. Len(prompts[b]) \in 1..Ctx
    BY <2>1, PromptIs DEF Prompt
  <2>3. QED
    BY <1>0, <2>2, Sizes, ElementOfSeq
<1>3. \A i \in 1..l : /\ out'[i] \in TokenSeq /\ Len(out'[i]) = IF i <= m THEN 1 ELSE 0
                      /\ (i <= m => out'[i] = <<ts[i]>>)
  <2> TAKE i \in 1..l
  <2>1. CASE i <= m
    <3>1. i \in 1..m /\ ts[i] \in Token
      BY <1>0, <1>2, <2>1
    <3>2. out'[i] = <<ts[i]>>
      BY <1>1, <3>1
    <3>3. QED
      BY <2>1, <3>1, <3>2 DEF TokenSeq
  <2>2. CASE ~(i <= m)
    <3>1. out'[i] = <<>>
      BY <1>0, <1>1, <2>2
    <3>2. QED
      BY <2>2, <3>1 DEF TokenSeq
  <2>3. QED
    BY <2>1, <2>2
<1>4. out' \in [1..l -> TokenSeq]
  <2>1. DOMAIN out' = 1..l /\ out' = [i \in 1..l |-> out'[i]]
    BY <1>1
  <2>2. QED
    BY <1>3, <2>1
<1>5. out' \in Seq(TokenSeq) /\ Len(out') = l
  BY <1>0, <1>4
<1>6. poss' \in Seq(0..Ctx) /\ Len(poss') = m /\ \A b \in 1..m : poss'[b] = Len(prompts[b])
  <2>1. poss' \in [1..m -> 0..Ctx]
    BY <1>1, <1>2
  <2>2. QED
    BY <1>0, <1>1, <2>1
<1>7. prompts' = prompts /\ want' = want
  BY DEF CallStays
<1>8. Asked'
  BY <1>5, <1>7 DEF Asked
<1>9. Placed(1)'
  <2>1. Shares(1)'
    BY <1>1, <1>3, <1>7 DEF Shares
  <2>2. \A b \in 1..m : poss'[b] = Len(prompts[b]) + 1 - 1
    BY <1>0, <1>6
  <2>3. QED
    BY <1>1, <1>6, <1>7, <2>1, <2>2 DEF Placed, TokenSeq
<1>10. QED
  BY <1>0, <1>1, <1>3, <1>6, <1>8, <1>9

LEMMA GreediesAre ==
  ASSUME Typed(eng), Asked, CallStays
  PROVE  /\ Greedies(eng') \in Seq(Token) /\ Len(Greedies(eng')) = LaneCount
         /\ \A b \in 1..LaneCount : Greedies(eng')[b] = eng'.best[b - 1]
<1> DEFINE n == LaneCount
<1>1. n \in 1..eng.max /\ DOMAIN Batch = 1..n /\ n \in Nat /\ eng.max \in Nat
  BY BatchIs DEF Typed
<1>2. eng'.best \in [0..(eng'.max - 1) -> Token] /\ eng'.max = eng.max
  BY DEF CallStays, Typed, Slots, SameBuild
<1>3. Greedies(eng') = [b \in 1..n |-> eng'.best[b - 1]]
  BY <1>1 DEF Greedies
<1> HIDE DEF n
<1>4. \A b \in 1..n : eng'.best[b - 1] \in Token
  <2> TAKE b \in 1..n
  <2>1. b - 1 \in 0..(eng'.max - 1)
    BY <1>1, <1>2
  <2>2. QED
    BY <1>2, <2>1
<1>5. [b \in 1..n |-> eng'.best[b - 1]] \in [1..n -> Token]
  BY <1>4
<1>6. QED
  BY <1>1, <1>3, <1>5 DEF n

LEMMA BuiltTyped ==
  ASSUME NEW k \in EngineKinds
  PROVE  Typed(BuiltEngine(k))
<1> DEFINE f == BuiltEngine(k)
<1>1. /\ k.max \in Nat \ {0} /\ k.win \in 1..Ctx /\ (~k.tq => k.win = Ctx) /\ 0 \in 0..Ctx
      /\ 0 \in Token /\ Blank \in Stored
  BY Sizes, SlotEngineAssumption
<1>2. /\ DOMAIN f = Fields /\ f.max = k.max /\ f.win = k.win /\ f.tq = k.tq /\ f.pos = 0 /\ f.last = 0
      /\ f.rec = [s \in 0..(k.max - 1) |-> <<>>]
      /\ f.kv = [r \in 0..(k.max * k.win - 1) |-> Blank]
      /\ f.compact = [s \in 0..(k.max - 1) |-> [p \in 0..(Ctx - 1) |-> Blank]]
      /\ f.best = [s \in 0..(k.max - 1) |-> 0]
  BY DEF BuiltEngine, Fields
<1>3. <<>> \in TokenSeq
  BY DEF TokenSeq
<1> HIDE DEF f
<1>4. Typed(f)
  BY <1>1, <1>2, <1>3 DEF Typed, Slots, Shaped
<1>5. QED
  BY <1>4 DEF f

LEMMA InitHolds == Init => TInv
<1> SUFFICES ASSUME Init PROVE TInv
  OBVIOUS
<1>1. PICK k \in EngineKinds : eng = BuiltEngine(k)
  BY DEF Init
<1>2. Typed(eng)
  BY <1>1, BuiltTyped
<1>3. AtIdle
  BY DEF Init, AtIdle
<1>4. QED
  BY <1>2, <1>3 DEF TInv

LEMMA LanesAre ==
  ASSUME NEW e, Typed(e), NEW ps \in Seq(TokenSeq), Len(ps) >= 1
  PROVE  Lanes(e, ps) \in Nat /\ Lanes(e, ps) >= 1
<1> DEFINE l == Len(ps)
           m == e.max
<1>1. l \in Nat /\ l >= 1 /\ m \in Nat /\ m >= 1
  BY DEF Typed
<1>2. Lanes(e, ps) = Min({l, m})
  BY DEF Lanes
<1> HIDE DEF l, m
<1>3. QED
  BY <1>1, <1>2, MinOfTwo

LEMMA IdleIs == TInv /\ pc = "idle" => AtIdle
BY DEF TInv, AtIdle, AtAlone, AtSame, AtPacked, AtColumns, AtSlots, AtDecode

LEMMA BeginType ==
  ASSUME TInv, NEW ps \in Batches, NEW w \in 0..MaxWant, GenerateBatch(ps, w)
  PROVE  TInv' /\ pc' # "idle" /\ toks' = <<>> /\ eng' = eng
<1>1. /\ pc = "idle" /\ prompts' = ps /\ want' = w /\ pc' = PrefillBy(eng, ps)
      /\ out' = [i \in DOMAIN ps |-> <<>>] /\ UNCHANGED <<eng, toks, poss>>
      /\ \A i \in DOMAIN ps : Len(ps[i]) + w <= Ctx
  BY DEF GenerateBatch
<1>2. Typed(eng) /\ AtIdle
  BY <1>1, IdleIs DEF TInv
<1> DEFINE l == Len(ps)
<1>3. ps \in Seq(TokenSeq) /\ l \in Nat /\ l >= 1 /\ DOMAIN ps = 1..l /\ \A i \in 1..l : ps[i] \in Seq(Token) /\ Len(ps[i]) >= 1
  <2> DEFINE S == Seq(Token) \ {<<>>}
  <2>1. ps \in Seq(S) /\ ps # <<>>
    BY BatchAssumption
  <2>2. l \in Nat /\ DOMAIN ps = 1..l /\ ps \in [1..l -> S] /\ l # 0
    <3> HIDE DEF S
    <3>1. QED
      BY <2>1
  <2>3. \A i \in 1..l : ps[i] \in Seq(Token) /\ ps[i] # <<>>
    BY <2>2
  <2>4. \A i \in 1..l : Len(ps[i]) >= 1
    BY <2>3
  <2>5. ps \in [1..l -> TokenSeq]
    BY <2>2, <2>3 DEF TokenSeq
  <2>6. ps \in Seq(TokenSeq)
    BY <2>2, <2>5
  <2>7. QED
    BY <2>2, <2>3, <2>4, <2>6
<1>4. w \in Nat
  BY BatchAssumption
<1>5. out' \in Seq(TokenSeq) /\ Len(out') = l /\ \A i \in 1..l : Len(out'[i]) = 0
  <2>1. out' = [i \in 1..l |-> <<>>]
    BY <1>1, <1>3
  <2>2. out' \in [1..l -> TokenSeq]
    BY <2>1 DEF TokenSeq
  <2>3. QED
    BY <1>3, <2>1, <2>2
<1>6. Asked'
  BY <1>1, <1>3, <1>4, <1>5 DEF Asked
<1>7. toks' = <<>> /\ poss' = <<>> /\ eng' = eng
  BY <1>1, <1>2 DEF AtIdle
<1>8. (\A k : Shares(k)') /\ toks' \in TokenSeq /\ Len(toks') = 0 /\ poss' \in Seq(0..Ctx) /\ Len(poss') = 0
  <2>1. toks' \in TokenSeq /\ Len(toks') = 0 /\ poss' \in Seq(0..Ctx) /\ Len(poss') = 0
    BY <1>7 DEF TokenSeq
  <2>2. \A i \in 1..l : ~(i <= 0)
    OBVIOUS
  <2>3. ASSUME NEW k, NEW i \in 1..l PROVE Len(out'[i]) = IF i <= Len(toks') THEN k ELSE 0
    BY <1>5, <2>1, <2>2
  <2>4. \A k : Shares(k)'
    BY <1>1, <2>3 DEF Shares
  <2>5. QED
    BY <2>1, <2>4
<1>9. Placed(1)'
  <2>1. 1..Len(toks') = {}
    BY <1>8
  <2>2. QED
    BY <1>8, <2>1 DEF Placed
<1>10. Typed(eng')
  BY <1>2, <1>7
<1>11. Batch' = SubSeq(ps, 1, Lanes(eng, ps))
  BY <1>1, <1>7 DEF Batch
<1>12. CASE l = 1 \/ eng.max < 2
  <2>1. pc' = "alone"
    BY <1>1, <1>12 DEF PrefillBy
  <2>2. Len(prompts') = 1 \/ eng'.max < 2
    BY <1>1, <1>7, <1>12
  <2>3. Len(toks') <= Len(prompts')
    BY <1>1, <1>3, <1>8
  <2>4. AtAlone'
    BY <1>6, <1>7, <1>8, <2>1, <2>2, <2>3 DEF AtAlone
  <2>5. QED
    BY <1>7, <1>10, <2>1, <2>4 DEF TInv
<1>13. CASE ~(l = 1 \/ eng.max < 2)
  <2>1. Slotted'
    <3>1. eng.max \in Nat
      BY <1>2 DEF Typed
    <3>2. Len(prompts') >= 2 /\ eng'.max >= 2
      BY <1>1, <1>3, <1>7, <1>13, <3>1
    <3>3. QED
      BY <1>6, <3>2 DEF Slotted
  <2>2. pc' = IF Same(Batch') THEN "same" ELSE IF SameLength(Batch') THEN "packed" ELSE "slots"
    BY <1>1, <1>11, <1>13 DEF PrefillBy
  <2>3. CASE Same(Batch')
    <3>1. pc' = "same"
      BY <2>2, <2>3
    <3>2. AtSame'
      BY <1>7, <1>8, <2>1, <2>3, <3>1 DEF AtSame
    <3>3. QED
      BY <1>7, <1>10, <3>1, <3>2 DEF TInv
  <2>4. CASE ~Same(Batch') /\ SameLength(Batch')
    <3>1. pc' = "packed"
      BY <2>2, <2>4
    <3>2. AtPacked'
      BY <1>7, <1>8, <2>1, <2>4, <3>1 DEF AtPacked
    <3>3. QED
      BY <1>7, <1>10, <3>1, <3>2 DEF TInv
  <2>5. CASE ~Same(Batch') /\ ~SameLength(Batch')
    <3>1. pc' = "slots"
      BY <2>2, <2>5
    <3>2. Len(toks') < LaneCount'
      <4>1. LaneCount' \in Nat /\ LaneCount' >= 1
        BY <1>6, <1>10, LanesAre DEF Asked, LaneCount
      <4>2. QED
        BY <1>8, <4>1
    <3>3. AtSlots'
      BY <1>9, <2>1, <3>1, <3>2 DEF AtSlots
    <3>4. QED
      BY <1>7, <1>10, <3>1, <3>3 DEF TInv
  <2>6. QED
    BY <2>3, <2>4, <2>5
<1>14. QED
  BY <1>12, <1>13

\* What generate yields, token by token, for a prompt on its own.
Prefilling(i) == Prefill(eng, prompts[i])
Yield(i) == [k \in 1..want |-> DecodeSteps(Prefilling(i), k - 1).last]

LEMMA YieldIs ==
  ASSUME Typed(eng), Asked, NEW i \in 1..Len(prompts)
  PROVE  /\ Typed(Prefilling(i)) /\ SameBuild(eng, Prefilling(i)) /\ Prefilling(i).pos = Len(prompts[i])
         /\ \A n \in 0..want : Prefilling(i).pos + n <= Ctx
         /\ Yield(i) \in TokenSeq /\ Len(Yield(i)) = want
<1> DEFINE e == Prefilling(i)
<1>1. Typed(e) /\ SameBuild(eng, e) /\ e.pos = Len(prompts[i])
  <2>1. Prompt(prompts[i])
    BY PromptIs
  <2>2. QED
    BY <2>1, PrefillTyped DEF Prefilling
<1>2. want \in Nat /\ Len(prompts[i]) \in Nat /\ Len(prompts[i]) + want <= Ctx /\ Ctx \in Nat
  BY PromptIs, Sizes DEF Asked
<1> HIDE DEF e
<1>3. \A n \in 0..want : e.pos + n <= Ctx
  BY <1>1, <1>2
<1>4. ASSUME NEW k \in 1..want PROVE DecodeSteps(e, k - 1).last \in Token
  <2>1. k - 1 \in 0..want /\ k - 1 \in Nat
    BY <1>2
  <2>2. Typed(DecodeSteps(e, k - 1))
    BY <1>1, <1>3, <2>1, StepsTyped
  <2>3. QED
    BY <2>2 DEF Typed
<1>5. Yield(i) = [k \in 1..want |-> DecodeSteps(e, k - 1).last]
  BY DEF Yield, e
<1>6. Yield(i) \in [1..want -> Token]
  BY <1>4, <1>5
<1>7. Yield(i) \in Seq(Token) /\ Len(Yield(i)) = want
  BY <1>2, <1>6
<1>8. QED
  BY <1>1, <1>3, <1>7 DEF e, TokenSeq

LEMMA AloneType ==
  ASSUME TInv, GenerateAlone
  PROVE  /\ TInv' /\ AtAlone /\ AtAlone' /\ SameBuild(eng, eng')
         /\ LET i == Len(toks) + 1 IN i \in 1..Len(prompts) /\ out' = [out EXCEPT ![i] = Yield(i)]
<1> DEFINE i == Len(toks) + 1
           l == Len(prompts)
           e == Prefilling(i)
           n == Max({want - 1, 0})
<1>1. pc = "alone" /\ Len(toks) < l /\ pc' = pc /\ prompts' = prompts /\ want' = want /\ poss' = poss
  BY DEF GenerateAlone, call
<1>2. /\ eng' = DecodeSteps(e, n) /\ out' = [out EXCEPT ![i] = Yield(i)] /\ toks' = Append(toks, eng'.last)
  BY DEF GenerateAlone, Prefilling, Yield
<1>3. Typed(eng) /\ AtAlone /\ Asked
  BY <1>1 DEF TInv, AtIdle, AtAlone, AtSame, AtPacked, AtColumns, AtSlots, AtDecode
<1>4. /\ toks \in Seq(Token) /\ Len(toks) \in Nat /\ l \in Nat /\ want \in Nat
      /\ prompts \in Seq(TokenSeq) /\ out \in Seq(TokenSeq) /\ Len(out) = l /\ poss = <<>>
      /\ Len(prompts) = 1 \/ eng.max < 2
  BY <1>3 DEF AtAlone, Asked, TokenSeq
<1>5. i \in 1..l
  BY <1>1, <1>4
<1>6. n \in Nat /\ n \in 0..want
  <2>1. n = IF want - 1 >= 0 THEN want - 1 ELSE 0
    BY <1>4, MaxOfTwo
  <2>2. QED
    BY <1>4, <2>1
<1> HIDE DEF i, e, n
<1>7. Typed(e) /\ SameBuild(eng, e) /\ e.pos + n <= Ctx /\ Yield(i) \in TokenSeq /\ Len(Yield(i)) = want
  BY <1>3, <1>5, <1>6, YieldIs DEF e
<1>8. Typed(eng') /\ SameBuild(eng, eng')
  <2>1. Typed(DecodeSteps(e, n)) /\ SameBuild(e, DecodeSteps(e, n))
    BY <1>6, <1>7, StepsTyped
  <2>2. QED
    BY <1>2, <1>7, <2>1, LikeBuilt
<1>9. toks' \in TokenSeq /\ Len(toks') = Len(toks) + 1 /\ Len(toks') <= l
  <2>1. eng'.last \in Token
    BY <1>8 DEF Typed
  <2>2. QED
    BY <1>1, <1>2, <1>4, <2>1 DEF TokenSeq
<1>10. /\ out' \in Seq(TokenSeq) /\ Len(out') = l
       /\ \A j \in 1..l : out'[j] = IF j = i THEN Yield(i) ELSE out[j]
  <2>1. out \in [1..l -> TokenSeq]
    BY <1>4
  <2>2. out' \in [1..l -> TokenSeq]
    BY <1>2, <1>7, <2>1
  <2>3. \A j \in 1..l : out'[j] = IF j = i THEN Yield(i) ELSE out[j]
    BY <1>2, <2>1
  <2>4. QED
    BY <1>4, <2>2, <2>3
<1>11. Shares(want)'
  <2>1. \A j \in 1..l : Len(out[j]) = IF j <= Len(toks) THEN want ELSE 0
    BY <1>3 DEF AtAlone, Shares
  <2>2. ASSUME NEW j \in 1..l PROVE Len(out'[j]) = IF j <= Len(toks') THEN want ELSE 0
    <3>1. CASE j = i
      <4>1. j <= Len(toks')
        BY <1>4, <1>9, <3>1 DEF i
      <4>2. QED
        BY <1>7, <1>10, <3>1, <4>1
    <3>2. CASE j # i
      <4>1. j <= Len(toks') <=> j <= Len(toks)
        BY <1>4, <1>9, <3>2 DEF i
      <4>2. QED
        BY <1>10, <2>1, <3>2, <4>1
    <3>3. QED
      BY <3>1, <3>2
  <2>3. QED
    BY <1>1, <2>2 DEF Shares
<1>12. Asked'
  BY <1>1, <1>3, <1>10 DEF Asked
<1>13. eng'.max = eng.max
  BY <1>8 DEF SameBuild
<1>14. AtAlone'
  BY <1>1, <1>4, <1>9, <1>11, <1>12, <1>13 DEF AtAlone
<1>15. QED
  BY <1>2, <1>3, <1>5, <1>8, <1>14 DEF TInv, i

\* The slots have their first tokens.
LEMMA DecodeBegins ==
  ASSUME Typed(eng), Slotted, CallStays, NEW ts \in Seq(Token), Len(ts) = LaneCount, FirstTokens(ts), pc' = "decode"
  PROVE  /\ TInv' /\ AtDecode' /\ toks' = ts
         /\ \A b \in 1..LaneCount : out'[b] = <<ts[b]>> /\ poss'[b] = Len(prompts[b])
<1>1. Asked /\ LaneCount \in Nat /\ LaneCount <= Len(prompts) /\ want \in Nat
  <2>1. Asked
    BY DEF Slotted
  <2>2. LaneCount \in 1..Len(prompts)
    BY <2>1, BatchIs
  <2>3. QED
    BY <2>1, <2>2 DEF Asked
<1>2. /\ Asked' /\ Placed(1)' /\ toks' = ts
      /\ \A b \in 1..Len(ts) : out'[b] = <<ts[b]>> /\ poss'[b] = Len(prompts[b])
  BY <1>1, FirstTokensIs
<1>3. LaneCount' = LaneCount /\ eng'.max >= 2
  BY SameBatch
<1>4. Slotted'
  BY <1>2, <1>3 DEF Slotted, CallStays
<1>5. 1 \in Rounds'
  <2>1. want' = want
    BY DEF CallStays
  <2>2. Max({want, 1}) = IF want >= 1 THEN want ELSE 1
    BY <1>1, MaxOfTwo
  <2>3. 1 \in 1..Max({want, 1})
    BY <1>1, <2>2
  <2>4. QED
    BY <2>1, <2>3 DEF Rounds
<1>6. AtDecode'
  BY <1>2, <1>3, <1>4, <1>5 DEF AtDecode
<1>7. Typed(eng')
  BY DEF CallStays
<1>8. QED
  BY <1>2, <1>6, <1>7 DEF TInv

LEMMA SameIs == TInv /\ pc = "same" => Typed(eng) /\ AtSame
BY DEF TInv, AtIdle, AtAlone, AtSame, AtPacked, AtColumns, AtSlots, AtDecode

LEMMA PackedIs == TInv /\ pc = "packed" => Typed(eng) /\ AtPacked
BY DEF TInv, AtIdle, AtAlone, AtSame, AtPacked, AtColumns, AtSlots, AtDecode

LEMMA ColumnsIs == TInv /\ pc = "columns" => Typed(eng) /\ AtColumns
BY DEF TInv, AtIdle, AtAlone, AtSame, AtPacked, AtColumns, AtSlots, AtDecode

LEMMA SlotsIs == TInv /\ pc = "slots" => Typed(eng) /\ AtSlots
BY DEF TInv, AtIdle, AtAlone, AtSame, AtPacked, AtColumns, AtSlots, AtDecode

LEMMA LoopIs == TInv /\ pc = "decode" => Typed(eng) /\ AtDecode
BY DEF TInv, AtIdle, AtAlone, AtSame, AtPacked, AtColumns, AtSlots, AtDecode

LEMMA SlottedIs ==
  ASSUME Typed(eng), Slotted
  PROVE  /\ Asked /\ LaneCount \in Nat /\ LaneCount >= 2 /\ LaneCount <= Len(prompts) /\ LaneCount <= eng.max
         /\ eng.max \in Nat /\ Len(prompts) \in Nat /\ want \in Nat
         /\ Batch \in Seq(Seq(Token)) /\ Len(Batch) = LaneCount /\ DOMAIN Batch = 1..LaneCount
         /\ \A b \in 1..LaneCount : Batch[b] = prompts[b] /\ b \in 1..Len(prompts) /\ b - 1 \in Slots(eng)
<1>1. Asked /\ Len(prompts) >= 2 /\ eng.max >= 2
  BY DEF Slotted
<1>2. eng.max \in Nat /\ Len(prompts) \in Nat /\ want \in Nat
  BY <1>1 DEF Asked, Typed
<1>3. /\ LaneCount \in 1..Len(prompts) /\ LaneCount \in 1..eng.max /\ LaneCount >= 2
      /\ Batch \in Seq(Seq(Token)) /\ Len(Batch) = LaneCount /\ DOMAIN Batch = 1..LaneCount
      /\ \A b \in 1..LaneCount : Batch[b] = prompts[b]
  BY <1>1, BatchIs
<1>4. \A b \in 1..LaneCount : b \in 1..Len(prompts) /\ b - 1 \in Slots(eng)
  BY <1>2, <1>3 DEF Slots
<1>5. LaneCount \in Nat /\ LaneCount >= 2 /\ LaneCount <= Len(prompts) /\ LaneCount <= eng.max
  BY <1>2, <1>3
<1>6. \A b \in 1..LaneCount : Batch[b] = prompts[b] /\ b \in 1..Len(prompts) /\ b - 1 \in Slots(eng)
  BY <1>3, <1>4
<1>7. QED
  BY <1>1, <1>2, <1>3, <1>5, <1>6, Zenon

LEMMA SameType ==
  ASSUME TInv, PrefillSame
  PROVE  /\ TInv' /\ AtDecode' /\ AtSame /\ CallStays
         /\ eng' = Replicate(Prefill(eng, prompts[1]), LaneCount)
         /\ \A b \in 1..LaneCount : toks'[b] = eng'.last /\ out'[b] = <<eng'.last>> /\ poss'[b] = Len(prompts[b])
<1> DEFINE n == LaneCount
           e == Prefill(eng, prompts[1])
           ts == [b \in 1..n |-> eng'.last]
<1>1. Typed(eng) /\ AtSame /\ Slotted
  BY SameIs DEF PrefillSame, AtSame
<1>2. /\ Asked /\ n \in Nat /\ n >= 2 /\ n <= eng.max /\ n <= Len(prompts) /\ Len(Batch) = n /\ DOMAIN Batch = 1..n
      /\ eng.max \in Nat /\ Len(prompts) \in Nat
  BY <1>1, SlottedIs
<1>3. pc' = "decode" /\ prompts' = prompts /\ want' = want /\ eng' = Replicate(e, n) /\ FirstTokens(ts)
  BY <1>2 DEF PrefillSame, call
<1>4. Typed(e) /\ SameBuild(eng, e)
  <2>1. 1 \in 1..Len(prompts)
    BY <1>2
  <2>2. QED
    BY <1>1, <1>2, <2>1, PromptIs, PrefillTyped
<1> HIDE DEF e
<1>5. Typed(eng') /\ SameBuild(eng, eng')
  <2>1. n \in 1..e.max
    BY <1>2, <1>4 DEF SameBuild
  <2> HIDE DEF n
  <2>2. Typed(Replicate(e, n)) /\ SameBuild(e, Replicate(e, n))
    BY <1>4, <2>1, ReplicateIs
  <2>3. QED
    BY <1>3, <1>4, <2>2, LikeBuilt
<1>6. CallStays
  BY <1>3, <1>5 DEF CallStays
<1>7. ts \in Seq(Token) /\ Len(ts) = n /\ \A b \in 1..n : ts[b] = eng'.last
  <2>1. eng'.last \in Token
    BY <1>5 DEF Typed
  <2> HIDE DEF n
  <2>2. QED
    BY <1>2, <2>1
<1> HIDE DEF ts
<1>8. /\ TInv' /\ AtDecode' /\ toks' = ts
      /\ \A b \in 1..n : out'[b] = <<ts[b]>> /\ poss'[b] = Len(prompts[b])
  BY <1>1, <1>3, <1>6, <1>7, DecodeBegins
<1>9. QED
  BY <1>1, <1>3, <1>6, <1>7, <1>8 DEF e

LEMMA LengthsAre ==
  ASSUME Typed(eng), Slotted, SameLength(Batch)
  PROVE  /\ \A b \in 1..LaneCount : Len(prompts[b]) = Len(prompts[1])
         /\ Len(prompts[1]) \in 1..Ctx /\ prompts[1] \in Seq(Token)
<1>1. /\ DOMAIN Batch = 1..LaneCount /\ LaneCount \in Nat /\ LaneCount >= 2
      /\ \A b \in 1..LaneCount : Batch[b] = prompts[b] /\ b \in 1..Len(prompts)
      /\ Asked
  BY SlottedIs
<1>2. 1 \in 1..LaneCount
  BY <1>1
<1>3. \A b \in 1..LaneCount : Len(prompts[b]) = Len(prompts[1])
  BY <1>1, <1>2 DEF SameLength
<1>4. Prompt(prompts[1])
  BY <1>1, <1>2, PromptIs
<1>5. QED
  BY <1>3, <1>4 DEF Prompt

Zeroed == Zero(eng, 0..(LaneCount - 1))

LEMMA ZeroedIs ==
  ASSUME Typed(eng), Slotted
  PROVE  /\ Typed(Zeroed) /\ SameBuild(eng, Zeroed)
         /\ \A b \in 1..LaneCount : Zeroed.rec[b - 1] = <<>>
<1> DEFINE n == LaneCount
           S == 0..(n - 1)
<1>1. n \in Nat /\ n >= 2 /\ n <= eng.max /\ eng.max \in Nat
  BY SlottedIs
<1>2. S \subseteq Slots(eng)
  BY <1>1 DEF Slots
<1>3. Zeroed = Zero(eng, S)
  BY DEF Zeroed
<1> HIDE DEF S
<1>4. Typed(Zero(eng, S)) /\ SameBuild(eng, Zero(eng, S)) /\ \A s \in S : Zero(eng, S).rec[s] = <<>>
  BY <1>2, ZeroIs
<1>5. \A b \in 1..n : b - 1 \in S
  BY <1>1 DEF S
<1>6. QED
  BY <1>3, <1>4, <1>5

LEMMA BatchFits ==
  ASSUME Typed(eng), Slotted, SameLength(Batch)
  PROVE  Packed(Zeroed, Batch, Len(prompts[1]))
<1>1. /\ Batch \in Seq(Seq(Token)) /\ Len(Batch) = LaneCount /\ LaneCount \in Nat /\ LaneCount >= 2
      /\ LaneCount <= eng.max /\ eng.max \in Nat /\ \A b \in 1..LaneCount : Batch[b] = prompts[b]
  BY SlottedIs
<1>2. /\ \A b \in 1..LaneCount : Len(prompts[b]) = Len(prompts[1])
      /\ Len(prompts[1]) \in 1..Ctx
  BY LengthsAre
<1>3. Zeroed.max = eng.max
  BY ZeroedIs DEF SameBuild
<1>4. Len(Batch) \in 1..Zeroed.max
  BY <1>1, <1>3
<1>5. \A b \in 1..Len(Batch) : Len(Batch[b]) = Len(prompts[1])
  <2> TAKE b \in 1..Len(Batch)
  <2>1. b \in 1..LaneCount
    BY <1>1
  <2>2. Batch[b] = prompts[b] /\ Len(prompts[b]) = Len(prompts[1])
    BY <1>1, <1>2, <2>1
  <2>3. QED
    BY <2>2
<1>6. QED
  BY <1>1, <1>2, <1>4, <1>5 DEF Packed

LEMMA PackedType ==
  ASSUME TInv, PrefillPacked
  PROVE  /\ TInv' /\ AtDecode' /\ AtPacked /\ CallStays
         /\ eng' = PrefillEq(Zeroed, Batch)
         /\ \A b \in 1..LaneCount : /\ toks'[b] = eng'.best[b - 1] /\ out'[b] = <<eng'.best[b - 1]>>
                                    /\ poss'[b] = Len(prompts[b])
<1> DEFINE ts == Greedies(eng')
<1>1. Typed(eng) /\ AtPacked /\ Slotted /\ SameLength(Batch)
  BY PackedIs DEF PrefillPacked, AtPacked
<1>2. Asked /\ Len(Batch) = LaneCount
  BY <1>1, SlottedIs
<1>3. pc' = "decode" /\ prompts' = prompts /\ want' = want /\ eng' = PrefillEq(Zeroed, Batch) /\ FirstTokens(ts)
  BY <1>2 DEF PrefillPacked, call, Zeroed
<1>4. Typed(eng') /\ SameBuild(eng, eng')
  <2>1. Typed(Zeroed) /\ SameBuild(eng, Zeroed) /\ Packed(Zeroed, Batch, Len(prompts[1]))
    BY <1>1, ZeroedIs, BatchFits
  <2>2. Typed(PrefillEq(Zeroed, Batch)) /\ SameBuild(Zeroed, PrefillEq(Zeroed, Batch))
    BY <2>1, PrefillEqIs
  <2>3. QED
    BY <1>3, <2>1, <2>2, LikeBuilt
<1>5. CallStays
  BY <1>3, <1>4 DEF CallStays
<1>6. ts \in Seq(Token) /\ Len(ts) = LaneCount /\ \A b \in 1..LaneCount : ts[b] = eng'.best[b - 1]
  BY <1>1, <1>2, <1>5, GreediesAre
<1> HIDE DEF ts
<1>7. /\ TInv' /\ AtDecode' /\ toks' = ts
      /\ \A b \in 1..LaneCount : out'[b] = <<ts[b]>> /\ poss'[b] = Len(prompts[b])
  BY <1>1, <1>3, <1>5, <1>6, DecodeBegins
<1>8. QED
  BY <1>1, <1>3, <1>5, <1>6, <1>7

LEMMA ColumnsBegin ==
  ASSUME TInv, BeginColumns
  PROVE  TInv' /\ AtColumns' /\ AtPacked /\ CallStays /\ eng' = Zeroed /\ poss'[1] = 0 /\ out' = out
<1> DEFINE n == LaneCount
<1>1. Typed(eng) /\ AtPacked /\ Slotted /\ SameLength(Batch)
  BY PackedIs DEF BeginColumns, AtPacked
<1>2. /\ Asked /\ Len(Batch) = n /\ DOMAIN Batch = 1..n /\ n \in Nat /\ n >= 2
  BY <1>1, SlottedIs
<1>3. /\ pc' = "columns" /\ prompts' = prompts /\ want' = want /\ toks' = toks /\ out' = out /\ eng' = Zeroed
      /\ poss' = [b \in 1..n |-> 0]
  BY <1>2 DEF BeginColumns, call, Zeroed
<1>4. Typed(eng') /\ SameBuild(eng, eng')
  BY <1>1, <1>3, ZeroedIs
<1>5. CallStays
  BY <1>3, <1>4 DEF CallStays
<1>6. LaneCount' = n /\ Batch' = Batch /\ eng'.max >= 2
  BY <1>1, <1>5, SameBatch
<1>7. /\ poss' \in Seq(0..Ctx) /\ Len(poss') = n /\ poss'[1] = 0 /\ \A b \in 1..n : poss'[b] = 0
  <2> HIDE DEF n
  <2>1. 0 \in 0..Ctx /\ 1 \in 1..n
    BY <1>2, Sizes
  <2>2. QED
    BY <1>2, <1>3, <2>1
<1>8. Len(prompts[1]) \in 1..Ctx
  BY <1>1, LengthsAre
<1>9. Slotted' /\ SameLength(Batch)' /\ Shares(0)'
  <2>1. Asked' /\ Shares(0)'
    BY <1>1, <1>2, <1>3 DEF Asked, Shares, AtPacked
  <2>2. Slotted'
    BY <1>1, <1>3, <1>6, <2>1 DEF Slotted
  <2>3. QED
    BY <1>1, <1>6, <2>1, <2>2
<1>10. poss'[1] < Len(prompts'[1])
  BY <1>3, <1>7, <1>8, Sizes
<1>11. AtColumns'
  <2>1. toks' = <<>>
    BY <1>1, <1>3 DEF AtPacked
  <2>2. QED
    BY <1>3, <1>6, <1>7, <1>9, <1>10, <2>1 DEF AtColumns
<1>12. QED
  BY <1>1, <1>3, <1>4, <1>5, <1>7, <1>11 DEF TInv

\* The next token of each prompt.
Column == [b \in DOMAIN Batch |-> Batch[b][poss[1] + 1]]

LEMMA ColumnIs ==
  ASSUME Typed(eng), AtColumns
  PROVE  /\ Inputs(eng, Column, poss) /\ Len(Column) = LaneCount
         /\ \A b \in 1..LaneCount : /\ Column[b] = prompts[b][poss[1] + 1] /\ poss[b] = poss[1]
                                    /\ poss[1] + 1 \in 1..Len(prompts[b]) /\ poss[1] \in 0..Ctx
<1> DEFINE n == LaneCount
           t == poss[1] + 1
<1>1. Slotted /\ SameLength(Batch) /\ poss \in Seq(0..Ctx) /\ Len(poss) = n /\ poss[1] < Len(prompts[1])
      /\ \A b \in 1..n : poss[b] = poss[1]
  BY DEF AtColumns
<1>2. /\ DOMAIN Batch = 1..n /\ n \in Nat /\ n >= 2 /\ n <= eng.max /\ eng.max \in Nat
      /\ \A b \in 1..n : Batch[b] = prompts[b] /\ b \in 1..Len(prompts)
      /\ Asked
  BY <1>1, SlottedIs
<1>3. (\A b \in 1..n : Len(prompts[b]) = Len(prompts[1])) /\ Len(prompts[1]) \in 1..Ctx
  BY <1>1, LengthsAre
<1> HIDE DEF n
<1>4. poss[1] \in 0..Ctx /\ 1 \in 1..n
  <2>1. 1 \in 1..n
    BY <1>2
  <2>2. QED
    BY <1>1, <2>1, ElementOfSeq
<1>5. \A b \in 1..n : t \in 1..Len(prompts[b])
  BY <1>1, <1>3, <1>4, Sizes
<1> HIDE DEF t
<1>6. Column = [b \in 1..n |-> Batch[b][t]]
  BY <1>2 DEF Column, t
<1>7. \A b \in 1..n : Column[b] = prompts[b][t] /\ prompts[b][t] \in Token
  <2> TAKE b \in 1..n
  <2>1. prompts[b] \in Seq(Token)
    BY <1>2, PromptIs
  <2>2. prompts[b][t] \in Token
    BY <1>5, <2>1, ElementOfSeq
  <2>3. QED
    BY <1>2, <1>6, <2>2
<1>8. Column \in Seq(Token) /\ Len(Column) = n
  <2>1. Column \in [1..n -> Token]
    BY <1>6, <1>7
  <2>2. QED
    BY <1>2, <2>1
<1>9. Inputs(eng, Column, poss)
  <2>1. Len(Column) \in 1..eng.max
    BY <1>2, <1>8
  <2>2. \A b \in 1..Len(Column) : poss[b] \in 0..Ctx
    BY <1>1, <1>4, <1>8
  <2>3. QED
    BY <1>8, <2>1, <2>2 DEF Inputs
<1>10. QED
  BY <1>1, <1>4, <1>5, <1>7, <1>8, <1>9 DEF n, t

LEMMA ColumnType ==
  ASSUME TInv, FeedColumn
  PROVE  /\ TInv' /\ AtColumns /\ CallStays /\ eng' = DecodeTokens(eng, Column, poss)
         /\ \/ /\ AtColumns' /\ poss'[1] = poss[1] + 1 /\ out' = out
            \/ /\ AtDecode' /\ poss[1] + 1 = Len(prompts[1])
               /\ \A b \in 1..LaneCount : /\ toks'[b] = eng'.best[b - 1] /\ out'[b] = <<eng'.best[b - 1]>>
                                          /\ poss'[b] = Len(prompts[b])
<1> DEFINE n == LaneCount
           t == poss[1] + 1
           ts == Greedies(eng')
<1>1. Typed(eng) /\ AtColumns /\ Slotted /\ SameLength(Batch)
  BY ColumnsIs DEF FeedColumn, AtColumns
<1>2. /\ Asked /\ Len(Batch) = n /\ DOMAIN Batch = 1..n /\ n \in Nat /\ n >= 2
  BY <1>1, SlottedIs
<1>3. Inputs(eng, Column, poss) /\ poss[1] \in 0..Ctx /\ t \in 1..Len(prompts[1])
  <2>1. 1 \in 1..n
    BY <1>2
  <2>2. QED
    BY <1>1, <2>1, ColumnIs
<1>4. prompts' = prompts /\ want' = want /\ eng' = DecodeTokens(eng, Column, poss)
  BY DEF FeedColumn, call, Column
<1>5. Typed(eng') /\ SameBuild(eng, eng')
  BY <1>1, <1>3, <1>4, DecodeTokensIs
<1>6. CallStays
  BY <1>4, <1>5 DEF CallStays
<1>7. Len(prompts[1]) \in 1..Ctx /\ Ctx \in Nat
  BY <1>1, LengthsAre, Sizes
<1>8. CASE t < Len(prompts[1])
  <2>1. pc' = "columns" /\ poss' = [b \in 1..n |-> t] /\ toks' = toks /\ out' = out
    BY <1>2, <1>8 DEF FeedColumn
  <2>2. LaneCount' = n /\ Batch' = Batch /\ eng'.max >= 2
    BY <1>1, <1>6, SameBatch
  <2>3. poss' \in Seq(0..Ctx) /\ Len(poss') = n /\ poss'[1] = t /\ \A b \in 1..n : poss'[b] = t
    <3>1. t \in 0..Ctx /\ 1 \in 1..n
      BY <1>2, <1>3, <1>7, <1>8
    <3> HIDE DEF n, t
    <3>2. QED
      BY <1>2, <2>1, <3>1
  <2>4. Slotted' /\ SameLength(Batch)' /\ Shares(0)'
    <3>1. Asked' /\ Shares(0)'
      BY <1>1, <1>2, <1>4, <2>1 DEF Asked, Shares, AtColumns
    <3>2. Slotted'
      BY <1>1, <1>4, <2>2, <3>1 DEF Slotted
    <3>3. QED
      BY <1>1, <2>2, <3>1, <3>2
  <2>5. toks' = <<>>
    BY <1>1, <2>1 DEF AtColumns
  <2>6. AtColumns'
    BY <1>4, <1>8, <2>1, <2>2, <2>3, <2>4, <2>5 DEF AtColumns
  <2>7. QED
    BY <1>1, <1>4, <1>5, <1>6, <2>1, <2>3, <2>6 DEF TInv
<1>9. CASE ~(t < Len(prompts[1]))
  <2>1. pc' = "decode" /\ FirstTokens(ts)
    BY <1>9 DEF FeedColumn
  <2>2. ts \in Seq(Token) /\ Len(ts) = n /\ \A b \in 1..n : ts[b] = eng'.best[b - 1]
    BY <1>1, <1>2, <1>6, GreediesAre
  <2>3. t = Len(prompts[1])
    BY <1>3, <1>7, <1>9
  <2> HIDE DEF ts, n
  <2>4. /\ TInv' /\ AtDecode' /\ toks' = ts
        /\ \A b \in 1..n : out'[b] = <<ts[b]>> /\ poss'[b] = Len(prompts[b])
    BY <1>1, <1>6, <2>1, <2>2, DecodeBegins DEF n
  <2>5. QED
    BY <1>1, <1>4, <1>6, <2>2, <2>3, <2>4 DEF n
<1>10. QED
  BY <1>8, <1>9

LEMMA NextSlotType ==
  ASSUME TInv, PrefillNextSlot
  PROVE  LET b == Len(toks) + 1
         IN  /\ TInv' /\ AtSlots /\ CallStays /\ b \in 1..LaneCount
             /\ eng' = PrefillSlot(eng, prompts[b], b - 1)
             /\ toks' = Append(toks, eng'.last)
             /\ (pc' = "slots" /\ AtSlots') \/ (pc' = "decode" /\ AtDecode')
             /\ \A c \in 1..b : out'[c] = <<toks'[c]>> /\ poss'[c] = Len(prompts[c])
<1> DEFINE n == LaneCount
           b == Len(toks) + 1
           ts == Append(toks, eng'.last)
<1>1. Typed(eng) /\ AtSlots /\ Slotted /\ Len(toks) < n /\ toks \in Seq(Token)
  BY SlotsIs DEF PrefillNextSlot, AtSlots, Placed, TokenSeq
<1>2. /\ Asked /\ Len(Batch) = n /\ n \in Nat /\ n >= 2 /\ n <= Len(prompts) /\ Len(prompts) \in Nat
      /\ \A c \in 1..n : c \in 1..Len(prompts) /\ c - 1 \in Slots(eng)
  BY <1>1, SlottedIs
<1>3. b \in 1..n /\ Len(toks) \in Nat
  BY <1>1, <1>2
<1>4. /\ prompts' = prompts /\ want' = want /\ eng' = PrefillSlot(eng, prompts[b], b - 1) /\ FirstTokens(ts)
      /\ pc' = IF b = n THEN "decode" ELSE "slots"
  BY <1>2 DEF PrefillNextSlot, call
<1>5. Typed(eng') /\ SameBuild(eng, eng')
  <2>1. Prompt(prompts[b]) /\ b - 1 \in Slots(eng)
    BY <1>2, <1>3, PromptIs
  <2> HIDE DEF b
  <2>2. QED
    BY <1>1, <1>4, <2>1, PrefillSlotTyped
<1>6. CallStays
  BY <1>4, <1>5 DEF CallStays
<1>7. ts \in Seq(Token) /\ Len(ts) = b /\ Len(ts) <= Len(prompts)
  <2>1. eng'.last \in Token
    BY <1>5 DEF Typed
  <2>2. QED
    BY <1>1, <1>2, <1>3, <2>1
<1> HIDE DEF ts, b, n
<1>8. /\ Asked' /\ Placed(1)' /\ toks' = ts
      /\ \A c \in 1..b : out'[c] = <<ts[c]>> /\ poss'[c] = Len(prompts[c])
  BY <1>2, <1>4, <1>6, <1>7, FirstTokensIs
<1>9. CASE b = n
  <2>1. TInv' /\ AtDecode'
    BY <1>1, <1>4, <1>6, <1>7, <1>9, DecodeBegins DEF n
  <2>2. QED
    BY <1>1, <1>3, <1>4, <1>6, <1>8, <1>9, <2>1 DEF ts, b, n
<1>10. CASE b # n
  <2>1. LaneCount' = n /\ eng'.max >= 2
    BY <1>1, <1>6, SameBatch DEF n
  <2>2. Len(toks') < LaneCount'
    BY <1>2, <1>3, <1>7, <1>8, <1>10, <2>1
  <2>3. Slotted'
    BY <1>1, <1>4, <1>8, <2>1 DEF Slotted
  <2>4. AtSlots'
    BY <1>4, <1>8, <1>10, <2>2, <2>3 DEF AtSlots
  <2>5. QED
    BY <1>1, <1>3, <1>4, <1>5, <1>6, <1>8, <1>10, <2>4 DEF TInv, ts, b, n
<1>11. QED
  BY <1>9, <1>10

\* The tokens each sequence of the batch has: the same number for all.
LEMMA RoundIs ==
  ASSUME Typed(eng), AtDecode
  PROVE  \E k \in Nat : /\ k >= 1 /\ k \in Rounds /\ Placed(k)
                        /\ \A b \in 1..LaneCount : Len(out[b]) = k /\ poss[b] = Len(prompts[b]) + k - 1
<1>1. Slotted /\ Len(toks) = LaneCount
  BY DEF AtDecode
<1>2. PICK k \in Rounds : Placed(k)
  BY DEF AtDecode
<1>3. want \in Nat /\ LaneCount \in Nat /\ LaneCount <= Len(prompts) /\ Len(prompts) \in Nat
  BY <1>1, SlottedIs
<1>4. k \in Nat /\ k >= 1
  <2>1. Max({want, 1}) = IF want >= 1 THEN want ELSE 1
    BY <1>3, MaxOfTwo
  <2>2. k \in 1..Max({want, 1})
    BY DEF Rounds
  <2>3. QED
    BY <1>3, <2>1, <2>2
<1>5. \A b \in 1..LaneCount : Len(out[b]) = k /\ poss[b] = Len(prompts[b]) + k - 1
  <2> TAKE b \in 1..LaneCount
  <2>1. b \in 1..Len(prompts) /\ b <= Len(toks) /\ b \in 1..Len(toks)
    BY <1>1, <1>3
  <2>2. QED
    BY <1>2, <2>1 DEF Placed, Shares
<1>6. QED
  BY <1>2, <1>4, <1>5

LEMMA DecodeType ==
  ASSUME TInv, DecodeActive
  PROVE  /\ TInv' /\ AtDecode /\ AtDecode' /\ CallStays /\ Inputs(eng, toks, poss) /\ Len(toks) = LaneCount
         /\ eng' = DecodeTokens(eng, toks, poss)
         /\ \A b \in 1..LaneCount :
              /\ Len(out[b]) < want /\ toks'[b] = eng'.best[b - 1]
              /\ out'[b] = Append(out[b], toks'[b]) /\ poss'[b] = poss[b] + 1
         /\ \A i \in 1..Len(prompts) : i \notin 1..LaneCount => out'[i] = out[i]
<1> DEFINE n == LaneCount
           l == Len(prompts)
           ts == Greedies(eng')
<1>1. Typed(eng) /\ AtDecode /\ Slotted /\ Len(toks) = n /\ toks \in Seq(Token)
  BY LoopIs DEF DecodeActive, AtDecode, Placed, TokenSeq
<1>2. /\ Asked /\ DOMAIN Batch = 1..n /\ n \in Nat /\ n >= 2 /\ n <= l /\ l \in Nat /\ want \in Nat
      /\ n <= eng.max /\ eng.max \in Nat /\ \A b \in 1..n : b \in 1..l
  BY <1>1, SlottedIs
<1>3. PICK k \in Nat : /\ k >= 1 /\ k \in Rounds /\ Placed(k)
                       /\ \A b \in 1..n : Len(out[b]) = k /\ poss[b] = Len(prompts[b]) + k - 1
  BY <1>1, RoundIs
<1>4. k < want
  <2>1. \E b \in 1..n : Len(out[b]) < want
    BY <1>2 DEF DecodeActive, Unfinished
  <2>2. QED
    BY <1>3, <2>1
<1>5. /\ pc' = "decode" /\ prompts' = prompts /\ want' = want
      /\ eng' = DecodeTokens(eng, toks, poss) /\ toks' = ts
      /\ out' = [i \in DOMAIN out |-> IF i \in 1..n THEN Append(out[i], toks'[i]) ELSE out[i]]
      /\ poss' = [b \in 1..n |-> poss[b] + 1]
  BY <1>2 DEF DecodeActive, DecodeStep, call
<1>6. poss \in Seq(0..Ctx) /\ Len(poss) = n
  BY <1>1, <1>3 DEF Placed
<1>7. Inputs(eng, toks, poss)
  <2>1. Len(toks) \in 1..eng.max
    BY <1>1, <1>2
  <2>2. \A b \in 1..Len(toks) : poss[b] \in 0..Ctx
    <3> TAKE b \in 1..Len(toks)
    <3>1. b \in 1..Len(poss)
      BY <1>1, <1>6
    <3>2. QED
      BY <1>6, <3>1, ElementOfSeq
  <2>3. QED
    BY <1>1, <2>1, <2>2 DEF Inputs
<1>8. Typed(eng') /\ SameBuild(eng, eng')
  BY <1>1, <1>5, <1>7, DecodeTokensIs
<1>9. CallStays
  BY <1>5, <1>8 DEF CallStays
<1>10. ts \in Seq(Token) /\ Len(ts) = n /\ \A b \in 1..n : ts[b] = eng'.best[b - 1]
  BY <1>1, <1>2, <1>9, GreediesAre
<1>11. \A b \in 1..n : toks'[b] \in Token
  BY <1>5, <1>10, ElementOfSeq
<1> HIDE DEF ts, n, l
<1>12. /\ out \in Seq(Seq(Token)) /\ Len(out) = l /\ DOMAIN out = 1..l
       /\ \A i \in 1..l : out[i] \in Seq(Token) /\ Len(out[i]) = IF i <= n THEN k ELSE 0
  <2>1. out \in Seq(Seq(Token)) /\ Len(out) = l
    BY <1>2 DEF Asked, TokenSeq, l
  <2>2. \A i \in 1..l : Len(out[i]) = IF i <= n THEN k ELSE 0
    BY <1>1, <1>3 DEF Placed, Shares, l
  <2>3. QED
    BY <1>2, <2>1, <2>2
<1>13. \A i \in 1..l : /\ out'[i] = IF i \in 1..n THEN Append(out[i], toks'[i]) ELSE out[i]
                       /\ out'[i] \in Seq(Token) /\ Len(out'[i]) = IF i <= n THEN k + 1 ELSE 0
  <2> TAKE i \in 1..l
  <2>1. out'[i] = IF i \in 1..n THEN Append(out[i], toks'[i]) ELSE out[i]
    BY <1>5, <1>12
  <2>2. CASE i <= n
    <3>1. i \in 1..n
      BY <1>2, <2>2
    <3>2. toks'[i] \in Token /\ out[i] \in Seq(Token) /\ Len(out[i]) = k
      BY <1>11, <1>12, <2>2, <3>1
    <3>3. Append(out[i], toks'[i]) \in Seq(Token) /\ Len(Append(out[i], toks'[i])) = k + 1
      BY <3>2
    <3>4. QED
      BY <2>1, <2>2, <3>1, <3>3
  <2>3. CASE ~(i <= n)
    <3>1. i \notin 1..n
      BY <1>2, <2>3
    <3>2. QED
      BY <1>12, <2>1, <2>3, <3>1
  <2>4. QED
    BY <2>2, <2>3
<1>14. out' \in Seq(TokenSeq) /\ Len(out') = l
  <2>1. DOMAIN out' = 1..l /\ out' = [i \in 1..l |-> out'[i]]
    BY <1>5, <1>12
  <2>2. out' \in [1..l -> TokenSeq]
    BY <1>13, <2>1 DEF TokenSeq
  <2> DEFINE o == out'
  <2>3. o \in [1..l -> TokenSeq] /\ l \in Nat
    BY <1>2, <2>2
  <2> HIDE DEF o
  <2>4. o \in Seq(TokenSeq) /\ Len(o) = l
    BY <2>3
  <2>5. QED
    BY <2>4 DEF o
<1>15. \A b \in 1..n : poss'[b] = Len(prompts[b]) + (k + 1) - 1 /\ poss'[b] \in 0..Ctx /\ poss'[b] = poss[b] + 1
  <2> TAKE b \in 1..n
  <2>1. Len(prompts[b]) \in Nat /\ Len(prompts[b]) + want <= Ctx
    BY <1>2, PromptIs DEF Asked, l
  <2>2. poss[b] = Len(prompts[b]) + k - 1 /\ poss'[b] = poss[b] + 1
    BY <1>3, <1>5
  <2>3. QED
    BY <1>2, <1>3, <1>4, <2>1, <2>2, Sizes
<1>16. poss' \in Seq(0..Ctx) /\ Len(poss') = n
  <2> DEFINE q == poss'
             P == 0..Ctx
  <2>1. q \in [1..n -> P] /\ n \in Nat
    BY <1>2, <1>5, <1>15
  <2> HIDE DEF q, P
  <2>2. q \in Seq(P) /\ Len(q) = n
    BY <2>1
  <2>3. QED
    BY <2>2 DEF q, P
<1>17. Asked' /\ Placed(k + 1)'
  <2>1. Asked'
    BY <1>2, <1>5, <1>14 DEF Asked, l
  <2>2. Shares(k + 1)'
    BY <1>5, <1>10, <1>13 DEF Shares, l
  <2>3. QED
    BY <1>5, <1>10, <1>15, <1>16, <2>1, <2>2 DEF Placed, TokenSeq
<1>18. LaneCount' = n /\ eng'.max >= 2
  BY <1>1, <1>9, SameBatch DEF n
<1>19. k + 1 \in Rounds'
  <2>1. Max({want, 1}) = IF want >= 1 THEN want ELSE 1
    BY <1>2, MaxOfTwo
  <2>2. k + 1 \in 1..Max({want, 1})
    BY <1>2, <1>3, <1>4, <2>1
  <2>3. QED
    BY <1>5, <2>2 DEF Rounds
<1>20. AtDecode'
  <2>1. Slotted'
    BY <1>1, <1>5, <1>17, <1>18 DEF Slotted
  <2>2. Len(toks') = LaneCount'
    BY <1>5, <1>10, <1>18
  <2>3. QED
    BY <1>5, <1>17, <1>19, <2>1, <2>2 DEF AtDecode
<1>21. \A b \in 1..n : out'[b] = Append(out[b], toks'[b]) /\ Len(out[b]) < want /\ toks'[b] = eng'.best[b - 1]
  BY <1>2, <1>3, <1>4, <1>5, <1>10, <1>13
<1>22. \A i \in 1..l : i \notin 1..n => out'[i] = out[i]
  BY <1>13
<1>23. TInv'
  BY <1>8, <1>20 DEF TInv
<1>24. QED
  BY <1>1, <1>5, <1>7, <1>9, <1>15, <1>20, <1>21, <1>22, <1>23 DEF n, l

LEMMA ReturnType ==
  ASSUME TInv, Return
  PROVE  TInv' /\ AtIdle' /\ eng' = eng
<1>1. AtIdle' /\ eng' = eng
  BY DEF Return, AtIdle
<1>2. QED
  BY <1>1 DEF TInv

LEMMA StutterType == TInv /\ UNCHANGED vars => TInv'
BY DEF TInv, AtIdle, AtAlone, AtSame, AtPacked, AtColumns, AtSlots, AtDecode, vars, call, Slotted, Asked,
       Shares, Placed, LaneCount, Batch, Rounds, Same, SameLength

LEMMA StepType ==
  ASSUME TInv, [Next]_vars
  PROVE  TInv'
<1>1. ASSUME NEW ps \in Batches, NEW w \in 0..MaxWant, GenerateBatch(ps, w) PROVE TInv'
  BY <1>1, BeginType
<1>2. CASE GenerateAlone
  BY <1>2, AloneType
<1>3. CASE PrefillSame
  BY <1>3, SameType
<1>4. CASE PrefillPacked
  BY <1>4, PackedType
<1>5. CASE BeginColumns
  BY <1>5, ColumnsBegin
<1>6. CASE FeedColumn
  BY <1>6, ColumnType
<1>7. CASE PrefillNextSlot
  BY <1>7, NextSlotType
<1>8. CASE DecodeActive
  BY <1>8, DecodeType
<1>9. CASE Return
  BY <1>9, ReturnType
<1>10. CASE UNCHANGED vars
  BY <1>10, StutterType
<1>11. QED
  BY <1>1, <1>2, <1>3, <1>4, <1>5, <1>6, <1>7, <1>8, <1>9, <1>10 DEF Next, Step

\* The shape of the call is kept, whatever batches are brought.
THEOREM Shape == Spec => []TInv
<1>1. Init => TInv
  BY InitHolds
<1>2. TInv /\ [Next]_vars => TInv'
  BY StepType
<1>3. QED
  BY <1>1, <1>2, PTL DEF Spec

LEMMA ShapeTypes == TInv => TypeOK
<1> SUFFICES ASSUME TInv PROVE TypeOK
  OBVIOUS
<1>1. Typed(eng)
  BY DEF TInv
<1>2. /\ eng.rec \in [0..(eng.max - 1) -> TokenSeq]
      /\ eng.kv \in [0..(eng.max * eng.win - 1) -> Token \cup {Blank}]
      /\ eng.compact \in [0..(eng.max - 1) -> [0..(Ctx - 1) -> Token \cup {Blank}]]
      /\ eng.best \in [0..(eng.max - 1) -> Token] /\ eng.last \in Token /\ eng.pos \in 0..Ctx
  BY <1>1 DEF Typed, Slots, Stored
<1>3. <<>> \in TokenSeq /\ <<>> \in Seq(0..Ctx) /\ <<>> \in Seq(TokenSeq) /\ Len(<<>>) = 0
  BY DEF TokenSeq
<1>4. CASE AtIdle
  BY <1>2, <1>3, <1>4 DEF AtIdle, TypeOK
<1>5. CASE AtAlone
  BY <1>2, <1>3, <1>5 DEF AtAlone, Asked, TypeOK
<1>6. CASE AtSame
  BY <1>2, <1>3, <1>6 DEF AtSame, Slotted, Asked, TypeOK
<1>7. CASE AtPacked
  BY <1>2, <1>3, <1>7 DEF AtPacked, Slotted, Asked, TypeOK
<1>8. CASE AtColumns
  BY <1>2, <1>3, <1>8 DEF AtColumns, Slotted, Asked, TypeOK
<1>9. CASE AtSlots
  BY <1>2, <1>9 DEF AtSlots, Slotted, Asked, Placed, TypeOK
<1>10. CASE AtDecode
  <2>1. PICK k \in Rounds : Placed(k)
    BY <1>10 DEF AtDecode
  <2>2. Slotted /\ Len(toks) = LaneCount /\ pc = "decode"
    BY <1>10 DEF AtDecode
  <2>3. Len(Batch) = LaneCount
    BY <1>1, <2>2, SlottedIs
  <2>4. toks \in TokenSeq /\ poss \in Seq(0..Ctx) /\ Len(poss) = Len(toks)
    BY <2>1 DEF Placed
  <2>5. QED
    BY <1>2, <2>2, <2>3, <2>4 DEF Slotted, Asked, TypeOK
<1>11. QED
  BY <1>4, <1>5, <1>6, <1>7, <1>8, <1>9, <1>10 DEF TInv

\* The engine's slots and the locals of generate_batch keep their types, and a
\* slot that is decoded has a token, a position and a prompt: whatever calls are
\* made, on any engine that build() can leave.
THEOREM TypeCorrect == Spec => []TypeOK
<1>1. Spec => []TInv
  BY Shape
<1>2. TInv => TypeOK
  BY ShapeTypes
<1>3. QED
  BY <1>1, <1>2, PTL

-----------------------------------------------------------------------------
(***************************************************************************)
(* What the slots hold                                                     *)
(***************************************************************************)
\* The rows of the call are looked for in the window, not among the compact ones.
Windowed == ~eng.tq \/ Inside(eng, prompts, want)

\* What a sequence was fed that has prompt p and got the tokens o.
History(p, o) == p \o SubSeq(o, 1, Len(o) - 1)

\* Slot b - 1 stands for sequence b, and its last token goes in next.
Holds(b) == Stands(eng, b - 1, History(prompts[b], out[b]), Windowed) /\ toks[b] = out[b][Len(out[b])]

\* While the prompts are fed column by column, a slot stands for the beginning
\* of its prompt.
Begun(b) == Stands(eng, b - 1, SubSeq(prompts[b], 1, poss[1]), TRUE)

HInv ==
  /\ pc # "idle" => KeptApart(eng, prompts, want)
  /\ pc \in {"packed", "columns"} => PrefillBy(eng, prompts) = "packed"
  /\ pc = "slots" => PrefillBy(eng, prompts) = "slots"
  /\ pc = "columns" => \A b \in 1..LaneCount : Begun(b)
  /\ pc \in {"slots", "decode"} => \A b \in 1..Len(toks) : Holds(b)

\* The calls the slots of which the code keeps apart.
OnlyKeptApart == \A e, ps, w : Admits(e, ps, w) => KeptApart(e, ps, w)

LEMMA ApartStays ==
  ASSUME NEW e, NEW f, SameBuild(e, f), NEW ps, NEW w
  PROVE  /\ KeptApart(e, ps, w) => KeptApart(f, ps, w)
         /\ PrefillBy(f, ps) = PrefillBy(e, ps)
         /\ (Inside(e, ps, w) => Inside(f, ps, w)) /\ (Inside(f, ps, w) => Inside(e, ps, w))
<1>1. f.max = e.max /\ f.win = e.win /\ f.tq = e.tq /\ f.tile = e.tile
  BY DEF SameBuild
<1>2. Lanes(f, ps) = Lanes(e, ps)
  BY <1>1 DEF Lanes
<1>3. PrefillBy(f, ps) = PrefillBy(e, ps)
  BY <1>1, <1>2 DEF PrefillBy
<1>4. (Inside(e, ps, w) => Inside(f, ps, w)) /\ (Inside(f, ps, w) => Inside(e, ps, w))
  BY <1>1 DEF Inside
<1>5. KeptApart(e, ps, w) => KeptApart(f, ps, w)
  BY <1>1, <1>2, <1>3, <1>4 DEF KeptApart
<1>6. QED
  BY <1>3, <1>4, <1>5

\* What stays of a call.
LEMMA CallIs ==
  ASSUME CallStays, KeptApart(eng, prompts, want)
  PROVE  /\ KeptApart(eng, prompts, want)' /\ (Windowed' <=> Windowed)
         /\ PrefillBy(eng, prompts)' = PrefillBy(eng, prompts)
<1>1. SameBuild(eng, eng') /\ prompts' = prompts /\ want' = want
  BY DEF CallStays
<1>2. /\ KeptApart(eng', prompts, want) /\ PrefillBy(eng', prompts) = PrefillBy(eng, prompts)
      /\ (Inside(eng, prompts, want) => Inside(eng', prompts, want))
      /\ (Inside(eng', prompts, want) => Inside(eng, prompts, want))
  BY <1>1, ApartStays
<1>3. eng'.tq = eng.tq
  BY <1>1 DEF SameBuild
<1>4. Windowed' <=> Windowed
  BY <1>1, <1>2, <1>3 DEF Windowed
<1>5. QED
  BY <1>1, <1>2, <1>4

\* Where the positions of a sequence lie.
LEMMA WindowedIs ==
  ASSUME Typed(eng), Asked, KeptApart(eng, prompts, want), NEW i \in 1..Len(prompts)
  PROVE  /\ Windowed => Len(prompts[i]) + Max({want, 1}) - 1 <= eng.win
         /\ ~Windowed => /\ eng.tq /\ Len(prompts[i]) >= eng.win /\ Launched(prompts[i])
                         /\ PrefillBy(eng, prompts) # "packed"
         /\ Launched(prompts[i]) \/ Len(prompts[i]) <= eng.win
         /\ Windowed => Len(prompts[i]) <= eng.win
         /\ Len(prompts[i]) + Max({want, 1}) - 1 <= Ctx
<1> DEFINE l == Len(prompts[i])
           m == Max({want, 1})
<1>0. /\ l \in Nat /\ l >= 1 /\ l + want <= Ctx /\ want \in Nat /\ Ctx \in Nat /\ eng.win \in Nat
      /\ (~eng.tq => eng.win = Ctx) /\ DOMAIN prompts = 1..Len(prompts) /\ i \in DOMAIN prompts
  <2>1. l \in Nat /\ l \in 1..Ctx
    BY PromptIs DEF Prompt
  <2>2. eng.win \in Nat
    BY Sizes DEF Typed
  <2>3. QED
    BY <2>1, <2>2, Sizes DEF Asked, Typed
<1>1. m = IF want >= 1 THEN want ELSE 1
  BY <1>0, MaxOfTwo
<1> HIDE DEF m
<1>2. m >= 1 /\ m \in Nat /\ l + m - 1 <= Ctx
  BY <1>0, <1>1
<1>3. ASSUME Windowed PROVE l + m - 1 <= eng.win /\ l <= eng.win
  <2>1. CASE ~eng.tq
    BY <1>0, <1>2, <2>1
  <2>2. CASE Inside(eng, prompts, want)
    <3>1. l + m - 1 <= eng.win
      BY <1>0, <2>2 DEF Inside, m
    <3>2. QED
      BY <1>0, <1>2, <3>1
  <2>3. QED
    BY <1>3, <2>1, <2>2 DEF Windowed
<1>4. ASSUME ~Windowed
      PROVE  eng.tq /\ l >= eng.win /\ Launched(prompts[i]) /\ PrefillBy(eng, prompts) # "packed"
  <2>1. eng.tq /\ ~Inside(eng, prompts, want)
    BY <1>4 DEF Windowed
  <2>2. QED
    BY <1>0, <2>1 DEF KeptApart
<1>5. Launched(prompts[i]) \/ l <= eng.win
  BY <1>3, <1>4
<1>6. QED
  BY <1>2, <1>3, <1>4, <1>5 DEF m

LEMMA HistoryFirst ==
  ASSUME NEW p \in Seq(Token), NEW x \in Token
  PROVE  History(p, <<x>>) = p
<1>1. SubSeq(<<x>>, 1, Len(<<x>>) - 1) = <<>>
  OBVIOUS
<1>2. p \o <<>> = p
  OBVIOUS
<1>3. QED
  BY <1>1, <1>2 DEF History

LEMMA HistoryIs ==
  ASSUME NEW p \in Seq(Token), NEW o \in Seq(Token), Len(o) >= 1
  PROVE  /\ History(p, o) \in Seq(Token) /\ Len(History(p, o)) = Len(p) + Len(o) - 1
         /\ Append(History(p, o), o[Len(o)]) = p \o o
<1> DEFINE n == Len(o) - 1
           a == SubSeq(o, 1, n)
           x == o[Len(o)]
<1>1. Len(o) \in Nat /\ n \in 0..Len(o) /\ Len(p) \in Nat /\ x \in Token
  OBVIOUS
<1>2. a \in Seq(Token) /\ Len(a) = n
  BY <1>1, Cut
<1>3. Append(a, x) = o
  BY <1>1
<1> HIDE DEF a, x
<1>4. p \o a \in Seq(Token) /\ Len(p \o a) = Len(p) + n
  BY <1>2
<1>5. Append(p \o a, x) = p \o Append(a, x)
  <2>1. <<x>> \in Seq(Token)
    BY <1>1
  <2>2. Append(p \o a, x) = (p \o a) \o <<x>> /\ Append(a, x) = a \o <<x>>
    BY <1>1, <1>2, <1>4, AppendIsConcat
  <2>3. (p \o a) \o <<x>> = p \o (a \o <<x>>)
    BY <1>2, <2>1, ConcatAssociative
  <2>4. QED
    BY <2>2, <2>3
<1>6. History(p, o) = p \o a
  BY DEF History, a
<1>7. Len(p) + n = Len(p) + Len(o) - 1
  BY <1>1
<1>8. QED
  BY <1>3, <1>4, <1>5, <1>6, <1>7 DEF x

LEMMA HistoryNext ==
  ASSUME NEW p \in Seq(Token), NEW o \in Seq(Token), NEW x \in Token
  PROVE  History(p, Append(o, x)) = p \o o
<1>1. SubSeq(Append(o, x), 1, Len(Append(o, x)) - 1) = o
  OBVIOUS
<1>2. QED
  BY <1>1 DEF History

\* What is left of a slot goes on standing for its sequence.
LEMMA LeftStands ==
  ASSUME NEW e, Typed(e), NEW f, SameBuild(e, f), NEW t \in Slots(e), Untouched(e, f, t),
         NEW h \in Seq(Token), Len(h) <= Ctx, NEW inside, Stands(e, t, h, inside)
  PROVE  Stands(f, t, h, inside)
<1>1. f.win = e.win /\ (e.tq => f.tq) /\ Len(h) \in Nat /\ e.win \in 1..Ctx /\ Ctx \in Nat
  BY Sizes DEF SameBuild, Typed
<1>2. f.rec[t] = h /\ f.compact[t] = e.compact[t] /\ \A q \in 0..(e.win - 1) : Cell(f, t, q) = Cell(e, t, q)
  BY DEF Untouched, Stands
<1>3. ASSUME InWindow(e, t, h) PROVE InWindow(f, t, h)
  <2>1. ASSUME NEW q \in 0..(Len(h) - 1) PROVE q < f.win /\ Cell(f, t, q) = h[q + 1]
    <3>1. q < e.win /\ Cell(e, t, q) = h[q + 1]
      BY <1>3 DEF InWindow
    <3>2. q \in 0..(e.win - 1)
      BY <1>1, <3>1
    <3>3. QED
      BY <1>1, <1>2, <3>1, <3>2
  <2>2. QED
    BY <2>1 DEF InWindow
<1>4. ASSUME InCompact(e, t, h) PROVE InCompact(f, t, h)
  BY <1>2, <1>4 DEF InCompact
<1>5. QED
  BY <1>1, <1>2, <1>3, <1>4 DEF Stands

LEMMA StandsSame ==
  ASSUME NEW e, NEW s, NEW h, NEW x, NEW y, x => y, y => x, Stands(e, s, h, x)
  PROVE  Stands(e, s, h, y)
BY DEF Stands

LEMMA HoldsNext ==
  ASSUME CallStays, KeptApart(eng, prompts, want), NEW b,
         Stands(eng', b - 1, History(prompts[b], out'[b]), Windowed), toks'[b] = out'[b][Len(out'[b])]
  PROVE  Holds(b)'
<1> DEFINE h == History(prompts[b], out'[b])
           e == eng'
           x == Windowed
           y == Windowed'
           s == b - 1
<1>1. (x => y) /\ (y => x)
  BY CallIs
<1>2. Stands(e, s, h, x)
  OBVIOUS
<1> HIDE DEF h, e, x, y, s
<1>3. Stands(e, s, h, y)
  BY <1>1, <1>2, StandsSame
<1>4. prompts' = prompts
  BY DEF CallStays
<1>5. QED
  BY <1>3, <1>4 DEF Holds, h, e, y, s

LEMMA FirstHolds ==
  ASSUME CallStays, KeptApart(eng, prompts, want), NEW b, prompts[b] \in Seq(Token), toks'[b] \in Token,
         Stands(eng', b - 1, prompts[b], Windowed), out'[b] = <<toks'[b]>>
  PROVE  Holds(b)'
<1>1. History(prompts[b], out'[b]) = prompts[b]
  BY HistoryFirst
<1>2. out'[b][Len(out'[b])] = toks'[b]
  OBVIOUS
<1>3. QED
  BY <1>1, <1>2, HoldsNext

\* The slots have been prefilled.
LEMMA DecodeHolds ==
  ASSUME Typed(eng), Slotted, CallStays, KeptApart(eng, prompts, want), pc' = "decode", AtDecode',
         \A b \in 1..LaneCount : Stands(eng', b - 1, prompts[b], Windowed) /\ out'[b] = <<toks'[b]>>
  PROVE  HInv'
<1>1. LaneCount' = LaneCount
  BY SameBatch
<1>2. Len(toks') = LaneCount /\ toks' \in Seq(Token)
  BY <1>1 DEF AtDecode, Placed, TokenSeq
<1>3. ASSUME NEW b \in 1..LaneCount PROVE Holds(b)'
  <2>1. prompts[b] \in Seq(Token)
    <3>1. Asked /\ b \in 1..Len(prompts)
      BY SlottedIs
    <3>2. QED
      BY <3>1, PromptIs
  <2>2. toks'[b] \in Token
    BY <1>2, ElementOfSeq
  <2>3. QED
    BY <2>1, <2>2, FirstHolds
<1>4. KeptApart(eng, prompts, want)'
  BY CallIs
<1>5. QED
  BY <1>2, <1>3, <1>4 DEF HInv

LEMMA BeginHolds ==
  ASSUME OnlyKeptApart, TInv, NEW ps \in Batches, NEW w \in 0..MaxWant, GenerateBatch(ps, w)
  PROVE  HInv'
<1>1. toks' = <<>> /\ eng' = eng
  BY BeginType
<1>2. KeptApart(eng, ps, w) /\ prompts' = ps /\ want' = w /\ pc' = PrefillBy(eng, ps)
  BY DEF GenerateBatch, OnlyKeptApart
<1>3. KeptApart(eng, prompts, want)' /\ PrefillBy(eng, prompts)' = pc'
  BY <1>1, <1>2
<1>4. pc' # "columns"
  BY <1>2 DEF PrefillBy
<1>5. 1..Len(toks') = {}
  BY <1>1
<1>6. QED
  BY <1>3, <1>4, <1>5 DEF HInv

LEMMA AloneHolds ==
  ASSUME TInv, HInv, GenerateAlone
  PROVE  HInv'
<1>1. pc = "alone" /\ pc' = "alone"
  BY DEF GenerateAlone
<1>2. CallStays
  BY AloneType DEF CallStays, TInv, GenerateAlone, call
<1>3. KeptApart(eng, prompts, want)'
  BY <1>1, <1>2, CallIs DEF HInv
<1>4. QED
  BY <1>1, <1>3 DEF HInv

LEMMA SameHolds ==
  ASSUME TInv, HInv, PrefillSame
  PROVE  /\ HInv'
         /\ \A b \in 1..LaneCount : out'[b] = <<Sample(prompts[b], prompts[b])>>
<1> DEFINE n == LaneCount
           ids == prompts[1]
           e == Prefill(eng, ids)
           f == Replicate(e, n)
<1>1. /\ TInv' /\ AtDecode' /\ AtSame /\ CallStays /\ eng' = f
      /\ \A b \in 1..n : toks'[b] = eng'.last /\ out'[b] = <<eng'.last>>
  BY SameType
<1>2. Typed(eng) /\ Slotted /\ Same(Batch) /\ KeptApart(eng, prompts, want) /\ pc' = "decode"
  BY <1>1 DEF TInv, HInv, AtSame, PrefillSame
<1>3. /\ Asked /\ n \in Nat /\ n >= 2 /\ n <= eng.max /\ eng.max \in Nat /\ DOMAIN Batch = 1..n
      /\ \A b \in 1..n : Batch[b] = prompts[b] /\ b \in 1..Len(prompts)
  BY <1>2, SlottedIs
<1>4. 1 \in 1..n /\ \A b \in 1..n : prompts[b] = ids
  <2>1. 1 \in 1..n
    BY <1>3
  <2>2. QED
    BY <1>2, <1>3, <2>1 DEF Same
<1>5. Prompt(ids) /\ ids \in Seq(Token) /\ Len(ids) \in Nat /\ 1 \in 1..Len(prompts)
  BY <1>3, <1>4, PromptIs
<1>6. /\ Windowed => Len(ids) <= eng.win
      /\ ~Windowed => eng.tq /\ Len(ids) >= eng.win /\ Launched(ids)
      /\ Launched(ids) \/ Len(ids) <= eng.win
  BY <1>2, <1>3, <1>5, WindowedIs
<1>7. Typed(e) /\ SameBuild(eng, e)
  BY <1>2, <1>5, PrefillTyped
<1>8. /\ e.rec[0] = ids /\ e.last = Sample(ids, ids)
      /\ (Len(ids) <= eng.win => InWindow(e, 0, ids))
      /\ (eng.tq /\ Launched(ids) => InCompact(e, 0, ids))
  BY <1>2, <1>5, <1>6, PrefillStands
<1> HIDE DEF e, ids
<1>9. /\ Typed(f) /\ SameBuild(e, f) /\ f.last = e.last
      /\ \A s \in 0..(n - 1) : /\ f.rec[s] = e.rec[0] /\ f.compact[s] = e.compact[0]
                               /\ \A q \in 0..(e.win - 1) : Cell(f, s, q) = Cell(e, 0, q)
  <2>1. n \in 1..e.max
    BY <1>3, <1>7 DEF SameBuild
  <2> HIDE DEF n
  <2>2. QED
    BY <1>7, <2>1, ReplicateIs
<1> HIDE DEF f
<1>10. f.win = eng.win /\ e.win = eng.win /\ (eng.tq => f.tq) /\ eng.win \in 1..Ctx
  BY <1>2, <1>7, <1>9 DEF SameBuild, Typed
<1>11. ASSUME NEW b \in 1..n PROVE Stands(f, b - 1, ids, Windowed)
  <2>1. b - 1 \in 0..(n - 1)
    BY <1>3
  <2>2. f.rec[b - 1] = ids
    BY <1>8, <1>9, <2>1
  <2>3. ASSUME Windowed PROVE InWindow(f, b - 1, ids)
    <3>1. InWindow(e, 0, ids)
      BY <1>6, <1>8, <2>3
    <3>2. ASSUME NEW q \in 0..(Len(ids) - 1) PROVE q < f.win /\ Cell(f, b - 1, q) = ids[q + 1]
      <4>1. q < e.win /\ Cell(e, 0, q) = ids[q + 1]
        BY <3>1 DEF InWindow
      <4>2. q \in 0..(e.win - 1)
        BY <1>5, <1>10, <4>1, Sizes
      <4>3. QED
        BY <1>9, <1>10, <2>1, <4>1, <4>2
    <3>3. QED
      BY <3>2 DEF InWindow
  <2>4. ASSUME ~Windowed PROVE f.tq /\ Len(ids) >= f.win /\ InCompact(f, b - 1, ids)
    <3>1. InCompact(e, 0, ids)
      BY <1>6, <1>8, <2>4
    <3>2. InCompact(f, b - 1, ids)
      BY <1>9, <2>1, <3>1 DEF InCompact
    <3>3. QED
      BY <1>6, <1>10, <2>4, <3>2
  <2>5. QED
    BY <2>2, <2>3, <2>4 DEF Stands
<1>12. HInv'
  <2>1. \A b \in 1..n : Stands(eng', b - 1, prompts[b], Windowed) /\ out'[b] = <<toks'[b]>>
    BY <1>1, <1>4, <1>11
  <2>2. QED
    BY <1>1, <1>2, <2>1, DecodeHolds
<1>13. \A b \in 1..n : out'[b] = <<Sample(prompts[b], prompts[b])>>
  BY <1>1, <1>4, <1>8, <1>9
<1>14. QED
  BY <1>12, <1>13

\* What is fed at once or column by column fits the window.
LEMMA PackedFits ==
  ASSUME Typed(eng), Slotted, KeptApart(eng, prompts, want), PrefillBy(eng, prompts) = "packed"
  PROVE  Windowed /\ Len(prompts[1]) <= eng.win
<1>1. Asked /\ Len(prompts) \in Nat /\ Len(prompts) >= 2
  BY SlottedIs DEF Slotted
<1>2. 1 \in 1..Len(prompts)
  BY <1>1
<1>3. Windowed
  BY <1>1, <1>2, WindowedIs
<1>4. QED
  BY <1>1, <1>2, <1>3, WindowedIs

LEMMA PackedHolds ==
  ASSUME TInv, HInv, PrefillPacked
  PROVE  /\ HInv'
         /\ \A b \in 1..LaneCount : out'[b] = <<Sample(prompts[b], prompts[b])>>
<1> DEFINE n == LaneCount
           T == Len(prompts[1])
           f == PrefillEq(Zeroed, Batch)
<1>1. /\ TInv' /\ AtDecode' /\ AtPacked /\ CallStays /\ eng' = f
      /\ \A b \in 1..n : toks'[b] = eng'.best[b - 1] /\ out'[b] = <<eng'.best[b - 1]>>
  BY PackedType
<1>2. /\ Typed(eng) /\ Slotted /\ SameLength(Batch) /\ KeptApart(eng, prompts, want)
      /\ PrefillBy(eng, prompts) = "packed" /\ pc' = "decode"
  BY <1>1 DEF TInv, HInv, AtPacked, PrefillPacked
<1>3. /\ Asked /\ Len(Batch) = n /\ n \in Nat /\ \A b \in 1..n : Batch[b] = prompts[b] /\ b \in 1..Len(prompts)
  BY <1>2, SlottedIs
<1>4. Windowed /\ T <= eng.win
  BY <1>2, PackedFits
<1>5. Typed(Zeroed) /\ SameBuild(eng, Zeroed) /\ \A b \in 1..n : Zeroed.rec[b - 1] = <<>>
  BY <1>2, ZeroedIs
<1>6. Packed(Zeroed, Batch, T)
  BY <1>2, BatchFits
<1>7. T <= Zeroed.win
  BY <1>4, <1>5 DEF SameBuild
<1> HIDE DEF T, n
<1>8. \A s \in 0..(Len(Batch) - 1) :
        /\ f.rec[s] = Zeroed.rec[s] \o Batch[s + 1]
        /\ f.best[s] = Sample(Zeroed.rec[s] \o Batch[s + 1], Batch[s + 1])
        /\ InWindow(f, s, Batch[s + 1])
  <2>1. \A s \in 0..(Len(Batch) - 1) :
          /\ f.rec[s] = Zeroed.rec[s] \o Batch[s + 1]
          /\ f.best[s] = Sample(Zeroed.rec[s] \o Batch[s + 1], Batch[s + 1])
          /\ T <= Zeroed.win => InWindow(f, s, Batch[s + 1])
    BY <1>5, <1>6, PrefillEqIs, Zenon
  <2>2. QED
    BY <1>7, <2>1, Zenon
<1> HIDE DEF f
<1>9. ASSUME NEW b \in 1..n
      PROVE  /\ f.rec[b - 1] = prompts[b] /\ f.best[b - 1] = Sample(prompts[b], prompts[b])
             /\ InWindow(f, b - 1, prompts[b])
  <2>1. b - 1 \in 0..(Len(Batch) - 1) /\ (b - 1) + 1 = b
    BY <1>3
  <2>2. Batch[b] = prompts[b] /\ Zeroed.rec[b - 1] = <<>>
    BY <1>3, <1>5 DEF n
  <2>3. <<>> \o prompts[b] = prompts[b]
    <3>1. prompts[b] \in Seq(Token)
      BY <1>3, PromptIs DEF n
    <3>2. QED
      BY <3>1
  <2>4. /\ f.rec[b - 1] = Zeroed.rec[b - 1] \o Batch[b]
        /\ f.best[b - 1] = Sample(Zeroed.rec[b - 1] \o Batch[b], Batch[b])
        /\ InWindow(f, b - 1, Batch[b])
    BY <1>8, <2>1
  <2>5. QED
    BY <2>2, <2>3, <2>4
<1>10. \A b \in 1..n : Stands(f, b - 1, prompts[b], Windowed)
  BY <1>4, <1>9 DEF Stands
<1>11. HInv'
  BY <1>1, <1>2, <1>10, DecodeHolds DEF n
<1>12. QED
  BY <1>1, <1>9, <1>11 DEF n

LEMMA ColumnsBeginHolds ==
  ASSUME TInv, HInv, BeginColumns
  PROVE  HInv'
<1> DEFINE n == LaneCount
<1>1. AtColumns' /\ AtPacked /\ CallStays /\ eng' = Zeroed /\ poss'[1] = 0
  BY ColumnsBegin
<1>2. /\ Typed(eng) /\ Slotted /\ KeptApart(eng, prompts, want) /\ PrefillBy(eng, prompts) = "packed"
      /\ pc' = "columns"
  BY <1>1 DEF TInv, HInv, AtPacked, AtColumns
<1>3. LaneCount' = n /\ prompts' = prompts
  BY <1>1, SameBatch DEF CallStays
<1>4. KeptApart(eng, prompts, want)' /\ PrefillBy(eng, prompts)' = "packed"
  BY <1>1, <1>2, CallIs
<1>5. ASSUME NEW b \in 1..n PROVE Begun(b)'
  <2>1. SubSeq(prompts[b], 1, 0) = <<>>
    <3>1. Asked /\ b \in 1..Len(prompts)
      BY <1>2, SlottedIs
    <3>2. prompts[b] \in Seq(Token)
      BY <3>1, PromptIs
    <3>3. QED
      BY <3>2
  <2>2. eng'.rec[b - 1] = <<>>
    BY <1>1, <1>2, ZeroedIs
  <2>3. InWindow(eng', b - 1, <<>>)
    BY DEF InWindow
  <2>4. QED
    BY <1>1, <1>3, <2>1, <2>2, <2>3 DEF Begun, Stands
<1>6. QED
  BY <1>2, <1>3, <1>4, <1>5 DEF HInv

LEMMA ColumnHolds ==
  ASSUME TInv, HInv, FeedColumn
  PROVE  /\ HInv'
         /\ AtDecode' => \A b \in 1..LaneCount : out'[b] = <<Sample(prompts[b], prompts[b])>>
<1> DEFINE n == LaneCount
           p == poss[1]
           cs == Column
<1>1. /\ TInv' /\ AtColumns /\ CallStays /\ eng' = DecodeTokens(eng, cs, poss)
      /\ \/ /\ AtColumns' /\ poss'[1] = p + 1
         \/ /\ AtDecode' /\ p + 1 = Len(prompts[1])
            /\ \A b \in 1..n : toks'[b] = eng'.best[b - 1] /\ out'[b] = <<eng'.best[b - 1]>>
  BY ColumnType
<1>2. /\ Typed(eng) /\ Slotted /\ SameLength(Batch) /\ KeptApart(eng, prompts, want)
      /\ PrefillBy(eng, prompts) = "packed" /\ \A b \in 1..n : Begun(b)
  BY <1>1 DEF TInv, HInv, AtColumns
<1>3. /\ Inputs(eng, cs, poss) /\ Len(cs) = n
      /\ \A b \in 1..n : cs[b] = prompts[b][p + 1] /\ poss[b] = p /\ p + 1 \in 1..Len(prompts[b]) /\ p \in 0..Ctx
  BY <1>1, <1>2, ColumnIs
<1>4. Windowed /\ Len(prompts[1]) <= eng.win
  BY <1>2, PackedFits
<1>5. /\ Asked /\ n \in Nat /\ n >= 2 /\ \A b \in 1..n : b \in 1..Len(prompts)
      /\ \A b \in 1..n : Len(prompts[b]) = Len(prompts[1])
  BY <1>2, SlottedIs, LengthsAre
<1>6. Typed(eng') /\ SameBuild(eng, eng') /\ Stepped(eng, eng', cs, poss)
  <2> HIDE DEF cs
  <2>1. QED
    BY <1>1, <1>2, <1>3, DecodeTokensIs
<1>7. \A b \in 1..n : poss[b] < eng.win
  <2> TAKE b \in 1..n
  <2>1. 1 \in 1..n /\ Len(prompts[1]) \in Nat /\ eng.win \in Nat
    BY <1>2, <1>5, LengthsAre, Sizes DEF Typed
  <2>2. p + 1 \in 1..Len(prompts[1]) /\ p \in Nat /\ poss[b] = p
    BY <1>3, <2>1
  <2> HIDE DEF p
  <2>3. p < eng.win
    BY <1>4, <2>1, <2>2
  <2>4. QED
    BY <2>2, <2>3
<1> HIDE DEF n, p, cs
<1>8. ASSUME NEW b \in 1..n
      PROVE  LET h == SubSeq(prompts[b], 1, p + 1)
             IN  /\ Stands(eng', b - 1, h, TRUE) /\ eng'.best[b - 1] = Sample(h, h)
                 /\ (p + 1 = Len(prompts[1]) => h = prompts[b])
  <2> DEFINE ids == prompts[b]
             h == SubSeq(ids, 1, p)
             x == cs[b]
             s == b - 1
             e == eng'
  <2>1. ids \in Seq(Token) /\ Len(ids) \in 1..Ctx /\ Len(ids) = Len(prompts[1])
    BY <1>5, PromptIs DEF n, Prompt
  <2>2. p + 1 \in 1..Len(ids) /\ p \in Nat /\ x = ids[p + 1] /\ poss[b] = p
    BY <1>3, <2>1 DEF n, p
  <2>3. h \in Seq(Token) /\ Len(h) = p /\ p < Ctx
    <3>1. p \in 0..Len(ids) /\ p < Ctx
      BY <2>1, <2>2, Sizes
    <3> HIDE DEF ids
    <3>2. QED
      BY <2>1, <3>1, Cut
  <2>4. Append(h, x) = SubSeq(ids, 1, p + 1)
    <3> HIDE DEF ids, x
    <3>1. QED
      BY <2>1, <2>2
  <2>5. Stands(eng, s, h, TRUE)
    BY <1>2 DEF Begun, n, p
  <2>6. s \in BatchSlots(cs) /\ s + 1 = b
    BY <1>3, <1>5 DEF BatchSlots, n
  <2>7. poss[s + 1] = Len(h) /\ Len(h) < Ctx
    BY <2>2, <2>3, <2>6
  <2>8. \A c \in 1..Len(cs) : poss[c] < eng.win
    BY <1>3, <1>7 DEF n
  <2> HIDE DEF ids, h, s, e
  <2>9. /\ Stands(e, s, Append(h, cs[s + 1]), TRUE)
        /\ e.best[s] = Sample(Append(h, cs[s + 1]), Append(h, cs[s + 1]))
    <3>1. Typed(e) /\ SameBuild(eng, e) /\ Stepped(eng, e, cs, poss) /\ Typed(eng) /\ Inputs(eng, cs, poss)
      BY <1>2, <1>3, <1>6 DEF e
    <3>2. (TRUE => \A c \in 1..Len(cs) : poss[c] < eng.win) /\ (~TRUE => poss[1] >= eng.win)
      BY <2>8
    <3> DEFINE in == TRUE
    <3>3. Stands(eng, s, h, in) /\ (in => \A c \in 1..Len(cs) : poss[c] < eng.win) /\ (~in => poss[1] >= eng.win)
      BY <2>5, <3>2
    <3> HIDE DEF in
    <3>4. /\ Stands(e, s, Append(h, cs[s + 1]), in)
          /\ e.best[s] = Sample(Append(h, cs[s + 1]), Append(h, cs[s + 1]))
      BY <2>3, <2>6, <2>7, <3>1, <3>3, StepStands
    <3>5. QED
      BY <3>4 DEF in
  <2>10. Append(h, cs[s + 1]) = SubSeq(ids, 1, p + 1)
    BY <2>4, <2>6
  <2>11. p + 1 = Len(prompts[1]) => SubSeq(ids, 1, p + 1) = ids
    BY <2>1, <2>2
  <2>12. QED
    BY <2>9, <2>10, <2>11 DEF ids, s, e
<1>9. CASE AtColumns' /\ poss'[1] = p + 1
  <2>1. LaneCount' = n /\ prompts' = prompts /\ pc' = "columns"
    BY <1>1, <1>2, <1>9, SameBatch DEF CallStays, AtColumns, n
  <2>2. \A b \in 1..n : Begun(b)'
    BY <1>8, <1>9, <2>1 DEF Begun
  <2>3. KeptApart(eng, prompts, want)' /\ PrefillBy(eng, prompts)' = "packed"
    BY <1>1, <1>2, CallIs
  <2>4. HInv'
    BY <2>1, <2>2, <2>3 DEF HInv
  <2>5. ~AtDecode'
    BY <2>1 DEF AtDecode
  <2>6. QED
    BY <2>4, <2>5
<1>10. CASE /\ AtDecode' /\ p + 1 = Len(prompts[1])
            /\ \A b \in 1..n : toks'[b] = eng'.best[b - 1] /\ out'[b] = <<eng'.best[b - 1]>>
  <2>1. pc' = "decode"
    BY <1>10 DEF AtDecode
  <2>2. \A b \in 1..n : /\ Stands(eng', b - 1, prompts[b], TRUE) /\ eng'.best[b - 1] = Sample(prompts[b], prompts[b])
    BY <1>8, <1>10
  <2>3. \A b \in 1..n : Stands(eng', b - 1, prompts[b], Windowed)
    BY <1>4, <2>2 DEF Stands
  <2>4. \A b \in 1..n : out'[b] = <<toks'[b]>>
    BY <1>10
  <2>5. HInv'
    BY <1>1, <1>2, <1>10, <2>1, <2>3, <2>4, DecodeHolds DEF n
  <2>6. QED
    BY <1>10, <2>2, <2>5 DEF n
<1>11. QED
  BY <1>1, <1>9, <1>10 DEF n, p

LEMMA NextSlotHolds ==
  ASSUME TInv, HInv, PrefillNextSlot
  PROVE  LET b == Len(toks) + 1
         IN  HInv' /\ out'[b] = <<Sample(prompts[b], prompts[b])>> /\ \A c \in 1..Len(toks) : out'[c] = out[c]
<1> DEFINE n == LaneCount
           m == Len(toks)
           b == m + 1
           ids == prompts[b]
           s == b - 1
           f == PrefillSlot(eng, ids, s)
<1>1. /\ TInv' /\ AtSlots /\ CallStays /\ b \in 1..n /\ eng' = f /\ toks' = Append(toks, eng'.last)
      /\ (pc' = "slots" /\ AtSlots') \/ (pc' = "decode" /\ AtDecode')
      /\ \A c \in 1..b : out'[c] = <<toks'[c]>>
  BY NextSlotType
<1>2. /\ Typed(eng) /\ Slotted /\ KeptApart(eng, prompts, want) /\ PrefillBy(eng, prompts) = "slots"
      /\ (\A c \in 1..m : Holds(c)) /\ toks \in Seq(Token) /\ Shares(1)
  BY <1>1 DEF TInv, HInv, AtSlots, Placed, TokenSeq
<1>3. /\ Asked /\ n \in Nat /\ n <= Len(prompts) /\ Len(prompts) \in Nat /\ n <= eng.max /\ eng.max \in Nat
      /\ \A c \in 1..n : c \in 1..Len(prompts) /\ c - 1 \in Slots(eng)
  BY <1>2, SlottedIs
<1>4. m \in Nat /\ b \in 1..n /\ s = m /\ \A c \in 1..b : c = b \/ c \in 1..m
  BY <1>1, <1>2, <1>3
<1>5. Prompt(ids) /\ ids \in Seq(Token) /\ s \in Slots(eng) /\ b \in 1..Len(prompts)
  BY <1>3, <1>4, PromptIs
<1>6. /\ Windowed => Len(ids) <= eng.win
      /\ ~Windowed => eng.tq /\ Len(ids) >= eng.win /\ Launched(ids)
      /\ Launched(ids) \/ Len(ids) <= eng.win
  BY <1>2, <1>3, <1>5, WindowedIs
<1>7. Lands(eng, s, ids)
  <2>1. CASE b = 1
    <3>1. s = 0
      BY <2>1
    <3>2. QED
      BY <3>1 DEF Lands
  <2>2. CASE b # 1
    <3>1. b \in 2..n
      BY <1>4, <2>2
    <3>2. Launched(ids) /\ (eng.tile => Len(ids) < PfCap)
      BY <1>2, <3>1 DEF KeptApart, LaneCount
    <3>3. QED
      BY <3>2 DEF Lands
  <2>3. QED
    BY <2>1, <2>2
<1> HIDE DEF ids, s
<1>8. Typed(f) /\ SameBuild(eng, f) /\ Prefilled(eng, f, s, ids) /\ (eng.tq /\ Launched(ids) => InCompact(f, s, ids))
  BY <1>2, <1>5, <1>6, <1>7, PrefillSlotTyped, PrefillSlotStands
<1> HIDE DEF f, b, m, n
<1>9. Stands(f, s, ids, Windowed) /\ f.last = Sample(ids, ids)
  <2>1. f.win = eng.win /\ (eng.tq => f.tq)
    BY <1>8 DEF SameBuild
  <2>2. QED
    BY <1>6, <1>8, <2>1 DEF Prefilled, Stands
<1>10. \A c \in 1..m : toks'[c] = toks[c] /\ toks[c] \in Token
  <2>1. m = Len(toks)
    BY DEF m
  <2>2. QED
    BY <1>1, <1>2, <2>1, ElementOfSeq
<1>11. toks'[b] = f.last /\ f.last \in Token
  <2>1. f.last \in Token
    BY <1>8 DEF Typed
  <2>2. b = Len(toks) + 1
    BY DEF b, m
  <2>3. QED
    BY <1>1, <1>2, <2>1, <2>2
<1>12. \A c \in 1..m : out[c] = <<toks[c]>>
  <2> TAKE c \in 1..m
  <2>1. c \in 1..Len(prompts) /\ c <= Len(toks)
    BY <1>3, <1>4 DEF m, b
  <2>2. Len(out[c]) = 1
    BY <1>2, <2>1 DEF Shares
  <2>3. toks[c] = out[c][1]
    BY <1>2, <2>2 DEF Holds
  <2>4. out[c] \in Seq(Token)
    BY <1>3, <2>1 DEF Asked, TokenSeq
  <2>5. QED
    BY <2>2, <2>3, <2>4
<1>13. ASSUME NEW c \in 1..m PROVE Stands(f, c - 1, prompts[c], Windowed)
  <2> DEFINE p == prompts[c]
             t == c - 1
  <2>1. p \in Seq(Token) /\ Len(p) <= Ctx /\ t \in Slots(eng) /\ t # s
    <3>1. c \in 1..n /\ c # b
      BY <1>3, <1>4 DEF b
    <3>2. c \in 1..Len(prompts) /\ t \in Slots(eng)
      BY <1>3, <3>1 DEF n
    <3>3. Len(p) \in 1..Ctx /\ p \in Seq(Token)
      BY <1>3, <3>2, PromptIs DEF Prompt
    <3>4. t # s
      BY <1>4, <3>1
    <3>5. QED
      BY <3>2, <3>3, <3>4, Sizes
  <2>2. Stands(eng, t, History(p, out[c]), Windowed)
    BY <1>2 DEF Holds, m
  <2>3. History(p, out[c]) = p
    BY <1>10, <1>12, <2>1, HistoryFirst
  <2> DEFINE x == Windowed
  <2>4. Stands(eng, t, p, x) /\ Untouched(eng, f, t)
    BY <1>8, <2>1, <2>2, <2>3 DEF Prefilled
  <2> HIDE DEF p, t, x
  <2>5. Stands(f, t, p, x)
    BY <1>2, <1>8, <2>1, <2>4, LeftStands
  <2>6. QED
    BY <2>5 DEF p, t, x
<1>14. \A c \in 1..b : Holds(c)'
  <2> TAKE c \in 1..b
  <2>1. prompts[c] \in Seq(Token) /\ toks'[c] \in Token
    <3>1. c \in 1..Len(prompts)
      BY <1>3, <1>4 DEF n
    <3>2. QED
      BY <1>3, <1>4, <1>10, <1>11, <3>1, PromptIs
  <2>2. Stands(f, c - 1, prompts[c], Windowed)
    <3>1. CASE c = b
      BY <1>9, <3>1 DEF ids, s
    <3>2. CASE c \in 1..m
      BY <1>13, <3>2
    <3>3. QED
      BY <1>4, <3>1, <3>2
  <2>3. out'[c] = <<toks'[c]>>
    BY <1>1
  <2>4. QED
    BY <1>1, <1>2, <2>1, <2>2, <2>3, FirstHolds
<1>15. Len(toks') = b
  BY <1>1, <1>2 DEF b, m
<1>16. KeptApart(eng, prompts, want)' /\ PrefillBy(eng, prompts)' = "slots"
  BY <1>1, <1>2, CallIs
<1>17. HInv'
  BY <1>1, <1>14, <1>15, <1>16 DEF HInv
<1>18. out'[b] = <<Sample(ids, ids)>>
  <2>1. b \in 1..b
    BY <1>4
  <2>2. out'[b] = <<toks'[b]>>
    BY <1>1, <2>1
  <2>3. QED
    BY <1>9, <1>11, <2>2
<1>19. \A c \in 1..m : out'[c] = out[c]
  <2> TAKE c \in 1..m
  <2>1. c \in 1..b
    BY <1>4 DEF b
  <2>2. QED
    BY <1>1, <1>10, <1>12, <2>1
<1>20. QED
  BY <1>17, <1>18, <1>19 DEF ids, b, m

\* Where the next positions of a batch lie that is not finished.
LEMMA PositionsOf ==
  ASSUME Typed(eng), Slotted, KeptApart(eng, prompts, want), Len(toks) <= LaneCount,
         NEW k \in Nat, k >= 1, k \in Rounds, Placed(k), NEW b \in 1..Len(toks)
  PROVE  LET h == History(prompts[b], out[b])
         IN  /\ prompts[b] \in Seq(Token) /\ out[b] \in Seq(Token) /\ Len(out[b]) >= 1
             /\ h \in Seq(Token) /\ Len(h) <= Ctx /\ poss[b] = Len(h)
             /\ Append(h, out[b][Len(out[b])]) = prompts[b] \o out[b]
             /\ (Len(out[b]) < want => Len(h) < Ctx /\ (Windowed => poss[b] < eng.win))
             /\ (~Windowed => poss[b] >= eng.win)
<1> DEFINE p == prompts[b]
           o == out[b]
           h == History(p, o)
           m == Max({want, 1})
<1>1. toks \in Seq(Token) /\ Len(toks) \in Nat
  BY DEF Placed, TokenSeq
<1>2. Asked /\ b \in 1..Len(prompts) /\ want \in Nat /\ Len(prompts) \in Nat
  <2>1. Asked /\ want \in Nat /\ LaneCount \in Nat /\ LaneCount <= Len(prompts) /\ Len(prompts) \in Nat
    BY SlottedIs
  <2>2. QED
    BY <1>1, <2>1
<1>3. Len(out[b]) = k /\ poss[b] = Len(prompts[b]) + k - 1
  BY <1>1, <1>2 DEF Placed, Shares
<1>4. p \in Seq(Token) /\ Len(p) \in Nat
  BY <1>2, PromptIs
<1>5. o \in Seq(Token) /\ Len(o) = k /\ poss[b] = Len(p) + k - 1
  <2>1. o \in Seq(Token)
    BY <1>2 DEF Asked, TokenSeq
  <2>2. QED
    BY <1>3, <2>1
<1>6. h \in Seq(Token) /\ Len(h) = Len(p) + k - 1 /\ Append(h, o[Len(o)]) = p \o o
  BY <1>4, <1>5, HistoryIs
<1>7. /\ Windowed => Len(p) + m - 1 <= eng.win
      /\ ~Windowed => Len(p) >= eng.win
      /\ Len(p) + m - 1 <= Ctx
  BY <1>2, WindowedIs
<1>8. k <= m /\ m \in Nat /\ m = IF want >= 1 THEN want ELSE 1
  <2>1. m = IF want >= 1 THEN want ELSE 1
    BY <1>2, MaxOfTwo
  <2>2. k \in 1..m
    BY DEF Rounds
  <2>3. QED
    BY <1>2, <2>1, <2>2
<1>9. eng.win \in Nat /\ Ctx \in Nat
  BY Sizes DEF Typed
<1> DEFINE w == eng.win
           l == Len(p)
           q == poss[b]
           z == Len(h)
<1>10. /\ w \in Nat /\ Ctx \in Nat /\ l \in Nat /\ k \in Nat /\ k >= 1 /\ m \in Nat /\ k <= m /\ q = l + k - 1
       /\ z = l + k - 1 /\ l + m - 1 <= Ctx /\ want \in Nat /\ m = (IF want >= 1 THEN want ELSE 1)
  BY <1>2, <1>3, <1>4, <1>5, <1>6, <1>7, <1>8, <1>9
<1> HIDE DEF w, l, q, z, m
<1>11. z <= Ctx /\ q = z /\ (k < want => z < Ctx)
  BY <1>10
<1>12. ASSUME l + m - 1 <= w, k < want PROVE q < w
  BY <1>10, <1>12
<1>13. ASSUME l >= w PROVE q >= w
  BY <1>10, <1>13
<1>14. ASSUME Windowed, k < want PROVE q < w
  BY <1>7, <1>12, <1>14 DEF l, w, m
<1>15. ASSUME ~Windowed PROVE q >= w
  BY <1>7, <1>13, <1>15 DEF l, w
<1> HIDE DEF h, o, p
<1>16. /\ z = Len(h) /\ q = poss[b] /\ w = eng.win /\ k = Len(o)
  BY <1>5 DEF z, q, w, o
<1>17. QED
  BY <1>3, <1>4, <1>5, <1>6, <1>11, <1>14, <1>15, <1>16 DEF p, o, h

LEMMA PositionsAre ==
  ASSUME Typed(eng), AtDecode, KeptApart(eng, prompts, want), NEW b \in 1..LaneCount
  PROVE  LET h == History(prompts[b], out[b])
         IN  /\ prompts[b] \in Seq(Token) /\ out[b] \in Seq(Token) /\ Len(out[b]) >= 1
             /\ h \in Seq(Token) /\ Len(h) <= Ctx /\ poss[b] = Len(h)
             /\ Append(h, out[b][Len(out[b])]) = prompts[b] \o out[b]
             /\ (Len(out[b]) < want => Len(h) < Ctx /\ (Windowed => poss[b] < eng.win))
             /\ (~Windowed => poss[b] >= eng.win)
<1>1. Slotted /\ Len(toks) = LaneCount /\ LaneCount \in Nat
  BY SlottedIs DEF AtDecode
<1>2. PICK k \in Nat : k >= 1 /\ k \in Rounds /\ Placed(k)
  BY RoundIs
<1>3. Len(toks) <= LaneCount /\ b \in 1..Len(toks)
  BY <1>1
<1>4. QED
  BY <1>1, <1>2, <1>3, PositionsOf

LEMMA LoopHolds ==
  ASSUME TInv, HInv, DecodeActive
  PROVE  /\ HInv'
         /\ \A b \in 1..LaneCount : out'[b] = Append(out[b], Sample(prompts[b] \o out[b], prompts[b] \o out[b]))
<1> DEFINE n == LaneCount
<1>1. /\ TInv' /\ AtDecode /\ AtDecode' /\ CallStays /\ Inputs(eng, toks, poss) /\ Len(toks) = n
      /\ eng' = DecodeTokens(eng, toks, poss)
      /\ \A b \in 1..n : /\ Len(out[b]) < want /\ toks'[b] = eng'.best[b - 1]
                         /\ out'[b] = Append(out[b], toks'[b])
  BY DecodeType
<1>2. /\ Typed(eng) /\ Slotted /\ KeptApart(eng, prompts, want) /\ \A b \in 1..n : Holds(b)
  BY <1>1 DEF TInv, HInv, AtDecode
<1>3. Asked /\ n \in Nat /\ n >= 2 /\ Len(toks') = n /\ 1 \in 1..n
  <2>1. LaneCount' = n
    BY <1>1, <1>2, SameBatch
  <2>2. QED
    BY <1>1, <1>2, <2>1, SlottedIs DEF AtDecode
<1>4. Typed(eng') /\ SameBuild(eng, eng') /\ Stepped(eng, eng', toks, poss)
  BY <1>1, <1>2, DecodeTokensIs
<1>5. \A b \in 1..n : (Windowed => poss[b] < eng.win) /\ (~Windowed => poss[b] >= eng.win)
  BY <1>1, <1>2, PositionsAre
<1>6. ASSUME NEW b \in 1..n
      PROVE  LET g == prompts[b] \o out[b]
             IN  Stands(eng', b - 1, g, Windowed) /\ eng'.best[b - 1] = Sample(g, g)
  <2> DEFINE h == History(prompts[b], out[b])
             s == b - 1
             e == eng'
             x == toks[b]
             in == Windowed
  <2>1. /\ h \in Seq(Token) /\ poss[b] = Len(h) /\ Len(h) < Ctx
        /\ Append(h, x) = prompts[b] \o out[b]
    BY <1>1, <1>2, PositionsAre DEF Holds
  <2>2. Stands(eng, s, h, in)
    BY <1>2 DEF Holds
  <2>3. s \in BatchSlots(toks) /\ s + 1 = b
    BY <1>1, <1>3 DEF BatchSlots
  <2>4. (in => \A c \in 1..Len(toks) : poss[c] < eng.win) /\ (~in => poss[1] >= eng.win)
    BY <1>1, <1>3, <1>5
  <2>5. poss[s + 1] = Len(h) /\ x = toks[s + 1]
    BY <2>1, <2>3
  <2>6. Typed(eng) /\ Inputs(eng, toks, poss) /\ Typed(e) /\ SameBuild(eng, e) /\ Stepped(eng, e, toks, poss)
    BY <1>1, <1>2, <1>4
  <2> HIDE DEF h, s, e, x, in
  <2>7. /\ Stands(e, s, Append(h, toks[s + 1]), in)
        /\ e.best[s] = Sample(Append(h, toks[s + 1]), Append(h, toks[s + 1]))
    BY <2>1, <2>2, <2>3, <2>4, <2>5, <2>6, StepStands
  <2>8. QED
    BY <2>1, <2>5, <2>7 DEF s, e, in
<1>7. ASSUME NEW b \in 1..n PROVE Holds(b)' /\ toks'[b] = Sample(prompts[b] \o out[b], prompts[b] \o out[b])
  <2>1. toks'[b] = eng'.best[b - 1] /\ out'[b] = Append(out[b], toks'[b])
    BY <1>1
  <2>2. prompts[b] \in Seq(Token) /\ out[b] \in Seq(Token)
    BY <1>1, <1>2, PositionsAre
  <2>3. toks'[b] = Sample(prompts[b] \o out[b], prompts[b] \o out[b]) /\ toks'[b] \in Token
    BY <1>6, <2>1, SampleType
  <2>4. History(prompts[b], out'[b]) = prompts[b] \o out[b]
    BY <2>1, <2>2, <2>3, HistoryNext
  <2>5. out'[b][Len(out'[b])] = toks'[b]
    BY <2>1, <2>2, <2>3
  <2>6. Stands(eng', b - 1, History(prompts[b], out'[b]), Windowed)
    BY <1>6, <2>4
  <2>7. QED
    BY <1>1, <1>2, <2>3, <2>5, <2>6, HoldsNext
<1>8. KeptApart(eng, prompts, want)' /\ pc' = "decode"
  BY <1>1, <1>2, CallIs DEF AtDecode
<1>9. HInv'
  BY <1>3, <1>7, <1>8 DEF HInv
<1>10. QED
  BY <1>1, <1>7, <1>9

LEMMA ReturnHolds == TInv /\ HInv /\ Return => HInv'
<1>1. Return => pc' = "idle"
  BY DEF Return
<1>2. QED
  BY <1>1 DEF HInv

LEMMA StutterHolds == HInv /\ UNCHANGED vars => HInv'
BY DEF HInv, vars, call, Holds, Begun, LaneCount, Windowed

LEMMA StepHolds ==
  ASSUME OnlyKeptApart, TInv, HInv, [Next]_vars
  PROVE  HInv'
<1>1. ASSUME NEW ps \in Batches, NEW w \in 0..MaxWant, GenerateBatch(ps, w) PROVE HInv'
  BY <1>1, BeginHolds
<1>2. CASE GenerateAlone
  BY <1>2, AloneHolds
<1>3. CASE PrefillSame
  BY <1>3, SameHolds
<1>4. CASE PrefillPacked
  BY <1>4, PackedHolds
<1>5. CASE BeginColumns
  BY <1>5, ColumnsBeginHolds
<1>6. CASE FeedColumn
  BY <1>6, ColumnHolds
<1>7. CASE PrefillNextSlot
  BY <1>7, NextSlotHolds
<1>8. CASE DecodeActive
  BY <1>8, LoopHolds
<1>9. CASE Return
  BY <1>9, ReturnHolds
<1>10. CASE UNCHANGED vars
  BY <1>10, StutterHolds
<1>11. QED
  BY <1>1, <1>2, <1>3, <1>4, <1>5, <1>6, <1>7, <1>8, <1>9, <1>10 DEF Next, Step

\* As long as only calls are made whose slots the code keeps apart, each slot
\* stands for its sequence in every state of every call.
THEOREM Holding ==
  ASSUME OnlyKeptApart
  PROVE  Spec => [](TInv /\ HInv)
<1>1. Init => TInv
  BY InitHolds
<1>2. Init => HInv
  BY DEF Init, HInv
<1>3. TInv /\ HInv /\ [Next]_vars => TInv' /\ HInv'
  BY StepType, StepHolds
<1>4. QED
  BY <1>1, <1>2, <1>3, PTL DEF Spec

LEMMA HeldBy ==
  ASSUME TInv, HInv, pc \in {"slots", "decode"}
  PROVE  /\ Slotted /\ Len(toks) <= LaneCount /\ toks \in Seq(Token)
         /\ \E k \in Nat : k >= 1 /\ k \in Rounds /\ Placed(k)
<1>1. CASE pc = "slots"
  <2>1. Typed(eng) /\ AtSlots
    BY <1>1, SlotsIs
  <2>2. Slotted /\ Len(toks) < LaneCount /\ Placed(1)
    BY <2>1 DEF AtSlots
  <2>3. want \in Nat /\ LaneCount \in Nat
    BY <2>1, <2>2, SlottedIs
  <2>4. 1 \in Rounds
    <3>1. Max({want, 1}) = IF want >= 1 THEN want ELSE 1
      BY <2>3, MaxOfTwo
    <3>2. 1 \in 1..Max({want, 1})
      BY <2>3, <3>1
    <3>3. QED
      BY <3>2 DEF Rounds
  <2>5. toks \in Seq(Token) /\ Len(toks) <= LaneCount
    BY <2>2, <2>3 DEF Placed, TokenSeq
  <2>6. QED
    BY <2>2, <2>4, <2>5
<1>2. CASE pc = "decode"
  <2>1. Typed(eng) /\ AtDecode
    BY <1>2, LoopIs
  <2>2. PICK k \in Nat : k >= 1 /\ k \in Rounds /\ Placed(k)
    BY <2>1, RoundIs
  <2>3. Slotted /\ Len(toks) = LaneCount
    BY <2>1 DEF AtDecode
  <2>4. LaneCount \in Nat
    BY <2>1, <2>3, SlottedIs
  <2>5. toks \in Seq(Token) /\ Len(toks) <= LaneCount
    BY <2>2, <2>3, <2>4 DEF Placed, TokenSeq
  <2>6. QED
    BY <2>2, <2>3, <2>5
<1>3. QED
  BY <1>1, <1>2

LEMMA HoldingHolds ==
  ASSUME TInv, HInv
  PROVE  SlotsHoldSequences
<1> SUFFICES ASSUME pc \in {"slots", "decode"}, NEW b \in DOMAIN toks
             PROVE  /\ eng.rec[b - 1] = Given(b) /\ poss[b] = Len(Given(b))
                    /\ Len(out[b]) < want => AttendedNext(b) = Given(b)
  BY DEF SlotsHoldSequences
<1>1. Typed(eng) /\ KeptApart(eng, prompts, want) /\ \A c \in 1..Len(toks) : Holds(c)
  BY DEF TInv, HInv
<1>2. Slotted /\ Len(toks) <= LaneCount /\ toks \in Seq(Token)
  BY HeldBy
<1>3. PICK k \in Nat : k >= 1 /\ k \in Rounds /\ Placed(k)
  BY HeldBy
<1>4. /\ b \in 1..Len(toks) /\ 1 \in 1..Len(toks) /\ Len(toks) \in Nat
  BY <1>2
<1> DEFINE h == Given(b)
           x == Windowed
           s == b - 1
           c == eng.tq /\ poss[1] >= eng.win
<1>5. h = History(prompts[b], out[b])
  BY DEF Given, History
<1>6. /\ h \in Seq(Token) /\ poss[b] = Len(h)
      /\ (Len(out[b]) < want => (x => poss[b] < eng.win))
  BY <1>1, <1>2, <1>3, <1>4, <1>5, PositionsOf
<1>7. /\ (Len(out[1]) < want => (x => poss[1] < eng.win))
      /\ (~x => poss[1] >= eng.win)
  BY <1>1, <1>2, <1>3, <1>4, PositionsOf
<1>8. Len(out[b]) = k /\ Len(out[1]) = k
  <2>1. b \in 1..Len(prompts) /\ 1 \in 1..Len(prompts)
    <3>1. LaneCount \in Nat /\ LaneCount <= Len(prompts) /\ Len(prompts) \in Nat
      BY <1>1, <1>2, SlottedIs
    <3>2. QED
      BY <1>2, <1>4, <3>1
  <2>2. QED
    BY <1>3, <1>4, <2>1 DEF Placed, Shares
<1>9. Stands(eng, s, h, x)
  BY <1>1, <1>4, <1>5 DEF Holds
<1>10. s \in Slots(eng)
  <2>1. LaneCount \in Nat /\ b \in 1..LaneCount
    BY <1>1, <1>2, <1>4, SlottedIs
  <2>2. QED
    BY <1>1, <1>2, <2>1, SlottedIs
<1>11. eng.rec[s] = h
  BY <1>9 DEF Stands
<1>12. ASSUME Len(out[b]) < want PROVE AttendedNext(b) = h
  <2>1. (x => poss[1] < eng.win) /\ (~x => poss[1] >= eng.win) /\ (~x => eng.tq)
    BY <1>7, <1>8, <1>12 DEF Windowed
  <2>2. poss[1] \in Nat /\ eng.win \in Nat
    <3>1. poss[1] \in 0..Ctx
      BY <1>3, <1>4, ElementOfSeq DEF Placed
    <3>2. QED
      BY <1>1, <3>1, Sizes DEF Typed
  <2>3. ~(poss[1] < eng.win /\ poss[1] >= eng.win)
    BY <2>2
  <2>4. (x => ~c) /\ (~x => c)
    BY <2>1, <2>3
  <2>5. AttendedNext(b) = Attended(eng, s, poss[b], c)
    BY DEF AttendedNext
  <2> HIDE DEF c, h, x, s
  <2>6. Attended(eng, s, Len(h), c) = h
    BY <1>1, <1>6, <1>9, <1>10, <2>4, AttendsIt
  <2>7. QED
    BY <1>6, <2>5, <2>6
<1>13. QED
  BY <1>6, <1>11, <1>12

\* Once a sequence has a slot, the slot's recurrent state, its position and the
\* rows the next step will attend stand for that sequence and for no other,
\* whichever way it was prefilled and whatever earlier calls left in the slots,
\* as long as only calls are made whose slots the code keeps apart.
THEOREM SlotsHold ==
  ASSUME OnlyKeptApart
  PROVE  Spec => []SlotsHoldSequences
<1>1. Spec => [](TInv /\ HInv)
  BY Holding
<1>2. TInv /\ HInv => SlotsHoldSequences
  BY HoldingHolds
<1>3. QED
  BY <1>1, <1>2, PTL

-----------------------------------------------------------------------------
(***************************************************************************)
(* Each sequence is decoded as if it were alone                            *)
(***************************************************************************)
LEMMA InitImplements == Init => Independent!Init
<1> SUFFICES ASSUME Init PROVE Independent!Init
  OBVIOUS
<1>1. TInv
  BY InitHolds
<1>2. eng.max \in Nat
  BY <1>1 DEF TInv, Typed
<1>3. QED
  BY <1>2 DEF Init, Independent!Init

\* A sequence's tokens go on with those greedy decoding appends.
Answered(p, old, new) == Independent!Continues(p, old, new)

LEMMA NoneAnswered == ASSUME NEW p, NEW o \in Seq(Token) PROVE Answered(p, o, o)
BY DEF Answered, Independent!Continues

LEMMA MoreAnswered ==
  ASSUME NEW p \in Seq(Token), NEW o \in Seq(Token), NEW x \in Token, x = Sample(p \o o, p \o o)
  PROVE  Answered(p, o, Append(o, x))
<1> DEFINE n == Append(o, x)
<1>1. /\ Len(o) \in Nat /\ Len(n) = Len(o) + 1 /\ SubSeq(n, 1, Len(o)) = o /\ n[Len(o) + 1] = x
  OBVIOUS
<1> HIDE DEF n
<1>2. ASSUME NEW k \in (Len(o) + 1)..Len(n) PROVE n[k] = Sample(p \o SubSeq(n, 1, k - 1), p \o SubSeq(n, 1, k - 1))
  <2>1. k = Len(o) + 1 /\ k - 1 = Len(o)
    BY <1>1
  <2>2. SubSeq(n, 1, k - 1) = o
    BY <1>1, <2>1
  <2>3. QED
    BY <1>1, <2>1, <2>2
<1>3. Len(o) <= Len(n)
  BY <1>1
<1>4. QED
  BY <1>1, <1>2, <1>3 DEF Answered, Independent!Continues, n

LEMMA FirstAnswered ==
  ASSUME NEW p \in Seq(Token), NEW x \in Token, x = Sample(p, p)
  PROVE  Answered(p, <<>>, <<x>>)
<1>1. Append(<<>>, x) = <<x>> /\ p \o <<>> = p /\ <<>> \in Seq(Token)
  OBVIOUS
<1>2. Answered(p, <<>>, Append(<<>>, x))
  BY <1>1, MoreAnswered
<1>3. QED
  BY <1>1, <1>2

\* There is one way for a sequence to go on by itself.
LEMMA OneChain ==
  ASSUME NEW e, NEW n \in Nat, NEW s \in [1..n -> Token], NEW t \in [1..n -> Token],
         FeedsItself(e, s, n), FeedsItself(e, t, n)
  PROVE  s = t
<1> DEFINE G == {m \in 0..n : \A k \in 1..m : s[k] = t[k]}
<1>1. 0 \in G
  OBVIOUS
<1>2. ASSUME NEW m \in 0..(n - 1), m \in G PROVE m + 1 \in G
  <2>1. \A k \in 1..m : s[k] = t[k]
    BY <1>2
  <2>2. m + 1 \in 1..n /\ m + 1 \in 0..n /\ (m + 1) - 1 = m
    OBVIOUS
  <2>3. SubSeq(s, 1, m) = SubSeq(t, 1, m)
    <3>1. s \in Seq(Token) /\ Len(s) = n /\ t \in Seq(Token) /\ Len(t) = n /\ m \in 0..n
      OBVIOUS
    <3>2. SubSeq(s, 1, m) = [k \in 1..m |-> s[k]]
      BY <3>1
    <3>3. SubSeq(t, 1, m) = [k \in 1..m |-> t[k]]
      BY <3>1
    <3>4. QED
      BY <2>1, <3>2, <3>3
  <2>4. /\ s[m + 1] = IF m + 1 = 1 THEN e.last ELSE Decode(e, SubSeq(s, 1, (m + 1) - 1)).last
        /\ t[m + 1] = IF m + 1 = 1 THEN e.last ELSE Decode(e, SubSeq(t, 1, (m + 1) - 1)).last
    BY <2>2 DEF FeedsItself
  <2>5. s[m + 1] = t[m + 1]
    BY <2>2, <2>3, <2>4
  <2>6. \A k \in 1..(m + 1) : s[k] = t[k]
    BY <2>1, <2>5
  <2>7. QED
    BY <2>2, <2>6
<1>3. Positions!Reaches(G, n)
  BY Positions!Upwards
<1> HIDE DEF G
<1>4. n \in G
  BY <1>1, <1>2, <1>3 DEF Positions!Reaches
<1>5. \A k \in 1..n : s[k] = t[k]
  BY <1>4 DEF G
<1>6. QED
  BY <1>5

LEMMA ChainBegins ==
  ASSUME NEW e, Typed(e), NEW n \in Nat, e.pos + n <= Ctx, NEW m \in 0..n
  PROVE  SubSeq(SelfFed(e, n), 1, m) = SelfFed(e, m)
<1> DEFINE s == SelfFed(e, n)
           t == SubSeq(s, 1, m)
<1>1. s \in [1..n -> Token] /\ FeedsItself(e, s, n)
  BY SelfFedIs
<1>2. e.pos + m <= Ctx /\ m \in Nat
  <2>1. e.pos \in Nat /\ Ctx \in Nat
    BY Sizes DEF Typed
  <2>2. QED
    BY <2>1
<1>3. SelfFed(e, m) \in [1..m -> Token] /\ FeedsItself(e, SelfFed(e, m), m)
  BY <1>2, SelfFedIs
<1> HIDE DEF s
<1>4. s \in Seq(Token) /\ Len(s) = n
  BY <1>1
<1>5. t \in [1..m -> Token] /\ \A k \in 1..m : t[k] = s[k]
  <2>1. t \in Seq(Token) /\ Len(t) = m /\ \A k \in 1..m : t[k] = s[k]
    BY <1>4, Cut
  <2> HIDE DEF t
  <2>2. QED
    BY <2>1
<1>6. \A k \in 1..m : SubSeq(t, 1, k - 1) = SubSeq(s, 1, k - 1)
  <2> TAKE k \in 1..m
  <2> HIDE DEF t
  <2>1. t \in Seq(Token) /\ Len(t) = m /\ k - 1 \in 0..m /\ k - 1 \in 0..n
    BY <1>5
  <2>2. SubSeq(t, 1, k - 1) = [j \in 1..(k - 1) |-> t[j]]
    BY <2>1
  <2>3. SubSeq(s, 1, k - 1) = [j \in 1..(k - 1) |-> s[j]]
    BY <1>4, <2>1
  <2>4. \A j \in 1..(k - 1) : j \in 1..m
    BY <2>1
  <2>5. QED
    BY <1>5, <2>2, <2>3, <2>4
<1> HIDE DEF t
<1>7. FeedsItself(e, t, m)
  <2> SUFFICES ASSUME NEW k \in 1..m
               PROVE  t[k] = IF k = 1 THEN e.last ELSE Decode(e, SubSeq(t, 1, k - 1)).last
    BY DEF FeedsItself
  <2>1. k \in 1..n
    OBVIOUS
  <2>2. s[k] = IF k = 1 THEN e.last ELSE Decode(e, SubSeq(s, 1, k - 1)).last
    BY <1>1, <2>1 DEF FeedsItself
  <2>3. QED
    BY <1>5, <1>6, <2>2
<1>8. t = SelfFed(e, m)
  BY <1>2, <1>3, <1>5, <1>7, OneChain
<1>9. QED
  BY <1>8 DEF t, s

\* What generate yields for a prompt is what greedy decoding of it yields.
LEMMA YieldAnswered ==
  ASSUME Typed(eng), Asked, KeptApart(eng, prompts, want), NEW i \in 1..Len(prompts)
  PROVE  Answered(prompts[i], <<>>, Yield(i))
<1> DEFINE e == Prefilling(i)
           h == prompts[i]
           y == Yield(i)
           in == Windowed
<1>1. Typed(e) /\ SameBuild(eng, e) /\ e.pos = Len(h) /\ (\A n \in 0..want : e.pos + n <= Ctx)
      /\ y \in Seq(Token) /\ Len(y) = want
  BY YieldIs DEF TokenSeq
<1>2. Prompt(h) /\ h \in Seq(Token) /\ Len(h) \in Nat /\ want \in Nat
  BY PromptIs DEF Asked
<1>3. /\ in => Len(h) + Max({want, 1}) - 1 <= eng.win
      /\ ~in => eng.tq /\ Len(h) >= eng.win /\ Launched(h)
      /\ Launched(h) \/ Len(h) <= eng.win
      /\ in => Len(h) <= eng.win
  BY WindowedIs
<1>4. e.win = eng.win /\ (eng.tq => e.tq)
  BY <1>1 DEF SameBuild
<1>5. /\ e.rec[0] = h /\ e.last = Sample(h, h)
      /\ (Len(h) <= eng.win => InWindow(e, 0, h)) /\ (eng.tq /\ Launched(h) => InCompact(e, 0, h))
  BY <1>2, <1>3, PrefillStands DEF Prefilling
<1>6. Stands(e, 0, h, in)
  BY <1>3, <1>4, <1>5 DEF Stands
<1>7. \A k \in 1..want : y[k] = DecodeSteps(e, k - 1).last
  BY DEF Yield
<1>8. ASSUME in, NEW n \in 1..(want - 1) PROVE Len(h) + n <= e.win
  <2>1. Max({want, 1}) = IF want >= 1 THEN want ELSE 1
    BY <1>2, MaxOfTwo
  <2>2. want >= 1 /\ Len(h) + want - 1 <= e.win
    <3>1. want >= 1
      BY <1>2
    <3>2. QED
      BY <1>3, <1>4, <1>8, <2>1, <3>1
  <2>3. e.win \in Nat
    BY <1>1, Sizes DEF Typed
  <2>4. QED
    BY <1>2, <2>2, <2>3
<1> HIDE DEF e, h, y, in
<1>9. ASSUME NEW n \in 1..(want - 1)
      PROVE  DecodeSteps(e, n).last = Sample(h \o SelfFed(e, n), h \o SelfFed(e, n))
  <2> DEFINE s == SelfFed(e, n)
  <2>1. n \in Nat /\ n # 0 /\ n >= 1 /\ e.pos + n <= Ctx
    BY <1>1, <1>2
  <2>2. s \in [1..n -> Token]
    BY <1>1, <2>1, SelfFedIs
  <2>3. DecodeSteps(e, n) = Decode(e, s)
    BY <2>1 DEF DecodeSteps
  <2> HIDE DEF s
  <2>4. s \in Seq(Token) /\ Len(s) = n
    BY <2>1, <2>2
  <2>5. Len(s) >= 1 /\ Len(h) + Len(s) <= Ctx /\ (in => Len(h) + Len(s) <= e.win)
    BY <1>1, <1>8, <2>1, <2>4
  <2>6. Decode(e, s).last = Sample(h \o s, h \o s)
    BY <1>1, <1>2, <1>6, <2>4, <2>5, DecodeStands
  <2>7. QED
    BY <2>3, <2>6 DEF s
<1>10. ASSUME NEW m \in 0..(want - 1), want >= 1 PROVE SubSeq(y, 1, m) = SelfFed(e, m)
  <2>1. m \in Nat /\ m \in 0..want /\ e.pos + m <= Ctx
    BY <1>1, <1>2
  <2> DEFINE s == SelfFed(e, m)
  <2>2. s \in [1..m -> Token] /\ FeedsItself(e, s, m)
    BY <1>1, <2>1, SelfFedIs
  <2>3. ASSUME NEW k \in 1..m PROVE s[k] = y[k]
    <3>1. s[k] = IF k = 1 THEN e.last ELSE Decode(e, SubSeq(s, 1, k - 1)).last
      BY <2>2 DEF FeedsItself
    <3>2. k \in 1..want /\ k - 1 \in 0..m
      BY <1>2, <2>1
    <3>3. y[k] = DecodeSteps(e, k - 1).last
      BY <1>7, <3>2
    <3>4. SubSeq(s, 1, k - 1) = SelfFed(e, k - 1)
      BY <1>1, <2>1, <3>2, ChainBegins
    <3> HIDE DEF s
    <3>5. CASE k = 1
      <4>1. k - 1 = 0 /\ DecodeSteps(e, 0) = e
        BY <3>5 DEF DecodeSteps
      <4>2. QED
        BY <3>1, <3>3, <3>5, <4>1
    <3>6. CASE k # 1
      <4>1. k - 1 # 0
        BY <3>6
      <4>2. DecodeSteps(e, k - 1) = Decode(e, SelfFed(e, k - 1))
        BY <4>1 DEF DecodeSteps
      <4>3. QED
        BY <3>1, <3>3, <3>4, <3>6, <4>2
    <3>7. QED
      BY <3>5, <3>6
  <2> HIDE DEF s
  <2>4. SubSeq(y, 1, m) = [k \in 1..m |-> y[k]]
    BY <1>1, <2>1
  <2>5. s = [k \in 1..m |-> s[k]]
    BY <2>2
  <2>6. QED
    BY <2>3, <2>4, <2>5 DEF s
<1>11. ASSUME NEW k \in 1..want PROVE y[k] = Sample(h \o SubSeq(y, 1, k - 1), h \o SubSeq(y, 1, k - 1))
  <2>1. y[k] = DecodeSteps(e, k - 1).last /\ k - 1 \in 0..(want - 1) /\ want >= 1
    BY <1>2, <1>7
  <2>2. SubSeq(y, 1, k - 1) = SelfFed(e, k - 1)
    BY <1>10, <2>1
  <2>3. CASE k = 1
    <3>1. k - 1 = 0 /\ DecodeSteps(e, 0) = e
      BY <2>3 DEF DecodeSteps
    <3>2. SubSeq(y, 1, 0) = <<>> /\ h \o <<>> = h
      BY <1>1, <1>2
    <3>3. QED
      BY <1>5, <2>1, <3>1, <3>2
  <2>4. CASE k # 1
    <3>1. k - 1 \in 1..(want - 1)
      BY <2>1, <2>4
    <3>2. QED
      BY <1>9, <2>1, <2>2, <3>1
  <2>5. QED
    BY <2>3, <2>4
<1>12. Answered(h, <<>>, y)
  <2>1. Len(<<>>) = 0 /\ SubSeq(y, 1, Len(<<>>)) = <<>> /\ Len(<<>>) <= Len(y)
    BY <1>1, <1>2
  <2>2. \A k \in (Len(<<>>) + 1)..Len(y) : k \in 1..want
    BY <1>1, <2>1
  <2>3. QED
    BY <1>11, <2>1, <2>2 DEF Answered, Independent!Continues
<1>13. QED
  BY <1>12 DEF h, y

\* A step of a call that goes on: every sequence is given greedy tokens.
LEMMA ProducesBy ==
  ASSUME TInv, pc # "idle", pc' # "idle", CallStays, Asked', out \in Seq(TokenSeq), Len(out) = Len(prompts),
         \A i \in 1..Len(prompts) : Answered(prompts[i], out[i], out'[i])
  PROVE  Independent!Produce
<1>1. prompts' = prompts /\ want' = want /\ eng'.max = eng.max
  BY DEF CallStays, SameBuild
<1>2. out' \in Seq(TokenSeq) /\ Len(out') = Len(prompts)
  BY <1>1 DEF Asked
<1>3. DOMAIN out = 1..Len(prompts) /\ DOMAIN out' = 1..Len(prompts)
  BY <1>2
<1>4. (pc' # "idle") = (pc # "idle")
  OBVIOUS
<1>5. QED
  BY <1>1, <1>3, <1>4 DEF Independent!Produce, Answered

LEMMA AskedInCall == TInv /\ pc # "idle" => Asked
BY DEF TInv, AtIdle, AtAlone, AtSame, AtPacked, AtColumns, AtSlots, AtDecode, Slotted

\* The first tokens of the slots.
LEMMA FirstProduces ==
  ASSUME TInv, TInv', pc # "idle", AtDecode', CallStays, Slotted, Shares(0), toks = <<>>,
         \A b \in 1..LaneCount : out'[b] = <<Sample(prompts[b], prompts[b])>>
  PROVE  Independent!Produce
<1>1. Asked /\ Asked' /\ pc' # "idle" /\ prompts' = prompts /\ want' = want
  BY DEF AtDecode, Slotted, CallStays
<1>2. /\ LaneCount \in Nat /\ LaneCount <= Len(prompts) /\ Len(prompts) \in Nat
      /\ \A b \in 1..LaneCount : b \in 1..Len(prompts)
  BY SlottedIs DEF TInv
<1>3. LaneCount' = LaneCount
  BY SameBatch
<1>4. Len(toks') = LaneCount /\ Slotted'
  BY <1>3 DEF AtDecode
<1>5. PICK k \in Rounds' : Placed(k)'
  BY DEF AtDecode
<1>6. \A i \in 1..Len(prompts) : i \notin 1..LaneCount => Len(out'[i]) = 0
  <2> TAKE i \in 1..Len(prompts)
  <2>1. Len(out'[i]) = IF i <= LaneCount THEN k ELSE 0
    BY <1>1, <1>4, <1>5 DEF Placed, Shares
  <2>2. QED
    BY <1>2, <2>1
<1>7. \A i \in 1..Len(prompts) : out[i] \in Seq(Token) /\ out'[i] \in Seq(Token)
  BY <1>1 DEF Asked, TokenSeq
<1>8. \A i \in 1..Len(prompts) : out[i] = <<>>
  <2> TAKE i \in 1..Len(prompts)
  <2>1. Len(out[i]) = 0
    BY DEF Shares
  <2>2. QED
    BY <1>7, <2>1
<1>9. ASSUME NEW i \in 1..Len(prompts) PROVE Answered(prompts[i], out[i], out'[i])
  <2>1. prompts[i] \in Seq(Token)
    BY <1>1, PromptIs
  <2>2. CASE i \in 1..LaneCount
    <3>1. out'[i] = <<Sample(prompts[i], prompts[i])>>
      BY <2>2
    <3>2. QED
      BY <1>8, <2>1, <3>1, SampleType, FirstAnswered
  <2>3. CASE i \notin 1..LaneCount
    <3>1. out'[i] = <<>> /\ out[i] = <<>> /\ <<>> \in Seq(Token)
      BY <1>6, <1>7, <1>8, <2>3
    <3>2. QED
      BY <3>1, NoneAnswered
  <2>4. QED
    BY <2>2, <2>3
<1>10. out \in Seq(TokenSeq) /\ Len(out) = Len(prompts)
  BY <1>1 DEF Asked
<1>11. QED
  BY <1>1, <1>9, <1>10, ProducesBy

LEMMA BeginImplements ==
  ASSUME TInv, NEW ps \in Batches, NEW w \in 0..MaxWant, GenerateBatch(ps, w)
  PROVE  Independent!Begin
<1>1. TInv' /\ pc' # "idle" /\ eng' = eng /\ pc = "idle"
  BY BeginType DEF GenerateBatch
<1>2. AtIdle /\ prompts' = ps /\ want' = w /\ out' = [i \in DOMAIN ps |-> <<>>]
  BY <1>1, IdleIs DEF GenerateBatch
<1>3. Asked'
  BY <1>1 DEF TInv, AtIdle, AtAlone, AtSame, AtPacked, AtColumns, AtSlots, AtDecode, Slotted
<1>4. prompts' \in Seq(TokenSeq) /\ want' \in Nat
  BY <1>3 DEF Asked
<1>5. QED
  BY <1>1, <1>2, <1>4 DEF Independent!Begin

LEMMA AloneImplements ==
  ASSUME TInv, HInv, GenerateAlone
  PROVE  Independent!Produce
<1> DEFINE j == Len(toks) + 1
<1>1. TInv' /\ AtAlone /\ AtAlone' /\ SameBuild(eng, eng') /\ j \in 1..Len(prompts) /\ out' = [out EXCEPT ![j] = Yield(j)]
  BY AloneType
<1>2. CallStays
  BY <1>1 DEF CallStays, TInv, GenerateAlone, call
<1>3. /\ Typed(eng) /\ Asked /\ Asked' /\ KeptApart(eng, prompts, want) /\ pc # "idle" /\ pc' # "idle"
      /\ out \in Seq(TokenSeq) /\ Len(out) = Len(prompts) /\ Shares(want) /\ toks \in Seq(Token)
  BY <1>1 DEF TInv, HInv, AtAlone, Asked, TokenSeq
<1> HIDE DEF j
<1>4. DOMAIN out = 1..Len(prompts) /\ \A i \in 1..Len(prompts) : out[i] \in Seq(Token)
  BY <1>3 DEF TokenSeq
<1>5. ASSUME NEW i \in 1..Len(prompts) PROVE Answered(prompts[i], out[i], out'[i])
  <2>1. CASE i = j
    <3>1. out'[i] = Yield(i)
      BY <1>1, <1>4, <2>1
    <3>2. ~(i <= Len(toks))
      BY <1>3, <2>1 DEF j
    <3>3. Len(out[i]) = 0
      BY <1>3, <3>2 DEF Shares
    <3>4. out[i] = <<>>
      BY <1>4, <3>3
    <3>5. QED
      BY <1>3, <3>1, <3>4, YieldAnswered
  <2>2. CASE i # j
    <3>1. out'[i] = out[i]
      BY <1>1, <1>4, <2>2
    <3>2. QED
      BY <1>4, <3>1, NoneAnswered
  <2>3. QED
    BY <2>1, <2>2
<1>6. QED
  BY <1>2, <1>3, <1>5, ProducesBy

LEMMA SameImplements ==
  ASSUME TInv, HInv, PrefillSame
  PROVE  Independent!Produce
<1>1. TInv' /\ AtDecode' /\ AtSame /\ CallStays
  BY SameType
<1>2. Slotted /\ Shares(0) /\ toks = <<>> /\ pc # "idle"
  BY <1>1 DEF AtSame
<1>3. \A b \in 1..LaneCount : out'[b] = <<Sample(prompts[b], prompts[b])>>
  BY SameHolds
<1>4. QED
  BY <1>1, <1>2, <1>3, FirstProduces

LEMMA PackedImplements ==
  ASSUME TInv, HInv, PrefillPacked
  PROVE  Independent!Produce
<1>1. TInv' /\ AtDecode' /\ AtPacked /\ CallStays
  BY PackedType
<1>2. Slotted /\ Shares(0) /\ toks = <<>> /\ pc # "idle"
  BY <1>1 DEF AtPacked
<1>3. \A b \in 1..LaneCount : out'[b] = <<Sample(prompts[b], prompts[b])>>
  BY PackedHolds
<1>4. QED
  BY <1>1, <1>2, <1>3, FirstProduces

\* What the abstract specification sees of a step that gives no token.
LEMMA Unseen ==
  ASSUME CallStays, pc # "idle", pc' # "idle", out' = out
  PROVE  UNCHANGED Independent!vars
<1>1. prompts' = prompts /\ want' = want /\ eng'.max = eng.max
  BY DEF CallStays, SameBuild
<1>2. (pc' # "idle") = (pc # "idle")
  OBVIOUS
<1>3. QED
  BY <1>1, <1>2 DEF Independent!vars

LEMMA ColumnsBeginImplements ==
  ASSUME TInv, BeginColumns
  PROVE  UNCHANGED Independent!vars
<1>1. AtColumns' /\ AtPacked /\ CallStays /\ out' = out
  BY ColumnsBegin
<1>2. pc # "idle" /\ pc' # "idle"
  BY <1>1 DEF AtColumns, AtPacked
<1>3. QED
  BY <1>1, <1>2, Unseen

LEMMA ColumnImplements ==
  ASSUME TInv, HInv, FeedColumn
  PROVE  Independent!Produce \/ UNCHANGED Independent!vars
<1>1. TInv' /\ AtColumns /\ CallStays /\ ((AtColumns' /\ out' = out) \/ AtDecode')
  BY ColumnType
<1>2. Slotted /\ Shares(0) /\ toks = <<>> /\ pc # "idle"
  BY <1>1 DEF AtColumns
<1>3. CASE AtColumns' /\ out' = out
  <2>1. pc' # "idle"
    BY <1>3 DEF AtColumns
  <2>2. QED
    BY <1>1, <1>2, <1>3, <2>1, Unseen
<1>4. CASE AtDecode'
  <2>1. \A b \in 1..LaneCount : out'[b] = <<Sample(prompts[b], prompts[b])>>
    BY <1>4, ColumnHolds
  <2>2. QED
    BY <1>1, <1>2, <1>4, <2>1, FirstProduces
<1>5. QED
  BY <1>1, <1>3, <1>4

LEMMA NextSlotImplements ==
  ASSUME TInv, HInv, PrefillNextSlot
  PROVE  Independent!Produce
<1> DEFINE m == Len(toks)
           b == m + 1
<1>1. /\ TInv' /\ AtSlots /\ CallStays /\ b \in 1..LaneCount /\ toks' = Append(toks, eng'.last)
      /\ (pc' = "slots" /\ AtSlots') \/ (pc' = "decode" /\ AtDecode')
  BY NextSlotType
<1>2. out'[b] = <<Sample(prompts[b], prompts[b])>> /\ \A c \in 1..m : out'[c] = out[c]
  BY NextSlotHolds
<1>3. Typed(eng) /\ Slotted /\ Shares(1) /\ toks \in Seq(Token) /\ pc # "idle"
  BY <1>1 DEF TInv, AtSlots, Placed, TokenSeq
<1>4. pc' # "idle" /\ Asked' /\ prompts' = prompts
  BY <1>1 DEF AtSlots, AtDecode, Slotted, CallStays
<1>5. /\ Asked /\ LaneCount \in Nat /\ LaneCount <= Len(prompts) /\ Len(prompts) \in Nat
  BY <1>3, SlottedIs
<1>6. Len(toks') = b /\ m \in Nat
  BY <1>1, <1>3
<1>7. \E k : Shares(k)'
  BY <1>1 DEF AtSlots, AtDecode, Placed
<1> HIDE DEF b, m
<1>8. \A i \in 1..Len(prompts) : out[i] \in Seq(Token) /\ out'[i] \in Seq(Token) /\ prompts[i] \in Seq(Token)
  BY <1>4, <1>5, PromptIs DEF Asked, TokenSeq
<1>9. ASSUME NEW i \in 1..Len(prompts) PROVE Answered(prompts[i], out[i], out'[i])
  <2>1. CASE i = b
    <3>1. ~(i <= Len(toks))
      BY <1>6, <2>1 DEF b, m
    <3>2. Len(out[i]) = 0
      BY <1>3, <3>1 DEF Shares
    <3>3. out[i] = <<>>
      BY <1>8, <3>2
    <3>4. QED
      BY <1>2, <1>8, <2>1, <3>3, SampleType, FirstAnswered
  <2>2. CASE i \in 1..m
    <3>1. out'[i] = out[i]
      BY <1>2, <2>2
    <3>2. QED
      BY <1>8, <3>1, NoneAnswered
  <2>3. CASE i # b /\ i \notin 1..m
    <3>1. ~(i <= Len(toks)) /\ ~(i <= Len(toks'))
      BY <1>6, <2>3 DEF b, m
    <3>2. Len(out[i]) = 0
      BY <1>3, <3>1 DEF Shares
    <3>3. Len(out'[i]) = 0
      BY <1>4, <1>7, <3>1 DEF Shares
    <3>4. out[i] = <<>> /\ out'[i] = <<>> /\ <<>> \in Seq(Token)
      BY <1>8, <3>2, <3>3
    <3>5. QED
      BY <3>4, NoneAnswered
  <2>4. QED
    BY <2>1, <2>2, <2>3
<1>10. out \in Seq(TokenSeq) /\ Len(out) = Len(prompts)
  BY <1>5 DEF Asked
<1>11. QED
  BY <1>1, <1>3, <1>4, <1>9, <1>10, ProducesBy

LEMMA LoopImplements ==
  ASSUME TInv, HInv, DecodeActive
  PROVE  Independent!Produce
<1>1. /\ TInv' /\ AtDecode /\ AtDecode' /\ CallStays
      /\ \A i \in 1..Len(prompts) : i \notin 1..LaneCount => out'[i] = out[i]
  BY DecodeType
<1>2. \A b \in 1..LaneCount : out'[b] = Append(out[b], Sample(prompts[b] \o out[b], prompts[b] \o out[b]))
  BY LoopHolds
<1>3. pc # "idle" /\ pc' # "idle" /\ Asked /\ Asked'
  BY <1>1 DEF AtDecode, Slotted
<1>4. ASSUME NEW i \in 1..Len(prompts) PROVE Answered(prompts[i], out[i], out'[i])
  <2>1. prompts[i] \in Seq(Token) /\ out[i] \in Seq(Token)
    BY <1>3, PromptIs DEF Asked, TokenSeq
  <2>2. CASE i \in 1..LaneCount
    BY <1>2, <2>1, <2>2, SampleType, MoreAnswered
  <2>3. CASE i \notin 1..LaneCount
    BY <1>1, <2>1, <2>3, NoneAnswered
  <2>4. QED
    BY <2>2, <2>3
<1>5. out \in Seq(TokenSeq) /\ Len(out) = Len(prompts)
  BY <1>3 DEF Asked
<1>6. QED
  BY <1>1, <1>3, <1>4, <1>5, ProducesBy

\* A call returns when each sequence that has a slot has all its tokens.
LEMMA ReturnImplements ==
  ASSUME TInv, Return
  PROVE  Independent!End
<1>1. /\ pc' = "idle" /\ prompts' = <<>> /\ want' = 0 /\ out' = <<>> /\ eng' = eng
      /\ \/ pc = "decode" /\ ~Unfinished
         \/ pc = "alone" /\ Len(toks) = Len(prompts)
  BY DEF Return
<1>2. pc # "idle" /\ Typed(eng) /\ Asked
  BY <1>1, AskedInCall DEF TInv
<1>3. /\ eng.max \in Nat /\ Len(prompts) \in Nat /\ DOMAIN prompts = 1..Len(prompts) /\ want \in Nat
      /\ \A i \in 1..Len(prompts) : out[i] \in Seq(Token)
  BY <1>2 DEF Typed, Asked, TokenSeq
<1>4. ASSUME pc = "alone", NEW i \in 1..Len(prompts)
      PROVE  Independent!Served(i) /\ Independent!Complete(i)
  <2>1. AtAlone /\ Len(toks) = Len(prompts)
    BY <1>1, <1>4 DEF TInv, AtIdle, AtAlone, AtSame, AtPacked, AtColumns, AtSlots, AtDecode
  <2>2. Len(prompts) = 1 \/ eng.max < 2
    BY <2>1 DEF AtAlone
  <2>3. Independent!Served(i)
    <3>1. eng.max < 2 => eng.max <= 1
      BY <1>3
    <3>2. QED
      BY <2>2, <3>1 DEF Independent!Served
  <2>4. Len(out[i]) = want
    BY <1>3, <2>1 DEF AtAlone, Shares
  <2>5. QED
    BY <2>3, <2>4 DEF Independent!Complete
<1>5. ASSUME pc = "decode", NEW i \in 1..Len(prompts)
      PROVE  IF Independent!Served(i) THEN Independent!Complete(i) ELSE out[i] = <<>>
  <2>1. AtDecode /\ ~Unfinished
    BY <1>1, <1>5, LoopIs
  <2>2. Slotted /\ Len(toks) = LaneCount
    BY <2>1 DEF AtDecode
  <2>3. PICK k \in Nat : /\ k >= 1 /\ k \in Rounds /\ Placed(k)
                         /\ \A b \in 1..LaneCount : Len(out[b]) = k /\ poss[b] = Len(prompts[b]) + k - 1
    BY <1>2, <2>1, RoundIs
  <2>4. LaneCount \in Nat /\ LaneCount >= 2 /\ DOMAIN Batch = 1..LaneCount
    BY <1>2, <2>2, SlottedIs
  <2>5. k <= Max({want, 1}) /\ Max({want, 1}) = IF want >= 1 THEN want ELSE 1
    <3> DEFINE m == Max({want, 1})
    <3>1. m = IF want >= 1 THEN want ELSE 1
      BY <1>3, MaxOfTwo
    <3>2. k \in 1..m
      BY <2>3 DEF Rounds
    <3> HIDE DEF m
    <3>3. k <= m
      BY <1>3, <3>1, <3>2
    <3>4. QED
      BY <3>1, <3>3 DEF m
  <2>6. k >= want
    <3>1. 1 \in 1..LaneCount
      BY <2>4
    <3>2. ~(Len(out[1]) < want)
      BY <2>1, <2>4, <3>1 DEF Unfinished
    <3>3. QED
      BY <1>3, <2>3, <3>1, <3>2
  <2>7. k = want \/ (want = 0 /\ k = 1)
    BY <1>3, <2>3, <2>5, <2>6
  <2>8. CASE i \in 1..LaneCount
    <3>1. Len(out[i]) = k
      BY <2>3, <2>8
    <3>2. Independent!Complete(i)
      BY <2>7, <3>1 DEF Independent!Complete
    <3>3. i <= eng.max
      <4>1. LaneCount <= eng.max
        BY <1>2, <2>2, SlottedIs
      <4>2. QED
        BY <1>3, <2>4, <2>8, <4>1
    <3>4. Independent!Served(i)
      BY <3>3 DEF Independent!Served
    <3>5. QED
      BY <3>2, <3>4
  <2>9. CASE i \notin 1..LaneCount
    <3>1. ~(i <= LaneCount)
      BY <2>4, <2>9
    <3>2. LaneCount = IF Len(prompts) <= eng.max THEN Len(prompts) ELSE eng.max
      <4>1. LaneCount = Min({Len(prompts), eng.max})
        BY DEF LaneCount, Lanes
      <4>2. QED
        BY <1>3, <4>1, MinOfTwo
    <3>3. ~(i <= eng.max) /\ ~(eng.max <= 1) /\ Len(prompts) # 1
      BY <1>3, <2>2, <3>1, <3>2 DEF Slotted
    <3>4. ~Independent!Served(i)
      BY <3>3 DEF Independent!Served
    <3>5. Len(out[i]) = 0
      BY <2>2, <2>3, <3>1 DEF Placed, Shares
    <3>6. out[i] = <<>>
      BY <1>3, <3>5
    <3>7. QED
      BY <3>4, <3>6
  <2>10. QED
    BY <2>8, <2>9
<1>6. \A i \in DOMAIN prompts : IF Independent!Served(i) THEN Independent!Complete(i) ELSE out[i] = <<>>
  BY <1>1, <1>3, <1>4, <1>5
<1>7. QED
  BY <1>1, <1>2, <1>6 DEF Independent!End

LEMMA StutterImplements == UNCHANGED vars => UNCHANGED Independent!vars
BY DEF vars, call, Independent!vars

LEMMA StepImplements ==
  ASSUME TInv, HInv, [Next]_vars
  PROVE  [Independent!Next]_Independent!vars
<1>1. ASSUME NEW ps \in Batches, NEW w \in 0..MaxWant, GenerateBatch(ps, w) PROVE Independent!Next
  BY <1>1, BeginImplements DEF Independent!Next
<1>2. CASE GenerateAlone
  BY <1>2, AloneImplements DEF Independent!Next
<1>3. CASE PrefillSame
  BY <1>3, SameImplements DEF Independent!Next
<1>4. CASE PrefillPacked
  BY <1>4, PackedImplements DEF Independent!Next
<1>5. CASE BeginColumns
  BY <1>5, ColumnsBeginImplements
<1>6. CASE FeedColumn
  BY <1>6, ColumnImplements DEF Independent!Next
<1>7. CASE PrefillNextSlot
  BY <1>7, NextSlotImplements DEF Independent!Next
<1>8. CASE DecodeActive
  BY <1>8, LoopImplements DEF Independent!Next
<1>9. CASE Return
  BY <1>9, ReturnImplements DEF Independent!Next
<1>10. CASE UNCHANGED vars
  BY <1>10, StutterImplements
<1>11. QED
  BY <1>1, <1>2, <1>3, <1>4, <1>5, <1>6, <1>7, <1>8, <1>9, <1>10 DEF Next, Step

\* Generation in a batch is greedy decoding of each prompt on its own, whatever
\* the batch, the engine and what earlier calls left on it, as long as only
\* calls are made whose slots the code keeps apart: each sequence that has a
\* slot gets the tokens its own prompt yields, all of them, and the others none.
THEOREM Implements ==
  ASSUME OnlyKeptApart
  PROVE  Spec => ImplementsIndependent
<1>1. Init => Independent!Init
  BY InitImplements
<1>2. TInv /\ HInv /\ [Next]_vars => [Independent!Next]_Independent!vars
  BY StepImplements
<1>3. Spec => [](TInv /\ HInv)
  BY Holding
<1>4. QED
  BY <1>1, <1>2, <1>3, PTL DEF Spec, ImplementsIndependent, Independent!Spec

-----------------------------------------------------------------------------
(***************************************************************************)
(* generate_batch returns                                                  *)
(***************************************************************************)
Wants == want \in 0..MaxWant

StepsAt ==
  /\ pc = "idle" => StepsLeft = 0
  /\ pc = "alone" => StepsLeft = 1 + Len(prompts) - Len(toks)
  /\ pc = "decode" => StepsLeft = 1 + Max({0, want - Len(out[1])})
  /\ pc = "slots" => StepsLeft = 2 + MaxWant + Len(Batch) - Len(toks)
  /\ pc = "columns" => StepsLeft = 2 + MaxWant + Len(prompts[1]) - poss[1]
  /\ pc \in {"same", "packed"} => StepsLeft = 3 + MaxWant + Ctx + eng.max

LEMMA StepsAre == StepsAt /\ StepsAt'
BY DEF StepsAt, StepsLeft

LEMMA BoundIsNat == MaxWant \in Nat
BY BatchAssumption DEF BatchAssumption

LEMMA LeftOver ==
  ASSUME NEW w \in Nat, NEW k \in Nat
  PROVE  Max({0, w - k}) = IF k <= w THEN w - k ELSE 0
<1>1. Max({0, w - k}) = IF 0 >= w - k THEN 0 ELSE w - k
  BY MaxOfTwo
<1>2. QED
  BY <1>1

\* Behind a prefill there are no more rounds than tokens to give.
LEMMA RoundsBegin ==
  ASSUME Wants, pc' = "decode", want' = want, NEW t, out'[1] = <<t>>
  PROVE  StepsLeft' \in Nat /\ StepsLeft' <= 1 + MaxWant
<1>1. want \in Nat /\ want <= MaxWant /\ MaxWant \in Nat /\ Len(out'[1]) = 1
  BY BoundIsNat DEF Wants
<1>2. StepsLeft' = 1 + Max({0, want - 1})
  BY <1>1, StepsAre DEF StepsAt
<1>3. Max({0, want - 1}) = IF 1 <= want THEN want - 1 ELSE 0
  BY <1>1, LeftOver
<1>4. QED
  BY <1>1, <1>2, <1>3

LEMMA AloneNears ==
  ASSUME TInv, GenerateAlone
  PROVE  StepsLeft' < StepsLeft
<1>1. AtAlone /\ AtAlone'
  BY AloneType
<1>2. prompts' = prompts /\ toks' = Append(toks, eng'.last)
  BY DEF GenerateAlone, call
<1>3. Len(prompts) \in Nat /\ Len(toks) \in Nat /\ Len(toks') = Len(toks) + 1
  <2>1. toks \in Seq(Token) /\ prompts \in Seq(TokenSeq)
    BY <1>1 DEF AtAlone, Asked, TokenSeq
  <2>2. QED
    BY <1>2, <2>1
<1>4. StepsLeft = 1 + Len(prompts) - Len(toks) /\ StepsLeft' = 1 + Len(prompts) - Len(toks')
  BY <1>1, <1>2, StepsAre DEF AtAlone, StepsAt
<1>5. QED
  BY <1>3, <1>4

\* The sizes of a call with slots.
LEMMA SlotsCount ==
  ASSUME Typed(eng), Slotted
  PROVE  /\ 1 \in 1..LaneCount /\ LaneCount \in Nat /\ Len(Batch) = LaneCount
         /\ eng.max \in Nat /\ Ctx \in Nat /\ MaxWant \in Nat
         /\ Len(prompts[1]) \in Nat /\ Len(prompts[1]) <= Ctx
<1>1. Asked /\ LaneCount \in Nat /\ LaneCount >= 2 /\ eng.max \in Nat /\ Len(Batch) = LaneCount
      /\ Len(prompts) \in Nat /\ LaneCount <= Len(prompts) /\ want \in Nat
  BY SlottedIs
<1>2. 1 \in 1..Len(prompts) /\ Ctx \in Nat
  BY <1>1, Sizes
<1>3. prompts[1] \in Seq(Token) /\ Len(prompts[1]) + want <= Ctx
  BY <1>1, <1>2 DEF Asked, TokenSeq
<1>4. QED
  BY <1>1, <1>2, <1>3, BoundIsNat

\* A prefill of all slots at once.
LEMMA PrefillNears ==
  ASSUME TInv, Wants, PrefillSame \/ PrefillPacked
  PROVE  StepsLeft' < StepsLeft
<1>1. AtDecode' /\ (AtSame \/ AtPacked) /\ CallStays /\ \E t : \A b \in 1..LaneCount : b = 1 => out'[b] = <<t>>
  <2>1. CASE PrefillSame
    BY <2>1, SameType
  <2>2. CASE PrefillPacked
    BY <2>2, PackedType
  <2>3. QED
    BY <2>1, <2>2
<1>2. pc' = "decode" /\ pc \in {"same", "packed"} /\ Slotted /\ Typed(eng) /\ want' = want
  BY <1>1 DEF TInv, AtDecode, AtSame, AtPacked, CallStays
<1>3. /\ 1 \in 1..LaneCount /\ eng.max \in Nat /\ Ctx \in Nat /\ MaxWant \in Nat
  BY <1>2, SlotsCount
<1>4. PICK t : out'[1] = <<t>>
  BY <1>1, <1>3
<1>5. StepsLeft' \in Nat /\ StepsLeft' <= 1 + MaxWant
  BY <1>2, <1>4, RoundsBegin
<1>6. StepsLeft = 3 + MaxWant + Ctx + eng.max
  BY <1>2, StepsAre DEF StepsAt
<1>7. QED
  BY <1>3, <1>5, <1>6

LEMMA ColumnsNear ==
  ASSUME TInv, BeginColumns
  PROVE  StepsLeft' < StepsLeft
<1>1. AtColumns' /\ AtPacked /\ CallStays /\ poss'[1] = 0
  BY ColumnsBegin
<1>2. pc' = "columns" /\ pc = "packed" /\ Slotted /\ Typed(eng) /\ prompts' = prompts
  BY <1>1 DEF TInv, AtColumns, AtPacked, CallStays
<1>3. /\ eng.max \in Nat /\ Ctx \in Nat /\ MaxWant \in Nat /\ Len(prompts[1]) \in Nat /\ Len(prompts[1]) <= Ctx
  BY <1>2, SlotsCount
<1>4. StepsLeft = 3 + MaxWant + Ctx + eng.max /\ StepsLeft' = 2 + MaxWant + Len(prompts[1]) - 0
  BY <1>1, <1>2, StepsAre DEF StepsAt
<1> DEFINE l == Len(prompts[1])
           m == eng.max
<1>5. m \in Nat /\ l \in Nat /\ l <= Ctx /\ StepsLeft = 3 + MaxWant + Ctx + m /\ StepsLeft' = 2 + MaxWant + l - 0
  BY <1>3, <1>4
<1> HIDE DEF l, m
<1>6. QED
  BY <1>3, <1>5

LEMMA ColumnNears ==
  ASSUME TInv, Wants, FeedColumn
  PROVE  StepsLeft' < StepsLeft
<1>1. /\ AtColumns /\ CallStays
      /\ \/ AtColumns' /\ poss'[1] = poss[1] + 1
         \/ /\ AtDecode' /\ poss[1] + 1 = Len(prompts[1])
            /\ \A b \in 1..LaneCount : out'[b] = <<eng'.best[b - 1]>>
  BY ColumnType
<1>2. /\ pc = "columns" /\ Slotted /\ Typed(eng) /\ prompts' = prompts /\ want' = want
      /\ poss \in Seq(0..Ctx) /\ Len(poss) = LaneCount
  BY <1>1 DEF TInv, AtColumns, CallStays
<1>3. 1 \in 1..LaneCount /\ LaneCount \in Nat /\ Ctx \in Nat /\ MaxWant \in Nat /\ Len(prompts[1]) \in Nat
  BY <1>2, SlotsCount
<1>4. poss[1] \in Nat
  <2>1. 1 \in 1..Len(poss)
    BY <1>2, <1>3
  <2>2. ASSUME NEW S, NEW p \in Seq(S), 1 \in 1..Len(p) PROVE p[1] \in S
    BY <2>2, ElementOfSeq
  <2>3. poss[1] \in 0..Ctx
    BY <1>2, <2>1, <2>2
  <2>4. QED
    BY <1>3, <2>3
<1>5. StepsLeft = 2 + MaxWant + Len(prompts[1]) - poss[1]
  BY <1>2, StepsAre DEF StepsAt
<1>6. CASE AtColumns' /\ poss'[1] = poss[1] + 1
  <2>1. StepsLeft' = 2 + MaxWant + Len(prompts[1]) - (poss[1] + 1)
    BY <1>2, <1>6, StepsAre DEF StepsAt, AtColumns
  <2>2. QED
    BY <1>3, <1>4, <1>5, <2>1
<1>7. CASE AtDecode' /\ poss[1] + 1 = Len(prompts[1]) /\ out'[1] = <<eng'.best[1 - 1]>>
  <2>1. pc' = "decode"
    BY <1>7 DEF AtDecode
  <2>2. StepsLeft' \in Nat /\ StepsLeft' <= 1 + MaxWant
    BY <1>2, <1>7, <2>1, RoundsBegin
  <2>3. QED
    BY <1>3, <1>4, <1>5, <1>7, <2>2
<1>8. QED
  BY <1>1, <1>3, <1>6, <1>7

LEMMA NextSlotNears ==
  ASSUME TInv, Wants, PrefillNextSlot
  PROVE  StepsLeft' < StepsLeft
<1>1. /\ AtSlots /\ CallStays /\ Len(toks) + 1 \in 1..LaneCount
      /\ toks' = Append(toks, eng'.last)
      /\ (pc' = "slots" /\ AtSlots') \/ pc' = "decode"
      /\ \A c \in 1..(Len(toks) + 1) : out'[c] = <<toks'[c]>>
  BY NextSlotType
<1>2. /\ pc = "slots" /\ Slotted /\ Typed(eng) /\ want' = want /\ toks \in Seq(Token)
  BY <1>1 DEF TInv, AtSlots, CallStays, Placed, TokenSeq
<1>3. /\ LaneCount \in Nat /\ MaxWant \in Nat /\ Len(Batch) = LaneCount
      /\ Len(toks) \in Nat /\ Len(toks') = Len(toks) + 1 /\ 1 \in 1..(Len(toks) + 1)
  BY <1>1, <1>2, SlotsCount
<1>4. StepsLeft = 2 + MaxWant + LaneCount - Len(toks)
  BY <1>2, <1>3, StepsAre DEF StepsAt
<1>5. CASE pc' = "slots"
  <2>1. Batch' = Batch
    BY <1>1, SameBatch
  <2>2. StepsLeft' = 2 + MaxWant + LaneCount - Len(toks')
    BY <1>3, <1>5, <2>1, StepsAre DEF StepsAt
  <2>3. QED
    BY <1>3, <1>4, <2>2
<1>6. CASE pc' = "decode"
  <2>1. out'[1] = <<toks'[1]>>
    BY <1>1, <1>3
  <2>2. StepsLeft' \in Nat /\ StepsLeft' <= 1 + MaxWant
    BY <1>2, <1>6, <2>1, RoundsBegin
  <2>3. Len(toks) + 1 <= LaneCount
    BY <1>1
  <2>4. QED
    BY <1>3, <1>4, <2>2, <2>3
<1>7. QED
  BY <1>1, <1>5, <1>6

LEMMA DecodeNears ==
  ASSUME TInv, DecodeActive
  PROVE  StepsLeft' < StepsLeft
<1> DEFINE k == Len(out[1])
<1>1. /\ AtDecode /\ AtDecode' /\ CallStays
      /\ \A b \in 1..LaneCount : Len(out[b]) < want /\ out'[b] = Append(out[b], toks'[b])
  BY DecodeType
<1>2. pc = "decode" /\ pc' = "decode" /\ Slotted /\ Typed(eng) /\ want' = want /\ Asked
  BY <1>1 DEF TInv, AtDecode, CallStays, Slotted
<1>3. 1 \in 1..LaneCount /\ want \in Nat
  BY <1>2, SlotsCount DEF Asked
<1>4. k \in Nat /\ k < want /\ Len(out'[1]) = k + 1
  <2>1. \E j \in Nat : \A b \in 1..LaneCount : Len(out[b]) = j
    BY <1>1, <1>2, RoundIs
  <2>2. k \in Nat /\ k < want /\ out'[1] = Append(out[1], toks'[1])
    BY <1>1, <1>3, <2>1
  <2>3. 1 \in 1..Len(out)
    BY <1>2, <1>3, SlottedIs DEF Asked
  <2>4. out[1] \in Seq(Token)
    BY <1>2, <2>3 DEF Asked, TokenSeq
  <2>5. QED
    BY <2>2, <2>4
<1>5. StepsLeft = 1 + Max({0, want - k}) /\ StepsLeft' = 1 + Max({0, want - (k + 1)})
  BY <1>2, <1>4, StepsAre DEF StepsAt
<1> HIDE DEF k
<1>6. /\ Max({0, want - k}) = (IF k <= want THEN want - k ELSE 0)
      /\ Max({0, want - (k + 1)}) = IF k + 1 <= want THEN want - (k + 1) ELSE 0
  <2>1. k + 1 \in Nat
    BY <1>4
  <2>2. QED
    BY <1>3, <1>4, <2>1, LeftOver
<1>7. QED
  BY <1>3, <1>4, <1>5, <1>6

LEMMA ReturnNears ==
  ASSUME TInv, Return
  PROVE  StepsLeft' < StepsLeft
<1>1. StepsLeft' = 0
  BY StepsAre DEF StepsAt, Return
<1>2. CASE pc = "alone" /\ Len(toks) = Len(prompts)
  <2>1. Len(prompts) \in Nat
    BY <1>2 DEF TInv, AtIdle, AtAlone, AtSame, AtPacked, AtColumns, AtSlots, AtDecode, Asked
  <2>2. StepsLeft = 1 + Len(prompts) - Len(toks)
    BY <1>2, StepsAre DEF StepsAt
  <2>3. QED
    BY <1>1, <1>2, <2>1, <2>2
<1>3. CASE pc = "decode"
  <2>1. Typed(eng) /\ AtDecode /\ Slotted
    BY <1>3 DEF TInv, AtIdle, AtAlone, AtSame, AtPacked, AtColumns, AtSlots, AtDecode
  <2>2. PICK j \in Nat : \A b \in 1..LaneCount : Len(out[b]) = j
    BY <2>1, RoundIs
  <2>3. 1 \in 1..LaneCount /\ want \in Nat
    BY <2>1, SlotsCount DEF Slotted, Asked
  <2>4. StepsLeft = 1 + Max({0, want - j})
    BY <1>3, <2>2, <2>3, StepsAre DEF StepsAt
  <2>5. Max({0, want - j}) = IF j <= want THEN want - j ELSE 0
    BY <2>2, <2>3, LeftOver
  <2>6. QED
    BY <1>1, <2>3, <2>4, <2>5
<1>4. QED
  BY <1>2, <1>3 DEF Return

LEMMA WantsKept ==
  ASSUME Wants, [Next]_vars
  PROVE  Wants'
<1>1. ASSUME NEW ps \in Batches, NEW w \in 0..MaxWant, GenerateBatch(ps, w) PROVE Wants'
  BY <1>1 DEF GenerateBatch, Wants
<1>2. CASE Return
  BY <1>2, BoundIsNat DEF Return, Wants
<1>3. CASE want' = want
  BY <1>3 DEF Wants
<1>4. QED
  BY <1>1, <1>2, <1>3 DEF Next, Step, vars, call, GenerateAlone, PrefillSame, PrefillPacked, BeginColumns,
                          FeedColumn, PrefillNextSlot, DecodeActive

LEMMA StepNears ==
  ASSUME TInv, Wants, [Next]_vars
  PROVE  [pc # "idle" => StepsLeft' < StepsLeft]_vars
<1>1. ASSUME NEW ps \in Batches, NEW w \in 0..MaxWant, GenerateBatch(ps, w) PROVE pc = "idle"
  BY <1>1 DEF GenerateBatch
<1>2. CASE GenerateAlone
  BY <1>2, AloneNears
<1>3. CASE PrefillSame \/ PrefillPacked
  BY <1>3, PrefillNears
<1>4. CASE BeginColumns
  BY <1>4, ColumnsNear
<1>5. CASE FeedColumn
  BY <1>5, ColumnNears
<1>6. CASE PrefillNextSlot
  BY <1>6, NextSlotNears
<1>7. CASE DecodeActive
  BY <1>7, DecodeNears
<1>8. CASE Return
  BY <1>8, ReturnNears
<1>9. QED
  BY <1>1, <1>2, <1>3, <1>4, <1>5, <1>6, <1>7, <1>8 DEF Next, Step

\* Every step of generate_batch brings its return nearer, by a bound that the
\* call, the context and the number of slots give, whatever batch is brought.
THEOREM Nears == Spec => NearsReturn
<1>1. Spec => []TInv
  BY Shape
<1>2. Init => Wants
  BY BoundIsNat DEF Init, Wants
<1>3. Wants /\ [Next]_vars => Wants'
  BY WantsKept
<1>4. TInv /\ Wants /\ [Next]_vars => [pc # "idle" => StepsLeft' < StepsLeft]_vars
  BY StepNears
<1>5. QED
  BY <1>1, <1>2, <1>3, <1>4, PTL DEF Spec, NearsReturn
=============================================================================
