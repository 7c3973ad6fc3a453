---------------------------- MODULE NgramProofs ----------------------------
(***************************************************************************)
(* What the drafter returns for every context, and facts about positions   *)
(* that the other proofs share.                                            *)
(***************************************************************************)
EXTENDS NgramProps, SequenceTheorems, FiniteSetTheorems, TLAPS

\* A non-empty set of positions has a last one: otherwise adding one would
\* map the finite set of positions below some element into itself without 0.
LEMMA LastExists ==
  ASSUME NEW m \in Nat, NEW S \in SUBSET (1..m), S # {}
  PROVE  \E x \in S : \A y \in S : x >= y
<1> SUFFICES ASSUME \A x \in S : \E y \in S : x < y PROVE FALSE
  OBVIOUS
<1> DEFINE T == {z \in 0..m : \E y \in S : z < y}
           f == [z \in T |-> z + 1]
<1>1. IsFiniteSet(T) /\ Cardinality(T) \in Nat
  <2>1. IsFiniteSet(0..m)
    BY FS_Interval
  <2>2. T \in SUBSET (0..m)
    OBVIOUS
  <2> HIDE DEF T
  <2>3. QED
    BY <2>1, <2>2, FS_Subset, FS_CardinalityType
<1>2. 0 \in T
  <2>1. PICK y \in S : TRUE
    OBVIOUS
  <2>2. 0 < y /\ 0 \in 0..m
    OBVIOUS
  <2>3. QED
    BY <2>2
<1>3. \A z \in T : z + 1 \in T \ {0}
  OBVIOUS
<1>4. f \in [T -> T \ {0}]
  BY <1>3
<1>5. \A x, y \in T : f[x] = f[y] => x = y
  OBVIOUS
<1> HIDE DEF T, f
<1>6. IsFiniteSet(T \ {0}) /\ Cardinality(T \ {0}) = Cardinality(T) - 1
  BY <1>1, <1>2, FS_RemoveElement
<1>7. Cardinality(T \ {0}) < Cardinality(T)
  BY <1>1, <1>6
<1>8. \E x, y \in T : x # y /\ f[x] = f[y]
  BY <1>1, <1>4, <1>6, <1>7, FS_PigeonHole
<1>9. QED
  BY <1>5, <1>8

HasLast(S, m) == S \subseteq 1..m /\ S # {} => \E x \in S : \A y \in S : x >= y

LEMMA SetHasLast == ASSUME NEW m \in Nat, NEW S PROVE HasLast(S, m)
BY LastExists DEF HasLast

\* What holds of 0 and goes on from one number to the next holds up to any n.
Reaches(G, n) ==
  0 \in G /\ (\A m \in 0..(n - 1) : m \in G => m + 1 \in G) => \A m \in 0..n : m \in G

LEMMA Upwards ==
  ASSUME NEW n \in Nat, NEW G
  PROVE  Reaches(G, n)
<1> SUFFICES ASSUME 0 \in G, \A m \in 0..(n - 1) : m \in G => m + 1 \in G
             PROVE  \A m \in 0..n : m \in G
  BY DEF Reaches
<1> DEFINE B == {b \in 1..(n + 1) : \A k \in 0..(b - 1) : k \in G}
<1>1. B \in SUBSET (1..(n + 1)) /\ n + 1 \in Nat
  OBVIOUS
<1>2. 1 \in B
  <2>1. \A k \in 0..(1 - 1) : k = 0
    OBVIOUS
  <2>2. QED
    BY <2>1
<1> DEFINE Top(x) == x \in B /\ \A y \in B : x >= y
<1>3. PICK x : Top(x)
  <2> HIDE DEF B
  <2>1. QED
    BY <1>1, <1>2, LastExists
<1>4. x \in 1..(n + 1) /\ \A k \in 0..(x - 1) : k \in G
  BY <1>3
<1>5. CASE x <= n
  <2>1. x \in G
    <3>1. x - 1 \in 0..(n - 1) /\ x - 1 \in G /\ (x - 1) + 1 = x
      BY <1>4, <1>5
    <3>2. QED
      BY <3>1
  <2>2. \A k \in 0..((x + 1) - 1) : k \in G
    BY <1>4, <2>1
  <2>3. x + 1 \in B
    BY <1>4, <1>5, <2>2
  <2>4. x >= x + 1
    BY <1>3, <2>3
  <2>5. QED
    BY <1>4, <2>4
<1>6. CASE x = n + 1
  BY <1>4, <1>6
<1>7. QED
  BY <1>4, <1>5, <1>6

LEMMA MaxInSet ==
  ASSUME NEW m \in Nat, NEW S \in SUBSET (1..m), S # {}
  PROVE  Max(S) \in S
BY LastExists DEF Max

LEMMA MinOfTwo ==
  ASSUME NEW a \in Int, NEW b \in Int
  PROVE  Min({a, b}) = IF a <= b THEN a ELSE b
BY DEF Min

\* What follows an occurrence is a piece of the context, at most n long.
LEMMA ContinuationType ==
  ASSUME NEW S, NEW hay \in Seq(S), NEW ng \in Nat \ {0}, NEW n \in Nat,
         Occurrences(hay, ng) # {}
  PROVE  Continuation(hay, ng, n) \in Seq(S) /\ Len(Continuation(hay, ng, n)) <= n
<1> DEFINE found == Max(Occurrences(hay, ng)) + ng
           last  == Min({Len(hay), found + n - 1})
<1>1. Len(hay) \in Nat
  OBVIOUS
<1>2. Occurrences(hay, ng) \subseteq 1..Len(hay)
  BY <1>1 DEF Occurrences
<1>3. Max(Occurrences(hay, ng)) \in 1..Len(hay)
  BY <1>1, <1>2, MaxInSet
<1>4. found \in Nat \ {0}
  BY <1>3
<1> HIDE DEF found
<1>5. last \in Int /\ last <= Len(hay) /\ last <= found + n - 1
  BY <1>1, <1>4, MinOfTwo
<1> HIDE DEF last
<1>6. \A k \in found..last : hay[k] \in S
  BY <1>1, <1>4, <1>5
<1>7. SubSeq(hay, found, last) \in Seq(S) /\ Len(SubSeq(hay, found, last)) <= n
  BY <1>4, <1>5, <1>6, SubSeqProperties
<1>8. QED
  BY <1>7 DEF Continuation, found, last

\* The drafter proposes tokens of its context, at most as many as asked for.
LEMMA DraftType ==
  ASSUME NEW S, NEW s \in Seq(S), NEW first \in S, NEW n \in Nat
  PROVE  NgramDraft(s, first, n) \in Seq(S) /\ Len(NgramDraft(s, first, n)) <= n
<1> DEFINE hay  == Hay(s, first)
           long == {ng \in 2..3 : Occurrences(hay, ng) # {}}
<1>1. CASE n <= 0 \/ s = <<>>
  BY <1>1 DEF NgramDraft
<1>2. CASE ~(n <= 0 \/ s = <<>>)
  <2>1. hay \in Seq(S)
    BY DEF Hay
  <2> HIDE DEF hay
  <2>2. CASE long # {}
    <3>1. long \in SUBSET (1..3)
      OBVIOUS
    <3>2. Max(long) \in long
      BY <2>2, <3>1, MaxInSet
    <3> DEFINE ng == Max(long)
    <3> HIDE DEF ng
    <3>3. ng \in 2..3 /\ Occurrences(hay, ng) # {}
      BY <3>2 DEF ng
    <3> HIDE DEF long
    <3>4. Continuation(hay, ng, n) \in Seq(S) /\ Len(Continuation(hay, ng, n)) <= n
      BY <2>1, <3>3, ContinuationType
    <3>5. NgramDraft(s, first, n) = Continuation(hay, ng, n)
      BY <1>2, <2>2 DEF NgramDraft, hay, long, ng
    <3>6. QED
      BY <3>4, <3>5
  <2>3. CASE long = {} /\ Len(hay) >= 2 /\ hay[Len(hay)] = hay[Len(hay) - 1]
    <3>1. NgramDraft(s, first, n) = [k \in 1..n |-> hay[Len(hay)]]
      BY <1>2, <2>3 DEF NgramDraft, hay
    <3>2. hay[Len(hay)] \in S
      BY <2>1, <2>3
    <3>3. QED
      BY <3>1, <3>2
  <2>4. CASE long = {} /\ ~(Len(hay) >= 2 /\ hay[Len(hay)] = hay[Len(hay) - 1])
    <3>1. CASE Occurrences(hay, 1) # {}
      <4>1. NgramDraft(s, first, n) = Continuation(hay, 1, n)
        BY <1>2, <2>4, <3>1 DEF NgramDraft, hay
      <4>2. QED
        BY <2>1, <3>1, <4>1, ContinuationType
    <3>2. CASE Occurrences(hay, 1) = {}
      <4>1. NgramDraft(s, first, n) = <<>>
        BY <1>2, <2>4, <3>2 DEF NgramDraft, hay
      <4>2. QED
        BY <4>1
    <3>3. QED
      BY <3>1, <3>2
  <2>5. QED
    BY <2>2, <2>3, <2>4
<1>3. QED
  BY <1>1, <1>2

-----------------------------------------------------------------------------
(***************************************************************************)
(* A draft, by the case it comes from                                      *)
(***************************************************************************)
\* The lengths of the longer suffixes that occurred before.
Long(hay) == {ng \in 2..3 : Occurrences(hay, ng) # {}}

LEMMA OccurrencesAre ==
  ASSUME NEW hay \in Seq(Token), NEW ng \in 1..3, NEW i \in Occurrences(hay, ng)
  PROVE  /\ i \in 1..Len(hay) /\ i <= Len(hay) - 2 * ng + 1
         /\ \A j \in 0..(ng - 1) : hay[i + j] = hay[Len(hay) - ng + 1 + j]
<1>1. Len(hay) \in Nat
  OBVIOUS
<1>2. i \in 1..(Len(hay) - 2 * ng + 1)
  BY DEF Occurrences
<1>3. QED
  BY <1>1, <1>2 DEF Occurrences

\* What a continuation holds.
LEMMA ContinuationIs ==
  ASSUME NEW hay \in Seq(Token), NEW ng \in 1..3, NEW n \in Nat \ {0}, Occurrences(hay, ng) # {}
  PROVE  LET last == Max(Occurrences(hay, ng))
             c == Continuation(hay, ng, n)
         IN  /\ last \in Occurrences(hay, ng) /\ \A i \in Occurrences(hay, ng) : i <= last
             /\ Len(c) = IF Len(hay) - last - ng + 1 <= n THEN Len(hay) - last - ng + 1 ELSE n
             /\ \A k \in 1..Len(c) : c[k] = hay[last + ng + k - 1]
<1> DEFINE O == Occurrences(hay, ng)
           last == Max(O)
           f == last + ng
           m == Min({Len(hay), f + n - 1})
           c == Continuation(hay, ng, n)
<1>1. Len(hay) \in Nat /\ n \in Nat /\ n >= 1 /\ ng \in Nat /\ ng >= 1
  OBVIOUS
<1>2. O \in SUBSET (1..Len(hay))
  BY OccurrencesAre
<1>3. last \in O /\ \A i \in O : i <= last
  <2> O # {}
    OBVIOUS
  <2> HIDE DEF O
  <2>1. PICK x \in O : \A y \in O : x >= y
    BY <1>1, <1>2, LastExists
  <2>2. \A y \in O : y \in Int
    BY <1>2
  <2>3. last = CHOOSE z \in O : \A y \in O : z >= y
    BY DEF Max
  <2>4. last \in O /\ \A y \in O : last >= y
    BY <2>1, <2>3
  <2>5. QED
    BY <2>2, <2>4
<1>4. last \in Nat /\ last >= 1 /\ last <= Len(hay) - 2 * ng + 1
  BY <1>1, <1>3, OccurrencesAre
<1> HIDE DEF O, last
<1>5. f \in Nat /\ f >= 1 /\ f <= Len(hay)
  BY <1>1, <1>4
<1>6. c = SubSeq(hay, f, m)
  BY DEF Continuation, O, last
<1>7. m = IF Len(hay) <= f + n - 1 THEN Len(hay) ELSE f + n - 1
  BY <1>1, <1>5, MinOfTwo
<1>8. m \in Nat /\ m <= Len(hay) /\ m >= f
  BY <1>1, <1>5, <1>7
<1>9. m - f + 1 = IF Len(hay) - last - ng + 1 <= n THEN Len(hay) - last - ng + 1 ELSE n
  BY <1>1, <1>4, <1>7
<1> HIDE DEF m
<1>10. Len(c) = m - f + 1 /\ \A k \in 1..Len(c) : c[k] = hay[f + k - 1]
  <2> HIDE DEF c, f
  <2>1. f \in 1..(Len(hay) + 1) /\ m \in (f - 1)..Len(hay)
    BY <1>1, <1>5, <1>8
  <2>2. \A k \in f..m : hay[k] \in Token
    BY <1>1, <1>5, <1>8
  <2>3. QED
    BY <1>5, <1>6, <1>8, <2>2, SubSeqProperties
<1>11. QED
  BY <1>3, <1>9, <1>10 DEF O, last

\* The three ways to find a draft in a context that ends in the token to be fed.
LEMMA DraftIs ==
  ASSUME NEW s \in Seq(Token), s # <<>>, NEW n \in Nat \ {0}
  PROVE  LET hn == Len(s)
             d == NgramDraft(s, s[hn], n)
         IN  \/ \E ng \in 2..3 : /\ Occurrences(s, ng) # {} /\ d = Continuation(s, ng, n)
                                 /\ ng = 2 => Occurrences(s, 3) = {}
             \/ Long(s) = {} /\ hn >= 2 /\ s[hn] = s[hn - 1] /\ d = [k \in 1..n |-> s[hn]]
             \/ Long(s) = {} /\ Occurrences(s, 1) # {} /\ d = Continuation(s, 1, n)
             \/ Long(s) = {} /\ Occurrences(s, 1) = {} /\ ~(hn >= 2 /\ s[hn] = s[hn - 1]) /\ d = <<>>
<1> DEFINE hn == Len(s)
           d == NgramDraft(s, s[hn], n)
           long == Long(s)
<1>1. hn \in Nat /\ hn >= 1 /\ ~(n <= 0 \/ s = <<>>)
  OBVIOUS
<1>2. Hay(s, s[hn]) = s
  BY DEF Hay
<1>3. d = IF long # {} THEN Continuation(s, Max(long), n)
          ELSE IF hn >= 2 /\ s[hn] = s[hn - 1] THEN [k \in 1..n |-> s[hn]]
          ELSE IF Occurrences(s, 1) # {} THEN Continuation(s, 1, n)
          ELSE <<>>
  BY <1>1, <1>2 DEF NgramDraft, Long
<1> HIDE DEF d
<1>4. CASE long # {}
  <2> DEFINE g == Max(long)
  <2>1. long \in SUBSET (1..3)
    BY DEF Long
  <2> HIDE DEF long
  <2>2. PICK x \in long : \A y \in long : x >= y
    BY <1>4, <2>1, LastExists
  <2>3. \A y \in long : y \in Int
    BY <2>1
  <2>4. g \in long /\ \A y \in long : g >= y
    <3>1. g = CHOOSE z \in long : \A y \in long : z >= y
      BY DEF Max
    <3>2. QED
      BY <2>2, <3>1
  <2>5. d = Continuation(s, g, n)
    BY <1>3, <1>4
  <2> HIDE DEF g
  <2>6. g \in 2..3 /\ Occurrences(s, g) # {}
    BY <2>4 DEF Long, long
  <2>7. ASSUME g = 2, Occurrences(s, 3) # {} PROVE FALSE
    <3>1. 3 \in long
      BY <2>7 DEF Long, long
    <3>2. g >= 3
      BY <2>4, <3>1
    <3>3. QED
      BY <2>7, <3>2
  <2>8. QED
    BY <2>5, <2>6, <2>7 DEF d, hn
<1>5. CASE long = {} /\ hn >= 2 /\ s[hn] = s[hn - 1]
  BY <1>3, <1>5 DEF d, hn, long
<1>6. CASE long = {} /\ ~(hn >= 2 /\ s[hn] = s[hn - 1]) /\ Occurrences(s, 1) # {}
  BY <1>3, <1>6 DEF d, hn, long
<1>7. CASE long = {} /\ ~(hn >= 2 /\ s[hn] = s[hn - 1]) /\ Occurrences(s, 1) = {}
  BY <1>3, <1>7 DEF d, hn, long
<1>8. QED
  BY <1>4, <1>5, <1>6, <1>7

Repeats(s) == \E i \in 1..(Len(s) - 1) : s[i] = s[Len(s)]

LEMMA OccurrenceRepeats ==
  ASSUME NEW s \in Seq(Token), NEW ng \in 1..3, Occurrences(s, ng) # {}
  PROVE  Repeats(s)
<1>1. PICK i \in Occurrences(s, ng) : TRUE
  OBVIOUS
<1>2. /\ Len(s) \in Nat /\ ng \in Nat /\ ng >= 1 /\ i \in Nat /\ i >= 1 /\ i <= Len(s) - 2 * ng + 1
      /\ \A j \in 0..(ng - 1) : s[i + j] = s[Len(s) - ng + 1 + j]
  <2>1. /\ i \in 1..Len(s) /\ i <= Len(s) - 2 * ng + 1
        /\ \A j \in 0..(ng - 1) : s[i + j] = s[Len(s) - ng + 1 + j]
    BY OccurrencesAre
  <2>2. QED
    BY <2>1
<1>3. ng - 1 \in 0..(ng - 1) /\ Len(s) - ng + 1 + (ng - 1) = Len(s) /\ i + (ng - 1) \in 1..(Len(s) - 1)
  BY <1>2
<1>4. s[i + (ng - 1)] = s[Len(s)]
  BY <1>2, <1>3
<1>5. QED
  BY <1>3, <1>4 DEF Repeats

LEMMA ContinuationNotEmpty ==
  ASSUME NEW s \in Seq(Token), NEW ng \in 1..3, NEW n \in Nat \ {0}, Occurrences(s, ng) # {}
  PROVE  Len(Continuation(s, ng, n)) >= 1
<1> DEFINE last == Max(Occurrences(s, ng))
           c == Continuation(s, ng, n)
<1>1. last \in Occurrences(s, ng)
      /\ Len(c) = IF Len(s) - last - ng + 1 <= n THEN Len(s) - last - ng + 1 ELSE n
  BY ContinuationIs
<1> HIDE DEF last, c
<1>2. Len(s) \in Nat /\ ng \in Nat /\ ng >= 1 /\ last \in Nat /\ last <= Len(s) - 2 * ng + 1
  BY <1>1, OccurrencesAre
<1>3. QED
  BY <1>1, <1>2 DEF c

\* The drafter proposes something exactly when the last token occurred before.
LEMMA DraftsOnRepeat ==
  ASSUME NEW s \in Seq(Token), s # <<>>, NEW n \in Nat \ {0}
  PROVE  NgramDraft(s, s[Len(s)], n) # <<>> <=> Repeats(s)
<1> DEFINE hn == Len(s)
           d == NgramDraft(s, s[hn], n)
<1>1. hn \in Nat /\ hn >= 1
  OBVIOUS
<1>2. CASE \E ng \in 1..3 : Occurrences(s, ng) # {} /\ d = Continuation(s, ng, n)
  <2>1. PICK ng \in 1..3 : Occurrences(s, ng) # {} /\ d = Continuation(s, ng, n)
    BY <1>2
  <2>2. Len(d) >= 1 /\ Repeats(s)
    BY <2>1, ContinuationNotEmpty, OccurrenceRepeats
  <2> HIDE DEF d
  <2>3. d # <<>>
    BY <2>2
  <2>4. QED
    BY <2>2, <2>3 DEF d
<1>3. CASE hn >= 2 /\ s[hn] = s[hn - 1] /\ d = [k \in 1..n |-> s[hn]]
  <2>1. hn - 1 \in 1..(Len(s) - 1) /\ s[hn - 1] = s[Len(s)]
    BY <1>1, <1>3
  <2>2. Repeats(s)
    BY <2>1 DEF Repeats
  <2>3. Len([k \in 1..n |-> s[hn]]) = n
    OBVIOUS
  <2>4. d # <<>>
    <3> HIDE DEF d
    <3>1. Len(d) = n
      BY <1>3, <2>3
    <3>2. QED
      BY <3>1
  <2>5. QED
    BY <2>2, <2>4
<1>4. CASE Occurrences(s, 1) = {} /\ d = <<>>
  <2>1. ASSUME NEW i \in 1..(Len(s) - 1), s[i] = s[Len(s)] PROVE FALSE
    <3>1. i \in 1..(Len(s) - 2 * 1 + 1) /\ \A j \in 0..(1 - 1) : s[i + j] = s[Len(s) - 1 + 1 + j]
      BY <2>1, <1>1
    <3>2. i \in Occurrences(s, 1)
      BY <3>1 DEF Occurrences
    <3>3. QED
      BY <1>4, <3>2
  <2>2. QED
    BY <1>4, <2>1 DEF Repeats
<1>5. QED
  <2>1. \A ng \in 2..3 : ng \in 1..3
    OBVIOUS
  <2>2. 1 \in 1..3
    OBVIOUS
  <2>3. QED
    BY <1>2, <1>3, <1>4, <2>1, <2>2, DraftIs

-----------------------------------------------------------------------------
(***************************************************************************)
(* A context that repeats                                                  *)
(***************************************************************************)
\* Where its last three tokens occur: no further back than two periods or three
\* tokens, so that the last occurrence ends three or four tokens before them.
LEMMA PeriodOccurs ==
  ASSUME NEW s \in Seq(Token), NEW p \in 1..3, Len(s) >= 8, \A i \in 1..(Len(s) - p) : s[i] = s[i + p]
  PROVE  \E i \in Occurrences(s, 3) : i >= Len(s) - 6 /\ (p # 2 => i = Len(s) - 5)
<1> DEFINE h == Len(s)
           i == IF p = 2 THEN h - 6 ELSE h - 5
<1>1. h \in Nat /\ h >= 8 /\ (p = 1 \/ p = 2 \/ p = 3)
  OBVIOUS
<1>2. \A a \in 1..h : a + p <= h => s[a] = s[a + p]
  BY <1>1
<1>3. s[i] = s[h - 2] /\ s[i + 1] = s[h - 1] /\ s[i + 2] = s[h]
  <2>1. CASE p = 1
    <3>1. /\ s[h - 5] = s[h - 4] /\ s[h - 4] = s[h - 3] /\ s[h - 3] = s[h - 2] /\ s[h - 2] = s[h - 1]
          /\ s[h - 1] = s[h]
      BY <1>1, <1>2, <2>1
    <3>2. QED
      BY <1>1, <2>1, <3>1
  <2>2. CASE p = 2
    <3>1. /\ s[h - 6] = s[h - 4] /\ s[h - 4] = s[h - 2] /\ s[h - 5] = s[h - 3] /\ s[h - 3] = s[h - 1]
          /\ s[h - 2] = s[h]
      BY <1>1, <1>2, <2>2
    <3>2. QED
      BY <1>1, <2>2, <3>1
  <2>3. CASE p = 3
    <3>1. s[h - 5] = s[h - 2] /\ s[h - 4] = s[h - 1] /\ s[h - 3] = s[h]
      BY <1>1, <1>2, <2>3
    <3>2. QED
      BY <1>1, <2>3, <3>1
  <2>4. QED
    BY <1>1, <2>1, <2>2, <2>3
<1>4. i \in 1..(h - 2 * 3 + 1) /\ i >= h - 6 /\ (p # 2 => i = h - 5)
  BY <1>1
<1>5. \A j \in 0..(3 - 1) : s[i + j] = s[h - 3 + 1 + j]
  <2> SUFFICES ASSUME NEW j \in 0..2 PROVE s[i + j] = s[h - 3 + 1 + j]
    OBVIOUS
  <2>1. j = 0 \/ j = 1 \/ j = 2
    OBVIOUS
  <2>2. i \in Int
    BY <1>1
  <2> HIDE DEF i, h
  <2>3. /\ i + 0 = i /\ h - 3 + 1 + 0 = h - 2 /\ h - 3 + 1 + 1 = h - 1 /\ h - 3 + 1 + 2 = h
    BY <1>1, <2>2
  <2>4. QED
    BY <1>3, <2>1, <2>3
<1> HIDE DEF i
<1>6. i \in Occurrences(s, 3)
  BY <1>4, <1>5 DEF Occurrences
<1>7. QED
  BY <1>4, <1>6

\* A draft from a context of period p continues it.
LEMMA DraftsContinuePeriod ==
  ASSUME NEW s \in Seq(Token), NEW p \in 1..3, Len(s) >= 8, \A i \in 1..(Len(s) - p) : s[i] = s[i + p],
         NEW n \in Nat \ {0}
  PROVE  LET d == NgramDraft(s, s[Len(s)], n)
         IN  /\ Len(d) >= IF n <= 3 THEN n ELSE 3
             /\ \A k \in 1..Len(d) : d[k] = s[Len(s) - p + 1 + ((k - 1) % p)]
<1> DEFINE h == Len(s)
           d == NgramDraft(s, s[h], n)
           m == Max(Occurrences(s, 3))
<1>1. h \in Nat /\ h >= 8 /\ (p = 1 \/ p = 2 \/ p = 3) /\ s # <<>> /\ 3 \in 1..3
  OBVIOUS
<1>2. PICK i \in Occurrences(s, 3) : i >= h - 6 /\ (p # 2 => i = h - 5)
  BY PeriodOccurs
<1>3. d = Continuation(s, 3, n)
  <2>1. Long(s) # {} /\ Occurrences(s, 3) # {}
    BY <1>2 DEF Long
  <2>2. PICK ng \in 2..3 : /\ Occurrences(s, ng) # {} /\ d = Continuation(s, ng, n)
                           /\ ng = 2 => Occurrences(s, 3) = {}
    BY <1>1, <2>1, DraftIs
  <2>3. ng = 3
    BY <2>1, <2>2
  <2>4. QED
    BY <2>2, <2>3
<1>4. /\ m \in Occurrences(s, 3) /\ \A a \in Occurrences(s, 3) : a <= m
      /\ Len(d) = IF h - m - 3 + 1 <= n THEN h - m - 3 + 1 ELSE n
      /\ \A k \in 1..Len(d) : d[k] = s[m + 3 + k - 1]
  BY <1>1, <1>2, <1>3, ContinuationIs
<1> HIDE DEF d, m
<1>5. /\ m \in 1..h /\ m <= h - 2 * 3 + 1 /\ \A j \in 0..(3 - 1) : s[m + j] = s[h - 3 + 1 + j]
  BY <1>1, <1>4, OccurrencesAre
<1>6. m = h - 5 \/ (p = 2 /\ m = h - 6)
  <2>1. i <= m /\ i \in 1..h
    BY <1>1, <1>2, <1>4, OccurrencesAre
  <2>2. QED
    BY <1>1, <1>2, <1>5, <2>1
<1>7. Len(d) \in Nat /\ Len(d) <= h - m - 2 /\ Len(d) >= IF n <= 3 THEN n ELSE 3
  <2> DEFINE k == Len(d)
  <2>1. h \in Nat /\ m \in Int /\ h - m >= 5 /\ k = IF h - m - 3 + 1 <= n THEN h - m - 3 + 1 ELSE n
    BY <1>1, <1>4, <1>5, <1>6
  <2> HIDE DEF k, h
  <2>2. k \in Nat /\ k <= h - m - 2 /\ k >= IF n <= 3 THEN n ELSE 3
    BY <2>1
  <2>3. QED
    BY <2>2 DEF k
<1>8. \A a \in 1..h : a + p <= h => s[a] = s[a + p]
  BY <1>1
<1>9. ASSUME NEW k \in 1..Len(d) PROVE s[m + 3 + k - 1] = s[h - p + 1 + ((k - 1) % p)]
  <2>1. k \in 1..(h - m - 2) /\ k \in Int
    BY <1>5, <1>7
  <2>2. CASE p = 1
    <3>1. s[h - 2] = s[h - 1] /\ s[h - 1] = s[h]
      BY <1>1, <1>8, <2>2
    <3>2. (k - 1) % p = 0 /\ h - p + 1 + 0 = h
      BY <1>1, <2>1, <2>2
    <3>3. m + 3 + k - 1 = h - 2 \/ m + 3 + k - 1 = h - 1 \/ m + 3 + k - 1 = h
      BY <1>1, <1>6, <2>1, <2>2
    <3>4. QED
      BY <3>1, <3>2, <3>3
  <2>3. CASE p = 3
    <3>1. (k - 1) % p = k - 1 /\ m = h - 5
      <4>1. m = h - 5 /\ k - 1 \in 0..2
        BY <1>1, <1>6, <2>1, <2>3
      <4>2. 0 % 3 = 0 /\ 1 % 3 = 1 /\ 2 % 3 = 2
        OBVIOUS
      <4>3. (k - 1) % 3 = k - 1
        <5> DEFINE a == k - 1
        <5>1. a = 0 \/ a = 1 \/ a = 2
          BY <4>1
        <5> HIDE DEF a
        <5>2. a % 3 = a
          BY <4>2, <5>1
        <5>3. QED
          BY <5>2 DEF a
      <4>4. QED
        BY <2>3, <4>1, <4>3
    <3>2. m + 3 + k - 1 = h - p + 1 + (k - 1)
      BY <1>1, <2>1, <2>3, <3>1
    <3>3. QED
      BY <3>1, <3>2
  <2>4. CASE p = 2 /\ m = h - 6
    <3>1. s[h - 3] = s[h - 1] /\ s[h - 2] = s[h]
      BY <1>1, <1>8, <2>4
    <3>2. k = 1 \/ k = 2 \/ k = 3 \/ k = 4
      BY <1>1, <2>1, <2>4
    <3>3. CASE k = 1
      BY <1>1, <2>4, <3>1, <3>3
    <3>4. CASE k = 2
      BY <1>1, <2>4, <3>1, <3>4
    <3>5. CASE k = 3
      BY <1>1, <2>4, <3>1, <3>5
    <3>6. CASE k = 4
      BY <1>1, <2>4, <3>1, <3>6
    <3>7. QED
      BY <3>2, <3>3, <3>4, <3>5, <3>6
  <2>5. CASE p = 2 /\ m = h - 5
    <3>1. s[h - 5] = s[h - 2] /\ s[h - 4] = s[h - 1] /\ s[h - 3] = s[h]
      <4>1. 0 \in 0..(3 - 1) /\ 1 \in 0..(3 - 1) /\ 2 \in 0..(3 - 1)
        OBVIOUS
      <4>2. s[m + 0] = s[h - 3 + 1 + 0] /\ s[m + 1] = s[h - 3 + 1 + 1] /\ s[m + 2] = s[h - 3 + 1 + 2]
        BY <1>5, <4>1
      <4>3. QED
        BY <1>1, <2>5, <4>2
    <3>2. s[h - 5] = s[h - 3] /\ s[h - 4] = s[h - 2] /\ s[h - 3] = s[h - 1] /\ s[h - 2] = s[h]
      <4>1. \A a \in 1..h : a + 2 <= h => s[a] = s[a + 2]
        BY <1>8, <2>5
      <4>2. {h - 5, h - 4, h - 3, h - 2} \subseteq 1..h
        BY <1>1
      <4>3. /\ h - 5 + 2 = h - 3 /\ h - 4 + 2 = h - 2 /\ h - 3 + 2 = h - 1 /\ h - 2 + 2 = h
            /\ h - 3 <= h /\ h - 2 <= h /\ h - 1 <= h /\ h <= h
        BY <1>1
      <4>4. QED
        BY <4>1, <4>2, <4>3
    <3>3. s[h - 2] = s[h] /\ s[h - 1] = s[h]
      BY <3>1, <3>2
    <3>4. k = 1 \/ k = 2 \/ k = 3
      BY <1>1, <2>1, <2>5
    <3>5. m + 3 + k - 1 = h - 2 \/ m + 3 + k - 1 = h - 1 \/ m + 3 + k - 1 = h
      BY <1>1, <2>5, <3>4
    <3>6. h - p + 1 + ((k - 1) % p) = h - 1 \/ h - p + 1 + ((k - 1) % p) = h
      BY <1>1, <2>5, <3>4
    <3>7. QED
      BY <3>3, <3>5, <3>6
  <2>6. QED
    BY <1>1, <1>6, <2>2, <2>3, <2>4, <2>5
<1>10. \A k \in 1..Len(d) : d[k] = s[h - p + 1 + ((k - 1) % p)]
  BY <1>4, <1>9
<1>11. QED
  BY <1>7, <1>10 DEF d

-----------------------------------------------------------------------------
(***************************************************************************)
(* What holds of every context                                             *)
(***************************************************************************)
LEMMA ContextGrows == Spec => [](ctx \in Seq(Token))
<1>1. Init => ctx \in Seq(Token)
  BY DEF Init
<1>2. ctx \in Seq(Token) /\ [Next]_ctx => (ctx \in Seq(Token))'
  BY DEF Next
<1>3. QED
  BY <1>1, <1>2, PTL DEF Spec

\* A repetition is never missed and nothing is proposed without one, whatever the
\* vocabulary and however long the context.
THEOREM NeverMissed == Spec => []ProposesOnRepeat
<1>1. ASSUME ctx \in Seq(Token) PROVE ProposesOnRepeat
  <2> SUFFICES ASSUME ctx # <<>>, NEW n \in 1..MaxTake
               PROVE  Draft(n) # <<>> <=> \E i \in 1..(Len(ctx) - 1) : ctx[i] = ctx[Len(ctx)]
    BY DEF ProposesOnRepeat
  <2>1. MaxTake \in Nat
    BY NgramAssumption
  <2>2. n \in Nat \ {0}
    BY <2>1
  <2>3. QED
    BY <1>1, <2>2, DraftsOnRepeat DEF Draft, Repeats
<1>2. QED
  BY <1>1, ContextGrows, PTL

\* On a context of period one, two or three every draft is what the repetition
\* continues with, although the last occurrence of a suffix need not be a whole
\* number of periods before it.
THEOREM PeriodContinued == Spec => []ContinuesPeriod
<1>1. ASSUME ctx \in Seq(Token) PROVE ContinuesPeriod
  <2> SUFFICES ASSUME NEW p \in 1..3, Periodic(p), Len(ctx) >= 8, NEW n \in 1..MaxTake
               PROVE  /\ Len(Draft(n)) >= Min({n, 3})
                      /\ \A k \in 1..Len(Draft(n)) : Draft(n)[k] = ctx[Len(ctx) - p + 1 + ((k - 1) % p)]
    BY DEF ContinuesPeriod
  <2>1. MaxTake \in Nat
    BY NgramAssumption
  <2>2. n \in Nat \ {0}
    BY <2>1
  <2>3. Min({n, 3}) = IF n <= 3 THEN n ELSE 3
    BY <2>2, MinOfTwo
  <2>4. \A i \in 1..(Len(ctx) - p) : ctx[i] = ctx[i + p]
    BY DEF Periodic
  <2>5. QED
    BY <1>1, <2>2, <2>3, <2>4, DraftsContinuePeriod DEF Draft
<1>2. QED
  BY <1>1, ContextGrows, PTL
=============================================================================
