--------------------------- MODULE SessionProofs ---------------------------
(***************************************************************************)
(* A CPU session keeps its five views of the context in agreement and      *)
(* generates what greedy decoding generates, for every vocabulary, model,  *)
(* context size and drafter; an image is fed whole and in order.           *)
(***************************************************************************)
EXTENDS SessionProps, SequenceTheorems, FiniteSetTheorems, TLAPS

Drafter == INSTANCE NgramProofs WITH MaxLen <- 0, MaxTake <- 0, ctx <- ctx_tokens_

\* The drafter's draft, whatever context its own module has as a variable.
LEMMA SameDraft ==
  ASSUME NEW s, NEW first, NEW n
  PROVE  Drafter!NgramDraft(s, first, n) = NgramDraft(s, first, n)
BY DEF Drafter!NgramDraft, NgramDraft, Drafter!Hay, Hay, Drafter!Occurrences, Occurrences,
       Drafter!Continuation, Continuation, Drafter!Max, Max, Drafter!Min, Min

LEMMA DraftType ==
  ASSUME NEW S, NEW s \in Seq(S), NEW first \in S, NEW n \in Nat
  PROVE  NgramDraft(s, first, n) \in Seq(S) /\ Len(NgramDraft(s, first, n)) <= n
<1>1. Drafter!NgramDraft(s, first, n) \in Seq(S) /\ Len(Drafter!NgramDraft(s, first, n)) <= n
  BY Drafter!DraftType
<1>2. QED
  BY <1>1, SameDraft

LEMMA MinOfTwo ==
  ASSUME NEW a \in Int, NEW b \in Int
  PROVE  Min({a, b}) = IF a <= b THEN a ELSE b
BY DEF Min

\* The part of TypeOK that prefill and decode_token write.
ContextType ==
  /\ pos_ \in Nat
  /\ logits_ \in Token
  /\ rec \in Seq(Input)
  /\ kv \in [0..(Ctx - 1) -> Input \cup {Empty}]
  /\ ctx_tokens_ \in Seq(Token)
  /\ valid \in BOOLEAN

\* The part that only the other calls write.
RunType ==
  /\ vis_n_ \in Nat /\ want \in Nat /\ spec_n \in Nat
  /\ vis_ph_ \in {-1} \cup Token
  /\ i \in Nat \ {0}
  /\ vis_embeds_ \in Seq(Row \cup {Blank})
  /\ out \in Seq(Token) /\ drafts \in Seq(Token)
  /\ kind \in SpecKind \cup {"off"}
  /\ pc \in {"idle", "head", "feed", "check"}

\* Where generate is and what it has produced.
RunOK ==
  /\ pc = "idle" => want = 0 /\ out = <<>>
  /\ pc = "feed" => out # <<>>
  /\ Len(out) <= want

IInv == ContextType /\ RunType /\ RunOK /\ CacheMatchesContext

LEMMA TypeParts == TypeOK <=> ContextType /\ RunType
BY DEF TypeOK, PositionsOK, ContextType, RunType

LEMMA SampleType == \A r, c : Sample(r, c) \in Token
BY SessionAssumption DEF Sample, Token

\* A position inside the context has a row of its own.
LEMMA OwnRow == ASSUME NEW p \in 0..(Ctx - 1) PROVE RowOf(p) = p
BY SessionAssumption DEF RowOf

LEMMA SomeRow == ASSUME NEW p \in Nat PROVE RowOf(p) \in 0..(Ctx - 1)
BY SessionAssumption DEF RowOf

LEMMA DraftsAfterType ==
  ASSUME RunType, ContextType, NEW t \in Token
  PROVE  DraftsAfter(t) \subseteq Seq(Token)
<1>1. Take \in Nat
  BY SessionAssumption, MinOfTwo DEF Take, RunType
<1>2. NgramDraft(ctx_tokens_, t, Take) \in Seq(Token)
  BY <1>1, DraftType DEF ContextType
<1>3. [1..Take -> Token] \subseteq Seq(Token)
  BY <1>1
<1>4. <<>> \in Seq(Token)
  OBVIOUS
<1>5. CASE kind = "off" \/ spec_n = 0 \/ Len(out) + 1 >= want
  BY <1>4, <1>5 DEF DraftsAfter
<1>6. CASE ~(kind = "off" \/ spec_n = 0 \/ Len(out) + 1 >= want) /\ kind = "ngram"
  BY <1>2, <1>6 DEF DraftsAfter
<1>7. CASE ~(kind = "off" \/ spec_n = 0 \/ Len(out) + 1 >= want) /\ kind # "ngram"
  BY <1>3, <1>4, <1>7 DEF DraftsAfter
<1>8. QED
  BY <1>5, <1>6, <1>7

LEMMA AppendShape ==
  ASSUME NEW S, NEW s \in Seq(S), NEW t \in S
  PROVE  /\ Append(s, t) \in Seq(S) /\ Len(Append(s, t)) = Len(s) + 1
         /\ Append(s, t) = [k \in 1..(Len(s) + 1) |-> IF k = Len(s) + 1 THEN t ELSE s[k]]
<1>1. Append(s, t) \in Seq(S) /\ Len(Append(s, t)) = Len(s) + 1 /\ Len(s) \in Nat
  OBVIOUS
<1>2. \A k \in 1..(Len(s) + 1) : Append(s, t)[k] = IF k = Len(s) + 1 THEN t ELSE s[k]
  BY <1>1
<1> DEFINE q == Append(s, t)
<1> HIDE DEF q
<1>3. q = [k \in 1..Len(q) |-> q[k]]
  <2>1. q \in Seq(S)
    BY <1>1 DEF q
  <2>2. q \in [1..Len(q) -> S]
    BY <2>1, LenProperties
  <2>3. QED
    BY <2>2
<1> USE DEF q
<1>4. QED
  BY <1>1, <1>2, <1>3

\* Writing the next row extends the rows by one and leaves the others alone.
LEMMA RowsExtend ==
  ASSUME NEW c \in [0..(Ctx - 1) -> Input \cup {Empty}], NEW p \in 0..(Ctx - 1),
         NEW s \in Seq(Input), Len(s) = p, Rows(c, p) = s, NEW t \in Input
  PROVE  Rows([c EXCEPT ![p] = t], p + 1) = Append(s, t)
<1> DEFINE d == [c EXCEPT ![p] = t]
<1>1. Ctx \in Nat \ {0} /\ p \in Nat
  BY SessionAssumption
<1>2. ASSUME NEW k \in 1..(p + 1)
      PROVE  d[RowOf(k - 1)] = IF k = Len(s) + 1 THEN t ELSE s[k]
  <2>1. k - 1 \in 0..(Ctx - 1)
    BY <1>1
  <2>2. RowOf(k - 1) = k - 1
    BY <2>1, OwnRow
  <2>3. CASE k = p + 1
    BY <1>1, <2>1, <2>2, <2>3
  <2>4. CASE k # p + 1
    <3>1. k \in 1..p
      BY <1>1, <2>4
    <3>2. s[k] = c[RowOf(k - 1)]
      BY <3>1 DEF Rows
    <3>3. d[k - 1] = c[k - 1]
      BY <1>1, <2>1, <2>4
    <3>4. QED
      BY <2>2, <2>4, <3>2, <3>3
  <2>5. QED
    BY <2>3, <2>4
<1>3. Append(s, t) = [k \in 1..(p + 1) |-> IF k = Len(s) + 1 THEN t ELSE s[k]]
  BY AppendShape
<1>4. QED
  BY <1>2, <1>3 DEF Rows

(***************************************************************************)
(* decode_token and prefill                                                *)
(***************************************************************************)
\* One more token: the state absorbs it, its row is written, and the rows of
\* the positions before it are left alone as long as there is a row for it.
LEMMA FeedKeeps ==
  ASSUME ContextType, CacheMatchesContext, NEW t \in Token, Feed(t)
  PROVE  ContextType' /\ CacheMatchesContext'
<1> USE DEF ContextType
<1>1. t \in Input /\ Append(rec, t) \in Seq(Input) /\ Len(Append(rec, t)) = Len(rec) + 1
  BY DEF Input
<1>2. kv' \in [0..(Ctx - 1) -> Input \cup {Empty}]
  BY <1>1, SomeRow DEF Feed
<1>3. ContextType'
  BY <1>1, <1>2, SampleType DEF Feed
<1>4. CacheMatchesContext'
  <2> SUFFICES ASSUME valid' PROVE CacheMatchesContext'
    BY DEF CacheMatchesContext
  <2>1. valid /\ pos_ < Ctx /\ pos_ = Len(rec) /\ Len(ctx_tokens_) = pos_ /\ Rows(kv, pos_) = rec
        /\ (\A p \in 1..pos_ : rec[p] \in Token => ctx_tokens_[p] = rec[p])
    BY DEF Feed, CacheMatchesContext
  <2>2. rec' = Append(rec, t) /\ pos_' = pos_ + 1 /\ ctx_tokens_' = Append(ctx_tokens_, t)
    BY DEF Feed
  <2>3. kv' = [kv EXCEPT ![pos_] = t]
    <3>1. pos_ \in 0..(Ctx - 1)
      BY <2>1, SessionAssumption
    <3>2. RowOf(pos_) = pos_
      BY <3>1, OwnRow
    <3>3. QED
      BY <3>2 DEF Feed
  <2>4. Rows(kv', pos_ + 1) = Append(rec, t)
    <3>1. pos_ \in 0..(Ctx - 1)
      BY <2>1, SessionAssumption
    <3>2. QED
      BY <1>1, <2>1, <2>3, <3>1, RowsExtend
  <2>5. logits_' = Greedy(rec')
    <3>1. rec' # <<>>
      BY <1>1, <2>2
    <3>2. QED
      BY <2>2, <2>4, <3>1 DEF Feed, Greedy
  <2>6. \A p \in 1..pos_' : rec'[p] \in Token => ctx_tokens_'[p] = rec'[p]
    BY <2>1, <2>2
  <2>7. pos_' = Len(rec') /\ pos_' <= Ctx /\ Len(ctx_tokens_') = pos_'
    BY <1>1, <2>1, <2>2, SessionAssumption
  <2>8. QED
    BY <2>2, <2>4, <2>5, <2>6, <2>7 DEF CacheMatchesContext
<1>5. QED
  BY <1>3, <1>4

LEMMA SplicedType ==
  ASSUME RunType, NEW ids \in Seq(Token)
  PROVE  /\ Spliced(ids) \in Seq(Input) /\ Len(Spliced(ids)) = Len(ids)
         /\ \A p \in 1..Len(ids) : Spliced(ids)[p] \in Token => ids[p] = Spliced(ids)[p]
<1>1. \A k \in Nat \ {0} : ImageRow(k) \in Row \cup {Blank, Outside}
  BY DEF ImageRow, RunType
<1>2. \A x \in Row \cup {Blank, Outside} : x \in Input /\ x \notin Token
  BY SessionAssumption DEF Row, Blank, Outside, Token, Input
<1>3. \A p \in 1..Len(ids) : ids[p] \in Input
  BY DEF Input
<1>4. ASSUME NEW p \in Span(ids) PROVE Nth(ids, p) \in Nat \ {0}
  <2> DEFINE upto == {q \in Span(ids) : q <= p}
  <2>1. upto \in SUBSET (1..Len(ids)) /\ p \in upto
    BY DEF Span
  <2>2. IsFiniteSet(1..Len(ids))
    BY FS_Interval
  <2> HIDE DEF upto
  <2>3. IsFiniteSet(upto) /\ upto # {}
    BY <2>1, <2>2, FS_Subset
  <2>4. Cardinality(upto) \in Nat /\ Cardinality(upto) # 0
    BY <2>3, FS_CardinalityType, FS_EmptySet
  <2>5. QED
    BY <2>4 DEF Nth, upto
<1>5. ASSUME NEW p \in 1..Len(ids)
      PROVE  /\ Spliced(ids)[p] \in Input
             /\ Spliced(ids)[p] \in Token => ids[p] = Spliced(ids)[p]
  <2>1. CASE vis_n_ > 0 /\ p \in Span(ids) /\ Nth(ids, p) <= vis_n_
    <3>1. Spliced(ids)[p] = ImageRow(Nth(ids, p))
      BY <2>1 DEF Spliced
    <3>2. QED
      BY <1>1, <1>2, <1>4, <2>1, <3>1
  <2>2. CASE ~(vis_n_ > 0 /\ p \in Span(ids) /\ Nth(ids, p) <= vis_n_)
    <3>1. Spliced(ids)[p] = ids[p]
      BY <2>2 DEF Spliced
    <3>2. QED
      BY <1>3, <3>1
  <2>3. QED
    BY <2>1, <2>2
<1>6. Spliced(ids) = [p \in 1..Len(ids) |-> Spliced(ids)[p]]
  BY DEF Spliced
<1>7. QED
  BY <1>5, <1>6

LEMMA PrefillDoneKeeps ==
  ASSUME ContextType, RunType, NEW ids \in Prompt, ~Refused(ids), PrefillDone(ids)
  PROVE  ContextType' /\ CacheMatchesContext'
<1> DEFINE h == Spliced(ids)
<1>1. ids \in Seq(Token) /\ Len(ids) \in 1..Ctx
  BY DEF PrefillDone, Refused
<1>2. h \in Seq(Input) /\ Len(h) = Len(ids)
  BY <1>1, SplicedType
<1>3. \A p \in 1..Len(ids) : h[p] \in Token => ids[p] = h[p]
  BY <1>1, SplicedType
<1> HIDE DEF h
<1>4. kv' = [r \in 0..(Ctx - 1) |-> IF r < Len(ids) THEN h[r + 1] ELSE Empty]
  BY DEF PrefillDone, h
<1>5. rec' = h /\ ctx_tokens_' = ids /\ pos_' = Len(ids) /\ valid' = TRUE
      /\ logits_' = Sample(h, Rows(kv', Len(ids)))
  BY DEF PrefillDone, h
<1>6. kv' \in [0..(Ctx - 1) -> Input \cup {Empty}]
  BY <1>1, <1>2, <1>4
<1>7. ContextType'
  BY <1>1, <1>2, <1>5, <1>6, SampleType DEF ContextType
<1>8. Rows(kv', Len(ids)) = h
  <2>1. ASSUME NEW k \in 1..Len(ids) PROVE kv'[RowOf(k - 1)] = h[k]
    <3>1. k - 1 \in 0..(Ctx - 1) /\ k - 1 < Len(ids)
      BY <1>1, SessionAssumption
    <3>2. RowOf(k - 1) = k - 1
      BY <3>1, OwnRow
    <3>3. QED
      BY <1>4, <3>1, <3>2
  <2>2. h = [k \in 1..Len(ids) |-> h[k]]
    BY <1>2
  <2>3. QED
    BY <2>1, <2>2 DEF Rows
<1>9. h # <<>>
  BY <1>1, <1>2
<1>10. QED
  BY <1>1, <1>2, <1>3, <1>5, <1>7, <1>8, <1>9 DEF CacheMatchesContext, Greedy

LEMMA PrefillThrowsKeeps ==
  ASSUME ContextType, NEW ids, PrefillThrows(ids)
  PROVE  ContextType' /\ CacheMatchesContext'
<1>1. <<>> \in Seq(Input)
  OBVIOUS
<1>2. QED
  BY <1>1 DEF PrefillThrows, ContextType, CacheMatchesContext

\* The context is untouched by what only moves the client or the loop.
LEMMA ContextKept ==
  ASSUME ContextType, CacheMatchesContext, UNCHANGED context
  PROVE  ContextType' /\ CacheMatchesContext'
BY DEF ContextType, CacheMatchesContext, context, Rows

(***************************************************************************)
(* The invariant                                                           *)
(***************************************************************************)
LEMMA InitInv == Init => IInv
<1> SUFFICES ASSUME Init PROVE IInv
  OBVIOUS
<1> USE DEF Init
<1>1. <<>> \in Seq(Input) /\ <<>> \in Seq(Token) /\ <<>> \in Seq(Row \cup {Blank}) /\ Len(<<>>) = 0
  OBVIOUS
<1>2. ContextType
  BY <1>1, SessionAssumption DEF ContextType, Token
<1>3. RunType
  BY <1>1 DEF RunType
<1>4. Rows(kv, 0) = <<>>
  BY DEF Rows
<1>5. QED
  BY <1>1, <1>2, <1>3, <1>4, SessionAssumption DEF IInv, RunOK, CacheMatchesContext, Greedy

LEMMA NextInv == IInv /\ [Next]_vars => IInv'
<1> SUFFICES ASSUME IInv, [Next]_vars PROVE IInv'
  OBVIOUS
<1> USE DEF IInv
<1>1. ASSUME NEW n \in 0..MaxImage, NEW ph \in {-1} \cup Token, SetVision(n, ph) PROVE IInv'
  <2>1. [k \in 1..n |-> -k] \in Seq(Row \cup {Blank}) /\ n \in Nat
    BY SessionAssumption DEF Row
  <2>2. RunType' /\ RunOK'
    BY <1>1, <2>1 DEF SetVision, RunType, RunOK, run
  <2>3. QED
    BY <1>1, <2>2, ContextKept DEF SetVision
<1>2. ASSUME NEW n \in 1..MaxImage, LoadImage(n) PROVE IInv'
  <2>1. /\ [k \in 1..n |-> -k] \in Seq(Row \cup {Blank})
        /\ [k \in 1..n |-> Blank] \in Seq(Row \cup {Blank}) /\ n \in Nat
    BY SessionAssumption DEF Row
  <2>2. ImageToken \in Token
    BY SessionAssumption DEF Token
  <2>3. RunType' /\ RunOK'
    BY <1>2, <2>1, <2>2 DEF LoadImage, RunType, RunOK, run
  <2>4. QED
    BY <1>2, <2>3, ContextKept DEF LoadImage
<1>3. ASSUME NEW ids \in Prompt, Prefill(ids) PROVE IInv'
  <2>1. ContextType' /\ CacheMatchesContext'
    BY <1>3, PrefillDoneKeeps, PrefillThrowsKeeps DEF Prefill
  <2>2. RunType' /\ RunOK'
    BY <1>3 DEF Prefill, RunType, RunOK, run, vision
  <2>3. QED
    BY <2>1, <2>2
<1>4. ASSUME NEW t \in Token, Decode(t) PROVE IInv'
  <2>1. ContextType' /\ CacheMatchesContext'
    BY <1>4, FeedKeeps DEF Decode
  <2>2. RunType' /\ RunOK'
    BY <1>4 DEF Decode, RunType, RunOK, run, vision
  <2>3. QED
    BY <2>1, <2>2
<1>5. ASSUME NEW ids \in Prompt, NEW w \in 0..MaxWant, NEW k \in SpecKind \cup {"off"},
             NEW n \in 0..MaxSpec, Generate(ids, w, k, n)
      PROVE  IInv'
  <2>1. ContextType' /\ CacheMatchesContext'
    BY <1>5, PrefillDoneKeeps, PrefillThrowsKeeps DEF Generate
  <2>2. w \in Nat /\ n \in Nat /\ <<>> \in Seq(Token) /\ Len(<<>>) = 0
    BY SessionAssumption
  <2>3. CASE UNCHANGED run
    <3>1. RunType' /\ RunOK'
      BY <1>5, <2>3 DEF Generate, RunType, RunOK, run, vision
    <3>2. QED
      BY <2>1, <3>1
  <2>4. CASE pc' = "head" /\ want' = w /\ kind' = k /\ spec_n' = n /\ out' = <<>> /\ drafts' = <<>> /\ i' = 1
    <3>1. RunType' /\ RunOK'
      BY <1>5, <2>2, <2>4 DEF Generate, RunType, RunOK, vision
    <3>2. QED
      BY <2>1, <3>1
  <2>5. QED
    BY <1>5, <2>3, <2>4 DEF Generate
<1>6. CASE EmitHead
  <2>1. logits_ \in Token /\ DraftsAfter(logits_) \subseteq Seq(Token)
    BY DraftsAfterType DEF ContextType
  <2>2. Append(out, logits_) \in Seq(Token) /\ Len(Append(out, logits_)) = Len(out) + 1
    BY <2>1 DEF RunType
  <2>3. RunType' /\ RunOK'
    BY <1>6, <2>1, <2>2 DEF EmitHead, RunType, RunOK, vision
  <2>4. QED
    BY <1>6, <2>3, ContextKept DEF EmitHead
<1>7. CASE FeedHead
  <2>1. out[Len(out)] \in Token
    BY <1>7 DEF FeedHead, RunType, RunOK
  <2>2. ContextType' /\ CacheMatchesContext'
    BY <1>7, <2>1, FeedKeeps DEF FeedHead
  <2>3. RunType' /\ RunOK'
    BY <1>7 DEF FeedHead, RunType, RunOK, vision
  <2>4. QED
    BY <2>2, <2>3
<1>8. CASE AcceptDraft
  <2>1. drafts[i] = logits_ /\ logits_ \in Token /\ Len(out) < want
    BY <1>8 DEF AcceptDraft, Acceptable, ContextType
  <2>2. Append(out, drafts[i]) \in Seq(Token) /\ Len(Append(out, drafts[i])) = Len(out) + 1
    BY <2>1 DEF RunType
  <2>3. ContextType' /\ CacheMatchesContext'
    BY <1>8, <2>1, FeedKeeps DEF AcceptDraft
  <2>4. RunType' /\ RunOK'
    BY <1>8, <2>1, <2>2 DEF AcceptDraft, RunType, RunOK, vision
  <2>5. QED
    BY <2>3, <2>4
<1>9. CASE LeaveChecks
  <2>1. RunType' /\ RunOK'
    BY <1>9 DEF LeaveChecks, RunType, RunOK, vision
  <2>2. QED
    BY <1>9, <2>1, ContextKept DEF LeaveChecks
<1>10. CASE Return
  <2>1. RunType' /\ RunOK'
    BY <1>10 DEF Return, RunType, RunOK, vision
  <2>2. QED
    BY <1>10, <2>1, ContextKept DEF Return
<1>11. CASE UNCHANGED vars
  <2>1. RunType' /\ RunOK'
    BY <1>11 DEF vars, RunType, RunOK, vision, run
  <2>2. QED
    BY <1>11, <2>1, ContextKept DEF vars
<1>12. QED
  <2>1. CASE ClientCall
    BY <1>1, <1>2, <1>3, <1>4, <1>5, <2>1, SessionAssumption DEF ClientCall
  <2>2. CASE GenerateStep
    BY <1>6, <1>7, <1>8, <1>9, <1>10, <2>2 DEF GenerateStep
  <2>3. QED
    BY <1>11, <2>1, <2>2 DEF Next

THEOREM Invariance == Spec => []IInv
BY InitInv, NextInv, PTL DEF Spec

\* Every variable keeps its type.
THEOREM TypeCorrect == Spec => []TypeOK
<1>1. IInv => TypeOK
  BY TypeParts DEF IInv
<1>2. QED
  BY Invariance, <1>1, PTL

\* Recurrent state, cache rows, position, token list and logits agree about
\* the context as long as the session answers for it.
THEOREM ContextAgrees == Spec => []CacheMatchesContext
<1>1. IInv => CacheMatchesContext
  BY DEF IInv
<1>2. QED
  BY Invariance, <1>1, PTL

(***************************************************************************)
(* The refinement                                                          *)
(***************************************************************************)
LEMMA ConcatShape ==
  ASSUME NEW r \in Seq(Input), NEW t \in Input
  PROVE  r \o <<>> = r /\ r \o <<t>> = Append(r, t) /\ Len(Append(r, t)) = Len(r) + 1
OBVIOUS

\* Between two tokens the abstract context is the one in the cache.
LEMMA QuietSeen ==
  IInv /\ pc # "feed" => (Answers <=> valid) /\ Seen = IF valid THEN rec ELSE <<>>
<1> SUFFICES ASSUME IInv, pc # "feed"
             PROVE  (Answers <=> valid) /\ Seen = IF valid THEN rec ELSE <<>>
  OBVIOUS
<1>1. rec \o Pending = rec
  BY ConcatEmptySeq DEF IInv, ContextType, Pending
<1>2. valid => Len(rec) <= Ctx
  BY DEF IInv, CacheMatchesContext
<1>3. QED
  BY <1>1, <1>2 DEF Answers, Seen

\* A token that was emitted counts as seen before it is fed.
LEMMA FeedSeen ==
  IInv /\ pc = "feed" =>
    /\ Answers <=> valid /\ pos_ < Ctx
    /\ Seen = IF valid /\ pos_ < Ctx THEN Append(rec, out[Len(out)]) ELSE <<>>
<1> SUFFICES ASSUME IInv, pc = "feed"
             PROVE  /\ Answers <=> valid /\ pos_ < Ctx
                    /\ Seen = IF valid /\ pos_ < Ctx THEN Append(rec, out[Len(out)]) ELSE <<>>
  OBVIOUS
<1> DEFINE t == out[Len(out)]
<1>1. t \in Input
  BY DEF IInv, RunType, RunOK, Input
<1>2. Pending = <<t>>
  BY DEF Pending
<1> HIDE DEF t
<1>3. rec \o Pending = Append(rec, t) /\ Len(rec \o Pending) = Len(rec) + 1
  BY <1>1, <1>2, ConcatShape DEF IInv, ContextType
<1>4. valid => (Len(rec) + 1 <= Ctx <=> pos_ < Ctx)
  BY SessionAssumption DEF IInv, ContextType, CacheMatchesContext
<1>5. QED
  BY <1>3, <1>4 DEF Answers, Seen, t

LEMMA InitRefines == Init => Abs!Init
<1> SUFFICES ASSUME Init PROVE Abs!Init
  OBVIOUS
<1>1. IInv
  BY InitInv
<1>2. Answers /\ Seen = <<>>
  BY <1>1, QuietSeen DEF Init
<1>3. QED
  BY <1>2 DEF Init, Abs!Init, Busy

\* What a token appended to the context does to the abstract one.
LEMMA ExtendSeen ==
  ASSUME IInv, IInv', NEW t \in Token, Feed(t), pc # "feed", pc' # "feed"
  PROVE  Abs!Extend(t)
<1>1. (Answers <=> valid) /\ Seen = IF valid THEN rec ELSE <<>>
  BY QuietSeen
<1>2. (IInv /\ pc # "feed" => (Answers <=> valid) /\ Seen = IF valid THEN rec ELSE <<>>)'
  BY QuietSeen, PTL
<1>3. (Answers' <=> valid') /\ Seen' = IF valid' THEN rec' ELSE <<>>
  BY <1>2
<1>4. rec' = Append(rec, t) /\ (valid' <=> valid /\ pos_ < Ctx)
  BY DEF Feed
<1>5. valid => Len(rec) = pos_
  BY DEF IInv, CacheMatchesContext
<1>6. QED
  BY <1>1, <1>3, <1>4, <1>5 DEF Abs!Extend

LEMMA NextRefines == IInv /\ IInv' /\ [Next]_vars => [Abs!Next]_(Abs!vars)
<1> SUFFICES ASSUME IInv, IInv', [Next]_vars PROVE [Abs!Next]_(Abs!vars)
  OBVIOUS
<1>1. pc # "feed" => (Answers <=> valid) /\ Seen = IF valid THEN rec ELSE <<>>
  BY QuietSeen
<1>2. (IInv /\ pc # "feed" => (Answers <=> valid) /\ Seen = IF valid THEN rec ELSE <<>>)'
  BY QuietSeen, PTL
<1>3. pc' # "feed" => (Answers' <=> valid') /\ Seen' = IF valid' THEN rec' ELSE <<>>
  BY <1>2
<1>4. pc = "feed" => /\ Answers <=> valid /\ pos_ < Ctx
                    /\ Seen = IF valid /\ pos_ < Ctx THEN Append(rec, out[Len(out)]) ELSE <<>>
  BY FeedSeen
<1>5. (IInv /\ pc = "feed" =>
         /\ Answers <=> valid /\ pos_ < Ctx
         /\ Seen = IF valid /\ pos_ < Ctx THEN Append(rec, out[Len(out)]) ELSE <<>>)'
  BY FeedSeen, PTL
<1>6. pc' = "feed" => /\ Answers' <=> valid' /\ pos_' < Ctx
                     /\ Seen' = IF valid' /\ pos_' < Ctx THEN Append(rec', out'[Len(out')]) ELSE <<>>
  BY <1>5
<1>7. ASSUME UNCHANGED context, UNCHANGED <<want, out>>, pc' = pc PROVE UNCHANGED Abs!vars
  BY <1>7 DEF context, Abs!vars, Answers, Seen, Busy, Pending
<1>8. ASSUME NEW ids \in Prompt, ~Refused(ids), PrefillDone(ids), pc' # "feed"
      PROVE  Answers' /\ Seen' \in Seq(Input) /\ Len(Seen') \in 1..Ctx
  <2>1. valid' /\ pos_' = Len(ids) /\ Len(ids) \in 1..Ctx
    BY <1>8 DEF PrefillDone, Refused
  <2>2. Len(rec') = pos_' /\ rec' \in Seq(Input)
    BY <2>1 DEF IInv, ContextType, CacheMatchesContext
  <2>3. QED
    BY <1>3, <1>8, <2>1, <2>2
<1>9. ASSUME NEW ids \in Prompt, PrefillThrows(ids), pc' # "feed"
      PROVE  ~Answers' /\ Seen' = <<>>
  BY <1>3, <1>9 DEF PrefillThrows
<1>10. ASSUME NEW ids \in Prompt, Prefill(ids) PROVE Abs!Next
  <2>1. pc = "idle" /\ pc' = "idle" /\ ~Refused(ids) /\ UNCHANGED <<Busy, want, out>>
    BY <1>10 DEF Prefill, run, Busy
  <2>2. CASE PrefillDone(ids)
    BY <1>8, <2>1, <2>2 DEF Abs!Next, Abs!Reset, Busy
  <2>3. CASE PrefillThrows(ids)
    BY <1>9, <2>1, <2>3 DEF Abs!Next, Abs!Lose, Busy
  <2>4. QED
    BY <1>10, <2>2, <2>3 DEF Prefill
<1>11. ASSUME NEW t \in Token, Decode(t) PROVE Abs!Next
  <2>1. pc = "idle" /\ pc' = "idle" /\ Feed(t) /\ UNCHANGED <<Busy, want, out>>
    BY <1>11 DEF Decode, run, Busy
  <2>2. Abs!Extend(t) /\ t \in Input
    BY <2>1, ExtendSeen DEF Input
  <2>3. QED
    BY <2>1, <2>2 DEF Abs!Next, Abs!Consume, Busy
<1>12. ASSUME NEW ids \in Prompt, NEW w \in 0..MaxWant, NEW k, NEW n, Generate(ids, w, k, n)
       PROVE  Abs!Next
  <2>1. pc = "idle" /\ ~Refused(ids)
    BY <1>12 DEF Generate
  <2>2. CASE PrefillThrows(ids) /\ UNCHANGED run
    <3>1. pc' = "idle" /\ UNCHANGED <<Busy, want, out>>
      BY <2>1, <2>2 DEF run, Busy
    <3>2. QED
      BY <1>9, <2>1, <2>2, <3>1 DEF Abs!Next, Abs!Lose, Busy
  <2>3. CASE PrefillDone(ids) /\ pc' = "head" /\ want' = w /\ out' = <<>>
    <3>1. w \in Nat
      BY SessionAssumption
    <3>2. QED
      BY <1>8, <2>1, <2>3, <3>1 DEF Abs!Next, Abs!Begin, Busy
  <2>4. QED
    BY <1>12, <2>2, <2>3 DEF Generate
<1>13. ASSUME valid PROVE logits_ = Greedy(rec) /\ Len(rec) = pos_
  BY <1>13 DEF IInv, CacheMatchesContext
<1>14. CASE EmitHead
  <2>1. pc = "head" /\ pc' = "feed" /\ Len(out) < want /\ out' = Append(out, logits_) /\ want' = want
        /\ rec' = rec /\ valid' = valid /\ pos_' = pos_
    BY <1>14 DEF EmitHead, context
  <2>2. logits_ \in Input /\ out'[Len(out')] = logits_
    BY <2>1 DEF IInv, ContextType, RunType, Input
  <2>3. Abs!Extend(logits_)
    BY <1>1, <1>6, <1>13, <2>1, <2>2 DEF Abs!Extend
  <2>4. Answers => logits_ = Greedy(Seen)
    BY <1>1, <1>13, <2>1
  <2>5. QED
    BY <2>1, <2>2, <2>3, <2>4 DEF Abs!Next, Abs!Emit, Busy
<1>15. CASE FeedHead
  <2>1. pc = "feed" /\ pc' = "check" /\ Feed(out[Len(out)]) /\ UNCHANGED <<want, out>>
    BY <1>15 DEF FeedHead
  <2>2. rec' = Append(rec, out[Len(out)]) /\ (valid' <=> valid /\ pos_ < Ctx)
    BY <2>1 DEF Feed
  <2>3. (Answers' <=> Answers) /\ Seen' = Seen
    BY <1>3, <1>4, <2>1, <2>2
  <2>4. UNCHANGED Abs!vars
    BY <2>1, <2>3 DEF Abs!vars, Busy, Answers
  <2>5. QED
    BY <2>4
<1>16. CASE AcceptDraft
  <2>1. pc = "check" /\ pc' = "check" /\ drafts[i] = logits_ /\ Len(out) < want
        /\ out' = Append(out, logits_) /\ Feed(logits_) /\ want' = want
    BY <1>16 DEF AcceptDraft, Acceptable
  <2>2. logits_ \in Token /\ logits_ \in Input
    BY DEF IInv, ContextType, Input
  <2>3. Abs!Extend(logits_)
    BY <2>1, <2>2, ExtendSeen
  <2>4. Answers => logits_ = Greedy(Seen)
    BY <1>1, <1>13, <2>1
  <2>5. QED
    BY <2>1, <2>2, <2>3, <2>4 DEF Abs!Next, Abs!Emit, Busy
<1>17. CASE LeaveChecks
  <2>1. pc = "check" /\ pc' = "head" /\ UNCHANGED <<want, out>> /\ rec' = rec /\ valid' = valid
    BY <1>17 DEF LeaveChecks, context
  <2>2. (Answers' <=> Answers) /\ Seen' = Seen
    BY <1>1, <1>3, <2>1
  <2>3. UNCHANGED Abs!vars
    BY <2>1, <2>2 DEF Abs!vars, Busy, Answers
  <2>4. QED
    BY <2>3
<1>18. CASE Return
  <2>1. pc = "head" /\ pc' = "idle" /\ want' = 0 /\ out' = <<>> /\ rec' = rec /\ valid' = valid
    BY <1>18 DEF Return, context
  <2>2. Len(out) = want
    BY <1>18 DEF Return, IInv, RunOK, RunType
  <2>3. UNCHANGED <<Answers, Seen>>
    <3>1. (Answers' <=> Answers) /\ Seen' = Seen
      BY <1>1, <1>3, <2>1
    <3>2. QED
      BY <3>1 DEF Answers
  <2>4. QED
    BY <2>1, <2>2, <2>3 DEF Abs!Next, Abs!End, Busy
<1>19. CASE UNCHANGED vars
  BY <1>7, <1>19 DEF vars, run
<1>20. ASSUME NEW n, NEW ph, SetVision(n, ph) PROVE UNCHANGED Abs!vars
  BY <1>7, <1>20 DEF SetVision, run
<1>21. ASSUME NEW n, LoadImage(n) PROVE UNCHANGED Abs!vars
  BY <1>7, <1>21 DEF LoadImage, run
<1>22. QED
  <2>1. CASE ClientCall
    BY <1>10, <1>11, <1>12, <1>20, <1>21, <2>1 DEF ClientCall
  <2>2. CASE GenerateStep
    BY <1>14, <1>15, <1>16, <1>17, <1>18, <2>2 DEF GenerateStep
  <2>3. QED
    BY <1>19, <2>1, <2>2 DEF Next

\* A CPU session generates what greedy decoding of its context generates,
\* whatever is drafted and whatever the client calls.
THEOREM Implements == Spec => ImplementsGreedy
BY InitRefines, NextRefines, Invariance, PTL DEF Spec, ImplementsGreedy, Abs!Spec

(***************************************************************************)
(* The image                                                               *)
(***************************************************************************)
\* What load_image and set_vision_embeds leave: rows in order, or blanks, and
\* without blanks as many as the image counts.
RowsInOrder ==
  /\ \A k \in 1..Len(vis_embeds_) : vis_embeds_[k] \in {Blank, -k}
  /\ vis_n_ > 0 /\ ~Torn => Len(vis_embeds_) = vis_n_

VInv == IInv /\ RowsInOrder

LEMMA OrderInit == Init => RowsInOrder
<1>1. Len(<<>>) = 0
  OBVIOUS
<1>2. QED
  BY <1>1 DEF Init, RowsInOrder, Torn

LEMMA OrderNext == RowsInOrder /\ [Next]_vars => RowsInOrder'
<1> SUFFICES ASSUME RowsInOrder, [Next]_vars PROVE RowsInOrder'
  OBVIOUS
<1>1. ASSUME NEW n \in 0..MaxImage, NEW ph \in {-1} \cup Token, SetVision(n, ph) PROVE RowsInOrder'
  <2>1. n \in Nat /\ Len([k \in 1..n |-> -k]) = n
    BY SessionAssumption
  <2>2. vis_n_' = n /\ Len(vis_embeds_') = n
    BY <1>1, <2>1 DEF SetVision
  <2>3. \A k \in 1..Len(vis_embeds_') : vis_embeds_'[k] \in {Blank, -k}
    BY <1>1, <2>1 DEF SetVision
  <2>4. QED
    BY <2>2, <2>3 DEF RowsInOrder
<1>2. ASSUME NEW n \in 1..MaxImage, LoadImage(n) PROVE RowsInOrder'
  <2>1. n \in Nat /\ Len([k \in 1..n |-> -k]) = n /\ Len([k \in 1..n |-> Blank]) = n
    BY SessionAssumption
  <2>2. Len(vis_embeds_') = n /\ 1 \in 1..n
    BY <1>2, <2>1, SessionAssumption DEF LoadImage
  <2>3. CASE vis_embeds_' = [k \in 1..n |-> -k] /\ vis_n_' = n
    BY <2>1, <2>2, <2>3 DEF RowsInOrder
  <2>4. CASE vis_embeds_' = [k \in 1..n |-> Blank]
    <3>1. vis_embeds_'[1] = Blank
      BY <2>2, <2>4
    <3>2. vis_n_' > 0 => Torn'
      BY <2>2, <3>1 DEF Torn
    <3>3. \A k \in 1..Len(vis_embeds_') : vis_embeds_'[k] \in {Blank, -k}
      BY <2>1, <2>2, <2>4
    <3>4. QED
      BY <3>2, <3>3 DEF RowsInOrder
  <2>5. QED
    BY <1>2, <2>3, <2>4 DEF LoadImage
<1>3. CASE UNCHANGED vision
  BY <1>3 DEF vision, RowsInOrder, Torn
<1>4. CASE GenerateStep
  BY <1>3, <1>4 DEF GenerateStep, EmitHead, FeedHead, AcceptDraft, LeaveChecks, Return
<1>5. CASE UNCHANGED vars
  BY <1>3, <1>5 DEF vars
<1>6. CASE ClientCall
  BY <1>1, <1>2, <1>3, <1>6 DEF ClientCall, Prefill, Decode, Generate
<1>7. QED
  BY <1>4, <1>5, <1>6 DEF Next

\* The placeholders are one run, and the token behind it is another.
LEMMA SpanShape ==
  ASSUME NEW ids \in Seq(Token), Span(ids) # {}
  PROVE  \E a, b \in 1..Len(ids) :
           /\ a <= b /\ Span(ids) = a..b
           /\ \A q \in a..b : ids[q] = Placeholder
           /\ b < Len(ids) => ids[b + 1] # Placeholder
<1>1. Len(ids) \in Nat /\ Span(ids) \in SUBSET (1..Len(ids))
  BY DEF Span
<1>2. PICK b \in Span(ids) : \A y \in Span(ids) : b >= y
  <2> DEFINE m == Len(ids)
             S == Span(ids)
  <2>1. m \in Nat /\ S \in SUBSET (1..m) /\ S # {}
    BY <1>1
  <2> HIDE DEF m, S
  <2>2. Drafter!HasLast(S, m)
    BY <2>1, Drafter!SetHasLast
  <2>3. QED
    BY <2>1, <2>2 DEF S, Drafter!HasLast
<1>3. PICK a \in 1..b : (\A q \in a..b : ids[q] = Placeholder) /\ (\A q \in 1..(a - 1) : ids[q] # Placeholder)
  BY DEF Span
<1>4. a \in Nat /\ b \in Nat /\ 1 <= a /\ a <= b /\ b <= Len(ids)
  BY <1>1
<1>5. ASSUME NEW p \in a..b PROVE p \in Span(ids)
  <2>1. p \in 1..Len(ids) /\ a \in 1..p /\ \A q \in a..p : q \in a..b
    BY <1>1, <1>4
  <2>2. QED
    BY <1>3, <2>1 DEF Span
<1>6. ASSUME NEW p \in Span(ids) PROVE p \in a..b
  <2>1. PICK s \in 1..p : (\A q \in s..p : ids[q] = Placeholder) /\ (\A q \in 1..(s - 1) : ids[q] # Placeholder)
    BY DEF Span
  <2>2. p \in 1..Len(ids) /\ p <= b /\ s \in Nat /\ s <= p
    BY <1>1, <1>2, <1>4
  <2>3. ~ (p < a)
    <3>1. SUFFICES ASSUME p < a PROVE FALSE
      OBVIOUS
    <3>2. p \in s..p /\ p \in 1..(a - 1)
      BY <1>4, <2>2, <3>1
    <3>3. QED
      BY <1>3, <2>1, <3>2
  <2>4. QED
    BY <1>4, <2>2, <2>3
<1>7. ASSUME b < Len(ids), ids[b + 1] = Placeholder PROVE FALSE
  <2>1. b + 1 \in 1..Len(ids) /\ a \in 1..(b + 1) /\ ~ (b >= b + 1)
    BY <1>1, <1>4, <1>7
  <2>2. \A q \in a..(b + 1) : q \in a..b \/ q = b + 1
    BY <1>4
  <2>3. b + 1 \in Span(ids)
    BY <1>3, <1>7, <2>1, <2>2 DEF Span
  <2>4. QED
    BY <1>2, <2>1, <2>3
<1>8. Span(ids) = a..b
  BY <1>5, <1>6
<1>9. a \in 1..Len(ids) /\ b \in 1..Len(ids)
  BY <1>1, <1>4
<1>10. QED
  BY <1>3, <1>4, <1>7, <1>8, <1>9

LEMMA EndsOfRun ==
  ASSUME NEW a \in Nat, NEW b \in Nat, a <= b
  PROVE  /\ Min(a..b) = a /\ Max(a..b) = b /\ Cardinality(a..b) = b - a + 1
         /\ \A p \in a..b : Cardinality({q \in a..b : q <= p}) = p - a + 1
<1>1. Min(a..b) = a
  <2>1. a \in a..b /\ \A y \in a..b : a =< y
    OBVIOUS
  <2>2. \A x \in a..b : (\A y \in a..b : x =< y) => x = a
    BY <2>1
  <2>3. QED
    BY <2>1, <2>2 DEF Min
<1>2. Max(a..b) = b
  <2>1. b \in a..b /\ \A y \in a..b : b >= y
    OBVIOUS
  <2>2. \A x \in a..b : (\A y \in a..b : x >= y) => x = b
    BY <2>1
  <2>3. QED
    BY <2>1, <2>2 DEF Max
<1>3. \A p \in a..b : Cardinality(a..p) = p - a + 1
  BY FS_Interval
<1>4. ASSUME NEW p \in a..b PROVE Cardinality({q \in a..b : q <= p}) = p - a + 1
  <2>1. {q \in a..b : q <= p} = a..p
    OBVIOUS
  <2>2. QED
    BY <1>3, <2>1
<1>5. Cardinality(a..b) = b - a + 1
  BY FS_Interval
<1>6. QED
  BY <1>1, <1>2, <1>4, <1>5

\* Unless a load failed on top of an image, what is spliced over the
\* placeholders is the image, all of it and in order.
LEMMA SplicedShows ==
  ASSUME RunType, RowsInOrder, ~Torn, NEW ids \in Seq(Token), ~Refused(ids)
  PROVE  ShowsImage(Spliced(ids), ids, vis_n_)
<1> DEFINE h == Spliced(ids)
           L == Len(ids)
           rows == {p \in 1..Len(h) : h[p] \notin Token}
<1>1. Len(h) = L /\ L \in Nat /\ vis_n_ \in Nat
  BY SplicedType DEF RunType
<1>2. \A k \in Nat \ {0} : -k \notin Token
  BY SessionAssumption DEF Token
<1>3. ASSUME vis_n_ > 0, NEW k \in 1..vis_n_ PROVE ImageRow(k) = -k
  <2>1. k \in 1..Len(vis_embeds_)
    BY <1>3 DEF RowsInOrder
  <2>2. vis_embeds_[k] \in {Blank, -k} /\ vis_embeds_[k] # Blank
    BY <1>3, <2>1 DEF RowsInOrder, Torn
  <2>3. ImageRow(k) = vis_embeds_[k]
    BY <2>1 DEF ImageRow
  <2>4. QED
    BY <2>2, <2>3
<1>4. CASE vis_n_ = 0
  <2>1. \A p \in 1..L : h[p] = ids[p]
    BY <1>4 DEF Spliced
  <2> HIDE DEF h
  <2>2. rows = {}
    BY <1>1, <2>1
  <2>3. Cardinality({}) = 0
    BY FS_EmptySet
  <2> HIDE DEF rows
  <2>4. Cardinality(rows) = vis_n_
    BY <1>4, <2>2, <2>3
  <2>5. \A p \in rows : ids[p] = Placeholder /\ h[p] = -(p - Min(rows) + 1)
    BY <2>2
  <2>6. ~ (vis_n_ > 0)
    BY <1>4
  <2>7. QED
    BY <2>4, <2>5, <2>6 DEF ShowsImage, rows, h
<1>5. CASE vis_n_ # 0
  <2>1. vis_n_ > 0 /\ Cardinality(Span(ids)) = vis_n_
    BY <1>1, <1>5 DEF Refused
  <2>2. Span(ids) # {}
    BY <2>1, FS_EmptySet
  <2>3. PICK a, b \in 1..L : /\ a <= b /\ Span(ids) = a..b
                             /\ \A q \in a..b : ids[q] = Placeholder
                             /\ b < L => ids[b + 1] # Placeholder
    BY <2>2, SpanShape
  <2>4. a \in Nat /\ b \in Nat /\ 1 <= a /\ a <= b /\ b <= L
    BY <1>1, <2>3
  <2>5. Min(a..b) = a /\ Max(a..b) = b /\ Cardinality(a..b) = b - a + 1
    BY <2>4, EndsOfRun
  <2>6. vis_n_ = b - a + 1
    BY <2>1, <2>3, <2>5
  <2>7. ASSUME NEW p \in a..b PROVE Nth(ids, p) = p - a + 1
    BY <2>3, <2>4, EndsOfRun DEF Nth
  <2>8. ASSUME NEW p \in a..b PROVE h[p] = -(p - a + 1) /\ h[p] \notin Token
    <3>1. p \in 1..L /\ p - a + 1 \in Nat \ {0} /\ p - a + 1 <= vis_n_
      BY <1>1, <2>4, <2>6
    <3>2. h[p] = ImageRow(p - a + 1)
      BY <2>1, <2>3, <2>7, <3>1 DEF Spliced
    <3>3. ImageRow(p - a + 1) = -(p - a + 1)
      BY <1>3, <2>1, <3>1
    <3>4. QED
      BY <1>2, <3>1, <3>2, <3>3
  <2>9. ASSUME NEW p \in 1..L, p \notin a..b PROVE h[p] \in Token
    <3>1. h[p] = ids[p]
      BY <2>3, <2>9 DEF Spliced
    <3>2. QED
      BY <3>1
  <2> HIDE DEF h
  <2>10. rows = a..b
    <3>1. \A p \in a..b : p \in 1..L
      BY <1>1, <2>4
    <3>2. QED
      BY <1>1, <2>8, <2>9, <3>1
  <2> HIDE DEF rows
  <2>11. Cardinality(rows) = vis_n_ /\ Min(rows) = a /\ Max(rows) = b
    BY <2>5, <2>6, <2>10
  <2>12. \A p \in rows : ids[p] = Placeholder /\ h[p] = -(p - Min(rows) + 1)
    BY <2>3, <2>8, <2>10, <2>11
  <2>13. Max(rows) < Len(h) => ids[Max(rows) + 1] # Placeholder
    BY <1>1, <2>3, <2>11
  <2>14. QED
    BY <2>11, <2>12, <2>13 DEF ShowsImage, rows, h
<1>6. QED
  BY <1>4, <1>5

\* Unless a load_image failed while an image was set, a prefill that succeeds
\* takes every row of the image set last, in order and in one piece, and leaves
\* no placeholder of its run behind: the buffer, its count and the placeholders
\* of the prompt are written by three different calls.
THEOREM ImageSpliced == Spec => ImageWhole
<1>1. Init => VInv
  BY InitInv, OrderInit DEF VInv
<1>2. VInv /\ [Next]_vars => VInv'
  BY NextInv, OrderNext DEF VInv
<1>3. ASSUME VInv, ~Torn, NEW ids, PrefillDone(ids), ~Refused(ids), UNCHANGED vision
      PROVE  ShowsImage(rec', ctx_tokens_', vis_n_)
  <2>1. ids \in Seq(Token) /\ rec' = Spliced(ids) /\ ctx_tokens_' = ids
    BY <1>3 DEF PrefillDone
  <2>2. ShowsImage(Spliced(ids), ids, vis_n_)
    BY <1>3, <2>1, SplicedShows DEF VInv, IInv
  <2>3. QED
    BY <2>1, <2>2
<1>4. ASSUME VInv, NEW t, Feed(t) PROVE Len(rec') = Len(rec) + 1
  BY <1>4 DEF Feed
<1>5. VInv /\ [Next]_vars
        => [pc = "idle" /\ ~Torn /\ valid' /\ rec' # rec /\ Len(rec') # Len(rec) + 1
              => ShowsImage(rec', ctx_tokens_', vis_n_)]_vars
  <2> SUFFICES ASSUME VInv, Next, pc = "idle", ~Torn, valid', rec' # rec, Len(rec') # Len(rec) + 1
               PROVE  ShowsImage(rec', ctx_tokens_', vis_n_)
    OBVIOUS
  <2>1. CASE UNCHANGED context
    BY <2>1 DEF context
  <2>2. CASE ClientCall
    BY <1>3, <1>4, <2>1, <2>2 DEF ClientCall, SetVision, LoadImage, Prefill, PrefillThrows, Decode, Generate
  <2>3. CASE GenerateStep
    BY <2>1, <2>3 DEF GenerateStep, EmitHead, FeedHead, AcceptDraft, LeaveChecks, Return
  <2>4. QED
    BY <2>2, <2>3 DEF Next
<1>6. QED
  BY <1>1, <1>2, <1>5, PTL DEF Spec, ImageWhole
=============================================================================
