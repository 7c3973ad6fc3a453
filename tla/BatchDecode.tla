----------------------------- MODULE BatchDecode -----------------------------
(***************************************************************************)
(* Session::generate_batch on the GPU (src/src/runtime/session.cpp),       *)
(* greedy and without drafts as the C API calls it, with the engine it     *)
(* drives.  Calls follow one another on the same engine: what one leaves   *)
(* in the slots is what the next one starts from.  The counts out_n are    *)
(* asked for.                                                              *)
(***************************************************************************)
EXTENDS SlotEngine

CONSTANTS
  Batches,         \* the tuples of prompts a call can bring
  MaxWant,         \* bound on the tokens asked for
  Admits(_, _, _)  \* which calls (engine, prompts, want) are made

ASSUME BatchAssumption ==
  /\ Batches \subseteq Seq(Seq(Token) \ {<<>>}) \ {<<>>}
  /\ MaxWant \in Nat

VARIABLES
  eng,      \* the engine
  pc,       \* where generate_batch is
  prompts,  \* the arguments of the call
  want,
  toks,     \* the token each slot is fed next
  poss,     \* the position it goes to
  out       \* the tokens each sequence was given; out_n is their number

call == <<prompts, want>>
vars == <<eng, pc, call, toks, poss, out>>

Init ==
  /\ \E k \in EngineKinds : eng = BuiltEngine(k)
  /\ pc = "idle" /\ prompts = <<>> /\ want = 0 /\ toks = <<>> /\ poss = <<>> /\ out = <<>>

\* The sequences that get a slot; B in the code.
Lanes(e, ps) == Min({Len(ps), e.max})
Batch == SubSeq(prompts, 1, Lanes(eng, prompts))

Same(ps) == \A b \in DOMAIN ps : ps[b] = ps[1]
SameLength(ps) == \A b \in DOMAIN ps : Len(ps[b]) = Len(ps[1])

PrefillBy(e, ps) ==
  IF Len(ps) = 1 \/ e.max < 2 THEN "alone"
  ELSE LET lanes == SubSeq(ps, 1, Lanes(e, ps))
       IN  IF Same(lanes) THEN "same" ELSE IF SameLength(lanes) THEN "packed" ELSE "slots"

\* Prompts and what is generated fit the context: nothing checks it.
GenerateBatch(ps, w) ==
  /\ pc = "idle"
  /\ \A i \in DOMAIN ps : Len(ps[i]) + w <= Ctx
  /\ Admits(eng, ps, w)
  /\ prompts' = ps /\ want' = w
  /\ pc' = PrefillBy(eng, ps)
  /\ out' = [i \in DOMAIN ps |-> <<>>]
  /\ UNCHANGED <<eng, toks, poss>>

\* copy_greedy_n.
Greedies(e) == [b \in DOMAIN Batch |-> e.best[b - 1]]

\* The first token of the first Len(ts) sequences, which is also fed next.
FirstTokens(ts) ==
  /\ toks' = ts
  /\ poss' = [b \in DOMAIN ts |-> Len(prompts[b])]
  /\ out' = [i \in DOMAIN prompts |-> IF i \in DOMAIN ts THEN <<ts[i]>> ELSE <<>>]

(***************************************************************************)
(* One sequence after the other: generate.  toks has an entry for each     *)
(* sequence that is done.                                                  *)
(***************************************************************************)
GenerateAlone ==
  /\ pc = "alone" /\ Len(toks) < Len(prompts)
  /\ LET i == Len(toks) + 1
         e == Prefill(eng, prompts[i])
         Given(n) == DecodeSteps(e, n).last
     IN  /\ eng' = DecodeSteps(e, Max({want - 1, 0}))
         /\ out' = [out EXCEPT ![i] = [k \in 1..want |-> Given(k - 1)]]
         /\ toks' = Append(toks, eng'.last)
  /\ UNCHANGED <<pc, call, poss>>

(***************************************************************************)
(* The three ways to prefill the slots                                     *)
(***************************************************************************)
PrefillSame ==
  /\ pc = "same"
  /\ eng' = Replicate(Prefill(eng, prompts[1]), Len(Batch))
  /\ FirstTokens([b \in DOMAIN Batch |-> eng'.last])
  /\ pc' = "decode"
  /\ UNCHANGED call

PrefillPacked ==
  /\ pc = "packed"
  /\ FitsPacked(Len(prompts[1]), Len(Batch))
  /\ eng' = PrefillEq(Zero(eng, 0..(Len(Batch) - 1)), Batch)
  /\ FirstTokens(Greedies(eng'))
  /\ pc' = "decode"
  /\ UNCHANGED call

\* Prompts too long for one launch are fed token by token, by the batch.
BeginColumns ==
  /\ pc = "packed"
  /\ ~FitsPacked(Len(prompts[1]), Len(Batch))
  /\ eng' = Zero(eng, 0..(Len(Batch) - 1))
  /\ poss' = [b \in DOMAIN Batch |-> 0]
  /\ pc' = "columns"
  /\ UNCHANGED <<call, toks, out>>

FeedColumn ==
  /\ pc = "columns"
  /\ LET t == poss[1] + 1
     IN  /\ eng' = DecodeTokens(eng, [b \in DOMAIN Batch |-> Batch[b][t]], poss)
         /\ IF t < Len(prompts[1])
            THEN pc' = "columns" /\ poss' = [b \in DOMAIN Batch |-> t] /\ UNCHANGED <<toks, out>>
            ELSE pc' = "decode" /\ FirstTokens(Greedies(eng'))
  /\ UNCHANGED call

\* Prompts of different lengths, a slot at a time.
PrefillNextSlot ==
  /\ pc = "slots"
  /\ LET b == Len(toks) + 1
     IN  /\ eng' = PrefillSlot(eng, prompts[b], b - 1)
         /\ FirstTokens(Append(toks, eng'.last))
         /\ pc' = IF b = Len(Batch) THEN "decode" ELSE "slots"
  /\ UNCHANGED call

(***************************************************************************)
(* The decode loop                                                         *)
(***************************************************************************)
\* Faulty variant: the loop runs until exactly as many tokens were given.
UnfinishedExact == \E b \in DOMAIN Batch : Len(out[b]) # want

\* All sequences have got the same number of tokens: they end together.
Unfinished == \E b \in DOMAIN Batch : Len(out[b]) < want

\* Every sequence of the batch is given the token its slot decoded.
DecodeStep ==
  /\ eng' = DecodeTokens(eng, toks, poss)
  /\ toks' = Greedies(eng')
  /\ out' = [i \in DOMAIN out |-> IF i \in DOMAIN Batch THEN Append(out[i], toks'[i]) ELSE out[i]]

\* Faulty variant: the positions are not advanced.
DecodeActiveInPlace ==
  /\ pc = "decode" /\ Unfinished
  /\ DecodeStep
  /\ UNCHANGED <<pc, call, poss>>

DecodeActive ==
  /\ pc = "decode" /\ Unfinished
  /\ DecodeStep
  /\ poss' = [b \in DOMAIN Batch |-> poss[b] + 1]
  /\ UNCHANGED <<pc, call>>

Return ==
  /\ \/ pc = "decode" /\ ~Unfinished
     \/ pc = "alone" /\ Len(toks) = Len(prompts)
  /\ pc' = "idle" /\ prompts' = <<>> /\ want' = 0 /\ toks' = <<>> /\ poss' = <<>> /\ out' = <<>>
  /\ UNCHANGED eng

-----------------------------------------------------------------------------
Step ==
  \/ GenerateAlone \/ PrefillSame \/ PrefillPacked \/ BeginColumns \/ FeedColumn
  \/ PrefillNextSlot \/ DecodeActive \/ Return

Next == (\E ps \in Batches, w \in 0..MaxWant : GenerateBatch(ps, w)) \/ Step

Spec == Init /\ [][Next]_vars
=============================================================================
