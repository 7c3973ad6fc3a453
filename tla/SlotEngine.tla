----------------------------- MODULE SlotEngine -----------------------------
(***************************************************************************)
(* The CUDA engine with a cache slot for each sequence of a batch          *)
(* (EngineImpl in src/src/kernels/cuda/cuda_engine.cu): prefill,           *)
(* decode_token, prefill_slot, prefill_eq_batch, decode_tokens,            *)
(* zero_slots and replicate_slot0, as operators on the engine's fields.    *)
(*                                                                         *)
(* As in CudaEngine, memory is kept by what it was computed from.  A model *)
(* with one attention layer is taken: kv is its F16 cache, win rows for    *)
(* each slot, one slot after the other.  With TurboQuant (tq) only the     *)
(* first win positions of a sequence have a row there; compact holds a     *)
(* quantised row for every position, and is what attention reads from      *)
(* position win on.                                                        *)
(***************************************************************************)
EXTENDS Integers, Sequences, FiniteSetsExt

CONSTANTS
  Vocab,       \* tokens are 0..Vocab-1
  Ctx,         \* ctx_: positions of a sequence
  LM(_, _),    \* the model: recurrent history and cache rows to a token
  PfCap,       \* pf_cap_: most tokens of a prefill launch
  SeqCap,      \* seq_cap_: most tokens of a packed prefill
  EngineKinds  \* what build() can leave: [max, win, tq, flash, tile], see BuiltEngine

ASSUME SlotEngineAssumption ==
  /\ {Vocab, Ctx, PfCap} \subseteq Nat \ {0} /\ SeqCap \in Nat
  /\ EngineKinds \subseteq [max : Nat \ {0}, win : 1..Ctx, tq : BOOLEAN, flash : BOOLEAN, tile : BOOLEAN]
  /\ \A k \in EngineKinds : IF k.tq THEN SeqCap <= 2 * k.win ELSE k.win = Ctx

Token == 0..(Vocab - 1)
Blank == Vocab    \* a cleared row, or one outside the allocation

(***************************************************************************)
(* max is max_batch_, win kv_win_; flash: single-token attention runs in   *)
(* qk_attn_decode_gqa_k; tile: the first two prefill launches of full size *)
(* have been captured as graphs.                                           *)
(***************************************************************************)
BuiltEngine(k) ==
  [max |-> k.max, win |-> k.win, tq |-> k.tq, flash |-> k.flash, tile |-> k.tile,
   pos |-> 0, last |-> 0,
   rec |-> [s \in 0..(k.max - 1) |-> <<>>],
   kv |-> [r \in 0..(k.max * k.win - 1) |-> Blank],
   compact |-> [s \in 0..(k.max - 1) |-> [p \in 0..(Ctx - 1) |-> Blank]],
   best |-> [s \in 0..(k.max - 1) |-> 0]]

\* Faulty variant: the index is not checked for.
SampleUnchecked(r, c) == LM(r, c)

\* The argmax kernels answer 0 when no logit is a maximum.
Sample(r, c) == IF LM(r, c) \in Token THEN LM(r, c) ELSE 0

-----------------------------------------------------------------------------
\* What f holds, and elsewhere what g does.
Over(f, g) == [x \in DOMAIN f \cup DOMAIN g |-> IF x \in DOMAIN f THEN f[x] ELSE g[x]]

(***************************************************************************)
(* The caches                                                              *)
(***************************************************************************)
Row(e, s, p) == s * e.win + p

WindowRows(e, s, n) ==
  [k \in 1..n |-> IF Row(e, s, k - 1) \in DOMAIN e.kv THEN e.kv[Row(e, s, k - 1)] ELSE Blank]

\* What attention at the n-th position of slot s reads.
Attended(e, s, n, compacted) ==
  IF compacted THEN [k \in 1..n |-> e.compact[s][k - 1]] ELSE WindowRows(e, s, n)

\* toks fed at the positions p.. of slot s, of which those in W get an F16 row
\* and those in C a compact one.  A row past the slot's own is the next slot's.
Fed(e, s, p, toks, W, C) ==
  LET first == Row(e, s, p)
  IN  [e EXCEPT
         !.rec[s] = @ \o toks,
         !.kv = Over([r \in {Row(e, s, q) : q \in W} \cap DOMAIN @ |-> toks[r - first + 1]], @),
         !.compact[s] = Over([q \in C |-> toks[q - p + 1]], @)]

\* Faulty variant: the recurrent state is left.
ZeroRowsOnly(e, S) ==
  [e EXCEPT !.kv = Over([r \in {r \in DOMAIN @ : r \div e.win \in S} |-> Blank], @),
            !.compact = Over([s \in S |-> [q \in 0..(Ctx - 1) |-> Blank]], @)]

\* zero_slot, for each slot of S.
Zero(e, S) ==
  [e EXCEPT !.rec = Over([s \in S |-> <<>>], @),
            !.kv = Over([r \in {r \in DOMAIN @ : r \div e.win \in S} |-> Blank], @),
            !.compact = Over([s \in S |-> [q \in 0..(Ctx - 1) |-> Blank]], @)]

\* replicate_slot0.
Replicate(e, n) ==
  [e EXCEPT !.rec = Over([s \in 0..(n - 1) |-> @[0]], @),
            !.kv = Over([r \in 0..(n * e.win - 1) |-> @[r % e.win]], @),
            !.compact = Over([s \in 0..(n - 1) |-> @[0]], @)]

-----------------------------------------------------------------------------
(***************************************************************************)
(* One sequence, in slot 0                                                 *)
(***************************************************************************)
\* toks decoded one after the other.  launch_decode, and the graph captured
\* from it, know slot 0 only.  Inside the F16 window the flash kernel does not
\* store the compact row.
Decode(e, toks) ==
  LET P   == e.pos..(e.pos + Len(toks) - 1)
      W   == {q \in P : e.tq => q < e.win}
      C   == {q \in P : e.tq /\ (q >= e.win \/ ~e.flash)}
      fed == [Fed(e, 0, e.pos, toks, W, C) EXCEPT !.pos = @ + Len(toks)]
  IN  [fed EXCEPT !.last = Sample(fed.rec[0], Attended(fed, 0, fed.pos, e.tq /\ fed.pos > e.win))]

\* The n tokens that are fed when each is the one decoded before.
SelfFed(e, n) ==
  CHOOSE ts \in [1..n -> Token] :
    \A k \in 1..n : ts[k] = IF k = 1 THEN e.last ELSE Decode(e, SubSeq(ts, 1, k - 1)).last

DecodeSteps(e, n) == IF n = 0 THEN e ELSE Decode(e, SelfFed(e, n))

(***************************************************************************)
(* launch_prefill: ids in launches of pf_cap_ tokens.  The two launches    *)
(* that are captured as graphs were captured for slot 0.  The F16 rows of  *)
(* a launch are stored if it ends inside the window.                       *)
(***************************************************************************)
\* How many of the n tokens of a prompt go to a captured graph.
Tiled(e, n) == IF e.tile THEN Min({n \div PfCap, 2}) * PfCap ELSE 0

\* Where the launch that feeds position q of n ends.
LaunchEnd(q, n) == Min({(q \div PfCap + 1) * PfCap, n})

LaunchPrefill(e, slot, ids) ==
  LET n    == Len(ids)
      R    == Tiled(e, n)
      W(P) == {q \in P : LaunchEnd(q, n) <= e.win}
      C(P) == {q \in P : e.tq}
      head == Fed(e, 0, 0, SubSeq(ids, 1, R), W(0..(R - 1)), C(0..(R - 1)))
      fed  == Fed(head, slot, R, SubSeq(ids, R + 1, n), W(R..(n - 1)), C(R..(n - 1)))
      s    == IF R = n THEN 0 ELSE slot
  IN  [fed EXCEPT !.pos = n, !.last = Sample(fed.rec[s], Attended(fed, s, n, e.tq /\ n > e.win))]

\* A prompt of one token is decoded.
FeedPrompt(e, slot, ids) ==
  IF Len(ids) = 1 \/ PfCap = 1 THEN Decode([e EXCEPT !.pos = 0], ids) ELSE LaunchPrefill(e, slot, ids)

\* prefill: the recurrent state of every slot is cleared.  Cache rows are left:
\* a context of more than 1024 is not cleared.
Prefill(e, ids) == FeedPrompt([e EXCEPT !.rec = [s \in DOMAIN @ |-> <<>>]], 0, ids)

PrefillSlot(e, ids, slot) == FeedPrompt(Zero(e, {slot}), slot, ids)

-----------------------------------------------------------------------------
(***************************************************************************)
(* The batch                                                               *)
(***************************************************************************)
\* toks[b] fed to slot b - 1 at poss[b].  Which rows a step stores and attends
\* is decided for all sequences by the position of the first; compact rows are
\* not stored inside the F16 window.  Blocks of different sequences run at
\* once: where one stores a row of another's, the other is taken to have read
\* it before.  pos_ is not touched.
DecodeTokens(e, toks, poss) ==
  LET slots      == 0..(Len(toks) - 1)
      compacted  == e.tq /\ poss[1] >= e.win
      hits       == {Row(e, s, poss[s + 1]) : s \in slots} \cap DOMAIN e.kv
      Hitting(r) == CHOOSE s \in slots : Row(e, s, poss[s + 1]) = r
      Decoded(s) == Sample(Append(e.rec[s], toks[s + 1]),
                           Append(Attended(e, s, poss[s + 1], compacted), toks[s + 1]))
  IN  [e EXCEPT
         !.rec = Over([s \in slots |-> Append(@[s], toks[s + 1])], @),
         !.kv = IF compacted THEN @ ELSE Over([r \in hits |-> toks[Hitting(r) + 1]], @),
         !.compact = IF ~compacted THEN @
                     ELSE Over([s \in slots |-> [@[s] EXCEPT ![poss[s + 1]] = toks[s + 1]]], @),
         !.best = Over([s \in slots |-> Decoded(s)], @)]

FitsPacked(T, B) == T * B <= SeqCap

\* prefill_eq_batch: prompts of equal length in one launch.  Only F16 rows are
\* stored.
PrefillEq(e, prompts) ==
  LET T     == Len(prompts[1])
      slots == 0..(Len(prompts) - 1)
      rows  == {r \in DOMAIN e.kv : r \div e.win \in slots /\ r % e.win < T}
  IN  [e EXCEPT
         !.rec = Over([s \in slots |-> @[s] \o prompts[s + 1]], @),
         !.kv = Over([r \in rows |-> prompts[r \div e.win + 1][(r % e.win) + 1]], @),
         !.best = Over([s \in slots |-> Sample(e.rec[s] \o prompts[s + 1], prompts[s + 1])], @)]
=============================================================================
