----------------------------- MODULE CudaEngine -----------------------------
(***************************************************************************)
(* The CUDA engine of one sequence (EngineImpl in                          *)
(* src/src/kernels/cuda/cuda_engine.cu, behind the interface               *)
(* src/include/rapidllm/runtime/cuda_engine.h): prefill, decode_token,     *)
(* decode_steps, copy_gen_tokens and spec_verify with its CUDA graphs.     *)
(*                                                                         *)
(* As in Session, the device memory is kept by what it was computed from:  *)
(* rec are the inputs the recurrent and convolution states absorbed, kv[p] *)
(* the input row p was written for.  spec_verify feeds several tokens at   *)
(* once and takes the rejected ones back: attention rows simply go stale   *)
(* past pos_, the recurrent state has to be restored from a snapshot.      *)
(***************************************************************************)
EXTENDS Integers, Sequences, FiniteSetsExt

CONSTANTS
  Vocab,      \* tokens are 0..Vocab-1
  Ctx,        \* ctx_: rows of the attention cache
  LM(_, _),   \* the model: recurrent history and cache rows to a token
  Builds,     \* what build() can leave: [graphs, snap, mtp], see Init
  GenCap,     \* kGenCap, the size of d_gen_out_
  MaxPrompt,  \* bound on a prompt's length
  MaxSteps,   \* bound on the n of decode_steps
  MaxDraft    \* bound on the T of spec_verify

\* The graph of six tokens is left out: its launch copies host memory as if it
\* were device memory, which CUDA leaves undefined.
GraphSizes == {2, 3, 4, 12}

ASSUME EngineAssumption ==
  /\ {Vocab, Ctx, GenCap} \subseteq Nat \ {0}
  /\ {MaxPrompt, MaxSteps} \subseteq Nat /\ MaxDraft \in 1..12
  /\ Builds \subseteq [graphs : SUBSET GraphSizes, snap : BOOLEAN, mtp : BOOLEAN]

Token == 0..(Vocab - 1)

VARIABLES
  gpu,   \* the engine's fields, see Init
  call   \* the last call and what it returned

evars == <<gpu, call>>

\* The decode kernels and lm_head: what the layers compute from the history and
\* the cache rows they have just extended.
Forward(r, c) == LM(r, c)

\* Faulty variant: no index when no logit is a maximum.
SampleNone(r, c) == IF Forward(r, c) \in Token THEN Forward(r, c) ELSE -1

\* The argmax kernels start from index 0: without a maximum (NaN) it is 0.
Sample(r, c) == LET best == Forward(r, c) IN IF best \in Token THEN best ELSE 0

Rows(kv, n) == [k \in 1..n |-> kv[k - 1]]

\* kv with the tokens toks written from row p on.
Write(kv, p, toks) ==
  [r \in DOMAIN kv |-> IF r \in p..(p + Len(toks) - 1) THEN toks[r - p + 1] ELSE kv[r]]

(***************************************************************************)
(* The engine after build().  A graph of every size may have been captured *)
(* or not: row-major FP8 weights, a small hidden size or workspace, or a   *)
(* CUDA error end maybe_capture_spec early.  snap is spec_t0_snap_: the    *)
(* graphs save the recurrent state after their first token.  mtp: the      *)
(* weights have an MTP head.  onDev is mtp_toks_on_dev_, toks what d_toks_ *)
(* holds where a verify may read it.                                       *)
(***************************************************************************)
Init ==
  /\ \E b \in Builds :
       gpu = [pos |-> 0, last |-> 0, tok |-> 0, rec |-> <<>>,
              kv |-> [r \in 0..(Ctx - 1) |-> 0],
              gen |-> [k \in 0..(GenCap - 1) |-> 0], genN |-> 0,
              graphs |-> b.graphs, snap |-> b.snap, mtp |-> b.mtp,
              onDev |-> FALSE, toks |-> <<>>]
  /\ call = [op |-> "build", toks |-> <<>>, ret |-> 0, preds |-> <<>>]

(***************************************************************************)
(* decode                                                                  *)
(***************************************************************************)
\* The greedy token after the first i of toks.
Best(e, toks, i) ==
  Sample(e.rec \o SubSeq(toks, 1, i), Rows(e.kv, e.pos) \o SubSeq(toks, 1, i))

\* toks decoded one after the other, each a replay of the decode graph: its
\* argmax goes to d_best_, to d_tok_ for the next replay, and to
\* d_gen_out_[d_gen_n_++], which is not checked to have room: past GenCap the
\* buffer stays as it is, and genN is counted no further.
Decode(e, toks) ==
  LET n == Len(toks)
      b == Best(e, toks, n)
  IN  [e EXCEPT !.rec = @ \o toks, !.kv = Write(@, e.pos, toks), !.pos = @ + n,
                !.last = b, !.tok = b,
                !.gen = [k \in DOMAIN @ |-> IF k \in e.genN..(e.genN + n - 1)
                                             THEN Best(e, toks, k - e.genN + 1) ELSE @[k]],
                !.genN = Min({@ + n, GenCap})]

\* The n tokens decoded when first is fed and then each token that results.
SelfFed(e, first, n) ==
  CHOOSE s \in [1..n -> Token] : s[1] = first /\ \A k \in 2..n : s[k] = Best(e, s, k - 1)

\* Faulty variant: the tokens are appended to those of earlier decodes.
StepsNoReset(e, n) ==
  IF n > GenCap THEN Decode(e, SelfFed(e, e.last, n)) ELSE Decode(e, SelfFed(e, e.tok, n))

\* decode_steps: more tokens than d_gen_out_ holds are fed with greedy(), and
\* d_gen_n_ is not reset.
Steps(e, n) ==
  IF n > GenCap THEN Decode(e, SelfFed(e, e.last, n))
  ELSE Decode([e EXCEPT !.genN = 0], SelfFed(e, e.tok, n))

\* copy_gen_tokens.
GenTokens(e, n) == [k \in 1..Min({n, GenCap}) |-> e.gen[k - 1]]

(***************************************************************************)
(* prefill                                                                 *)
(***************************************************************************)
\* A prompt of one token is decoded.  Rows of the sequence before are left:
\* a context of more than 1024 is not cleared.
PrefillEngine(e, ids) ==
  IF Len(ids) = 1 THEN Decode([e EXCEPT !.rec = <<>>, !.pos = 0], ids)
  ELSE LET b == Sample(ids, ids)
       IN  [e EXCEPT !.rec = ids, !.kv = Write(@, 0, ids), !.pos = Len(ids), !.last = b, !.tok = b]

(***************************************************************************)
(* spec_verify                                                             *)
(***************************************************************************)
\* A graph of size g feeds the first g tokens.
Launch(e, toks, g) ==
  [e EXCEPT !.rec = @ \o SubSeq(toks, 1, g), !.kv = Write(@, e.pos, SubSeq(toks, 1, g))]

\* How many of the first g tokens hold: the first always does.
Holding(e, toks, g) ==
  Max({m \in 1..g : \A i \in 1..(m - 1) : toks[i + 1] = Best(e, toks, i)})

Hit(e, toks, g) ==
  [e |-> [Launch(e, toks, g) EXCEPT !.pos = @ + g, !.last = Best(e, toks, g)], n |-> g]

\* The recurrent state as the graph saved it after its first token.
Restored(e, toks, g) == [Launch(e, toks, g) EXCEPT !.rec = Append(e.rec, toks[1])]

\* Faulty variant: the recurrent state keeps the rejected tokens.
KeepFirstUnrestored(e, toks, g) ==
  [Launch(e, toks, g) EXCEPT !.pos = @ + 1, !.last = Best(e, toks, 1), !.tok = toks[1]]

KeepFirst(e, toks, g) ==
  [Restored(e, toks, g) EXCEPT !.pos = @ + 1, !.last = Best(e, toks, 1), !.tok = toks[1]]

\* Only toks[0] is kept.  Without a snapshot it is decoded again: for T=2 from
\* the backup made before the launch, for the others from what the graph left.
Miss(e, toks, g) ==
  [e |-> IF e.snap THEN KeepFirst(e, toks, g)
         ELSE IF g = 2 THEN Decode(e, <<toks[1]>>)
         ELSE Decode(Launch(e, toks, g), <<toks[1]>>),
   n |-> 1]

\* two_phase: decode while the token is the one that was predicted.
TwoPhase(e, toks, n) ==
  LET m == Holding(e, toks, n) IN [e |-> Decode(e, SubSeq(toks, 1, m)), n |-> m]

Captured(e, T, sizes) == {g \in e.graphs \cap sizes : g <= T}

\* The graphs of two, three and four tokens.  After a snapshot T=4 decodes one
\* more token that held, the others keep only the first.
VerifyShort(e, toks, T) ==
  LET fits == Captured(e, T, {2, 3, 4})
      g == Max(fits)
      m == Holding(e, toks, g)
  IN  IF fits = {} THEN TwoPhase(e, toks, T)
      ELSE IF m = g THEN Hit(e, toks, g)
      ELSE IF g = 4 /\ m >= 2 /\ e.snap
           THEN [e |-> Decode(KeepFirst(e, toks, 4), <<toks[2]>>), n |-> 2]
      ELSE Miss(e, toks, g)

\* T=12 starts over at pos0 with the prefix that held.
StartOver(e, toks) == IF e.snap THEN Restored(e, toks, 12) ELSE Launch(e, toks, 12)

Verify12(e, toks, T) ==
  LET m == Holding(e, toks, 12)
  IN  IF Captured(e, T, {12}) = {} THEN VerifyShort(e, toks, T)
      ELSE IF m = 12 THEN Hit(e, toks, 12)
      ELSE IF m = 1 THEN Miss(e, toks, 12)
      ELSE VerifyShort(StartOver(e, toks), toks, IF m >= 6 THEN 6 ELSE Min({m, 4}))

\* The tokens the graphs read: while the flag says that the drafts are on the
\* device already, those, whatever the caller passes.
Fed(e, toks) ==
  IF e.onDev /\ Captured(e, Len(toks), GraphSizes) # {} THEN SubSeq(e.toks, 1, Len(toks)) ELSE toks

SpecVerify(e, toks) == Verify12(e, Fed(e, toks), Len(toks))

-----------------------------------------------------------------------------
(***************************************************************************)
(* The calls                                                               *)
(***************************************************************************)
Prefill(ids) ==
  /\ Len(ids) \in 1..Ctx
  /\ gpu' = PrefillEngine(gpu, ids)
  /\ call' = [op |-> "prefill", toks |-> ids, ret |-> 0, preds |-> <<>>]

DecodeToken(t) ==
  /\ gpu.pos < Ctx
  /\ gpu' = Decode(gpu, <<t>>)
  /\ call' = [op |-> "decode", toks |-> <<t>>, ret |-> 0, preds |-> <<>>]

\* Session calls decode_steps right after a prefill.
DecodeSteps(n) ==
  /\ call.op = "prefill"
  /\ gpu.pos + n <= Ctx
  /\ gpu' = Steps(gpu, n)
  /\ call' = [op |-> "steps", toks |-> <<>>, ret |-> n, preds |-> <<>>]

\* Session verifies drafts after a prompt.  preds[i] is set to the token i that
\* was fed, for the tokens consumed.
SpecVerifyCall(toks) ==
  /\ gpu.pos > 0 /\ gpu.pos + Len(toks) <= Ctx
  /\ LET v == SpecVerify(gpu, toks)
     IN  /\ gpu' = v.e
         /\ call' = [op |-> "verify", toks |-> toks, ret |-> v.n,
                     preds |-> SubSeq(Fed(gpu, toks), 1, v.n)]
=============================================================================
