----------------------------- MODULE BatchProps -----------------------------
(***************************************************************************)
(* What batched generation is checked for.                                 *)
(***************************************************************************)
EXTENDS BatchDecode

TokenSeq == Seq(Token)

\* A prompt that is prefilled by launches, not decoded.
Launched(ids) == Len(ids) > 1 /\ PfCap > 1

\* All positions of the call lie inside the F16 window.
Inside(e, ps, w) == \A i \in DOMAIN ps : Len(ps[i]) + Max({w, 1}) - 1 <= e.win

\* The calls whose slots the code keeps apart: prefilled slot by slot, no prompt
\* for a slot after the first is decoded or of the length of a captured tile;
\* with TurboQuant all positions lie inside the F16 window, or the prompts reach
\* to its end and are prefilled by launches that store the compact rows.
KeptApart(e, ps, w) ==
  /\ PrefillBy(e, ps) = "slots" =>
       \A i \in 2..Lanes(e, ps) : Launched(ps[i]) /\ (e.tile => Len(ps[i]) < PfCap)
  /\ e.tq => \/ Inside(e, ps, w)
             \/ /\ \A i \in DOMAIN ps : Len(ps[i]) >= e.win /\ Launched(ps[i])
                /\ PrefillBy(e, ps) # "packed"

\* The engine's slots, the call and its locals keep their types, and every
\* slot that is decoded has a token, a position and a prompt.
TypeOK ==
  /\ eng.rec \in [0..(eng.max - 1) -> TokenSeq]
  /\ eng.kv \in [0..(eng.max * eng.win - 1) -> Token \cup {Blank}]
  /\ eng.compact \in [0..(eng.max - 1) -> [0..(Ctx - 1) -> Token \cup {Blank}]]
  /\ eng.best \in [0..(eng.max - 1) -> Token] /\ eng.last \in Token /\ eng.pos \in 0..Ctx
  /\ pc \in {"idle", "alone", "same", "packed", "columns", "slots", "decode"}
  /\ prompts \in Seq(TokenSeq) /\ out \in Seq(TokenSeq) /\ Len(out) = Len(prompts)
  /\ toks \in TokenSeq /\ poss \in Seq(0..Ctx)
  /\ pc = "decode" => Len(toks) = Len(Batch) /\ Len(poss) = Len(Batch)

\* The inputs sequence b has been fed: its prompt and all but the last of its
\* tokens, which goes in next.
Given(b) == prompts[b] \o SubSeq(out[b], 1, Len(out[b]) - 1)

\* What the next step of the batch attends of sequence b.
AttendedNext(b) == Attended(eng, b - 1, poss[b], eng.tq /\ poss[1] >= eng.win)

\* Once sequence b has a slot, the slot's recurrent state, its position and, while
\* it is to get more tokens, the rows the next step will attend stand for that
\* sequence and for no other, whichever way it was prefilled and whatever the
\* slots held before.
SlotsHoldSequences ==
  pc \in {"slots", "decode"} =>
    \A b \in DOMAIN toks :
      /\ eng.rec[b - 1] = Given(b)
      /\ poss[b] = Len(Given(b))
      /\ Len(out[b]) < want => AttendedNext(b) = Given(b)

\* The header of the interface (cuda_engine.h, prefill_slot): "Prefill one
\* independent sequence into cache slot (0 .. max_batch()-1)".  A slot that has
\* been prefilled holds the sequence given for it.
PrefilledSlots ==
  pc \in {"slots", "decode"} =>
    \A b \in DOMAIN toks : Len(out[b]) = 1 => eng.rec[b - 1] = prompts[b]

\* The attention kernel (cuda_engine.cu, qk_attn_decode_k): "Persist compact KV
\* whenever buffers are bound, including the F16 window (pos<kv_win_).
\* Otherwise the first pos>=win attend reads uninitialized tq for tokens
\* 0..win-1."  With TurboQuant every position that was fed has a compact row.
CompactPersisted ==
  pc = "decode" /\ eng.tq =>
    \A b \in DOMAIN toks : \A p \in 0..(poss[b] - 1) : eng.compact[b - 1][p] # Blank

\* Generation in a batch is greedy decoding of each prompt on its own
\* (IndependentDecoding), for the sequences that have a slot.
Independent ==
  INSTANCE IndependentDecoding WITH
    Prompts <- TokenSeq, Greedy <- LAMBDA ctx : Sample(ctx, ctx),
    lanes <- eng.max, busy <- pc # "idle"

ImplementsIndependent == Independent!Spec

\* A bound on the steps until the call returns.
StepsLeft ==
  CASE pc = "idle"    -> 0
    [] pc = "alone"   -> 1 + Len(prompts) - Len(toks)
    [] pc = "decode"  -> 1 + Max({0, want - Len(out[1])})
    [] pc = "slots"   -> 2 + MaxWant + Len(Batch) - Len(toks)
    [] pc = "columns" -> 2 + MaxWant + Len(prompts[1]) - poss[1]
    [] OTHER          -> 3 + MaxWant + Ctx + eng.max

\* Every step of generate_batch brings its return nearer, whatever the batch:
\* the loop ends although it counts the tokens of all sequences together and
\* looks at their number.
NearsReturn == [][pc # "idle" => StepsLeft' < StepsLeft]_vars
=============================================================================
