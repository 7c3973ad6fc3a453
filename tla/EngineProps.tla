---------------------------- MODULE EngineProps ----------------------------
(***************************************************************************)
(* What must hold of the CUDA engine, and how it implements DecodingEngine.*)
(***************************************************************************)
EXTENDS MtpEngine

\* The fields of the engine have the types the code gives them.
EngineTypeOK ==
  /\ gpu.pos \in 0..Ctx /\ gpu.last \in Token /\ gpu.tok \in Token
  /\ gpu.rec \in Seq(Token) /\ gpu.kv \in [0..(Ctx - 1) -> Token]
  /\ gpu.gen \in [0..(GenCap - 1) -> Token] /\ gpu.genN \in Nat
  /\ gpu.onDev \in BOOLEAN /\ gpu.toks \in Seq(Token)

Greedy(h) == IF h = <<>> THEN 0 ELSE Sample(h, h)

\* The sequence the attention rows stand for, when the recurrent state stands
\* for the same one; nothing otherwise.
Seen == IF gpu.rec = Rows(gpu.kv, gpu.pos) THEN gpu.rec ELSE <<-1>>

Abs == INSTANCE DecodingEngine WITH seen <- Seen, next <- gpu.last

\* An engine whose graphs are ones whose misses the code repairs (T=2, T=3 and T=4
\* with a snapshot, T=2 alone without), and whose MTP head keeps to GoodPaths, is
\* the tokens it consumed: no rejected draft survives in the recurrent state, no
\* stale row is read, and only drafts that greedy decoding would have produced are
\* consumed (cuda_engine.h: "Rolls state back to after toks[0..n_consumed)").
\* It fails with the other paths of the head, and with larger graphs.
ImplementsEngine == Abs!Spec

\* A verify, of a caller's drafts or of those of the MTP head, leaves the
\* recurrent state where the tokens it says it consumed lead, none of them twice
\* (cuda_engine.h:70: "Rolls state back to after toks[0..n_consumed)").  It holds
\* under the conditions of ImplementsEngine, and not with a graph of T=12.
RollsBack ==
  [][call'.op \in {"verify", "mtp"} => gpu'.rec = gpu.rec \o SubSeq(call'.toks, 1, call'.ret)]_evars

\* After decode_steps the copy out holds the n tokens it produced, however
\* many decodes went before.
GenHoldsTokens ==
  call.op = "steps" =>
    GenTokens(gpu, call.ret) =
      [k \in 1..call.ret |-> Append(gpu.rec, gpu.last)[Len(gpu.rec) + 1 - call.ret + k]]
=============================================================================
