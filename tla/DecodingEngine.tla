--------------------------- MODULE DecodingEngine ---------------------------
(***************************************************************************)
(* What src/include/rapidllm/runtime/cuda_engine.h promises of a decoding  *)
(* engine: it is the sequence of tokens it has consumed, greedy() is the   *)
(* token greedy decoding appends to that sequence, and no trace is left of *)
(* the tokens a speculative verify did not consume.                        *)
(***************************************************************************)
EXTENDS Integers, Sequences

CONSTANTS
  Token,
  Greedy(_)   \* the token greedy decoding appends to a sequence

VARIABLES
  seen,   \* the tokens consumed
  next,   \* greedy()
  call    \* the last call: its name, its tokens and its result

vars == <<seen, next, call>>

Init == seen = <<>> /\ next = 0 /\ call.op = "build"

\* From position k on, s only has tokens that are greedy after those before.
GreedyFrom(s, k) == \A i \in k..Len(s) : s[i] = Greedy(SubSeq(s, 1, i - 1))

\* The tokens this step consumed.
Consumed == SubSeq(seen', Len(seen) + 1, Len(seen'))

Prefill == call'.op = "prefill" /\ seen' = call'.toks

DecodeToken == call'.op = "decode" /\ seen' = seen \o call'.toks

DecodeSteps ==
  /\ call'.op = "steps"
  /\ seen' = seen \o Consumed /\ Len(Consumed) = call'.ret
  /\ GreedyFrom(seen', Len(seen) + 1)

SpecVerify ==
  /\ call'.op \in {"verify", "mtp"}
  /\ call'.ret \in 1..Len(call'.toks)
  /\ seen' = seen \o SubSeq(call'.toks, 1, call'.ret)
  /\ GreedyFrom(seen', Len(seen) + 2)

Next ==
  /\ Prefill \/ DecodeToken \/ DecodeSteps \/ SpecVerify
  /\ next' = Greedy(seen')

Spec == Init /\ [][Next]_vars
=============================================================================
