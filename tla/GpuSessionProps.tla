-------------------------- MODULE GpuSessionProps --------------------------
(***************************************************************************)
(* What must hold of a session on the GPU, which makes the same promise to *)
(* its client as one on the CPU, except that generate may leave the        *)
(* context unfit to go on from.                                            *)
(***************************************************************************)
EXTENDS GpuSession, EngineProps

\* Between calls the engine holds what the token list says, in its recurrent
\* state and in its rows, and greedy() follows from it.  A generate without
\* drafts leaves it one token short (its last one is not decoded), one with the
\* engine's MTP head may leave it some tokens ahead.  The head keeps to GoodPaths:
\* on the paths again, lost and retry the engine has consumed tokens that the list
\* lacks, or some twice.
EngineMatchesContext ==
  pc = "idle" /\ ~behind =>
    /\ gpu.rec = ctx_tokens_
    /\ gpu.pos = Len(ctx_tokens_) /\ Rows(gpu.kv, gpu.pos) = ctx_tokens_
    /\ gpu.last = Greedy(ctx_tokens_)

Answers == ~(pc = "idle" /\ behind)
Context == IF Answers THEN ctx_tokens_ ELSE <<>>
Busy == pc # "idle"

Promise == INSTANCE GreedyDecoding
  WITH Input <- Token, good <- Answers, seen <- Context, busy <- Busy, Forgets <- TRUE

\* Without drafts, with n-gram drafts, and with those of the MTP head on the paths
\* of GoodPaths, generate produces the tokens of greedy decoding, as many as it was
\* asked for (test_spec.cpp:77: "spec generate changed greedy tokens"), where the
\* engine's graphs are ones whose misses the code repairs and want - 1 is at most
\* GenCap.
ImplementsGreedy == Promise!Spec

\* A generate returns.
GenerateReturns == Promise!Ends
=============================================================================
