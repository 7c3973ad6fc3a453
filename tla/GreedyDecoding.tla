--------------------------- MODULE GreedyDecoding ---------------------------
(***************************************************************************)
(* What a session promises its client (src/include/rapidllm/api.h and      *)
(* src/tests/test_spec.cpp): it holds a context, a sequence of model       *)
(* inputs; generate appends the tokens that greedy decoding of that        *)
(* context yields, however they are computed.  The promise covers contexts *)
(* of up to Ctx inputs.                                                    *)
(***************************************************************************)
EXTENDS Integers, Sequences

CONSTANTS
  Input,      \* what a position of the context can hold
  Ctx,        \* positions of the context
  Forgets,    \* the context may be gone once a generate has ended
  Greedy(_)   \* the token greedy decoding appends to a context

VARIABLES
  good,   \* the session answers for a context
  seen,   \* that context; <<>> when there is none
  busy,   \* a generate is under way
  want,   \* how many tokens it is to produce
  out     \* the tokens it has produced

vars == <<good, seen, busy, want, out>>

Init == good = TRUE /\ seen = <<>> /\ busy = FALSE /\ want = 0 /\ out = <<>>

Extend(t) ==
  IF good /\ Len(seen) < Ctx
  THEN good' = TRUE /\ seen' = Append(seen, t)
  ELSE good' = FALSE /\ seen' = <<>>

\* The client replaces the context.
Reset ==
  /\ ~busy /\ good' = TRUE /\ seen' \in Seq(Input) /\ Len(seen') \in 1..Ctx
  /\ UNCHANGED <<busy, want, out>>

\* A replacement failed half way: the old context is gone.
Lose == ~busy /\ good' = FALSE /\ seen' = <<>> /\ UNCHANGED <<busy, want, out>>

\* The client appends a token of its own.
Consume == ~busy /\ \E t \in Input : Extend(t) /\ UNCHANGED <<busy, want, out>>

Begin ==
  /\ ~busy /\ good' = TRUE /\ seen' \in Seq(Input) /\ Len(seen') \in 1..Ctx
  /\ busy' = TRUE /\ want' \in Nat /\ out' = <<>>

Emit ==
  /\ busy /\ Len(out) < want
  /\ \E t \in Input :
       /\ good => t = Greedy(seen)
       /\ out' = Append(out, t)
       /\ Extend(t)
  /\ UNCHANGED <<busy, want>>

\* The tokens are handed over.
End ==
  /\ busy /\ Len(out) = want
  /\ busy' = FALSE /\ want' = 0 /\ out' = <<>>
  /\ \/ UNCHANGED <<good, seen>>
     \/ Forgets /\ good' = FALSE /\ seen' = <<>>

Next == Reset \/ Lose \/ Consume \/ Begin \/ Emit \/ End

Spec == Init /\ [][Next]_vars

\* A generate that was begun ends.
Ends == busy ~> ~busy
=============================================================================
