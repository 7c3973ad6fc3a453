------------------------- MODULE IndependentDecoding -------------------------
(***************************************************************************)
(* What batched generation promises (src/include/rapidllm/api.h,           *)
(* "Independent prompts", and src/tests/test_batch.cpp): the sequences of  *)
(* a batch share the weight pass and nothing else.  Each gets the tokens   *)
(* greedy decoding of its own prompt yields, in order, however they are    *)
(* computed.  Only the first lanes sequences are served by an engine with  *)
(* that many slots, lanes > 1; an engine with one serves them in turn.     *)
(***************************************************************************)
EXTENDS Integers, Sequences

CONSTANTS
  Prompts,    \* the prompts a batch can hold
  Greedy(_)   \* the token greedy decoding appends to a context

VARIABLES
  lanes,     \* slots of the engine
  busy,      \* a call is under way
  prompts,   \* its prompts
  want,      \* how many tokens each is to get
  out        \* the tokens each has got

vars == <<lanes, busy, prompts, want, out>>

Init == lanes \in Nat /\ ~busy /\ prompts = <<>> /\ want = 0 /\ out = <<>>

Begin ==
  /\ ~busy /\ busy'
  /\ prompts' \in Seq(Prompts) /\ want' \in Nat
  /\ out' = [i \in DOMAIN prompts' |-> <<>>]
  /\ UNCHANGED lanes

\* new continues old with greedy tokens of prompt p.
Continues(p, old, new) ==
  /\ Len(old) <= Len(new) /\ SubSeq(new, 1, Len(old)) = old
  /\ \A k \in (Len(old) + 1)..Len(new) : new[k] = Greedy(p \o SubSeq(new, 1, k - 1))

Produce ==
  /\ busy
  /\ DOMAIN out' = DOMAIN out
  /\ \A i \in DOMAIN out : Continues(prompts[i], out[i], out'[i])
  /\ UNCHANGED <<lanes, busy, prompts, want>>

\* A batch that is asked for none still gets the token its prefill yields.
Complete(i) == Len(out[i]) = want \/ (want = 0 /\ Len(out[i]) = 1)

Served(i) == lanes <= 1 \/ Len(prompts) = 1 \/ i <= lanes

End ==
  /\ busy /\ ~busy'
  /\ \A i \in DOMAIN prompts : IF Served(i) THEN Complete(i) ELSE out[i] = <<>>
  /\ prompts' = <<>> /\ want' = 0 /\ out' = <<>>
  /\ UNCHANGED lanes

Next == Begin \/ Produce \/ End

Spec == Init /\ [][Next]_vars
=============================================================================
