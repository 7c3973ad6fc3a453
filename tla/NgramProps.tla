----------------------------- MODULE NgramProps -----------------------------
(***************************************************************************)
(* What the n-gram drafter promises the speculative loop of                *)
(* Session::generate, over every context that can be built token by token. *)
(***************************************************************************)
EXTENDS Ngram

CONSTANTS
  Token,   \* the vocabulary
  MaxLen,  \* bound on the context
  MaxTake  \* bound on the drafts asked for

ASSUME NgramAssumption == {MaxLen, MaxTake} \subseteq Nat

VARIABLE ctx  \* the tokens of the session, the one about to be fed included

Init == ctx = <<>>

Next == Len(ctx) < MaxLen /\ \E t \in Token : ctx' = Append(ctx, t)

Spec == Init /\ [][Next]_ctx

Draft(n) == NgramDraft(ctx, ctx[Len(ctx)], n)

\* A repetition is never missed: the drafter proposes something exactly when
\* the last token of the context occurred before.
ProposesOnRepeat ==
  ctx # <<>> =>
    \A n \in 1..MaxTake :
      Draft(n) # <<>> <=> \E i \in 1..(Len(ctx) - 1) : ctx[i] = ctx[Len(ctx)]

Periodic(p) == \A i \in 1..(Len(ctx) - p) : ctx[i] = ctx[i + p]

\* On a context that repeats with a period of at most three (the benchmark
\* prompt 1,2,3,1,2,3,...) every draft is the token the repetition continues
\* with, and at least three of them are proposed when that many were asked.
ContinuesPeriod ==
  \A p \in 1..3 :
    Periodic(p) /\ Len(ctx) >= 8 =>
      \A n \in 1..MaxTake :
        /\ Len(Draft(n)) >= Min({n, 3})
        /\ \A k \in 1..Len(Draft(n)) : Draft(n)[k] = ctx[Len(ctx) - p + 1 + ((k - 1) % p)]
=============================================================================
