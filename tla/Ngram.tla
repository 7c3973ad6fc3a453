------------------------------- MODULE Ngram -------------------------------
(***************************************************************************)
(* The n-gram drafter (src/src/runtime/ngram_draft.cpp): guess the next    *)
(* tokens of a context from what followed the last earlier occurrence of   *)
(* its final three, two or one tokens.  Positions count from 1.            *)
(***************************************************************************)
EXTENDS Integers, Sequences, FiniteSetsExt

\* The context with the token about to be fed, unless it already ends in it.
Hay(ctx, first) == IF ctx[Len(ctx)] = first THEN ctx ELSE Append(ctx, first)

\* Faulty variant: an occurrence may be the suffix itself.
OccurrencesOfItself(hay, ng) ==
  {i \in 1..(Len(hay) - ng + 1) :
     \A j \in 0..(ng - 1) : hay[i + j] = hay[Len(hay) - ng + 1 + j]}

\* Where the last ng tokens of hay occur without overlapping them.
Occurrences(hay, ng) ==
  {i \in 1..(Len(hay) - 2 * ng + 1) :
     \A j \in 0..(ng - 1) : hay[i + j] = hay[Len(hay) - ng + 1 + j]}

\* Faulty variant: the copy starts with the last token of the occurrence.
ContinuationEarly(hay, ng, n) ==
  LET found == Max(Occurrences(hay, ng)) + ng - 1
  IN  SubSeq(hay, found, Min({Len(hay), found + n - 1}))

\* At most n tokens of what follows the last of those occurrences.
Continuation(hay, ng, n) ==
  LET found == Max(Occurrences(hay, ng)) + ng
  IN  SubSeq(hay, found, Min({Len(hay), found + n - 1}))

NgramDraft(ctx, first, n) ==
  IF n <= 0 \/ ctx = <<>> THEN <<>>
  ELSE LET hay  == Hay(ctx, first)
           hn   == Len(hay)
           long == {ng \in 2..3 : Occurrences(hay, ng) # {}}
       IN  IF long # {} THEN Continuation(hay, Max(long), n)
           ELSE IF hn >= 2 /\ hay[hn] = hay[hn - 1] THEN [k \in 1..n |-> hay[hn]]
           ELSE IF Occurrences(hay, 1) # {} THEN Continuation(hay, 1, n)
           ELSE <<>>
=============================================================================
