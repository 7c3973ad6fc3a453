----------------------------- MODULE MCSession -----------------------------
(***************************************************************************)
(* Contexts of a few rows over a vocabulary of two: prompts of every       *)
(* length up to one too many, generates that end inside the context and    *)
(* that run past it, drafts of up to two tokens.                           *)
(***************************************************************************)
EXTENDS SessionProps, SequencesExt

\* A model whose token depends on every input and on its order: two different
\* pairs of history and rows seldom give the same token by accident.
MCLM(r, c) ==
  (FoldLeft(LAMBDA a, x : (3 * a + x + 7) % 11, 1, r)
     + FoldLeft(LAMBDA a, x : (2 * a + x + 9) % 13, 2, c)) % Vocab
=============================================================================
