------------------------------- MODULE MCBatch -------------------------------
(***************************************************************************)
(* An engine with up to three slots, prompts of up to three tokens and     *)
(* prefill launches of two.                                                *)
(***************************************************************************)
EXTENDS BatchProps, SequencesExt

Histories == UNION {[1..n -> Token] : n \in 0..Ctx}
Rows == UNION {[1..n -> 0..Blank] : n \in 0..Ctx}

\* A table, so that it is computed once.  One value in three is no token: logits
\* without a maximum.  A slot that was fed too much has no entry.
Model ==
  [r \in Histories, c \in Rows |->
     (FoldLeft(LAMBDA a, x : (3 * a + x + 7) % 11, 1, r)
        + FoldLeft(LAMBDA a, x : (2 * a + x + 9) % 13, 2, c)) % (Vocab + 1)]

MCLM(r, c) == IF Len(r) <= Ctx THEN Model[r, c] ELSE Vocab

A == <<0>>      B == <<1, 0>>      C == <<0, 1>>      D == <<1, 1, 0>>     E == <<0, 1, 1>>

SomeBatches ==
  {<<B>>, <<B, B>>, <<B, C>>, <<D, E>>, <<A, B>>, <<C, E>>, <<E, C>>, <<B, A>>, <<D, D, D>>, <<B, C, B>>,
   <<A, E, C>>, <<C, D, A>>}

\* A plain engine, one with TurboQuant whose window is two rows, and one whose
\* prefill tiles are captured.
Plain == [max : {1, 2, 3}, win : {Ctx}, tq : {FALSE}, flash : {TRUE}, tile : {FALSE}]
Turbo == [max : {2}, win : {2}, tq : {TRUE}, flash : BOOLEAN, tile : {FALSE}]
Tiles == [max : {2}, win : {Ctx}, tq : {FALSE}, flash : {TRUE}, tile : {TRUE}]
AllKinds == Plain \cup Turbo \cup Tiles

AnyCall(e, ps, w) == TRUE
=============================================================================
