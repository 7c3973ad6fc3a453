---------------------------- MODULE MCGpuSession ----------------------------
(***************************************************************************)
(* A GPU session with five rows and prompts of up to two tokens.           *)
(***************************************************************************)
EXTENDS GpuSessionProps, SequencesExt

\* Tables by length, so that they are computed once.
OfState ==
  [n \in 0..Ctx |-> [r \in [1..n -> Token] |-> FoldLeft(LAMBDA a, x : (3 * a + x + 7) % 11, 1, r)]]
OfRows ==
  [n \in 0..Ctx |-> [c \in [1..n -> Token] |-> FoldLeft(LAMBDA a, x : (2 * a + x + 9) % 13, 2, c)]]

\* No more inputs than rows are absorbed, except where the code is mutated.
MCLM(r, c) == IF Len(r) <= Ctx THEN (OfState[Len(r)][r] + OfRows[Len(c)][c]) % Vocab ELSE 0

SomeBuilds ==
  [graphs : {{2, 3, 4}}, snap : {TRUE}, mtp : {TRUE}]
    \cup [graphs : {{2}}, snap : {FALSE}, mtp : {FALSE}]
=============================================================================
