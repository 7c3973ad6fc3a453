------------------------------ MODULE MCEngine ------------------------------
(***************************************************************************)
(* An engine of a few rows over a vocabulary of two, and the graphs that   *)
(* build() may leave it with.  MCMtp.cfg is there to try the paths of the  *)
(* MTP head that violate RollsBack, one after the other.                   *)
(***************************************************************************)
EXTENDS EngineProps

OfState(r) ==
  LET h[k \in 0..Len(r)] == IF k = 0 THEN 1 ELSE (3 * h[k - 1] + r[k] + 7) % 11 IN h[Len(r)]
OfRows(c) ==
  LET h[k \in 0..Len(c)] == IF k = 0 THEN 2 ELSE (2 * h[k - 1] + c[k] + 9) % 13 IN h[Len(c)]

\* One value in three is no token: logits without a maximum.
MCLM(r, c) == (OfState(r) + OfRows(c)) % (Vocab + 1)

\* Graphs whose misses the code repairs: any of them up to four tokens with a
\* snapshot, only that of two without.
ShortBuilds ==
  [graphs : {{2}, {2, 3}}, snap : {TRUE}, mtp : {FALSE}]
    \cup [graphs : {{2, 3, 4}}, snap : {TRUE}, mtp : {TRUE}]
    \cup [graphs : {{}, {2}}, snap : {FALSE}, mtp : {FALSE}]

\* Engines with an MTP head, with and without the snapshot.
MtpBuilds ==
  [graphs : {{2, 3, 4}}, snap : {TRUE}, mtp : {TRUE}]
    \cup [graphs : {{2}}, snap : {FALSE}, mtp : {TRUE}]

\* Row-major FP8 weights: T=12 is captured right after T=2.
Fp8Builds == [graphs : {{2, 12}}, snap : {TRUE}, mtp : {FALSE}]
=============================================================================
