----------------------------- MODULE ParallelFor -----------------------------
(***************************************************************************)
(* What parallel_for promises its caller (src/include/rapidllm/runtime/    *)
(* thread_pool.h and its callers in src/src/kernels/cpu_caps.cpp): between *)
(* the call and the return, fn is applied to every item of [0, nitems)     *)
(* once and to nothing else, in any order and any grouping; after the      *)
(* return nothing of the call is left running.                             *)
(***************************************************************************)
EXTENDS Integers

CONSTANT MaxItems

Item == 0..(MaxItems - 1)

VARIABLES
  active,  \* a parallel_for has been called and has not returned
  todo,    \* the items of that call fn has not been applied to
  ran      \* how often fn was applied to each item since the last call

vars == <<active, todo, ran>>

Init ==
  /\ active = FALSE
  /\ todo = {}
  /\ ran = [i \in Item |-> 0]

Call ==
  /\ ~active
  /\ active' = TRUE
  /\ \E nitems \in 1..MaxItems : todo' = 0..(nitems - 1)
  /\ ran' = [i \in Item |-> 0]

\* Some thread applies fn to a chunk of items nobody has taken.
Apply ==
  /\ active
  /\ \E chunk \in SUBSET todo :
       /\ todo' = todo \ chunk
       /\ ran' = [i \in Item |-> IF i \in chunk THEN 1 ELSE ran[i]]
  /\ UNCHANGED active

Return ==
  /\ active /\ todo = {}
  /\ active' = FALSE
  /\ UNCHANGED <<todo, ran>>

Next == Call \/ Apply \/ Return

Spec == Init /\ [][Next]_vars

\* A call that was made returns.
Returns == active ~> ~active
=============================================================================
