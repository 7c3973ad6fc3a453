--------------------------- MODULE WorkerPoolProps ---------------------------
(***************************************************************************)
(* What must hold of the worker pool, and how it implements ParallelFor.   *)
(***************************************************************************)
EXTENDS WorkerPool

FlagsOK == stop_ \in BOOLEAN /\ done_ \in BOOLEAN

ValuesOK ==
  /\ n_ \in 0..MaxThreads
  /\ job_ \in 0..MaxCalls
  /\ next_ \in Nat
  /\ remaining_ \in 0..MaxThreads
  /\ job_n_ \in 0..MaxItems
  /\ grain_ \in Nat \ {0}
  /\ epoch_ \in Nat
  /\ asleep \subseteq Thread
  /\ pc \in [Worker -> InLoop \cup {"none", "enter", "signal", "exited"}]
  /\ seen \in [Worker -> Nat]
  /\ job \in [Worker -> 0..MaxCalls]
  /\ b \in [Worker -> Nat]
  /\ e \in [Worker -> 0..MaxItems]
  /\ cpc \in {"new", "idle", "rs_notify", "rs_join", "de_notify", "de_join", "gone",
              "in_run", "in_return", "pf_wait"}
  /\ calls \in 0..MaxCalls
  /\ want \in Nat
  /\ execs \in [Item -> Nat]

\* Every variable has the type the code gives it.
TypeOK == FlagsOK /\ ValuesOK

\* No worker is inside the job loop once parallel_for has returned: fn holds
\* references to the caller's stack (cpu_caps.cpp), and next_, job_n_ and
\* grain_ are read without mu_, so a straggler of call k would take chunks of
\* call k+1 and run them with the function of call k.
NoStraggler ==
  \A w \in Worker : pc[w] \in InLoop => cpc = "pf_wait" /\ job[w] = job_ /\ job[w] = calls

\* The pool as a parallel_for: fn applied to every item of the call once
\* before it returns, whatever chunks the workers fetch.
Active == cpc \in {"in_run", "in_return", "pf_wait"}
Unfinished ==
  IF cpc = "pf_wait" THEN {i \in Item : i < job_n_ /\ execs[i] = 0}
  ELSE IF cpc = "in_run" THEN {i \in Item : i < want /\ execs[i] = 0}
  ELSE {}

Abs == INSTANCE ParallelFor WITH active <- Active, todo <- Unfinished, ran <- execs

\* Every step of the pool is a step of ParallelFor or leaves it unchanged.
ImplementsParallelFor == Abs!Spec

\* A parallel_for that was called returns, whatever the order the workers
\* wake in and however late one of them starts.
ParallelForReturns == Abs!Returns

\* set_threads and the destructor get past their join: no worker sleeps
\* through stop_, although notify_all comes after the unlock.
JoinsEnd == (cpc \in {"rs_notify", "de_notify"}) ~> (cpc \in {"idle", "gone"})
=============================================================================
