---------------------------- MODULE WorkerPoolInv ----------------------------
(***************************************************************************)
(* The inductive invariant behind the safety of the worker pool.           *)
(***************************************************************************)
EXTENDS WorkerPoolProps

Stopping == {"rs_notify", "rs_join", "de_notify", "de_join", "gone"}

\* Which threads exist, and which of them may be anywhere but in the wait.
Lifecycle ==
  /\ stop_ <=> cpc \in Stopping
  /\ cpc \in {"rs_notify", "rs_join"} => want \in 1..MaxThreads
  /\ cpc = "in_run" => want \in 1..MaxItems /\ execs = [i \in Item |-> 0]
  /\ \A w \in Worker :
       /\ pc[w] = "none" <=> w > n_
       /\ pc[w] = "exited" => stop_
       /\ seen[w] <= epoch_
  /\ cpc # "pf_wait" =>
       /\ job_ = NoJob
       /\ \A w \in Worker : pc[w] \notin InLoop \cup {"signal"}

\* The workers parallel_for still has to hear from: those inside the job
\* loop and those that have not seen the epoch yet.
Pending == {w \in Worker : pc[w] \in InLoop \/ (w <= n_ /\ seen[w] # epoch_)}

\* remaining_ counts them, so that it reaches zero, and done_ is set, only
\* when the last of them has left the job loop.
Barrier ==
  cpc = "pf_wait" =>
    /\ n_ >= 2
    /\ job_ = calls /\ job_ # NoJob
    /\ \A w \in Worker :
         pc[w] \in InLoop \cup {"signal"} => seen[w] = epoch_ /\ job[w] = job_
    /\ remaining_ = Cardinality(Pending)
    /\ \A w \in Worker : pc[w] = "signal" => remaining_ = 0 /\ ~done_
    /\ \A v, w \in Worker : pc[v] = "signal" /\ pc[w] = "signal" => v = w
    /\ done_ => remaining_ = 0

Claims(w) == pc[w] \in {"check", "run"}
Claimed(i) == \E w \in Worker : Claims(w) /\ b[w] <= i /\ i < b[w] + grain_

\* A claim [b, b + grain_) lies below next_ and no two claims overlap.
ClaimsBelow == \A w \in Worker : Claims(w) => b[w] + grain_ <= next_
ClaimsDisjoint ==
  \A v, w \in Worker :
    v # w /\ Claims(v) /\ Claims(w)
    => b[v] + grain_ <= b[w] \/ b[w] + grain_ <= b[v]

\* A worker in its job runs its claim, cut at job_n_.
RunArguments == \A w \in Worker : pc[w] = "run" => b[w] < job_n_ /\ e[w] = ChunkEnd(b[w])

\* An item has been run once exactly when it was claimed and its claim is over.
RunOnce ==
  \A i \in Item : execs[i] = IF i < job_n_ /\ i < next_ /\ ~Claimed(i) THEN 1 ELSE 0

\* A worker leaves the job loop only when every item is claimed.
LeftWhenExhausted ==
  \A w \in Worker :
    w <= n_ /\ seen[w] = epoch_ /\ pc[w] \notin {"fetch", "check", "run"} => next_ >= job_n_

Chunks ==
  cpc = "pf_wait" =>
    ClaimsBelow /\ ClaimsDisjoint /\ RunArguments /\ RunOnce /\ LeftWhenExhausted

IInv == TypeOK /\ Lifecycle /\ Barrier /\ Chunks
=============================================================================
