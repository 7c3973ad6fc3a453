----------------------------- MODULE WorkerPool -----------------------------
(***************************************************************************)
(* The CPU worker pool (src/src/runtime/thread_pool.cpp): a singleton of   *)
(* n_ threads that executes parallel_for jobs for one client thread, the   *)
(* thread that runs the engine.                                            *)
(*                                                                         *)
(* A critical section of mu_ holds no other blocking call than cv_.wait,   *)
(* so each is one action; what a thread does outside mu_ (fetch_add,       *)
(* the bound check, the job itself, fetch_sub) is an action per access to  *)
(* shared state.  Waiting on cv_ is explicit: a thread whose predicate is  *)
(* false joins `asleep' and looks again only after a notify_all or a       *)
(* spurious wake-up.                                                       *)
(***************************************************************************)
EXTENDS Integers, FiniteSets

CONSTANTS
  MaxThreads,     \* largest pool a client asks for
  DefaultThreads, \* hardware_concurrency() as the constructor finds it
  MaxItems,       \* largest nitems of a parallel_for
  InlineBelow,    \* below this many items the client runs the job (48)
  MinGrain,       \* smallest chunk (8)
  GrainShare,     \* chunks per thread the grain aims at (4)
  MaxCalls        \* bound on the client's calls

ASSUME ConstantsAssumption ==
  /\ MaxThreads \in Nat \ {0}
  /\ DefaultThreads \in 1..MaxThreads
  /\ MaxItems \in Nat
  /\ InlineBelow \in Nat \ {0}
  /\ MinGrain \in Nat \ {0}
  /\ GrainShare \in Nat \ {0}
  /\ MaxCalls \in Nat

Worker == 1..MaxThreads
Client == 0
Thread == {Client} \cup Worker
Item   == 0..(MaxItems - 1)
NoJob  == 0                    \* an empty std::function; jobs are numbered by call

VARIABLES
  \* fields of WorkerPool
  n_, job_, next_, remaining_, job_n_, grain_, epoch_, stop_, done_,
  asleep,  \* the threads blocked in cv_.wait
  \* locals of worker_loop; pc is "none" for a thread that was never started
  pc, seen, job, b, e,
  \* the client thread: where it is, the calls it made, the size it asked for
  cpc, calls, want,
  execs    \* history: how often the current job ran each item

fields  == <<n_, job_, next_, remaining_, job_n_, grain_, epoch_, stop_, done_>>
locals  == <<pc, seen, job, b, e>>
client  == <<cpc, calls, want>>
vars    == <<fields, asleep, locals, client, execs>>

InLoop == {"fetch", "check", "run", "sub"}   \* a worker between its two waits

(***************************************************************************)
(* The client outside parallel_for: constructor, set_threads, destructor.  *)
(***************************************************************************)
Init ==
  /\ n_ = 0 /\ job_ = NoJob /\ next_ = 0 /\ remaining_ = 0 /\ job_n_ = 0
  /\ grain_ = 1 /\ epoch_ = 0 /\ stop_ = FALSE /\ done_ = TRUE
  /\ asleep = {}
  /\ pc = [w \in Worker |-> "none"]
  /\ seen = [w \in Worker |-> 0]
  /\ job = [w \in Worker |-> NoJob]
  /\ b = [w \in Worker |-> 0]
  /\ e = [w \in Worker |-> 0]
  /\ cpc = "new" /\ calls = 0 /\ want = 0
  /\ execs = [i \in Item |-> 0]

AtLeastOne(k) == IF k < 1 THEN 1 ELSE k

\* The critical section set_threads opens with: nothing to do when the pool
\* has that size already, otherwise tell the workers to stop.
BeginResize(k) ==
  LET m == AtLeastOne(k) IN
  IF m = n_
  THEN cpc' = "idle" /\ UNCHANGED <<stop_, epoch_, want>>
  ELSE cpc' = "rs_notify" /\ stop_' = TRUE /\ epoch_' = epoch_ + 1 /\ want' = m

Construct ==
  /\ cpc = "new"
  /\ BeginResize(DefaultThreads)
  /\ UNCHANGED <<n_, job_, next_, remaining_, job_n_, grain_, done_, asleep, locals, calls, execs>>

SetThreads(k) ==
  /\ cpc = "idle" /\ calls < MaxCalls
  /\ calls' = calls + 1
  /\ BeginResize(k)
  /\ UNCHANGED <<n_, job_, next_, remaining_, job_n_, grain_, done_, asleep, locals, execs>>

ResizeNotify ==
  /\ cpc = "rs_notify"
  /\ asleep' = {}
  /\ cpc' = "rs_join"
  /\ UNCHANGED <<fields, locals, calls, want, execs>>

AllJoined == \A w \in Worker : pc[w] \in {"none", "exited"}

\* Every old worker joined: start the new ones, each with a fresh stack.
ResizeJoin ==
  /\ cpc = "rs_join" /\ AllJoined
  /\ stop_' = FALSE
  /\ n_' = want
  /\ pc' = [w \in Worker |-> IF w <= want THEN "enter" ELSE "none"]
  /\ seen' = [w \in Worker |-> 0]
  /\ job' = [w \in Worker |-> NoJob]
  /\ cpc' = "idle"
  /\ UNCHANGED <<job_, next_, remaining_, job_n_, grain_, epoch_, done_, asleep, b, e,
                 calls, want, execs>>

Destroy ==
  /\ cpc = "idle"
  /\ stop_' = TRUE
  /\ epoch_' = epoch_ + 1
  /\ cpc' = "de_notify"
  /\ UNCHANGED <<n_, job_, next_, remaining_, job_n_, grain_, done_, asleep, locals,
                 calls, want, execs>>

\* Faulty variant: notify_one instead of notify_all.
DestroyNotifyOne ==
  /\ cpc = "de_notify"
  /\ IF asleep = {} THEN UNCHANGED asleep ELSE \E t \in asleep : asleep' = asleep \ {t}
  /\ cpc' = "de_join"
  /\ UNCHANGED <<fields, locals, calls, want, execs>>

DestroyNotify ==
  /\ cpc = "de_notify"
  /\ asleep' = {}
  /\ cpc' = "de_join"
  /\ UNCHANGED <<fields, locals, calls, want, execs>>

DestroyJoin ==
  /\ cpc = "de_join" /\ AllJoined
  /\ cpc' = "gone"
  /\ UNCHANGED <<fields, asleep, locals, calls, want, execs>>

(***************************************************************************)
(* parallel_for                                                            *)
(***************************************************************************)
\* Faulty variant: the chunk size is not bounded from below.
GrainUnclamped(nitems, t) == nitems \div (t * GrainShare)

Grain(nitems, t) ==
  LET share == nitems \div (t * GrainShare)
  IN  IF share > MinGrain THEN share ELSE MinGrain

Inline(nitems) == n_ <= 1 \/ nitems < InlineBelow

\* parallel_for on few items or a pool of one: the client runs fn(0, nitems).
InlineCall(nitems) ==
  /\ cpc = "idle" /\ calls < MaxCalls
  /\ nitems > 0 /\ Inline(nitems)
  /\ calls' = calls + 1
  /\ cpc' = "in_run"
  /\ want' = nitems
  /\ execs' = [i \in Item |-> 0]
  /\ UNCHANGED <<fields, asleep, locals>>

InlineRun ==
  /\ cpc = "in_run"
  /\ execs' = [i \in Item |-> IF i < want THEN execs[i] + 1 ELSE execs[i]]
  /\ cpc' = "in_return"
  /\ UNCHANGED <<fields, asleep, locals, calls, want>>

InlineReturn ==
  /\ cpc = "in_return"
  /\ cpc' = "idle"
  /\ UNCHANGED <<fields, asleep, locals, calls, want, execs>>

\* Faulty variant: the barrier counts one worker too few.
PooledCallShort(nitems) ==
  /\ cpc = "idle" /\ calls < MaxCalls
  /\ nitems > 0 /\ ~Inline(nitems)
  /\ calls' = calls + 1
  /\ job_' = calls + 1
  /\ job_n_' = nitems
  /\ grain_' = Grain(nitems, n_)
  /\ next_' = 0
  /\ remaining_' = n_ - 1
  /\ done_' = FALSE
  /\ epoch_' = epoch_ + 1
  /\ asleep' = {Client}
  /\ cpc' = "pf_wait"
  /\ execs' = [i \in Item |-> 0]
  /\ UNCHANGED <<n_, stop_, locals, want>>

\* parallel_for on the pool, up to the client's wait: done_ is FALSE there,
\* so notify_all leaves the client as the only sleeper.
PooledCall(nitems) ==
  /\ cpc = "idle" /\ calls < MaxCalls
  /\ nitems > 0 /\ ~Inline(nitems)
  /\ calls' = calls + 1
  /\ job_' = calls + 1
  /\ job_n_' = nitems
  /\ grain_' = Grain(nitems, n_)
  /\ next_' = 0
  /\ remaining_' = n_
  /\ done_' = FALSE
  /\ epoch_' = epoch_ + 1
  /\ asleep' = {Client}
  /\ cpc' = "pf_wait"
  /\ execs' = [i \in Item |-> 0]
  /\ UNCHANGED <<n_, stop_, locals, want>>

\* The client awake in its wait: return if done_ is set, sleep again if not.
PooledReturn ==
  /\ cpc = "pf_wait" /\ Client \notin asleep /\ done_
  /\ job_' = NoJob
  /\ cpc' = "idle"
  /\ UNCHANGED <<n_, next_, remaining_, job_n_, grain_, epoch_, stop_, done_, asleep, locals,
                 calls, want, execs>>

PooledSleep ==
  /\ cpc = "pf_wait" /\ Client \notin asleep /\ ~done_
  /\ asleep' = asleep \cup {Client}
  /\ UNCHANGED <<fields, locals, client, execs>>

(***************************************************************************)
(* worker_loop                                                             *)
(***************************************************************************)
\* The wait of the loop: exit on stop_, take the job of a new epoch, sleep
\* when there is neither.  An empty job sends the worker back to the wait.
Exit(w) ==
  /\ pc[w] = "enter" /\ w \notin asleep /\ stop_
  /\ pc' = [pc EXCEPT ![w] = "exited"]
  /\ UNCHANGED <<fields, asleep, seen, job, b, e, client, execs>>

TakeJob(w) ==
  /\ pc[w] = "enter" /\ w \notin asleep /\ ~stop_ /\ epoch_ # seen[w]
  /\ seen' = [seen EXCEPT ![w] = epoch_]
  /\ job' = [job EXCEPT ![w] = job_]
  /\ pc' = [pc EXCEPT ![w] = IF job_ = NoJob THEN "enter" ELSE "fetch"]
  /\ UNCHANGED <<fields, asleep, b, e, client, execs>>

Sleep(w) ==
  /\ pc[w] = "enter" /\ w \notin asleep /\ ~stop_ /\ epoch_ = seen[w]
  /\ asleep' = asleep \cup {w}
  /\ UNCHANGED <<fields, locals, client, execs>>

Fetch(w) ==
  /\ pc[w] = "fetch"
  /\ b' = [b EXCEPT ![w] = next_]
  /\ next_' = next_ + grain_
  /\ pc' = [pc EXCEPT ![w] = "check"]
  /\ UNCHANGED <<n_, job_, remaining_, job_n_, grain_, epoch_, stop_, done_, asleep, seen, job, e,
                 client, execs>>

\* Faulty variant: the last chunk runs past the end.
ChunkEndUnclamped(begin) == begin + grain_

ChunkEnd(begin) == IF begin + grain_ < job_n_ THEN begin + grain_ ELSE job_n_

\* Leave the loop, or evaluate the arguments job is called with.
CheckBound(w) ==
  /\ pc[w] = "check"
  /\ \/ /\ b[w] >= job_n_
        /\ pc' = [pc EXCEPT ![w] = "sub"]
        /\ UNCHANGED e
     \/ /\ b[w] < job_n_
        /\ e' = [e EXCEPT ![w] = ChunkEnd(b[w])]
        /\ pc' = [pc EXCEPT ![w] = "run"]
  /\ UNCHANGED <<fields, asleep, seen, job, b, client, execs>>

RunChunk(w) ==
  /\ pc[w] = "run"
  /\ execs' = [i \in Item |-> IF b[w] <= i /\ i < e[w] THEN execs[i] + 1 ELSE execs[i]]
  /\ pc' = [pc EXCEPT ![w] = "fetch"]
  /\ UNCHANGED <<fields, asleep, seen, job, b, e, client>>

FetchSub(w) ==
  /\ pc[w] = "sub"
  /\ remaining_' = remaining_ - 1
  /\ pc' = [pc EXCEPT ![w] = IF remaining_ = 1 THEN "signal" ELSE "enter"]
  /\ UNCHANGED <<n_, job_, next_, job_n_, grain_, epoch_, stop_, done_, asleep, seen, job, b, e,
                 client, execs>>

\* Faulty variant: done_ is set and nobody is told.
SignalSilent(w) ==
  /\ pc[w] = "signal"
  /\ done_' = TRUE
  /\ pc' = [pc EXCEPT ![w] = "enter"]
  /\ UNCHANGED <<n_, job_, next_, remaining_, job_n_, grain_, epoch_, stop_, asleep, seen, job, b, e,
                 client, execs>>

Signal(w) ==
  /\ pc[w] = "signal"
  /\ done_' = TRUE
  /\ asleep' = {}
  /\ pc' = [pc EXCEPT ![w] = "enter"]
  /\ UNCHANGED <<n_, job_, next_, remaining_, job_n_, grain_, epoch_, stop_, seen, job, b, e,
                 client, execs>>

\* std::condition_variable may wake a waiter nobody notified.
SpuriousWake(t) ==
  /\ t \in asleep
  /\ asleep' = asleep \ {t}
  /\ UNCHANGED <<fields, locals, client, execs>>

-----------------------------------------------------------------------------
ClientStep ==
  \/ ResizeNotify \/ ResizeJoin
  \/ DestroyNotify \/ DestroyJoin
  \/ InlineRun \/ InlineReturn
  \/ PooledReturn \/ PooledSleep

ClientCall ==
  \/ Construct
  \/ \E k \in 0..MaxThreads : SetThreads(k)
  \/ \E nitems \in 0..MaxItems : InlineCall(nitems)
  \/ \E nitems \in 0..MaxItems : PooledCall(nitems)
  \/ Destroy

WorkerStep(w) ==
  \/ Exit(w) \/ TakeJob(w) \/ Sleep(w)
  \/ Fetch(w) \/ CheckBound(w) \/ RunChunk(w) \/ FetchSub(w) \/ Signal(w)

\* After the destructor nothing runs: the program has exited.
Gone == cpc = "gone" /\ UNCHANGED vars

Next ==
  \/ ClientCall
  \/ ClientStep
  \/ \E w \in Worker : WorkerStep(w)
  \/ \E t \in Thread : SpuriousWake(t)
  \/ Gone

Spec == Init /\ [][Next]_vars

\* The scheduler runs every thread that can run, and job functions return.
\* Nothing obliges the client to make another call, or a sleeper to wake
\* without a notification.
Fairness == WF_vars(ClientStep) /\ \A w \in Worker : WF_vars(WorkerStep(w))

FairSpec == Spec /\ Fairness
=============================================================================
