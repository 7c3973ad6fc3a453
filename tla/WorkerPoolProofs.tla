--------------------------- MODULE WorkerPoolProofs ---------------------------
(***************************************************************************)
(* Proofs about the worker pool, for every pool size, job size, chunk size *)
(* and number of calls.                                                    *)
(***************************************************************************)
EXTENDS WorkerPoolInv, FiniteSetTheorems, TLAPS

\* The chunk size is positive, so every fetch_add makes progress.
LEMMA GrainPositive ==
  ASSUME NEW nitems \in Nat, NEW t \in Nat \ {0}
  PROVE  Grain(nitems, t) \in Nat \ {0}
<1> DEFINE d == t * GrainShare
<1>1. d \in Nat \ {0}
  BY ConstantsAssumption
<1> HIDE DEF d
<1>2. nitems \div d \in Int
  BY <1>1
<1>3. QED
  BY <1>2, ConstantsAssumption DEF Grain, d

\* ChunkEnd cuts a chunk at grain_ items and at the end of the job.
LEMMA ChunkEndBounds ==
  ASSUME NEW begin \in Nat, grain_ \in Nat \ {0}, job_n_ \in Nat
  PROVE  ChunkEnd(begin) <= job_n_ /\ ChunkEnd(begin) <= begin + grain_
BY DEF ChunkEnd

\* The threads the client waits for are finitely many, and all of them at first.
LEMMA PendingFinite ==
  /\ IsFiniteSet(Worker)
  /\ \A S \in SUBSET Worker : IsFiniteSet(S) /\ Cardinality(S) \in 0..MaxThreads
<1>1. IsFiniteSet(Worker) /\ Cardinality(Worker) = MaxThreads
  BY FS_Interval, ConstantsAssumption DEF Worker
<1>2. QED
  BY <1>1, FS_Subset, FS_CardinalityType, ConstantsAssumption

LEMMA InitInv == Init => IInv
<1> SUFFICES ASSUME Init PROVE IInv
  OBVIOUS
<1> USE ConstantsAssumption DEF Init, NoJob
<1>1. FlagsOK
  BY DEF FlagsOK
<1>2. ValuesOK
  BY DEF ValuesOK
<1>3. Lifecycle
  BY DEF Lifecycle, Worker, InLoop, Stopping
<1>4. Barrier /\ Chunks
  BY DEF Barrier, Chunks
<1>5. QED
  BY <1>1, <1>2, <1>3, <1>4 DEF IInv, TypeOK

\* The Boolean fields; the other conjuncts need arithmetic.
LEMMA FlagsStep ==
  ASSUME FlagsOK, [Next]_vars
  PROVE  FlagsOK'
<1> USE DEF FlagsOK, fields, locals, client
<1>1. CASE ClientCall
  BY <1>1 DEF ClientCall, Construct, SetThreads, BeginResize, InlineCall, PooledCall, Destroy
<1>2. CASE ClientStep
  BY <1>2 DEF ClientStep, ResizeNotify, ResizeJoin, DestroyNotify, DestroyJoin, InlineRun,
              InlineReturn, PooledReturn, PooledSleep
<1>3. ASSUME NEW w \in Worker, WorkerStep(w) PROVE FlagsOK'
  BY <1>3 DEF WorkerStep, Exit, TakeJob, Sleep, Fetch, CheckBound, RunChunk, FetchSub, Signal
<1>4. CASE (\E t \in Thread : SpuriousWake(t)) \/ Gone \/ UNCHANGED vars
  BY <1>4 DEF SpuriousWake, Gone, vars
<1>5. QED
  BY <1>1, <1>2, <1>3, <1>4 DEF Next

Rest == ValuesOK /\ Lifecycle /\ Barrier /\ Chunks

\* Steps that touch neither the job nor a worker inside the job loop leave the
\* barrier and the claims as they are when no call is in progress.
LEMMA OutsideCall ==
  ASSUME cpc' # "pf_wait"
  PROVE  Barrier' /\ Chunks'
BY DEF Barrier, Chunks

\* Going to sleep and waking up touch nothing the invariant is about.
LEMMA NothingElse ==
  ASSUME Rest, UNCHANGED <<fields, locals, client, execs>>
  PROVE  Lifecycle' /\ Barrier' /\ Chunks'
<1> USE DEF Rest, fields, locals, client
<1>1. Lifecycle'
  BY DEF Lifecycle
<1>2. Pending' = Pending
  BY DEF Pending
<1>3. Barrier'
  BY <1>2 DEF Barrier
<1>4. \A i : Claimed(i)' <=> Claimed(i)
  BY DEF Claimed, Claims
<1>5. ClaimsBelow' <=> ClaimsBelow
  BY DEF ClaimsBelow, Claims
<1>6. ClaimsDisjoint' <=> ClaimsDisjoint
  BY DEF ClaimsDisjoint, Claims
<1>7. (RunArguments' <=> RunArguments) /\ (LeftWhenExhausted' <=> LeftWhenExhausted)
  BY DEF RunArguments, LeftWhenExhausted, ChunkEnd
<1>8. RunOnce' <=> RunOnce
  BY <1>4 DEF RunOnce
<1>9. QED
  BY <1>1, <1>3, <1>5, <1>6, <1>7, <1>8 DEF Chunks

LEMMA ClientPreserves ==
  ASSUME IInv, ClientCall \/ ClientStep
  PROVE  Rest'
<1> USE ConstantsAssumption DEF NoJob, InLoop, Stopping
<1>1. CASE Construct
  <2> AtLeastOne(DefaultThreads) \in 1..MaxThreads
    BY DEF AtLeastOne
  <2>1. ValuesOK'
    BY <1>1 DEF IInv, TypeOK, ValuesOK, Construct, BeginResize, locals
  <2>2. Lifecycle'
    BY <1>1 DEF IInv, TypeOK, ValuesOK, Lifecycle, Construct, BeginResize, locals
  <2>3. QED
    BY <1>1, <2>1, <2>2, OutsideCall DEF Rest, Construct, BeginResize
<1>2. ASSUME NEW k \in 0..MaxThreads, SetThreads(k) PROVE Rest'
  <2> AtLeastOne(k) \in 1..MaxThreads
    BY DEF AtLeastOne
  <2>1. ValuesOK'
    BY <1>2 DEF IInv, TypeOK, ValuesOK, SetThreads, BeginResize, locals
  <2>2. Lifecycle'
    BY <1>2 DEF IInv, TypeOK, ValuesOK, Lifecycle, SetThreads, BeginResize, locals
  <2>3. QED
    BY <1>2, <2>1, <2>2, OutsideCall DEF Rest, SetThreads, BeginResize
<1>3. CASE ResizeNotify
  <2>1. ValuesOK'
    BY <1>3 DEF IInv, TypeOK, ValuesOK, ResizeNotify, fields, locals
  <2>2. Lifecycle'
    BY <1>3 DEF IInv, TypeOK, ValuesOK, Lifecycle, ResizeNotify, fields, locals
  <2>3. QED
    BY <1>3, <2>1, <2>2, OutsideCall DEF Rest, ResizeNotify
<1>4. CASE ResizeJoin
  <2>1. ValuesOK'
    <3>1. want \in 1..MaxThreads
      BY <1>4 DEF IInv, Lifecycle, ResizeJoin
    <3>2. QED
      BY <1>4, <3>1 DEF IInv, TypeOK, ValuesOK, ResizeJoin
  <2>2. Lifecycle'
    BY <1>4 DEF IInv, TypeOK, ValuesOK, Lifecycle, ResizeJoin, AllJoined, Worker
  <2>3. QED
    BY <1>4, <2>1, <2>2, OutsideCall DEF Rest, ResizeJoin
<1>5. CASE Destroy
  <2>1. ValuesOK'
    BY <1>5 DEF IInv, TypeOK, ValuesOK, Destroy, locals
  <2>2. Lifecycle'
    BY <1>5 DEF IInv, TypeOK, ValuesOK, Lifecycle, Destroy, locals
  <2>3. QED
    BY <1>5, <2>1, <2>2, OutsideCall DEF Rest, Destroy
<1>6. CASE DestroyNotify
  <2>1. ValuesOK'
    BY <1>6 DEF IInv, TypeOK, ValuesOK, DestroyNotify, fields, locals
  <2>2. Lifecycle'
    BY <1>6 DEF IInv, TypeOK, ValuesOK, Lifecycle, DestroyNotify, fields, locals
  <2>3. QED
    BY <1>6, <2>1, <2>2, OutsideCall DEF Rest, DestroyNotify
<1>7. CASE DestroyJoin
  <2>1. ValuesOK'
    BY <1>7 DEF IInv, TypeOK, ValuesOK, DestroyJoin, fields, locals
  <2>2. Lifecycle'
    BY <1>7 DEF IInv, TypeOK, ValuesOK, Lifecycle, DestroyJoin, fields, locals
  <2>3. QED
    BY <1>7, <2>1, <2>2, OutsideCall DEF Rest, DestroyJoin
<1>8. ASSUME NEW nitems \in 0..MaxItems, InlineCall(nitems) PROVE Rest'
  <2>1. ValuesOK'
    BY <1>8 DEF IInv, TypeOK, ValuesOK, InlineCall, fields, locals
  <2>2. Lifecycle'
    BY <1>8 DEF IInv, TypeOK, ValuesOK, Lifecycle, InlineCall, fields, locals
  <2>3. QED
    BY <1>8, <2>1, <2>2, OutsideCall DEF Rest, InlineCall
<1>9. CASE InlineRun
  <2>1. ValuesOK'
    BY <1>9 DEF IInv, TypeOK, ValuesOK, InlineRun, fields, locals
  <2>2. Lifecycle'
    BY <1>9 DEF IInv, TypeOK, ValuesOK, Lifecycle, InlineRun, fields, locals
  <2>3. QED
    BY <1>9, <2>1, <2>2, OutsideCall DEF Rest, InlineRun
<1>10. CASE InlineReturn
  <2>1. ValuesOK'
    BY <1>10 DEF IInv, TypeOK, ValuesOK, InlineReturn, fields, locals
  <2>2. Lifecycle'
    BY <1>10 DEF IInv, TypeOK, ValuesOK, Lifecycle, InlineReturn, fields, locals
  <2>3. QED
    BY <1>10, <2>1, <2>2, OutsideCall DEF Rest, InlineReturn
<1>11. ASSUME NEW nitems \in 0..MaxItems, PooledCall(nitems) PROVE Rest'
  <2> n_ \in 2..MaxThreads /\ nitems \in Nat
    BY <1>11 DEF IInv, TypeOK, ValuesOK, PooledCall, Inline
  <2>1. ValuesOK'
    BY <1>11, GrainPositive DEF IInv, TypeOK, ValuesOK, PooledCall, locals, Thread
  <2>2. Lifecycle'
    BY <1>11 DEF IInv, TypeOK, ValuesOK, Lifecycle, PooledCall, locals
  <2>3. Pending' = 1..n_
    <3>1. \A w \in Worker : w <= n_ <=> (pc'[w] \in InLoop \/ (w <= n_' /\ seen'[w] # epoch_'))
      BY <1>11 DEF IInv, TypeOK, ValuesOK, Lifecycle, PooledCall, locals
    <3>2. QED
      BY <3>1 DEF Pending, Worker
  <2>4. Cardinality(Pending') = n_
    BY <2>3, FS_Interval
  <2>5. Barrier'
    BY <1>11, <2>4 DEF IInv, TypeOK, ValuesOK, Lifecycle, Barrier, PooledCall, locals
  <2>6. Chunks'
    BY <1>11 DEF IInv, TypeOK, ValuesOK, Lifecycle, Chunks, ClaimsBelow, ClaimsDisjoint, RunArguments, RunOnce, LeftWhenExhausted, Claims, Claimed, PooledCall, locals, Item
  <2>7. QED
    BY <2>1, <2>2, <2>5, <2>6 DEF Rest
<1>12. CASE PooledReturn
  <2>1. ValuesOK'
    BY <1>12 DEF IInv, TypeOK, ValuesOK, PooledReturn, locals
  <2>2. Pending = {}
    BY <1>12, PendingFinite, FS_EmptySet DEF IInv, Barrier, PooledReturn, Pending
  <2>3. Lifecycle'
    BY <1>12, <2>2 DEF IInv, TypeOK, ValuesOK, Lifecycle, Barrier, Pending, PooledReturn, locals
  <2>4. QED
    BY <1>12, <2>1, <2>3, OutsideCall DEF Rest, PooledReturn
<1>13. CASE PooledSleep
  <2>1. ValuesOK'
    BY <1>13 DEF IInv, TypeOK, ValuesOK, PooledSleep, fields, locals, client, Thread
  <2>2. QED
    BY <1>13, <2>1, NothingElse DEF IInv, TypeOK, Rest, PooledSleep
<1>14. QED
  BY <1>1, <1>2, <1>3, <1>4, <1>5, <1>6, <1>7, <1>8, <1>9, <1>10, <1>11, <1>12, <1>13
     DEF ClientCall, ClientStep

LEMMA WorkerPreserves ==
  ASSUME IInv, NEW w \in Worker, WorkerStep(w)
  PROVE  Rest'
<1> USE ConstantsAssumption DEF NoJob, InLoop, Stopping, IInv, TypeOK
<1>1. CASE Exit(w)
  <2>1. ValuesOK'
    BY <1>1 DEF ValuesOK, Exit, fields, client
  <2>2. cpc' # "pf_wait"
    BY <1>1 DEF Lifecycle, Exit, client
  <2>3. Lifecycle'
    BY <1>1, <2>2 DEF ValuesOK, Lifecycle, Exit, fields, client
  <2>4. QED
    BY <2>1, <2>2, <2>3, OutsideCall DEF Rest
<1>2. CASE TakeJob(w)
  <2>1. ValuesOK'
    BY <1>2 DEF ValuesOK, TakeJob, fields, client
  <2>2. Lifecycle'
    BY <1>2 DEF ValuesOK, Lifecycle, TakeJob, fields, client
  <2>3. ASSUME cpc = "pf_wait" PROVE Pending' = Pending
    <3>1. w <= n_ /\ pc'[w] = "fetch"
      BY <1>2, <2>3 DEF ValuesOK, Lifecycle, Barrier, TakeJob, Worker
    <3>2. \A v \in Worker : v # w => pc'[v] = pc[v] /\ seen'[v] = seen[v]
      BY <1>2 DEF ValuesOK, TakeJob
    <3>3. n_' = n_ /\ epoch_' = epoch_ /\ seen[w] # epoch_
      BY <1>2 DEF TakeJob, fields
    <3>4. QED
      BY <3>1, <3>2, <3>3 DEF Pending
  <2>4. Barrier'
    BY <1>2, <2>3 DEF ValuesOK, Lifecycle, Barrier, TakeJob, fields, client
  <2>5. Chunks'
    BY <1>2 DEF ValuesOK, Lifecycle, Barrier, Chunks, ClaimsBelow, ClaimsDisjoint, RunArguments, RunOnce, LeftWhenExhausted, Claims, Claimed, ChunkEnd, TakeJob,
                fields, client
  <2>6. QED
    BY <2>1, <2>2, <2>4, <2>5 DEF Rest
<1>3. CASE Sleep(w)
  <2>1. ValuesOK'
    BY <1>3 DEF ValuesOK, Sleep, fields, locals, client, Thread
  <2>2. QED
    BY <1>3, <2>1, NothingElse DEF Rest, Sleep
<1>4. CASE Fetch(w)
  <2>1. ValuesOK'
    BY <1>4 DEF ValuesOK, Fetch, client
  <2>2. Lifecycle'
    BY <1>4 DEF ValuesOK, Lifecycle, Fetch, client
  <2>3. Pending' = Pending
    BY <1>4 DEF ValuesOK, Pending, Fetch
  <2>4. Barrier'
    BY <1>4, <2>3 DEF ValuesOK, Lifecycle, Barrier, Fetch, client
  <2>5. Chunks'
    <3> cpc = "pf_wait" /\ cpc' = "pf_wait" /\ w <= n_ /\ seen[w] = epoch_
      BY <1>4 DEF ValuesOK, Lifecycle, Barrier, Fetch, client, Worker
    <3> USE DEF ValuesOK, Fetch, client
    <3>1. /\ b'[w] = next_ /\ next_' = next_ + grain_ /\ Claims(w)' /\ ~Claims(w)
          /\ \A v \in Worker : v # w => b'[v] = b[v] /\ pc'[v] = pc[v] /\ (Claims(v)' <=> Claims(v))
      BY <1>4 DEF Claims
    <3>2. ClaimsBelow'
      BY <1>4, <3>1 DEF Chunks, ClaimsBelow
    <3>3. ClaimsDisjoint'
      BY <1>4, <3>1 DEF Chunks, ClaimsBelow, ClaimsDisjoint
    <3>4. RunArguments'
      BY <1>4, <3>1 DEF Chunks, RunArguments, ChunkEnd
    <3>5. RunOnce'
      <4>1. ASSUME NEW i \in Item
            PROVE  i < next_' /\ ~Claimed(i)' <=> i < next_ /\ ~Claimed(i)
        <5>1. Claimed(i)' <=> Claimed(i) \/ (next_ <= i /\ i < next_ + grain_)
          BY <1>4, <3>1 DEF Claimed
        <5>2. Claimed(i) => i < next_
          BY DEF Chunks, ClaimsBelow, Claimed, Item
        <5>3. QED
          BY <3>1, <5>1, <5>2 DEF Item
      <4>2. QED
        BY <1>4, <4>1 DEF Chunks, RunOnce
    <3>6. LeftWhenExhausted'
      BY <1>4, <3>1 DEF Chunks, LeftWhenExhausted
    <3>7. QED
      BY <3>2, <3>3, <3>4, <3>5, <3>6 DEF Chunks
  <2>6. QED
    BY <2>1, <2>2, <2>4, <2>5 DEF Rest
<1>5. CASE CheckBound(w)
  <2>1. ValuesOK'
    BY <1>5 DEF ValuesOK, CheckBound, ChunkEnd, fields, client
  <2>2. Lifecycle'
    BY <1>5 DEF ValuesOK, Lifecycle, CheckBound, fields, client
  <2>3. Pending' = Pending
    BY <1>5 DEF ValuesOK, Pending, CheckBound, fields
  <2>4. Barrier'
    BY <1>5, <2>3 DEF ValuesOK, Lifecycle, Barrier, CheckBound, fields, client
  <2>5. Chunks'
    <3> cpc = "pf_wait" /\ cpc' = "pf_wait"
      BY <1>5 DEF ValuesOK, Lifecycle, CheckBound, client
    <3> USE DEF ValuesOK, CheckBound, fields, client
    <3>1. /\ pc[w] = "check" /\ b' = b /\ next_' = next_ /\ job_n_' = job_n_ /\ grain_' = grain_
          /\ n_' = n_ /\ seen' = seen /\ epoch_' = epoch_ /\ execs' = execs
          /\ \A v \in Worker : v # w => pc'[v] = pc[v] /\ e'[v] = e[v]
          /\ pc'[w] \in {"run", "sub"}
          /\ pc'[w] = "run" => b[w] < job_n_ /\ e'[w] = ChunkEnd(b[w])
          /\ pc'[w] = "sub" => b[w] >= job_n_
      BY <1>5
    <3>2. \A v \in Worker : Claims(v)' => Claims(v)
      BY <3>1 DEF Claims
    <3>3. ClaimsBelow' /\ ClaimsDisjoint'
      BY <3>1, <3>2 DEF Chunks, ClaimsBelow, ClaimsDisjoint
    <3>4. RunArguments'
      BY <3>1 DEF Chunks, RunArguments, ChunkEnd
    <3>5. RunOnce'
      <4>1. ASSUME NEW i \in Item, i < job_n_
            PROVE  Claimed(i)' <=> Claimed(i)
        <5>1. ASSUME NEW v \in Worker, b[v] <= i
              PROVE  Claims(v)' <=> Claims(v)
          BY <3>1, <4>1, <5>1 DEF Claims, Item
        <5>2. QED
          BY <3>1, <5>1 DEF Claimed
      <4>2. QED
        BY <3>1, <4>1 DEF Chunks, RunOnce
    <3>6. LeftWhenExhausted'
      <4>1. pc'[w] = "sub" => next_ >= job_n_
        BY <3>1 DEF Chunks, ClaimsBelow, Claims
      <4>2. QED
        BY <3>1, <4>1 DEF Chunks, LeftWhenExhausted
    <3>7. QED
      BY <3>3, <3>4, <3>5, <3>6 DEF Chunks
  <2>6. QED
    BY <2>1, <2>2, <2>4, <2>5 DEF Rest
<1>6. CASE RunChunk(w)
  <2>1. ValuesOK'
    BY <1>6 DEF ValuesOK, RunChunk, fields, client
  <2>2. Lifecycle'
    BY <1>6 DEF ValuesOK, Lifecycle, RunChunk, fields, client
  <2>3. Pending' = Pending
    BY <1>6 DEF ValuesOK, Pending, RunChunk, fields
  <2>4. Barrier'
    BY <1>6, <2>3 DEF ValuesOK, Lifecycle, Barrier, RunChunk, fields, client
  <2>5. Chunks'
    <3> cpc = "pf_wait" /\ cpc' = "pf_wait"
      BY <1>6 DEF ValuesOK, Lifecycle, RunChunk, client
    <3> USE DEF ValuesOK, RunChunk, fields, client
    <3>1. /\ pc[w] = "run" /\ pc'[w] = "fetch"
          /\ b' = b /\ e' = e /\ next_' = next_ /\ job_n_' = job_n_ /\ grain_' = grain_
          /\ n_' = n_ /\ seen' = seen /\ epoch_' = epoch_
          /\ \A v \in Worker : v # w => pc'[v] = pc[v]
      BY <1>6
    <3>2. ClaimsBelow' /\ ClaimsDisjoint' /\ RunArguments' /\ LeftWhenExhausted'
      BY <3>1 DEF Chunks, ClaimsBelow, ClaimsDisjoint, RunArguments, LeftWhenExhausted, Claims,
                  ChunkEnd
    <3>3. RunOnce'
      <4> SUFFICES ASSUME NEW i \in Item
                   PROVE  execs'[i] = IF i < job_n_ /\ i < next_ /\ ~Claimed(i)' THEN 1 ELSE 0
        BY <3>1 DEF RunOnce
      <4>1. execs[i] = IF i < job_n_ /\ i < next_ /\ ~Claimed(i) THEN 1 ELSE 0
        BY DEF Chunks, RunOnce
      <4>2. b[w] < job_n_ /\ e[w] = ChunkEnd(b[w]) /\ b[w] + grain_ <= next_
        BY <3>1 DEF Chunks, RunArguments, ClaimsBelow, Claims
      <4>3. CASE b[w] <= i /\ i < e[w]
        <5>1. Claimed(i) /\ i < job_n_ /\ i < next_
          BY <3>1, <4>2, <4>3 DEF Claimed, Claims, ChunkEnd, Item
        <5>2. ~Claimed(i)'
          <6> SUFFICES ASSUME Claimed(i)' PROVE FALSE
            OBVIOUS
          <6> PICK v \in Worker : Claims(v)' /\ b'[v] <= i /\ i < b'[v] + grain_'
            BY DEF Claimed
          <6>1. v # w /\ Claims(v) /\ Claims(w)
            BY <3>1 DEF Claims
          <6>2. b[v] + grain_ <= b[w] \/ b[w] + grain_ <= b[v]
            BY <6>1 DEF Chunks, ClaimsDisjoint
          <6>3. b[v] <= i /\ i < b[v] + grain_ /\ b[v] \in Nat /\ b[w] \in Nat /\ grain_ \in Nat
            BY <3>1
          <6>4. b[w] <= i /\ i < b[w] + grain_
            BY <4>2, <4>3, <6>3 DEF ChunkEnd, Item
          <6>5. QED
            BY <6>2, <6>3, <6>4 DEF Item
        <5>3. execs'[i] = 1
          BY <1>6, <4>1, <4>3, <5>1
        <5>4. QED
          BY <5>1, <5>2, <5>3
      <4>4. CASE ~(b[w] <= i /\ i < e[w])
        <5>1. execs'[i] = execs[i]
          BY <1>6, <4>4
        <5>2. i < job_n_ => (Claimed(i)' <=> Claimed(i))
          BY <3>1, <4>2, <4>4 DEF Claimed, Claims, ChunkEnd, Item
        <5>3. QED
          BY <4>1, <5>1, <5>2
      <4>5. QED
        BY <4>3, <4>4
    <3>4. QED
      BY <3>2, <3>3 DEF Chunks
  <2>6. QED
    BY <2>1, <2>2, <2>4, <2>5 DEF Rest
<1>7. CASE FetchSub(w)
  <2>1. cpc = "pf_wait"
    BY <1>7 DEF Lifecycle, FetchSub
  <2>2. Pending' = Pending \ {w} /\ w \in Pending
    BY <1>7, <2>1 DEF ValuesOK, Barrier, Pending, FetchSub
  <2>3. Cardinality(Pending') = Cardinality(Pending) - 1 /\ Cardinality(Pending) \in Nat \ {0}
    <3>1. IsFiniteSet(Pending) /\ Cardinality(Pending) \in Nat
      BY PendingFinite DEF Pending
    <3>2. Cardinality(Pending) # 0
      BY <2>2, <3>1, FS_EmptySet
    <3>3. Cardinality(Pending \ {w}) = Cardinality(Pending) - 1
      BY <2>2, <3>1, FS_RemoveElement
    <3>4. QED
      BY <2>2, <3>1, <3>2, <3>3
  <2>4. remaining_' = Cardinality(Pending') /\ remaining_ >= 1
    BY <1>7, <2>1, <2>3 DEF Barrier, FetchSub
  <2>5. ValuesOK'
    BY <1>7, <2>4 DEF ValuesOK, FetchSub, client
  <2>6. Lifecycle'
    BY <1>7, <2>1 DEF ValuesOK, Lifecycle, FetchSub, client
  <2>7. Barrier'
    BY <1>7, <2>1, <2>4 DEF ValuesOK, Barrier, FetchSub, client
  <2>8. Chunks'
    BY <1>7, <2>1 DEF ValuesOK, Barrier, Chunks, ClaimsBelow, ClaimsDisjoint, RunArguments, RunOnce, LeftWhenExhausted, Claims, Claimed, ChunkEnd, FetchSub, client
  <2>9. QED
    BY <2>5, <2>6, <2>7, <2>8 DEF Rest
<1>8. CASE Signal(w)
  <2>1. cpc = "pf_wait"
    BY <1>8 DEF Lifecycle, Signal
  <2>2. ValuesOK'
    BY <1>8 DEF ValuesOK, Signal, client
  <2>3. Lifecycle'
    BY <1>8, <2>1 DEF ValuesOK, Lifecycle, Signal, client
  <2>4. Pending' = Pending
    BY <1>8, <2>1 DEF ValuesOK, Barrier, Pending, Signal
  <2>5. Barrier'
    BY <1>8, <2>1, <2>4 DEF ValuesOK, Barrier, Signal, client
  <2>6. Chunks'
    BY <1>8, <2>1 DEF ValuesOK, Chunks, ClaimsBelow, ClaimsDisjoint, RunArguments, RunOnce, LeftWhenExhausted, Claims, Claimed, ChunkEnd, Signal, client
  <2>7. QED
    BY <2>2, <2>3, <2>5, <2>6 DEF Rest
<1>9. QED
  BY <1>1, <1>2, <1>3, <1>4, <1>5, <1>6, <1>7, <1>8 DEF WorkerStep

LEMMA StepInv == IInv /\ [Next]_vars => IInv'
<1> SUFFICES ASSUME IInv, [Next]_vars PROVE IInv'
  OBVIOUS
<1>1. ASSUME ClientCall \/ ClientStep PROVE Rest'
  BY <1>1, ClientPreserves
<1>2. ASSUME NEW w \in Worker, WorkerStep(w) PROVE Rest'
  BY <1>2, WorkerPreserves
<1>3. ASSUME NEW t \in Thread, SpuriousWake(t) PROVE Rest'
  <2>1. ValuesOK'
    BY <1>3 DEF IInv, TypeOK, ValuesOK, SpuriousWake, fields, locals, client
  <2>2. QED
    BY <1>3, <2>1, NothingElse DEF IInv, TypeOK, Rest, SpuriousWake
<1>4. ASSUME UNCHANGED vars PROVE Rest'
  <2>1. ValuesOK'
    BY <1>4 DEF IInv, TypeOK, ValuesOK, vars, fields, locals, client
  <2>2. QED
    BY <1>4, <2>1, NothingElse DEF IInv, TypeOK, Rest, vars
<1>5. Rest'
  BY <1>1, <1>2, <1>3, <1>4 DEF Next, Gone
<1>6. QED
  BY <1>5, FlagsStep DEF IInv, Rest, TypeOK

THEOREM Invariance == Spec => []IInv
BY InitInv, StepInv, PTL DEF Spec

\* Every variable keeps its type: remaining_ never passes zero, grain_ is
\* never zero, and a chunk ends within the job.
THEOREM TypeCorrect == Spec => []TypeOK
<1>1. IInv => TypeOK
  BY DEF IInv
<1>2. QED
  BY <1>1, Invariance, PTL

\* parallel_for is a barrier: outside it no worker is in the job loop, and
\* inside it every worker there runs the job of the current call.
THEOREM BarrierHolds == Spec => []NoStraggler
<1>1. IInv => NoStraggler
  BY DEF IInv, Lifecycle, Barrier, NoStraggler
<1>2. QED
  BY <1>1, Invariance, PTL

LEMMA InitAbs == Init => Abs!Init
BY DEF Init, Abs!Init, Active, Unfinished, Item, Abs!Item

\* Once done_ is set every item of the call has been run.
LEMMA DoneMeansRun ==
  ASSUME IInv, cpc = "pf_wait", done_
  PROVE  Unfinished = {}
<1> USE DEF IInv, TypeOK, ValuesOK
<1>1. Pending = {} /\ n_ \in 2..MaxThreads
  <2>1. Cardinality(Pending) = 0 /\ n_ >= 2
    BY DEF Barrier
  <2>2. IsFiniteSet(Pending)
    BY PendingFinite DEF Pending
  <2>3. QED
    BY <2>1, <2>2, FS_EmptySet
<1>2. next_ >= job_n_
  <2>1. 1 \in Worker /\ 1 <= n_
    BY <1>1, ConstantsAssumption DEF Worker
  <2>2. seen[1] = epoch_ /\ pc[1] \notin InLoop
    BY <1>1, <2>1 DEF Pending
  <2>3. QED
    BY <2>1, <2>2 DEF Chunks, LeftWhenExhausted, InLoop
<1>3. \A i \in Item : ~Claimed(i)
  BY <1>1 DEF Claimed, Claims, Pending, InLoop
<1>4. QED
  BY <1>2, <1>3 DEF Chunks, RunOnce, Unfinished, Item

LEMMA StepAbs ==
  ASSUME IInv, [Next]_vars
  PROVE  [Abs!Next]_(Abs!vars)
<1> USE ConstantsAssumption DEF Abs!vars, Active, Abs!Item, Item, IInv, TypeOK
<1>1. CASE cpc' \notin {"in_run", "in_return", "pf_wait"} /\ cpc \notin {"in_run", "in_return", "pf_wait"}
  <2>1. execs' = execs
    BY <1>1 DEF Next, ClientCall, ClientStep, Construct, SetThreads, ResizeNotify, ResizeJoin,
       Destroy, DestroyNotify, DestroyJoin, InlineCall, InlineRun, InlineReturn, PooledCall,
       PooledReturn, PooledSleep, WorkerStep, Exit, TakeJob, Sleep, Fetch, CheckBound, RunChunk,
       FetchSub, Signal, SpuriousWake, Gone, vars, client, Lifecycle, InLoop, BeginResize
  <2>2. QED
    BY <1>1, <2>1 DEF Unfinished
<1>2. ASSUME NEW nitems \in 0..MaxItems, InlineCall(nitems) PROVE Abs!Call
  <2>1. Unfinished' = 0..(nitems - 1) /\ nitems \in 1..MaxItems
    BY <1>2 DEF InlineCall, Unfinished
  <2>2. QED
    BY <1>2, <2>1 DEF InlineCall, Abs!Call
<1>3. CASE InlineRun
  <2>1. execs = [i \in Item |-> 0] /\ want \in 1..MaxItems
    BY <1>3 DEF InlineRun, Lifecycle
  <2>2. Unfinished = 0..(want - 1) /\ Unfinished' = {}
    BY <1>3, <2>1 DEF InlineRun, Unfinished
  <2>3. execs' = [i \in Item |-> IF i \in Unfinished THEN 1 ELSE execs[i]]
    BY <1>3, <2>1, <2>2 DEF InlineRun
  <2>4. Unfinished' = Unfinished \ Unfinished /\ Unfinished \in SUBSET Unfinished
    BY <2>2
  <2>5. Active /\ Active'
    BY <1>3 DEF InlineRun
  <2>6. QED
    BY <2>3, <2>4, <2>5 DEF Abs!Next, Abs!Apply
<1>4. CASE InlineReturn
  BY <1>4 DEF InlineReturn, Unfinished, Abs!Next, Abs!Return
<1>5. ASSUME NEW nitems \in 0..MaxItems, PooledCall(nitems) PROVE Abs!Call
  <2>1. Unfinished' = 0..(nitems - 1) /\ nitems \in 1..MaxItems
    BY <1>5 DEF PooledCall, Unfinished
  <2>2. QED
    BY <1>5, <2>1 DEF PooledCall, Abs!Call
<1>6. CASE PooledReturn
  <2>1. Unfinished = {}
    BY <1>6, DoneMeansRun DEF PooledReturn
  <2>2. QED
    BY <1>6, <2>1 DEF PooledReturn, Unfinished, Abs!Next, Abs!Return
<1>7. ASSUME NEW w \in Worker, RunChunk(w) PROVE Abs!Apply
  <2> USE DEF ValuesOK
  <2>1. cpc = "pf_wait" /\ cpc' = "pf_wait" /\ job_n_' = job_n_ /\ pc[w] = "run"
    BY <1>7 DEF RunChunk, Lifecycle, InLoop, fields, client
  <2>2. b[w] < job_n_ /\ e[w] = ChunkEnd(b[w]) /\ b[w] + grain_ <= next_
    BY <2>1 DEF Chunks, RunArguments, ClaimsBelow, Claims
  <2> DEFINE chunk == b[w]..(e[w] - 1)
  <2>3. \A i \in chunk : i \in Item /\ i < job_n_ /\ execs[i] = 0
    <3> SUFFICES ASSUME NEW i \in chunk PROVE i \in Item /\ i < job_n_ /\ execs[i] = 0
      OBVIOUS
    <3>1. b[w] \in Nat /\ e[w] \in Nat /\ grain_ \in Nat \ {0} /\ job_n_ \in 0..MaxItems
      OBVIOUS
    <3>2. i \in Int /\ b[w] <= i /\ i < e[w] /\ e[w] <= job_n_ /\ e[w] <= b[w] + grain_
      <4>1. i \in b[w]..(e[w] - 1)
        OBVIOUS
      <4>2. job_n_ \in Nat
        BY <3>1
      <4> HIDE DEF chunk, ValuesOK
      <4>3. ChunkEnd(b[w]) <= job_n_ /\ ChunkEnd(b[w]) <= b[w] + grain_
        BY <3>1, <4>2, ChunkEndBounds
      <4>4. e[w] <= job_n_ /\ e[w] <= b[w] + grain_
        BY <2>2, <4>3, Zenon
      <4>5. QED
        BY <3>1, <4>1, <4>4
    <3>3. i \in Item /\ i < job_n_ /\ i < b[w] + grain_ /\ i < next_
      BY <2>2, <3>1, <3>2
    <3>4. Claimed(i)
      BY <2>1, <3>2, <3>3 DEF Claimed, Claims
    <3>5. QED
      BY <2>1, <3>3, <3>4 DEF Chunks, RunOnce
  <2>4. execs' = [i \in Item |-> IF i \in chunk THEN 1 ELSE execs[i]]
    <3>1. b[w] \in Nat /\ e[w] \in Nat
      OBVIOUS
    <3>2. \A i \in Item : (b[w] <= i /\ i < e[w]) <=> i \in chunk
      BY <3>1
    <3>3. execs' = [i \in Item |-> IF i \in chunk THEN execs[i] + 1 ELSE execs[i]]
      BY <1>7, <3>2 DEF RunChunk
    <3>4. \A i \in Item : i \in chunk => execs[i] + 1 = 1
      BY <2>3
    <3>5. QED
      BY <3>3, <3>4
  <2>5. Unfinished' = Unfinished \ chunk /\ chunk \in SUBSET Unfinished
    <3> HIDE DEF chunk
    <3>1. Unfinished = {i \in Item : i < job_n_ /\ execs[i] = 0}
      BY <2>1 DEF Unfinished
    <3>2. Unfinished' = {i \in Item : i < job_n_ /\ execs'[i] = 0}
      BY <2>1 DEF Unfinished
    <3>3. \A i \in Item : execs'[i] = 0 <=> i \notin chunk /\ execs[i] = 0
      BY <2>4
    <3>4. QED
      BY <2>3, <3>1, <3>2, <3>3
  <2>6. QED
    BY <2>1, <2>4, <2>5 DEF Abs!Apply
<1>8. CASE cpc' = cpc /\ UNCHANGED <<execs, job_n_, want>>
  BY <1>8 DEF Unfinished
<1>9. ASSUME NEW w \in Worker, WorkerStep(w), ~RunChunk(w)
      PROVE  cpc' = cpc /\ UNCHANGED <<execs, job_n_, want>>
  BY <1>9 DEF WorkerStep, Exit, TakeJob, Sleep, Fetch, CheckBound, FetchSub, Signal, fields, client
<1>10. CASE ClientCall \/ ClientStep
  <2>1. CASE PooledSleep
    BY <1>8, <2>1 DEF PooledSleep, fields, client
  <2>2. CASE Construct \/ (\E k \in 0..MaxThreads : SetThreads(k)) \/ Destroy \/ ResizeNotify
             \/ ResizeJoin \/ DestroyNotify \/ DestroyJoin
    BY <1>1, <2>2 DEF Construct, SetThreads, BeginResize, Destroy, ResizeNotify, ResizeJoin,
                      DestroyNotify, DestroyJoin
  <2>3. QED
    BY <1>2, <1>3, <1>4, <1>5, <1>6, <1>10, <2>1, <2>2 DEF ClientCall, ClientStep, Abs!Next
<1>11. CASE (\E t \in Thread : SpuriousWake(t)) \/ Gone \/ UNCHANGED vars
  BY <1>8, <1>11 DEF SpuriousWake, Gone, vars, fields, client
<1>12. QED
  BY <1>7, <1>8, <1>9, <1>10, <1>11 DEF Next, Abs!Next

\* Every behaviour of the pool is one of ParallelFor: fn is applied to each
\* item once, to no other, and parallel_for returns only after the last.
THEOREM Implements == Spec => ImplementsParallelFor
<1>1. Init => Abs!Init
  BY InitAbs
<1>2. IInv /\ [Next]_vars => [Abs!Next]_(Abs!vars)
  BY StepAbs
<1>3. QED
  BY <1>1, <1>2, Invariance, PTL DEF Spec, ImplementsParallelFor, Abs!Spec
=============================================================================
