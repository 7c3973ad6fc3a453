# RapidLLM in TLA+

RapidLLM is an inference engine for one family of language models: hybrids of gated-DeltaNet layers,
which summarise the text so far in a recurrent state, and gated attention layers, which keep one cache
row per position. This directory models the parts of it that keep state between calls or run
concurrently, checks them with TLC on small instances, and proves the most important results with TLAPS
for instances of every size.

Source paths are relative to the repository; `session.cpp` is `src/runtime/session.cpp`, and so on.

    tlc -workers 2 -config MCSession.cfg MCSession.tla     # a run; PROJECT.json lists them all
    tlapm SessionProofs.tla                                # the proofs about a component

## 1. The system

| component | state | operations | what is hard about it | what makes it correct |
| --- | --- | --- | --- | --- |
| **Worker pool** `thread_pool.cpp` | `workers_`, `job_`, `job_n_`, `grain_`, `next_`, `remaining_`, `epoch_`, `stop_`, `done_` | `set_threads`, `parallel_for`, `worker_loop`, destructor | threads; some fields are read outside the mutex; notify after unlock; a worker that starts late | every item is run once before `parallel_for` returns, no worker lags into the next job, joins end |
| **Session, CPU path** `session.cpp`, `dual_cache.cpp` | `pos_`, `ctx_tokens_`, `logits_`, the caches, the image to splice | `prefill`, `decode_token`, `generate`, `load_image`, `set_vision_embeds`, `clear_vision` | one context is held in five places; a recurrent state cannot be rolled back; calls that fail half way | the five places agree; drafting does not change the text; an image is spliced whole or not at all |
| **n-gram drafter** `ngram_draft.cpp` | none | `ngram_draft_tokens` | off-by-ones between context, hay and suffix | a repetition is found, a periodic text continued in phase |
| **CUDA engine** `cuda_engine.cu` | caches, `pos_`, `last_tok_`, `d_tok_`, `d_gen_out_`, captured graphs and snapshots | `prefill`, `decode_token`, `decode_steps`, `copy_gen_tokens`, `spec_verify` | several tokens are fed before it is known which hold; which graphs exist depends on the weights | it is the tokens it consumed, and nothing else is left of a verify |
| **Session, GPU path** `session.cpp` | token list, and the engine's state | `prefill`, `decode_token`, `generate` with three kinds of drafting | token list and engine advance at different statements | as on the CPU |
| **Batched generation** `session.cpp:832-964`, `cuda_engine.cu` | the engine's slots: recurrent state, F16 window, compact rows | `generate_batch`, `prefill_slot`, `prefill_eq_batch`, `decode_tokens` | three ways to prefill, slots that keep what the batch before left, two caches for one sequence, sequences that end at different steps | a slot holds its own sequence; each sequence is what `generate` gives alone |
| **C API** `rapidllm_c.cpp` | handles, `max_new` | load, encode, prefill, sample, decode, generate | legal calls in odd orders | what it adds to the session's promises |
| **Memory planner** `planner.cpp` | none | `plan_memory` | what is counted is not what is allocated | a context that is accepted fits |
| **HTTP server** `http_serve.cpp` | the connection, the event stream, the session all requests share | `serve_listen`, `handle_http` | one connection at a time, no timeouts, clients that leave, errors in the middle of a stream | one answer per request, to the client that asked; nobody waits but behind a client that stalls |
| **MTP head on the device** `cuda_engine.cu` | residuals, drafts, slots, side streams and events | `mtp_spec2`, `mtp_spec4`, and what `prefill` kicks | drafts prepared asynchronously and reused across calls; several windows fed before it is known which hold | drafts never change the text; what is verified was drafted for it |
| Tokenizer, loaders, model description, image decoding, command line | filled once | sequential conversions | parsing | - |
| CPU, CUDA and Vulkan kernels | none | arithmetic on tensors | rounding, layout | - |

How they interact: the command line and the server call the C API; the C API calls one `Session`; a
session either runs the layers itself, with `parallel_for` of the worker pool under the kernels, or
delegates to the `Engine`; `generate` asks the n-gram drafter or the MTP head for drafts. Everything but
the pool runs on one client thread.

The hazards this leads to are listed, line by line, in PROJECT.json ("hazards"), each with the properties
that would notice it, or with the reason why there is none yet.

## 2. Modules

    WorkerPool  <- WorkerPoolProps <- WorkerPoolInv <- WorkerPoolProofs       implements ParallelFor
    Ngram       <- NgramProps <- NgramProofs
    Session     <- SessionProps   <- SessionProofs        (extends Ngram)     implements GreedyDecoding
    CudaEngine  <- MtpEngine <- EngineProps <- EngineProofs                   implements DecodingEngine
    GpuSession  <- GpuSessionProps <- GpuSessionProofs (extends MtpEngine, Ngram)  implements GreedyDecoding
    SideStreams <- StreamProps    <- StreamProofs
    SlotEngine  <- BatchDecode <- BatchProps <- BatchProofs                   implements IndependentDecoding
    HttpServe   <- HttpProps   <- HttpProofs                                  implements Answers

A component's own module holds its variables, one action per operation or per step between two points
where another thread can interfere, and, next to a few definitions, a *faulty variant* of it: the way a
bug could look there, used to see that the properties notice. `...Props` holds the properties, `MC...` the
instance TLC checks, `...Proofs` the theorems. Proofs that need a first or last position with some property take
it from `NgramProofs` (`INSTANCE`).

**The abstraction.** Tensors are kept by what they were computed from. `rec` is the sequence of inputs the
recurrent and convolution states have absorbed, `kv[p]` the input that row `p` of the attention cache was
written for. `LM(rec, rows)` is the token that the forward pass yields: any function of both. Two states
that differ in anything the arithmetic reads are different in the model, so a stale row, a state that was
not restored or a token fed twice shows in the text that comes out. `LM` may also yield a value that is no
token: logits without a maximum (NaN), for which the samplers take index 0.

**WorkerPool** (`thread_pool.cpp`). One action per critical section, and one per access to shared state
outside it: `Fetch` is the `fetch_add` on `next_`, `CheckBound` and `RunChunk` what follows it, `FetchSub`
and `Signal` the end of a job, `Sleep`, `SpuriousWake` and the client's `PooledSleep` the condition
variables. `execs[i]` counts how often the function was applied to item `i`. `ParallelFor` is the promise:
between a call and its return each item is run exactly once.

**Session** (`session.cpp`, CPU path). `PrefillDone` and `PrefillThrows` are the two ends of `prefill`:
a token without an embedding row is noticed after the cache has been cleared. `Feed` is `decode_token`,
with the row that a position past the end falls on (`dual_cache.cpp`: the first row of the next layer).
`EmitHead`, `FeedHead`, `AcceptDraft`, `LeaveChecks` and `Return` are the statements of the loop in
`generate`, with drafts of the n-gram drafter or, for the MTP head, any tokens at all. `valid` is a history
variable: whether the session answers for its context, that is, no prefill failed half way and nothing was
decoded past the last row. The image is modelled by its rows: `Span` is the run of placeholders that
`first_placeholder_span` finds, `Spliced` what prefill puts there. A row that a failed `load_image`
left zeroed is `Blank`; one that prefill reads past the end of `vis_embeds_`, which the count of an older image makes it do,
is `Outside`.

**GreedyDecoding** is the promise to the client: a session holds a context, and `generate` appends the
tokens greedy decoding of that context gives, as many as it was asked for. `api.h` and `test_spec.cpp`
("spec generate changed greedy tokens") say so.

**CudaEngine** (`cuda_engine.cu`). `Decode` is a chain of decode-graph replays, `Launch` a verify graph,
`Hit`, `Miss`, `KeepFirst`, `Restored` and `StartOver` what the code does with the result, `VerifyShort`
and `Verify12` the cascade of graph sizes. Which graphs were captured, and whether they save the recurrent
state after their first token (`spec_t0_snap_`), depends on weights, sizes and CUDA errors: a build is any
member of the constant `Builds`. `gpu.gen` is `d_gen_out_`, whose counter is reset only by `decode_steps`.
Functions of a call are written in closed form (`Best`, `SelfFed`) rather than recursively.
**DecodingEngine** is the contract stated in `cuda_engine.h`.

**MtpEngine** adds the MTP head: what a call of `mtp_spec2` or `mtp_spec4` does to the engine. The head drafts
tokens, any at all, and the graphs of `CudaEngine` verify them: two with the fused graph (`Fused`), windows of three
or four (`Window`), or the windows of several slots launched one after
the other (`Drain`). A call may verify several windows; each is a step, with the tokens it adds to what the call returns.
What becomes of a window of four that holds in part is `AfterWindow`, and depends on where it was asked for. After another
window of the call (`HeldFour`) it ends the call and is returned: path `four`, the side window and `mtp_hit3_t4_from` of
`mtp_live_continue` and the second window of a first call. As the first window after a prefill it is not returned, `mtp_spec2` goes on to
another way of drafting and feeds t0 again (`again`); with a residual of an earlier verify `mtp_spec4` verifies t0 again, alone (`retry`). The
window of `mtp_t4_from_h31` counts only in full, those of `mtp_harvest_more_good_residuals` never (`lost`).
`onDev` and `toks` are `mtp_toks_on_dev_` and what `d_toks_` then holds. `Paths` says which of
these an instance has. After those of `GoodPaths` (`one`, `fused` with a snapshot, `three`, `four`) the engine and the tokens it
returned agree; the others leave it wrong (section 5), so the passing runs do without, and the theorems have it as a hypothesis.

**SideStreams** is the other half of drafting: the host enqueues commands on the main stream and on two side
streams, each runs its own in order (`Run`), and `cudaEventRecord`, `cudaStreamWaitEvent` and the synchronising
calls are where they meet. A wait is for the record that is last when it is enqueued. One action per piece of host code
between two points where it waits: `Prefill`, `JoinAndKick`, `KickStream12`, `Settle` are `prefill`; `TakeH4`, `FirstCall`, `UseSlots`,
`UseDrafts`, `Align`, `Aligned` the first `mtp_spec2` after it; `Drain`, `Drained` are `mtp_drain_slots`; `Cycle`, `LaunchNext`,
`AwaitNext`, `VerifyNext` `mtp_live_continue`. A draft is kept as the prefill, the residual and the window it was made for.

**GpuSession** composes the engine with `Session::generate` where `gpu_` is set: the path without drafts
(`EmitFirst`, `RunSteps`, `HandOver`), and the loop with drafts. `AskEngine` is a window of `mtp_spec2`, the first of a call or one
the engine goes on with after a window that held. `behind` is a history variable: a generate
without drafts does not decode its last token, so that engine and token list differ by one. It uses
`GreedyDecoding` with `Forgets`: after such a generate the context may not be gone on with.

**SlotEngine** is the engine with a slot for each sequence of a batch, as operators on its fields: `PrefillSlot`,
`PrefillEq`, `Replicate`, `Zero`, `DecodeTokens`. It keeps the two caches apart that a sequence has with TurboQuant: `kv`, the
F16 window, in which the slots lie one after the other, and `compact`, a quantised row for every position.
**BatchDecode** is `generate_batch` over it: `PrefillSame`, `PrefillPacked` (or `BeginColumns` and `FeedColumn`) and
`PrefillNextSlot` are its three ways to prefill, `DecodeActive` a round of its loop, `GenerateAlone` what an engine with one slot
does. Calls follow one another, so that each starts from what the last one left in the slots.
**IndependentDecoding** is the promise of `api.h` ("Independent prompts"): each sequence is decoded as if alone.

**HttpServe** is the server. The client of a connection connects, sends its request in three parts, stops sending or leaves, at
any moment and in any order (`Connect`, `SendPart`, `Shut`, `Leave`); the server accepts, receives what has come and handles it
(`Accept`, `RecvHeaders`, `RecvBody`, `Handle`), generates or streams (`Generate`, `Prefill`, `Sample`, `Decode`, `Finish`), writes a frame at a
time (`Emit`) and closes. `sess` is the one session all requests go through. A write to a client that left is lost, fails, or
ends the process. What was written to a client is kept as its frames, with the tokens they carry. The tokens of an answer are a function
of the context as far as the sessions establish that: for a context within `Ctx` (`NextTokens`), and in `rapidllm_generate` up to
`GenerateCap` tokens (`Produces`): 65 on the GPU without drafts (finding 2), any number on the CPU or with n-gram drafts, none on the GPU with an MTP head unless it keeps to
`GoodPaths`. Beyond, they are any tokens. **Answers** is the promise to the clients: served in the order they came, each is given a prefix of
its own answer, and a connection is closed when that is complete, failed for a reason, or nobody is there.

## 3. What is checked

| run | what it shows | bounds |
| --- | --- | --- |
| `worker_pool` | `TypeOK`; `NoStraggler`: nobody is in the job loop after the return, or with the function of another call; `ImplementsParallelFor`; `ParallelForReturns`; `JoinsEnd` | 3 workers, 5 items, 2 calls, thresholds scaled down (below) |
| `ngram` | `ProposesOnRepeat`; `ContinuesPeriod` | every context of up to 8 tokens from 3, up to 5 drafts |
| `session` | `CacheMatchesContext`: recurrent state, rows, position, token list and logits agree; `ImplementsGreedy`; `ImageWhole`: unless a load failed on top of an image, a prefill takes every row of the image set last, in order, and leaves no placeholder of its run; `GenerateReturns`; `TypeOK` | 4 rows, prompts and requests up to 3, up to 2 drafts, images up to 2 rows |
| `engine` | `ImplementsEngine`: no rejected draft survives, no stale row is read, only greedy drafts are consumed; `GenHoldsTokens`: `copy_gen_tokens` gives the tokens of the last `decode_steps`; `EngineTypeOK` | 9 rows, of which calls but windows of four fill 5; 5 builds, verifies and windows of up to 4, buffer of 2 |
| `gpu_session` | `EngineMatchesContext`, `ImplementsGreedy`, `GenerateReturns` over the engine | 5 rows, 2 builds, requests up to 4, drafts of up to 3 by the host or the engine, paths `fused` and `four` |
| `mtp_streams` | `WindowsAreFresh`: the tokens copied to be verified were drafted for that window, since the last prefill; `SlotsAreLaunched`: slots counted are slots launched in this generation | 3 prefills, 5 sets of graphs |
| `batch` | `SlotsHoldSequences`; `ImplementsIndependent`; `NearsReturn`: every step brings the return nearer; `TypeOK` | 7 engines of up to 3 slots, 12 batches, requests up to 3, 5 positions, a window of 2 |
| `http` | `ImplementsAnswers`; `EveryoneAnswered`; `TypeOK`: no connection both waits and is closed | 2 connections, 6 requests (3 streams, one refused) that fit a cache of 5 rows, a failing device |
| `engine_fp8` | finding 1: `RollsBack` fails | 13 rows, the graphs of 2 and 12 |
| `gpu_long` | finding 2: `ImplementsGreedy` fails | a buffer of 2, a request of 4 |
| `batch_slots` | finding 3: `PrefilledSlots` fails | as `batch`, any call |
| `batch_turbo` | finding 4: `CompactPersisted` fails | TurboQuant, a window of 2 |

**Why the bounds are enough.** Two jobs of a pool are the least in which a straggler can meet the next one,
and three workers the least where one starts late while two others run; `InlineBelow`, `MinGrain` and
`GrainShare` (64, 8 and 4 in the code) are scaled so that 5 items make several chunks, the last cut short.
A context of four rows holds a prompt, a head token, an accepted and a refused draft and is still run past
its end. A verify of four tokens reaches every graph up to four, one of three on an engine with that of two leaves one
token over; two rows of
output are fewer than the tokens decoded between two resets. Nine rows let a window of four that holds in part follow one that held
(`HeldFour`); `Short` keeps all other calls to the first five rows, where every interleaving of them already happens. In `gpu_session` a request of four after a
prompt of one is the least that fills the graph of four. Requests there are limited so that prompt and text fit the cache
(`Generate`), because neither the session nor the engine checks it (a hazard); `MaxOwn` keeps the client's own decodes to short contexts.
Five rows have no room for a window of four behind another, so there windows of four hold in full and a call goes on after the fused graph; windows that
hold in part are in the run `engine`, and in a session in the theorems. A window of two rows lets a batch start
inside it, end past it, or lie beyond it; `BatchProps.KeptApart` limits the run to calls whose slots the code keeps apart, and
findings 3 and 4 are what happens otherwise. Two connections are the least where one waits behind
another and finds the session as that one left it; their requests are `RequestsFit`, prompt and answer within the rows of the cache, since nothing
is promised of others; the three streams are of the three protocols. Three prefills let drafts of one be left over at the next, and
residuals of the first be used by the third. The model function is a hash of every input and its order, so
that a wrong history gives a wrong token on some text.

**Fairness.** Weak fairness of each worker's next step and of the client once it is inside a call: the
operating system schedules every runnable thread, and a condition variable's waiter that was notified wakes.
No fairness makes the client call anything or wakes a sleeper that was not notified. For sessions, weak fairness of the steps of a
`generate` that has begun: it is straight-line code of one thread. The kernel calls it waits for are assumed to end.
For the server, weak fairness of its own steps (one thread, and calls to a session that return); none of a client, which need never
connect, send, or leave. `EveryoneAnswered` therefore exempts the one case in which the code does let everybody wait: a client that
stalls for ever in the middle of its request. Batches and streams need no fairness: `NearsReturn` is about each step.

**Deadlock** is checked except where the instance really stops: contexts stop growing at the bound in the n-gram run, an engine at
its last row takes no more tokens, all connections of the server are closed in the end, and the side streams are drained after the last prefill.

## 4. What is proved

For every number of threads, items, calls, tokens and rows, and every model function:

* `WorkerPoolProofs`: `TypeCorrect`, `BarrierHolds` (`NoStraggler`), `Implements`
  (`Spec => ImplementsParallelFor`), from `Invariance`. The invariant `IInv` (`WorkerPoolInv`) adds to the
  types which threads exist (`Lifecycle`); that `remaining_` is the number of workers parallel_for still has
  to hear from, those in the job loop and those that have not seen the epoch (`Barrier`); and that the claims
  `[b, b + grain_)` lie below `next_`, do not overlap, and an item has been run once exactly when its claim
  is over (`Chunks`). None of these is inductive alone: an item is not run twice because claims are disjoint,
  all are run at the return because nobody leaves the loop before `next_` has passed `job_n_`, and the return
  waits for everyone because of the count. It assumes `ConstantsAssumption` only.
* `NgramProofs`: `DraftType`, the drafter returns at most as many tokens as asked for, each of its context; `NeverMissed`
  (`ProposesOnRepeat`), it returns some whenever the end of the context has occurred before with something behind it;
  `PeriodContinued` (`ContinuesPeriod`), what it returns in a periodic text goes on with the period. The drafter takes the longest suffix
  that occurs, and of that the last occurrence. The first result needs that there is a longest and a last (`LastExists`), the second
  that in a text of period p the suffix occurs p positions before the end, so that the last occurrence is no
  earlier and what follows it is the period. No assumption.
* `SessionProofs`: `TypeCorrect`, `ContextAgrees` (`CacheMatchesContext`), `Implements`
  (`Spec => ImplementsGreedy`), from `Invariance`. `CacheMatchesContext` is inductive with the types and
  three facts about the loop (`RunOK`). The refinement maps a context one emitted token ahead of the cache
  (`Pending`) while it waits to be fed, and rests on two lemmas: what `Seen` is inside and outside of that
  state. `ImageSpliced` (`ImageWhole`) is about the step that splices an image: unless a `load_image` failed while an image was set (`Torn`),
  the buffer has the rows of one image, in order and as many as are counted (`RowsInOrder`); they go over the run of placeholders from the
  first one on, the run is as long as the image has rows or the call is refused, and what follows it is no placeholder. Assumption:
  `SessionAssumption` (positive sizes).

* `EngineProofs`: `TypeCorrect`, `GenCopied` (`GenHoldsTokens`), `RolledBack` (`RollsBack`) and `Implements`
  (`ImplementsEngine`), from `Invariance`, for `MtpSpec`: drafts of the caller, and of the MTP head on the paths of `GoodPaths`. The invariant is that
  the engine is `Sound`: the recurrent state is the sequence of the rows before `pos_`, and `greedy()` is what greedy
  decoding appends to it; behind a prefill `d_tok_` holds that token too, which `decode_steps` starts from. Every path of a
  verify is shown to lead from a sound engine to a sound one that has `Consumed` a prefix that holds (`HitConsumes`,
  `MissConsumes`, `KeepTwoConsumes`, `TwoPhaseConsumes`, `WindowConsumes`, ...); that greedy decoding goes on from there is
  `ChainGreedy`. That decoding can be fed its own tokens (`SelfFedExists`) is shown from a longest such sequence, for want
  of induction. Assumption: `EngineAssumption` and `Repaired`, which the run `engine` meets: graphs of up to four tokens, those
  of more than two only with a snapshot, no path of the MTP head outside `GoodPaths`, and no more tokens asked of `decode_steps` than its
  buffer holds. Findings 1 and 2 and the configuration `MCMtp.cfg` are what happens without it.
* `StreamProofs`: `TypeCorrect`, `SlotsCounted` (`SlotsAreLaunched`) and `FreshWindows` (`WindowsAreFresh`). The first two follow
  from `Invariance`, for every set of captured graphs, any number of prefills and any order in which the streams run. The invariant `At` ties the engine to the point
  where the host is: within the first call the residual behind the first token is stashed, a prefill that drafts on
  the main stream (`stream12`) has launched the first slot, a drain has two slots or more, and a window that begins is at most the fourth.
  That a slot is launched for each one counted is then shown kick by kick (`KickH4Advances`, `KickExtraAdvances`,
  `KickQuadAdvances`). `FreshWindows` needs what is still on the streams (`SInv`, about engines with one side stream, which is what the
  property is about). A slot is `Filled` if it has its draft and nothing on the side stream will change that; it is `Promised` by an event if
  it will be so when that event fires; it is `Arriving` if the main stream is about to fill it. `SlotsReady` says that each slot that
  is counted is one of these by the event the host or the main stream will wait for, `CopiesFresh` that in front of every copy on the main stream
  there is such a wait, `TakesFresh` that no draft can overtake the command that takes the one before, and `DraftBy` that a draft that is awaited is the last.
  `NoneOld` is why `stream12` may fill slots on the main stream: nothing of an earlier prefill is left
  behind the event it has awaited. What the host enqueues behind keeps promises (`GrowsKeeps`), what a
  stream runs keeps or redeems them (`RunSide`, `RunMain`). Assumption: `StreamsAssumption`.

* `GpuSessionProofs`: `MatchesContext` (`EngineMatchesContext`) and `SessionImplements` (`ImplementsGreedy`), from
  `SessionInvariance`, with no drafts, with those of the n-gram drafter and with those of the MTP head on the paths of `GoodPaths`. The invariant `SInv` says at each statement of
  `generate` which sequence the engine has consumed: the context, the context less its last token, or the context and what
  the next verify starts from; the engine's own part is that it is `Sound`, as in `EngineProofs`, whose lemmas about
  a verify are used as they are. Assumption: `Served`: the graphs and paths of `EngineProofs`, and `generate` without drafts asked
  for at most one token more than the buffer holds. The runs `engine_fp8` and `gpu_long` and the configuration `MCMtp.cfg` show that each part is needed.
* `BatchProofs`: `TypeCorrect` and `Nears` (`NearsReturn`) for any calls, from `Shape`; `SlotsHold` (`SlotsHoldSequences`) and `Implements`
  (`ImplementsIndependent`), from `Holding`. `Shape` (`TInv`) says what the call, its locals and the engine look like at
  each of the seven points of `generate_batch`; `HInv` adds what the slots stand for (`Stands`): the recurrent state of a
  slot is the sequence it was fed, its rows in the F16 window those tokens, and, where the batch will go past the window, its compact rows as
  well. It is kept because rows of different slots are different rows (`RowOf`), and because each prefill clears or overwrites what it is about
  to read. For sequences generated one after the other, the chain of self-fed tokens is shown to exist and to be unique.
  The last two results have the hypothesis `OnlyKeptApart`: only calls are made whose slots the code keeps apart
  (`KeptApart`). The code does not refuse the others; the runs `batch_slots` and `batch_turbo`
  show what they do, and the run `batch` is an instance of the hypothesis. Assumptions: `SlotEngineAssumption`, `BatchAssumption`.
* `HttpProofs`: `TypeCorrect`, from `Invariance`, and `Implements` (`ImplementsAnswers`), for any clients and model; the first for any requests, the second for requests that fit
  (`RequestsFit`: the prompt is refused or has room behind it for what is wanted, and a request that is not streamed wants no more than `GenerateCap`). The invariant `HInv` says who is
  in the queue (`Line`: nobody twice, nobody who was closed or has not come) and what is known at each point of an answer (`Serving`: the request
  is one that generates, and has room for the next token). `AInv` adds what was told: nothing to a connection that waits (`Quiet`); what the server
  has of a request it decides about is all its client will send (`Hearing`), so that what is due no longer changes; the tokens so far are the first
  of the answer, and the session goes on from them (`Deciding`); the frames on the wire and those to be sent make up the stream so far, and
  what was heard is the text of those tokens but for the delta that is to be sent (`Telling`). A frame then tells its client nothing, the next
  token, all that is due or that it failed (`Told`): the text of fewer tokens is a beginning of that of all (`TextBegins`), and no
  frame of a stream but the last ends it (`StreamEnds`).
  Hypothesis `GreedyIsToken`: greedy decoding yields tokens, which `SessionProofs` shows of a session. That the session's tokens
  are those of greedy decoding is assumed only where a request fits (`ProducesFitting`, `NextTokensFitting`); `handle_http` refuses none that does not, and what
  it answers then is any text.

Where a proof needs induction over numbers it takes a longest or a last of a bounded set instead (`Upwards`, `LastExists`).

Only model-checked: liveness (`ParallelForReturns`, `JoinsEnd`, `GenerateReturns`, `EveryoneAnswered`), which is out of the
prover's reach. Every invariant and every action property of a passing run is the subject of a theorem.

## 5. Findings

1. **A T=12 verify that holds in part feeds its first token twice** (`cuda_engine.cu:17192-17198`; the same for
   six, 17268-17275). The recurrent state is restored to what it was *after* `toks[0]`, `pos_` to *before* it, and a
   shorter verify starts again from `toks[0]`. `cuda_engine.h:70` promises a state "after toks[0..n_consumed)".
   Row-major FP8 weights are the mix of graphs that gets there (`maybe_capture_spec`). Run `engine_fp8`.
2. **A request without drafts for more than 65 tokens goes wrong** (`session.cpp:713-721`): `decode_steps` runs
   all of them, at most 64 are read back, the output counter is not reset for that many, and the
   loop goes on from the state after the last one. Run `gpu_long`, with a buffer of two instead of 64.
3. **A prompt of one token is prefilled into slot 0, whatever slot it is for** (`cuda_engine.cu:12835`): `prefill_slot` hands it to
   `launch_decode`, which has no slot argument. The slot asked for stays empty, and the sequence in slot 0 gets the token as
   well. `cuda_engine.h:59`: "Prefill one independent sequence into cache slot". Run `batch_slots`.
4. **A batch stores no compact rows inside the F16 window** (`cuda_engine.cu:19101`, and 18955-18958 for one sequence), so that the first
   step past it attends rows that were never written, against the comment in `qk_attn_decode_k` ("Persist compact KV
   whenever buffers are bound, including the F16 window"). Run `batch_turbo`.

Nine more, seen with other constants of the same modules and described among the hazards of PROJECT.json, have no run of their own:

* `mtp_drain_slots` launches the windows of all slots, and when one does not hold takes back position and token but not the recurrent
  state (14184): `RollsBack` fails in `MCMtp.cfg`, whose `Paths` are `{"drain2"}`.
* `mtp_spec4` verifies t0 again after a window that held in part and has consumed it (16143): `Paths = {"retry"}` there.
* The first `mtp_spec2` after a prefill does so too: when its window of four (15372-15380) holds in part, or `mtp_try_first_t2` misses (14819-14824), it
  falls through to the next way of drafting (15430), which feeds t0 again: `Paths = {"again"}`. The text may then change, although `test_spec.cpp:77`
  asserts that drafts never do that.
* `mtp_live_continue` drops what a window of `mtp_t4_from_h31` held if it is not all of it (14448-14457), and `mtp_harvest_more_good_residuals` (14334-14348,
  called at 15394) verifies windows whose tokens have nowhere to go: they are consumed and missing from the text. `Paths = {"four", "lost"}`.
* The fused graph without a snapshot answers 0 after a draft that fails, and t0 is fed again (15726): `Paths = {"fused", "unsaved"}`.
* `mtp_toks_on_dev_` outlives windows and prefills, so that a later `spec_verify` verifies other tokens than it is given
  (17305): `Paths = {"four", "mixed"}`. A session of the C API drafts in one way only, so it does not meet this.
* With the second side stream, the event that "Wait THIS generate's stash" (15310) waits for is recorded before the stash is enqueued
  (13628, 13940): `WindowsAreFresh` without its condition fails. What is verified then is a slot not yet filled; the text is not affected, as
  drafts are verified.
* After a `load_image` that failed in the encoder while an image was set, `vis_n_` counts the rows of the old image and `vis_embeds_` has zeros for
  the new one (`session.cpp:448-451`). The next prefill accepts a prompt for the old image and copies `vis_n_` rows (513-514), past the end of the
  buffer if the new image has fewer. `ImageWhole` without its condition `~Torn` fails in the instance of the run `session`.
* The server hands on requests whose prompt and answer exceed the cache, or `GenerateCap`: `ImplementsAnswers` fails in the run `http` with `Ctx = 2` or
  `GenerateCap = 2`.

Also, `cuda_engine.h:70` has "preds[i] = greedy after toks[i]", while every path stores `toks[i]`; `session.cpp:757` relies on that.

## 6. Not modelled, and limits

* The verify graphs of six and sixteen tokens: the launch of the first copies a host array with `cudaMemcpyDeviceToDevice`
  (`cuda_engine.cu:17233`), whose outcome is undefined; the second is switched off in the source.
* Graphs of three tokens and more without snapshots are left out of `ShortBuilds`: their miss decodes `toks[0]` on
  a state that has absorbed every token (17189, 17380), so `ImplementsEngine` does not hold for them; they need a
  DeltaNet head size other than 128.
* In `MtpEngine` a window of a call that verifies several is a step of its own, and the paths `again`, `lost` and `retry` stand each for
  several places in the code that go wrong in the same way: after `again`, the fused graph for whichever way of drafting comes next. What decides between
  the paths (residuals, which tokens the head drafts) is left out: any path the graphs allow may be taken. So is what the head computes: a draft is any token. No run
  and no theorem says that a session with an MTP head produces greedy text on the paths outside `GoodPaths`; section 5 says that it does not.
* In `SideStreams` the residuals are flags. Their rows share a buffer of 256 with the history `mtp_snap_hist` and
  `mtp_append_hist` write, so that a text of more than 236 tokens overwrites residuals that are still marked as there; and the graph of the side
  stream uses scratch buffers (`d_mtp_cat_`, `d_mtp_q_`, ...) that attempts on the main stream use too. Either changes drafts, not texts.
* Images on the GPU. Sampling: `rapidllm_sample` ignores its temperature, so everything is greedy.
* `generate_batch` without `out_n`; with TurboQuant, batches on both sides of the window's end (19048 decides for all sequences by the first).
* In `Session` and `HttpServe`, what a write past the cache or a read past the image does to other memory, or that it ends the process.
* In `HttpServe`, a send never blocks (a client that does not read), headers of more than 1 MiB, and a stream whose callback is null. The device's failures are
  bound to a connection by `Faults`, so that `MayFail` can say which answers may fail.
* A second client thread in the pool: no caller has one. Memory order: the code's relaxed accesses are separated by
  the mutex, and the model is sequentially consistent.
* The C API adds argument checks and error codes to calls whose effect on a session is in `Session`, `GpuSession` and `HttpServe`.
* The memory planner is one sum of products, evaluated at load. It counts two bytes (one with int8) for each cache element, once; the CPU cache takes four, and every
  session has its own, so that README.md:59 of the repository ("refuse or shrink context") does not hold for them. It has no state: a module would restate the sums.
* Tokenizer, loaders, model description, image decoding, command line: sequential conversions, filled once. Kernels: arithmetic; most of the
  lines of the implementation are theirs. Vulkan is called synchronously, a layer at a time.

## 7. Plan

Written, in this order, because an error in the first ones changes every text: the pool, the drafter, the CPU session with images, the engine, the GPU session; then batches, the
server, the MTP head and its streams. What would come next:

1. Residuals with their rows in `SideStreams`, and the drafts of `MtpEngine` taken from it.
2. Images on the GPU path.
