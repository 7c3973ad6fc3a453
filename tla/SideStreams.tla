----------------------------- MODULE SideStreams -----------------------------
(***************************************************************************)
(* How the MTP head drafts beside the main stream: the streams, events and *)
(* flags of src/src/kernels/cuda/cuda_engine.cu that prefill, mtp_spec2,    *)
(* mtp_drain_slots and mtp_live_continue use.  The host enqueues commands  *)
(* on three streams; each runs its own in order, and they meet at events.  *)
(*                                                                         *)
(* What a draft is made of is kept, not its tokens: the prefill it was     *)
(* launched for, the residual it starts from, and how many windows the call *)
(* had verified.  Commands that draft or store no tokens are left out, and *)
(* so are the residuals' rows (d_mtp_hh_): `have` says which are stashed,   *)
(* and whether the token that goes with one is 0.                          *)
(***************************************************************************)
EXTENDS Integers, Sequences, FiniteSets

CONSTANTS
  Builds,   \* the sets of graphs that may have been captured, see AllGraphs
  MaxGen    \* bound on the prefills

AllGraphs == {"rec4", "quad", "t12", "rec4 b2", "hin b2"}

ASSUME StreamsAssumption == Builds \subseteq SUBSET AllGraphs /\ MaxGen \in Nat

VARIABLES
  eng,   \* fields of EngineImpl, the streams' queues, and how often each event was recorded
  mem,   \* device memory: drafts of the side streams, the slots, the tokens copied last
  pc,    \* where the host is
  gen    \* number of the prefill

vars == <<eng, mem, pc, gen>>

Stream == {"main", "bak", "bak2"}
Event == {"side", "side2", "slot0", "slot1"}
Slot == 1..4
Residual == <<"h4", "h31", "cont1", "cont2">>   \* what the draft of a slot starts from
Nothing == <<0, "zero", 0>>

Init ==
  /\ \E g \in Builds :
       eng = [graphs |-> g, have |-> [r \in {"h4", "h31", "cont1", "cont2"} |-> "none"],
              clean |-> FALSE, side |-> FALSE, side2 |-> FALSE, kind |-> 0, slots |-> 0,
              stream12 |-> FALSE, streamed |-> FALSE, first |-> FALSE, windows |-> 0,
              launched |-> {}, q |-> [s \in Stream |-> <<>>], count |-> [v \in Event |-> 0]]
  /\ mem = [drafts |-> [s \in {"bak", "bak2"} |-> Nothing],
            slot |-> [i \in Slot |-> Nothing], copied |-> {}]
  /\ pc = "idle" /\ gen = 0

-----------------------------------------------------------------------------
(***************************************************************************)
(* Streams and events                                                      *)
(***************************************************************************)
Enqueue(e, s, c) == [e EXCEPT !.q[s] = Append(@, c)]

Record(e, v, s) ==
  [Enqueue(e, s, [op |-> "record", ev |-> v, n |-> e.count[v] + 1]) EXCEPT !.count[v] = @ + 1]

\* A wait is for the record that is last when it is enqueued, if there is any.
Wait(e, v, s) == Enqueue(e, s, [op |-> "wait", ev |-> v, n |-> e.count[v]])

Fired(v, n) ==
  ~ \E s \in Stream : \E k \in DOMAIN eng.q[s] :
      LET c == eng.q[s][k] IN c.op = "record" /\ c.ev = v /\ c.n = n

\* cudaEventSynchronize, cudaStreamSynchronize and cudaDeviceSynchronize have returned.
Synced(v) == Fired(v, eng.count[v])
MainDone == eng.q["main"] = <<>>
AllDone == \A s \in Stream : eng.q[s] = <<>>

Run(s) ==
  /\ eng.q[s] # <<>>
  /\ LET c == Head(eng.q[s])
     IN  /\ c.op = "wait" => Fired(c.ev, c.n)
         /\ mem' = CASE c.op = "draft" -> [mem EXCEPT !.drafts[s] = c.of]
                     [] c.op = "stash" -> [mem EXCEPT !.slot[c.slot] = mem.drafts[s]]
                     [] c.op = "fill"  -> [mem EXCEPT !.slot = [i \in Slot |-> IF i \in c.slots THEN c.of[i] ELSE @[i]]]
                     [] c.op = "copy"  -> [mem EXCEPT !.copied = {<<mem.slot[i], c.of[i]>> : i \in c.slots}]
                     [] c.op = "take"  -> [mem EXCEPT !.copied = {<<mem.drafts["bak"], c.of>>}]
                     [] OTHER          -> mem
  /\ eng' = [eng EXCEPT !.q[s] = Tail(@)]
  /\ UNCHANGED <<pc, gen>>

-----------------------------------------------------------------------------
(***************************************************************************)
(* Kicks                                                                   *)
(***************************************************************************)
Has(e, r) == e.have[r] # "none"
ReadyConts(e) == e.have["cont1"] = "zero" /\ e.have["cont2"] = "zero" /\ e.clean
TimedReuse(e) == Has(e, "h4") /\ Has(e, "h31") /\ ReadyConts(e)

SlotDraft == [i \in Slot |-> <<gen, Residual[i], 0>>]

\* mtp_launch_side and mtp_launch_side_b2: the event is recorded behind the graph.
LaunchSide(e, s, draft) ==
  LET launched == Enqueue(e, s, [op |-> "draft", of |-> draft])
  IN  IF s = "bak" THEN [Record(launched, "side", s) EXCEPT !.side = TRUE]
      ELSE [Record(launched, "side2", s) EXCEPT !.side2 = TRUE]

\* Launch for a slot, and copy what is drafted there.
KickSlot(e, s, i) ==
  [Enqueue(LaunchSide(e, s, SlotDraft[i]), s, [op |-> "stash", slot |-> i])
     EXCEPT !.launched = @ \cup {i}]

On(e, graph) == IF graph \in e.graphs THEN "bak2" ELSE "bak"

\* Faulty variant: the slots are added to those there are.
KickH4Adds(e) ==
  IF ~Has(e, "h4") THEN e
  ELSE LET one == Record(KickSlot(e, "bak", 1), "slot0", "bak")
           s == On(e, "rec4 b2")
           both == Has(e, "h31") /\ e.graphs \cap {"rec4", "rec4 b2"} # {}
           n == e.slots + IF both THEN 2 ELSE 1
       IN  [(IF both THEN Record(KickSlot(one, s, 2), "slot1", s) ELSE one)
              EXCEPT !.slots = n, !.kind = IF n >= 2 THEN 3 ELSE 1]

\* Slot 1 from h4, slot 2 from h31.
KickH4(e) ==
  IF ~Has(e, "h4") THEN e
  ELSE LET one == Record(KickSlot(e, "bak", 1), "slot0", "bak")
           s == On(e, "rec4 b2")
           both == Has(e, "h31") /\ e.graphs \cap {"rec4", "rec4 b2"} # {}
           n == IF both /\ e.slots < 2 THEN 2 ELSE IF e.slots < 1 THEN 1 ELSE e.slots
       IN  [(IF both THEN Record(KickSlot(one, s, 2), "slot1", s) ELSE one)
              EXCEPT !.slots = n, !.kind = IF n >= 2 THEN 3 ELSE 1]

\* Slots 3 and 4 from the residuals of windows that were accepted.
KickExtra(e) ==
  LET third == e.slots = 2
      fourth == e.slots \in {2, 3} /\ e.have["cont2"] = "zero"
      three == IF third THEN KickSlot(e, "bak", 3) ELSE e
      four == IF fourth THEN KickSlot(three, On(e, "hin b2"), 4) ELSE three
  IN  IF e.have["cont1"] # "zero" \/ ~(third \/ fourth) THEN e
      ELSE [Record(four, "side", "bak")
              EXCEPT !.side = TRUE, !.slots = IF fourth THEN 4 ELSE 3]

\* All four in one graph.
KickQuad(e) ==
  LET filled == Enqueue(e, "bak", [op |-> "fill", slots |-> Slot, of |-> SlotDraft])
  IN  [Record(Record(Record(filled, "slot0", "bak"), "side", "bak"), "slot1", "bak")
         EXCEPT !.side = TRUE, !.side2 = FALSE, !.slots = 4, !.kind = 3, !.launched = Slot]

Kick(e) ==
  IF TimedReuse(e) /\ "quad" \in e.graphs THEN KickQuad(e)
  ELSE IF TimedReuse(e) THEN KickExtra(KickH4(e)) ELSE KickH4(e)

-----------------------------------------------------------------------------
(***************************************************************************)
(* prefill.  tokens: fed one by one; graph: replayed; eager: launched, with *)
(* a last attempt to draft three windows at once.                          *)
(***************************************************************************)
Prefill(how) ==
  /\ pc = "idle" /\ gen < MaxGen
  /\ eng' = [Enqueue(eng, "main", [op |-> "fill", slots |-> Slot, of |-> [i \in Slot |-> Nothing]])
               EXCEPT !.kind = 0, !.slots = 0, !.stream12 = FALSE, !.streamed = FALSE,
                      !.first = FALSE, !.windows = 0, !.launched = {}]
  /\ pc' = how /\ gen' = gen + 1
  /\ mem' = [mem EXCEPT !.copied = {}]

\* What is still drafted for the prefill before is awaited, then drafts are kicked.
JoinAndKick ==
  /\ pc \in {"tokens", "graph", "eager"} /\ MainDone
  /\ eng.side => Synced("side")
  /\ eng.side2 => Synced("side2")
  /\ LET joined == [eng EXCEPT !.side = FALSE, !.side2 = FALSE]
     IN  eng' = IF pc = "tokens" THEN joined ELSE Kick(joined)
  /\ pc' = IF pc = "tokens" THEN "settle"
           ELSE IF pc = "eager" /\ eng.have["h31"] = "zero" THEN "stream12" ELSE "streamed"
  /\ UNCHANGED <<mem, gen>>

\* mtp_kick_h31_stream12: drafted on the main stream, used only if they begin as
\* expected.
KickStream12 ==
  /\ pc = "stream12" /\ MainDone
  /\ eng.side => Synced("side")
  /\ LET joined == [eng EXCEPT !.side = FALSE]
         filled == Enqueue(joined, "main", [op |-> "fill", slots |-> 2..4, of |-> SlotDraft])
     IN  \/ eng' = joined
         \/ eng' = [Record(Record(filled, "slot1", "main"), "side", "main")
                      EXCEPT !.side = TRUE, !.stream12 = TRUE, !.slots = 4, !.kind = 3,
                             !.launched = @ \cup 2..4]
  /\ pc' = "streamed"
  /\ UNCHANGED <<mem, gen>>

\* finish_logits, and mtp_stream_prefill, which leaves out a prompt of one token.
Settle ==
  /\ pc \in {"settle", "streamed"} /\ MainDone
  /\ eng' = [eng EXCEPT !.streamed = (pc = "streamed")]
  /\ pc' = "idle"
  /\ UNCHANGED <<mem, gen>>

-----------------------------------------------------------------------------
(***************************************************************************)
(* The first mtp_spec2 of a prefill                                        *)
(***************************************************************************)
\* The residual after the first token is taken once, by a step that is taken back.
TakeH4 ==
  /\ pc = "idle" /\ eng.streamed /\ ~eng.first /\ ~Has(eng, "h4") /\ AllDone
  /\ eng' = [eng EXCEPT !.have["h4"] = "zero"]
  /\ UNCHANGED <<mem, pc, gen>>

\* mtp_arm_cycle; drafts are kicked if prefill has not filled two slots.
FirstCall ==
  /\ pc = "idle" /\ eng.streamed /\ ~eng.first /\ Has(eng, "h4")
  /\ LET armed == [eng EXCEPT !.first = TRUE]
     IN  eng' = IF eng.kind # 3 /\ Has(eng, "h31") THEN KickH4(armed) ELSE armed
  /\ pc' = CASE eng'.kind = 3 /\ eng'.slots >= 2 -> "slots"
             [] eng'.kind = 1                    -> "drafts"
             [] OTHER                            -> "align"
  /\ UNCHANGED <<mem, gen>>

CopySlots(e, slots) == Enqueue(e, "main", [op |-> "copy", slots |-> slots, of |-> SlotDraft])
TakeDrafts(e, draft) == Enqueue(e, "main", [op |-> "take", of |-> draft])

UseSlots ==
  /\ pc = "slots"
  /\ eng' = [CopySlots(Wait(eng, IF eng.side THEN "side" ELSE "slot0", "main"), {1}) EXCEPT !.kind = 0]
  /\ pc' = "drain"
  /\ UNCHANGED <<mem, gen>>

UseDrafts ==
  /\ pc = "drafts"
  /\ eng.side => Synced("side")
  /\ eng' = [TakeDrafts(eng, SlotDraft[1]) EXCEPT !.side = FALSE, !.kind = 0]
  /\ pc' = "align"
  /\ UNCHANGED <<mem, gen>>

\* The first window is verified while the next is drafted from its last token.
Align ==
  /\ pc = "align"
  /\ LET ready == Wait(Record(eng, "side", "main"), "side", "bak")
     IN  eng' = [LaunchSide(ready, "bak", <<gen, "seed", 0>>) EXCEPT !.kind = 2]
  /\ pc' = "aligned"
  /\ UNCHANGED <<mem, gen>>

\* After a miss the other ways to draft are tried, on the main stream.
Aligned ==
  /\ pc = "aligned" /\ MainDone
  /\ \/ pc' = "idle" /\ UNCHANGED eng
     \/ eng' = [eng EXCEPT !.windows = 1] /\ pc' \in {"cycle", "launch"}
  /\ UNCHANGED <<mem, gen>>

-----------------------------------------------------------------------------
(***************************************************************************)
(* mtp_drain_slots                                                         *)
(***************************************************************************)
JoinSide2(e) == IF e.side2 THEN [Wait(e, "side2", "main") EXCEPT !.side2 = FALSE] ELSE e
JoinSide(e) == IF e.side THEN [Wait(e, "side", "main") EXCEPT !.side = FALSE] ELSE e

\* The last three windows in one graph.
DrainTwelve(e) == CopySlots(JoinSide(JoinSide2(Wait(e, "slot1", "main"))), 2..4)

\* Faulty variant: the second window is not awaited.
DrainOneByOneEarly(e) ==
  LET two == CopySlots(e, {2})
      three == CopySlots(IF two.side2 THEN JoinSide2(two) ELSE JoinSide(two), {3})
  IN  CASE e.slots = 2 -> two [] e.slots = 3 -> three [] e.slots = 4 -> CopySlots(three, {4})

\* One graph a window.
DrainOneByOne(e) ==
  LET two == CopySlots(Wait(e, "slot1", "main"), {2})
      three == CopySlots(IF two.side2 THEN JoinSide2(two) ELSE JoinSide(two), {3})
  IN  CASE e.slots = 2 -> two [] e.slots = 3 -> three [] e.slots = 4 -> CopySlots(three, {4})

Drain ==
  /\ pc = "drain"
  /\ LET e == IF eng.slots < 4 /\ eng.clean THEN KickExtra(eng) ELSE eng
         twelve == e.slots = 4 /\ "t12" \in e.graphs /\ (e.stream12 \/ ReadyConts(e))
     IN  /\ eng' = IF twelve THEN DrainTwelve(e) ELSE DrainOneByOne(e)
         /\ pc' = IF twelve THEN "drained all" ELSE "drained"
  /\ UNCHANGED <<mem, gen>>

\* mtp_stash_next_cont: the residual of a window that held, with the token after it.
StashNext(have, v) ==
  IF have["cont1"] = "none" THEN [have EXCEPT !["cont1"] = v]
  ELSE IF have["cont2"] = "none" THEN [have EXCEPT !["cont2"] = v]
  ELSE have

\* w windows held.
Drained ==
  /\ pc \in {"drained", "drained all"} /\ MainDone
  /\ \E w \in 0..eng.slots, v \in {"zero", "other"} :
       /\ eng' = [eng EXCEPT !.windows = w,
                    !.have = IF pc = "drained" /\ w >= 2 THEN StashNext(@, v) ELSE @]
       /\ pc' = IF w \in 1..3 THEN "next" ELSE "idle"
  /\ UNCHANGED <<mem, gen>>

-----------------------------------------------------------------------------
(***************************************************************************)
(* mtp_live_continue: more windows, until one fails or there are four       *)
(***************************************************************************)
\* mtp_try_stash_good_residual: what a window that held fills next.
StashGood(e) ==
  LET r == CASE ~Has(e, "h31")            -> "h31"
             [] e.have["cont1"] # "zero"  -> "cont1"
             [] OTHER                     -> "cont2"
      filled == [e.have EXCEPT ![r] = "zero"]
  IN  IF Has(e, "h31") /\ e.have["cont1"] = "zero" /\ e.have["cont2"] = "zero"
      THEN [e EXCEPT !.clean = TRUE]
      ELSE [e EXCEPT !.have = filled,
              !.clean = @ \/ (filled["cont1"] = "zero" /\ filled["cont2"] = "zero")]

\* Faulty variant: a fifth window is begun.
AfterFive(w) == IF w <= 4 THEN "next" ELSE "idle"

\* Where the host goes on after w windows.
After(w) == IF w < 4 THEN "next" ELSE "idle"

\* A window drafted on the main stream, from h31 or from the residual of the cycle:
\* its residual may be a good one.
Cycle ==
  /\ pc \in {"cycle", "next"}
  /\ \/ pc' = "idle" /\ UNCHANGED eng
     \/ /\ AllDone
        /\ \E e \in {eng, StashGood(eng)} : eng' = [e EXCEPT !.windows = @ + 1]
        /\ pc' = After(eng'.windows)
  /\ UNCHANGED <<mem, gen>>

\* Or one drafted on the side, and awaited.
LaunchNext ==
  /\ pc \in {"launch", "next"}
  /\ pc = "next" => AllDone
  /\ eng' = LaunchSide(eng, "bak", <<gen, "mid", eng.windows>>)
  /\ pc' = "await"
  /\ UNCHANGED <<mem, gen>>

AwaitNext ==
  /\ pc = "await" /\ Synced("side")
  /\ eng' = [TakeDrafts(eng, <<gen, "mid", eng.windows>>) EXCEPT !.side = FALSE]
  /\ pc' = "awaited"
  /\ UNCHANGED <<mem, gen>>

VerifyNext ==
  /\ pc = "awaited" /\ MainDone
  /\ \/ pc' = "idle" /\ UNCHANGED eng
     \/ \E v \in {"zero", "other"} :
          LET have == StashNext(eng.have, v)
              w == eng.windows + 1
          IN  /\ eng' = [eng EXCEPT !.windows = w, !.have = have,
                           !.clean = @ \/ (w = 4 /\ have["cont1"] = "zero" /\ have["cont2"] = "zero")]
              /\ pc' = After(w)
  /\ UNCHANGED <<mem, gen>>

-----------------------------------------------------------------------------
\* A verify of three tokens that holds, after the first call of some prefill.
ThreeHold ==
  /\ pc = "idle" /\ Has(eng, "h4") /\ MainDone
  /\ \E v \in {"zero", "other"} : eng' = [eng EXCEPT !.have["h31"] = v]
  /\ UNCHANGED <<mem, pc, gen>>

ClientCall == ThreeHold \/ TakeH4 \/ FirstCall \/ \E how \in {"tokens", "graph", "eager"} : Prefill(how)

HostStep ==
  \/ JoinAndKick \/ KickStream12 \/ Settle
  \/ UseSlots \/ UseDrafts \/ Align \/ Aligned
  \/ Drain \/ Drained
  \/ Cycle \/ LaunchNext \/ AwaitNext \/ VerifyNext

Next == ClientCall \/ HostStep \/ \E s \in Stream : Run(s)

Spec == Init /\ [][Next]_vars
=============================================================================
