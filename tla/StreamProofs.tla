---------------------------- MODULE StreamProofs ----------------------------
(***************************************************************************)
(* The slots that are counted are those for which a draft was launched, on *)
(* every set of graphs and for every number of prefills; and with one side *)
(* stream a window is verified with the tokens drafted for it, in whatever *)
(* order the streams run.                                                  *)
(***************************************************************************)
EXTENDS StreamProps, SequenceTheorems, TLAPS

Names == {"zero", "h4", "h31", "cont1", "cont2", "seed", "mid"}
Draft == (0..MaxGen) \X Names \X (0..4)

Command ==
  [op : {"draft", "take"}, of : Draft]
    \cup [op : {"stash"}, slot : Slot]
    \cup [op : {"fill", "copy"}, slots : SUBSET Slot, of : [Slot -> Draft]]
    \cup [op : {"record", "wait"}, ev : Event, n : Nat]

Have == [{"h4", "h31", "cont1", "cont2"} -> {"none", "other", "zero"}]

Engines ==
  [graphs : SUBSET AllGraphs, have : Have, clean : BOOLEAN, side : BOOLEAN, side2 : BOOLEAN,
   kind : 0..3, slots : 0..4, stream12 : BOOLEAN, streamed : BOOLEAN, first : BOOLEAN, windows : 0..4,
   launched : SUBSET Slot, q : [Stream -> Seq(Command)], count : [Event -> Nat]]

Memory(m) == DOMAIN m = {"drafts", "slot", "copied"} /\ DOMAIN m.slot = Slot

\* Where the host is: before, in and after a prefill, and in the first call.
Prefilling == {"tokens", "graph", "eager", "stream12", "streamed", "settle"}
Windows == {"cycle", "next", "launch", "await", "awaited"}
InCall == {"slots", "drafts", "align", "aligned", "drain", "drained", "drained all"} \cup Windows

\* f is e but for its queues, events and flags.
Quiet(e, f) ==
  /\ f \in Engines /\ f.graphs = e.graphs /\ f.have = e.have /\ f.clean = e.clean
  /\ f.slots = e.slots /\ f.launched = e.launched /\ f.windows = e.windows

-----------------------------------------------------------------------------
(***************************************************************************)
(* Streams and events                                                      *)
(***************************************************************************)
LEMMA QuietTrans == \A e, f, g : Quiet(e, f) /\ Quiet(f, g) => Quiet(e, g)
BY DEF Quiet

LEMMA QueueParts ==
  ASSUME NEW e \in Engines
  PROVE  /\ e.q \in [Stream -> Seq(Command)] /\ e.count \in [Event -> Nat] /\ e.slots \in 0..4
         /\ e.launched \in SUBSET Slot /\ e.have \in Have /\ e.windows \in 0..4 /\ e.graphs \in SUBSET AllGraphs
BY DEF Engines

LEMMA EnqueueQuiet ==
  ASSUME NEW e \in Engines, NEW s \in Stream, NEW c \in Command
  PROVE  Quiet(e, Enqueue(e, s, c)) /\ Enqueue(e, s, c).count = e.count
<1> DEFINE p == [e.q EXCEPT ![s] = Append(@, c)]
<1>1. p \in [Stream -> Seq(Command)]
  BY QueueParts
<1>2. Enqueue(e, s, c) = [e EXCEPT !.q = p]
  BY DEF Enqueue
<1> HIDE DEF p
<1>3. QED
  BY <1>1, <1>2 DEF Engines, Quiet

LEMMA EventCommand ==
  ASSUME NEW op \in {"record", "wait"}, NEW v \in Event, NEW n \in Nat
  PROVE  [op |-> op, ev |-> v, n |-> n] \in Command
BY DEF Command

LEMMA RecordQuiet ==
  ASSUME NEW e \in Engines, NEW v \in Event, NEW s \in Stream
  PROVE  Quiet(e, Record(e, v, s))
<1> DEFINE m == e.count[v] + 1
           c == [op |-> "record", ev |-> v, n |-> m]
           f == Enqueue(e, s, c)
           k == [e.count EXCEPT ![v] = @ + 1]
<1>1. m \in Nat /\ k \in [Event -> Nat]
  BY QueueParts
<1>2. c \in Command
  BY <1>1, EventCommand
<1> HIDE DEF c, m
<1>3. Quiet(e, f) /\ f.count = e.count
  BY <1>2, EnqueueQuiet
<1>4. Record(e, v, s) = [f EXCEPT !.count[v] = @ + 1]
  BY DEF Record, c, m
<1> HIDE DEF f
<1>5. Record(e, v, s) = [f EXCEPT !.count = k]
  BY <1>3, <1>4
<1> HIDE DEF k
<1>6. QED
  BY <1>1, <1>3, <1>5 DEF Engines, Quiet

LEMMA WaitQuiet ==
  ASSUME NEW e \in Engines, NEW v \in Event, NEW s \in Stream
  PROVE  Quiet(e, Wait(e, v, s))
<1>1. e.count[v] \in Nat
  BY QueueParts
<1>2. [op |-> "wait", ev |-> v, n |-> e.count[v]] \in Command
  BY <1>1, EventCommand
<1>3. QED
  BY <1>2, EnqueueQuiet DEF Wait

-----------------------------------------------------------------------------
(***************************************************************************)
(* Kicks                                                                   *)
(***************************************************************************)
LEMMA DraftType ==
  ASSUME gen \in 0..MaxGen
  PROVE  /\ SlotDraft \in [Slot -> Draft]
         /\ \A n \in 0..4, name \in Names : <<gen, name, n>> \in Draft
         /\ Nothing \in Draft
<1>1. \A i \in Slot : Residual[i] \in Names
  BY DEF Slot, Residual, Names
<1>2. \A n \in 0..4, name \in Names : <<gen, name, n>> \in Draft
  BY DEF Draft
<1>3. SlotDraft \in [Slot -> Draft]
  BY <1>1, <1>2 DEF SlotDraft
<1>4. Nothing \in Draft
  BY StreamsAssumption DEF Nothing, Draft, Names
<1>5. QED
  BY <1>2, <1>3, <1>4

LEMMA LaunchQuiet ==
  ASSUME NEW e \in Engines, NEW s \in {"bak", "bak2"}, NEW d \in Draft
  PROVE  Quiet(e, LaunchSide(e, s, d))
<1> DEFINE c == [op |-> "draft", of |-> d]
           f == Enqueue(e, s, c)
<1>1. c \in Command /\ s \in Stream
  BY DEF Command, Stream
<1> HIDE DEF c
<1>2. Quiet(e, f)
  BY <1>1, EnqueueQuiet
<1> HIDE DEF f
<1>3. CASE s = "bak"
  <2> DEFINE g == Record(f, "side", s)
  <2>1. Quiet(f, g)
    BY <1>1, <1>2, RecordQuiet DEF Quiet, Event
  <2>2. LaunchSide(e, s, d) = [g EXCEPT !.side = TRUE]
    BY <1>3 DEF LaunchSide, f, c
  <2> HIDE DEF g
  <2>3. Quiet(g, LaunchSide(e, s, d))
    BY <2>1, <2>2 DEF Quiet, Engines
  <2>4. QED
    BY <1>2, <2>1, <2>3, QuietTrans
<1>4. CASE s # "bak"
  <2> DEFINE g == Record(f, "side2", s)
  <2>1. Quiet(f, g)
    BY <1>1, <1>2, RecordQuiet DEF Quiet, Event
  <2>2. LaunchSide(e, s, d) = [g EXCEPT !.side2 = TRUE]
    BY <1>4 DEF LaunchSide, f, c
  <2> HIDE DEF g
  <2>3. Quiet(g, LaunchSide(e, s, d))
    BY <2>1, <2>2 DEF Quiet, Engines
  <2>4. QED
    BY <1>2, <2>1, <2>3, QuietTrans
<1>5. QED
  BY <1>3, <1>4

\* f is e with the draft of slot i launched.
Kicked(e, f, i) ==
  /\ f \in Engines /\ f.graphs = e.graphs /\ f.have = e.have /\ f.clean = e.clean
  /\ f.slots = e.slots /\ f.launched = e.launched \cup {i} /\ f.windows = e.windows

LEMMA KickSlotKicks ==
  ASSUME gen \in 0..MaxGen, NEW e \in Engines, NEW s \in {"bak", "bak2"}, NEW i \in Slot
  PROVE  Kicked(e, KickSlot(e, s, i), i)
<1> DEFINE d == SlotDraft[i]
           c == [op |-> "stash", slot |-> i]
           f == LaunchSide(e, s, d)
           g == Enqueue(f, s, c)
           w == g.launched \cup {i}
<1>1. d \in Draft /\ c \in Command /\ s \in Stream
  BY DraftType DEF Command, Stream
<1> HIDE DEF d, c
<1>2. Quiet(e, f)
  BY <1>1, LaunchQuiet
<1> HIDE DEF f
<1>3. Quiet(f, g)
  BY <1>1, <1>2, EnqueueQuiet DEF Quiet
<1>4. KickSlot(e, s, i) = [g EXCEPT !.launched = @ \cup {i}]
  BY DEF KickSlot, g, f, c, d
<1> HIDE DEF g
<1>5. g \in Engines
  BY <1>3 DEF Quiet
<1>6. KickSlot(e, s, i) = [g EXCEPT !.launched = w]
  BY <1>4
<1>7. w \in SUBSET Slot /\ w = e.launched \cup {i}
  BY <1>2, <1>3, <1>5, QueueParts DEF Quiet
<1> HIDE DEF w
<1>8. QED
  BY <1>2, <1>3, <1>5, <1>6, <1>7 DEF Engines, Quiet, Kicked

Counted(e) == e \in Engines /\ e.launched = 1..e.slots

\* Drafts were launched from e to f, and counted.
Advances(e, f) ==
  /\ Counted(f) /\ f.graphs = e.graphs /\ f.have = e.have /\ f.clean = e.clean /\ f.windows = e.windows
  /\ f.slots >= e.slots

LEMMA KickedQuiet ==
  \A e, f, g, i : Kicked(e, f, i) /\ Quiet(f, g) => Kicked(e, g, i)
BY DEF Kicked, Quiet

Recount(e, n, kind) == [e EXCEPT !.slots = n, !.kind = kind]

LEMMA Recounted ==
  ASSUME NEW e \in Engines, NEW n \in 0..4, NEW kind \in 0..3, NEW f, f = Recount(e, n, kind)
  PROVE  /\ f \in Engines /\ f.graphs = e.graphs /\ f.have = e.have /\ f.clean = e.clean
         /\ f.slots = n /\ f.launched = e.launched /\ f.windows = e.windows
BY DEF Engines, Recount

LEMMA KickH4Advances ==
  ASSUME gen \in 0..MaxGen, NEW e, Counted(e)
  PROVE  Advances(e, KickH4(e)) /\ (Has(e, "h4") => KickH4(e).slots >= 1)
<1>1. CASE ~Has(e, "h4")
  <2>1. KickH4(e) = e
    BY <1>1 DEF KickH4
  <2>2. e.slots \in 0..4
    BY QueueParts DEF Counted
  <2>3. QED
    BY <1>1, <2>1, <2>2 DEF Advances
<1>2. CASE Has(e, "h4")
  <2> DEFINE a == KickSlot(e, "bak", 1)
             one == Record(a, "slot0", "bak")
             s == On(e, "rec4 b2")
             both == Has(e, "h31") /\ e.graphs \cap {"rec4", "rec4 b2"} # {}
             n == IF both /\ e.slots < 2 THEN 2 ELSE IF e.slots < 1 THEN 1 ELSE e.slots
             b == KickSlot(one, s, 2)
             two == Record(b, "slot1", s)
             last == IF both THEN two ELSE one
             kind == IF n >= 2 THEN 3 ELSE 1
  <2>1. KickH4(e) = Recount(last, n, kind)
    BY <1>2 DEF KickH4, Recount
  <2>2. e \in Engines /\ e.slots \in 0..4 /\ 1 \in Slot /\ 2 \in Slot /\ s \in {"bak", "bak2"}
    <3>1. e \in Engines /\ e.slots \in 0..4
      BY QueueParts DEF Counted
    <3>2. s \in {"bak", "bak2"}
      BY DEF On
    <3>3. 1 \in Slot /\ 2 \in Slot
      BY DEF Slot
    <3>4. QED
      BY <3>1, <3>2, <3>3
  <2> HIDE DEF s
  <2>3. Kicked(e, a, 1)
    BY <2>2, KickSlotKicks
  <2> HIDE DEF a
  <2>4. Quiet(a, one)
    BY <2>3, RecordQuiet DEF Kicked, Event, Stream
  <2> HIDE DEF one
  <2>5. Kicked(e, one, 1)
    BY <2>3, <2>4, KickedQuiet
  <2>6. Kicked(one, b, 2)
    BY <2>2, <2>5, KickSlotKicks DEF Kicked
  <2> HIDE DEF b
  <2>7. Quiet(b, two)
    BY <2>2, <2>6, RecordQuiet DEF Kicked, Event, Stream
  <2> HIDE DEF two
  <2>8. Kicked(one, two, 2)
    BY <2>6, <2>7, KickedQuiet
  <2> HIDE DEF both
  <2>9. n \in 0..4 /\ kind \in 0..3 /\ n >= e.slots /\ n >= 1 /\ (both => n >= 2)
        /\ (~both => n = IF e.slots < 1 THEN 1 ELSE e.slots)
        /\ (both => n = IF e.slots < 2 THEN 2 ELSE e.slots)
    BY <2>2
  <2> HIDE DEF n, kind
  <2>10. /\ last \in Engines /\ last.graphs = e.graphs /\ last.have = e.have /\ last.clean = e.clean
         /\ last.windows = e.windows
         /\ last.launched = (1..e.slots) \cup (IF both THEN {1, 2} ELSE {1})
    BY <2>5, <2>8 DEF Kicked, Counted
  <2> HIDE DEF last
  <2>11. (1..e.slots) \cup (IF both THEN {1, 2} ELSE {1}) = 1..n
    BY <2>2, <2>9
  <2> DEFINE f == KickH4(e)
  <2> HIDE DEF f
  <2>12. /\ f \in Engines /\ f.graphs = last.graphs /\ f.have = last.have /\ f.clean = last.clean
         /\ f.slots = n /\ f.launched = last.launched /\ f.windows = last.windows
    BY <2>1, <2>9, <2>10, Recounted DEF f
  <2>13. QED
    BY <2>9, <2>10, <2>11, <2>12 DEF Advances, Counted, f
<1>3. QED
  BY <1>1, <1>2

LEMMA KickExtraAdvances ==
  ASSUME gen \in 0..MaxGen, NEW e, Counted(e)
  PROVE  Advances(e, KickExtra(e))
<1> DEFINE third == e.slots = 2
           fourth == e.slots \in {2, 3} /\ e.have["cont2"] = "zero"
           a == KickSlot(e, "bak", 3)
           three == IF third THEN a ELSE e
           s == On(e, "hin b2")
           b == KickSlot(three, s, 4)
           four == IF fourth THEN b ELSE three
           c == Record(four, "side", "bak")
           n == IF fourth THEN 4 ELSE 3
           f == KickExtra(e)
<1>1. e \in Engines /\ e.slots \in 0..4 /\ e.launched = 1..e.slots
  BY QueueParts DEF Counted
<1>2. CASE e.have["cont1"] # "zero" \/ ~(third \/ fourth)
  <2>1. f = e
    BY <1>2 DEF KickExtra
  <2> HIDE DEF f
  <2>2. QED
    BY <1>1, <2>1 DEF Advances, Counted, f
<1>3. CASE ~(e.have["cont1"] # "zero" \/ ~(third \/ fourth))
  <2>1. f = [c EXCEPT !.side = TRUE, !.slots = n]
    BY <1>3 DEF KickExtra
  <2> HIDE DEF f
  <2>2. s \in {"bak", "bak2"}
    BY DEF On
  <2>3. 3 \in Slot /\ 4 \in Slot
    BY DEF Slot
  <2> HIDE DEF s
  <2>4. Kicked(e, a, 3)
    BY <1>1, <2>3, KickSlotKicks
  <2> HIDE DEF a
  <2>5. (third \/ fourth) /\ (third => e.slots = 2) /\ (~third => e.slots = 3) /\ (fourth => n = 4) /\ (~fourth => n = 3 /\ third)
    BY <1>3
  <2> HIDE DEF third, fourth, n
  <2>6. /\ three \in Engines /\ three.graphs = e.graphs /\ three.have = e.have /\ three.clean = e.clean
        /\ three.slots = e.slots /\ three.windows = e.windows
        /\ three.launched = IF third THEN e.launched \cup {3} ELSE e.launched
    BY <1>1, <2>4 DEF Kicked
  <2> HIDE DEF three
  <2>7. Kicked(three, b, 4)
    BY <2>2, <2>3, <2>6, KickSlotKicks
  <2> HIDE DEF b
  <2>8. /\ four \in Engines /\ four.graphs = e.graphs /\ four.have = e.have /\ four.clean = e.clean
        /\ four.slots = e.slots /\ four.windows = e.windows
        /\ four.launched = IF fourth THEN three.launched \cup {4} ELSE three.launched
    BY <2>6, <2>7 DEF Kicked
  <2> HIDE DEF four
  <2>9. Quiet(four, c)
    BY <2>8, RecordQuiet DEF Event, Stream
  <2> HIDE DEF c
  <2>10. c.launched = 1..n
    <3>1. c.launched = four.launched
      BY <2>9 DEF Quiet
    <3>2. CASE fourth /\ third
      BY <1>1, <2>5, <2>6, <2>8, <3>1, <3>2
    <3>3. CASE fourth /\ ~third
      BY <1>1, <2>5, <2>6, <2>8, <3>1, <3>3
    <3>4. CASE ~fourth
      BY <1>1, <2>5, <2>6, <2>8, <3>1, <3>4
    <3>5. QED
      BY <3>2, <3>3, <3>4
  <2>11. n \in 0..4 /\ n >= e.slots
    BY <1>1, <2>5
  <2>12. /\ f \in Engines /\ f.slots = n /\ f.launched = c.launched /\ f.graphs = c.graphs
         /\ f.have = c.have /\ f.clean = c.clean /\ f.windows = c.windows
    BY <2>1, <2>9, <2>11 DEF Engines, Quiet
  <2>13. /\ f.graphs = e.graphs /\ f.have = e.have /\ f.clean = e.clean /\ f.windows = e.windows
    BY <2>8, <2>9, <2>12 DEF Quiet
  <2>14. QED
    BY <2>10, <2>11, <2>12, <2>13 DEF Advances, Counted, f
<1>4. QED
  BY <1>2, <1>3

LEMMA KickQuadAdvances ==
  ASSUME gen \in 0..MaxGen, NEW e, Counted(e)
  PROVE  Advances(e, KickQuad(e)) /\ KickQuad(e).slots = 4
<1> DEFINE k == [op |-> "fill", slots |-> Slot, of |-> SlotDraft]
           a == Enqueue(e, "bak", k)
           b == Record(a, "slot0", "bak")
           c == Record(b, "side", "bak")
           d == Record(c, "slot1", "bak")
           f == KickQuad(e)
<1>1. e \in Engines /\ e.slots \in 0..4 /\ e.launched = 1..e.slots
  BY QueueParts DEF Counted
<1>2. f = [d EXCEPT !.side = TRUE, !.side2 = FALSE, !.slots = 4, !.kind = 3, !.launched = Slot]
  BY DEF KickQuad
<1> HIDE DEF f
<1>3. k \in Command
  BY DraftType DEF Command
<1> HIDE DEF k
<1>4. Quiet(e, a)
  BY <1>1, <1>3, EnqueueQuiet DEF Stream
<1> HIDE DEF a
<1>5. Quiet(a, b)
  BY <1>4, RecordQuiet DEF Quiet, Stream, Event
<1> HIDE DEF b
<1>6. Quiet(b, c)
  BY <1>5, RecordQuiet DEF Quiet, Stream, Event
<1> HIDE DEF c
<1>7. Quiet(c, d)
  BY <1>6, RecordQuiet DEF Quiet, Stream, Event
<1> HIDE DEF d
<1>8. Quiet(e, d)
  BY <1>4, <1>5, <1>6, <1>7, QuietTrans
<1>9. /\ f \in Engines /\ f.slots = 4 /\ f.launched = Slot /\ f.graphs = d.graphs
      /\ f.have = d.have /\ f.clean = d.clean /\ f.windows = d.windows
  <2> DEFINE yes == TRUE
             no == FALSE
             n == 4
             kind == 3
             all == Slot
  <2>1. yes \in BOOLEAN /\ no \in BOOLEAN
    OBVIOUS
  <2>2. n \in 0..4 /\ kind \in 0..3 /\ all \in SUBSET Slot
    OBVIOUS
  <2>3. f = [d EXCEPT !.side = yes, !.side2 = no, !.slots = n, !.kind = kind, !.launched = all]
    BY <1>2
  <2> HIDE DEF yes, no, n, kind, all
  <2>4. d \in Engines
    BY <1>8 DEF Quiet
  <2>5. /\ f \in Engines /\ f.slots = n /\ f.launched = all /\ f.graphs = d.graphs
        /\ f.have = d.have /\ f.clean = d.clean /\ f.windows = d.windows
    BY <2>1, <2>2, <2>3, <2>4 DEF Engines
  <2>6. QED
    BY <2>5 DEF n, all
<1>10. Slot = 1..4 /\ 4 >= e.slots
  BY <1>1 DEF Slot
<1>11. QED
  BY <1>8, <1>9, <1>10 DEF Advances, Counted, Quiet, f

LEMMA KickAdvances ==
  ASSUME gen \in 0..MaxGen, NEW e, Counted(e)
  PROVE  Advances(e, Kick(e)) /\ (Has(e, "h4") => Kick(e).slots >= 1)
<1>1. CASE TimedReuse(e) /\ "quad" \in e.graphs
  BY <1>1, KickQuadAdvances DEF Kick
<1>2. CASE TimedReuse(e) /\ "quad" \notin e.graphs
  <2> DEFINE f == KickH4(e)
             g == KickExtra(f)
  <2>1. Kick(e) = g
    BY <1>2 DEF Kick
  <2>2. Advances(e, f) /\ (Has(e, "h4") => f.slots >= 1)
    BY KickH4Advances
  <2> HIDE DEF f
  <2>3. Advances(f, g)
    BY <2>2, KickExtraAdvances DEF Advances
  <2> HIDE DEF g
  <2>4. f.slots \in 0..4 /\ g.slots \in 0..4 /\ e.slots \in 0..4
    BY <2>2, <2>3, QueueParts DEF Advances, Counted
  <2>5. QED
    BY <2>1, <2>2, <2>3, <2>4 DEF Advances
<1>3. CASE ~TimedReuse(e)
  BY <1>3, KickH4Advances DEF Kick
<1>4. QED
  BY <1>1, <1>2, <1>3

-----------------------------------------------------------------------------
(***************************************************************************)
(* The invariant                                                           *)
(***************************************************************************)
\* What is known of the engine where the host is.  A residual behind a later
\* token is only stashed by calls that had the one behind the first token; a
\* prefill that has it launches the first slot; and there is a window left to
\* verify as long as the host goes on.
At(e, p) ==
  /\ Counted(e)
  /\ p \in {"idle"} \cup Prefilling \cup InCall
  /\ Has(e, "h31") => Has(e, "h4")
  /\ p \in InCall => Has(e, "h4")
  /\ p = "stream12" => e.slots >= 1
  /\ p \in {"slots", "drain"} => e.slots >= 2
  /\ p \in Windows => e.windows <= 3

IInv == gen \in 0..MaxGen /\ Memory(mem) /\ At(eng, pc)

\* A host step that only enqueues, records and waits.
LEMMA QuietStep ==
  ASSUME NEW e, NEW f, NEW p, NEW r, At(e, p), Quiet(e, f),
         r \in {"idle"} \cup Prefilling \cup InCall,
         r \in InCall => p \in InCall, r = "stream12" => e.slots >= 1,
         r \in {"slots", "drain"} => e.slots >= 2,
         r \in Windows => e.windows <= 3
  PROVE  At(f, r)
BY DEF At, Quiet, Counted, Has

LEMMA InitInv == Init => IInv
<1> SUFFICES ASSUME Init PROVE IInv
  OBVIOUS
<1> DEFINE none == [r \in {"h4", "h31", "cont1", "cont2"} |-> "none"]
           q0 == [s \in Stream |-> <<>>]
           n0 == [v \in Event |-> 0]
           no == FALSE
           z == 0
           nil == {}
<1>1. PICK g \in Builds :
        eng = [graphs |-> g, have |-> none, clean |-> no, side |-> no, side2 |-> no, kind |-> z, slots |-> z,
               stream12 |-> no, streamed |-> no, first |-> no, windows |-> z,
               launched |-> nil, q |-> q0, count |-> n0]
  BY DEF Init
<1>2. g \in SUBSET AllGraphs
  BY StreamsAssumption
<1>3. none \in Have /\ none["h31"] = "none"
  BY DEF Have
<1>4. q0 \in [Stream -> Seq(Command)] /\ n0 \in [Event -> Nat]
  OBVIOUS
<1>5. z \in 0..3 /\ z \in 0..4
  OBVIOUS
<1>6. no \in BOOLEAN
  OBVIOUS
<1>7. nil \in SUBSET Slot
  OBVIOUS
<1> HIDE DEF none, q0, n0, no, z, nil
<1>8. eng \in Engines /\ eng.slots = z /\ eng.launched = nil /\ eng.have = none
  BY <1>1, <1>2, <1>3, <1>4, <1>5, <1>6, <1>7 DEF Engines
<1>9. nil = 1..z
  BY DEF nil, z
<1>10. At(eng, pc)
  <2>1. pc = "idle"
    BY DEF Init
  <2>2. ~Has(eng, "h31")
    BY <1>3, <1>8 DEF Has
  <2>3. Counted(eng)
    BY <1>8, <1>9 DEF Counted
  <2>4. QED
    BY <2>1, <2>2, <2>3 DEF At, InCall, Windows
<1>11. Memory(mem) /\ gen \in 0..MaxGen
  <2>1. gen \in 0..MaxGen
    BY StreamsAssumption DEF Init
  <2>2. Memory(mem)
    BY DEF Init, Memory
  <2>3. QED
    BY <2>1, <2>2
<1>12. QED
  BY <1>10, <1>11 DEF IInv

-----------------------------------------------------------------------------
(***************************************************************************)
(* Steps of the streams                                                    *)
(***************************************************************************)
LEMMA RunInv ==
  ASSUME IInv, NEW s \in Stream, Run(s)
  PROVE  IInv'
<1> DEFINE c == Head(eng.q[s])
           p == [eng.q EXCEPT ![s] = Tail(@)]
<1>1. eng \in Engines /\ Memory(mem) /\ gen \in 0..MaxGen /\ At(eng, pc)
  BY DEF IInv, At, Counted
<1>2. eng.q[s] \in Seq(Command) /\ eng.q[s] # <<>>
  BY <1>1, QueueParts DEF Run
<1>3. c \in Command /\ Tail(eng.q[s]) \in Seq(Command)
  BY <1>2, HeadTailProperties
<1>4. p \in [Stream -> Seq(Command)]
  BY <1>1, <1>3, QueueParts
<1>5. eng' = [eng EXCEPT !.q = p]
  BY DEF Run
<1>6. Quiet(eng, eng')
  <2> HIDE DEF p
  <2>1. QED
    BY <1>1, <1>4, <1>5 DEF Quiet, Engines
<1>7. At(eng', pc')
  <2>1. pc' = pc
    BY DEF Run
  <2>2. QED
    BY <1>1, <1>6, <2>1, QuietStep DEF At
<1>8. Memory(mem')
  <2>1. mem' = CASE c.op = "draft" -> [mem EXCEPT !.drafts[s] = c.of]
                 [] c.op = "stash" -> [mem EXCEPT !.slot[c.slot] = mem.drafts[s]]
                 [] c.op = "fill"  -> [mem EXCEPT !.slot = [i \in Slot |-> IF i \in c.slots THEN c.of[i] ELSE @[i]]]
                 [] c.op = "copy"  -> [mem EXCEPT !.copied = {<<mem.slot[i], c.of[i]>> : i \in c.slots}]
                 [] c.op = "take"  -> [mem EXCEPT !.copied = {<<mem.drafts["bak"], c.of>>}]
                 [] OTHER          -> mem
    BY DEF Run
  <2> HIDE DEF c
  <2>2. Memory(mem)
    BY <1>1
  <2>3. CASE c.op = "draft"
    BY <2>1, <2>2, <2>3 DEF Memory
  <2>4. CASE c.op = "stash"
    BY <2>1, <2>2, <2>4 DEF Memory
  <2>5. CASE c.op = "fill"
    BY <2>1, <2>2, <2>5 DEF Memory
  <2>6. CASE c.op = "copy"
    BY <2>1, <2>2, <2>6 DEF Memory
  <2>7. CASE c.op = "take"
    BY <2>1, <2>2, <2>7 DEF Memory
  <2>8. CASE c.op \notin {"draft", "stash", "fill", "copy", "take"}
    BY <2>1, <2>2, <2>8
  <2>9. QED
    BY <2>3, <2>4, <2>5, <2>6, <2>7, <2>8
<1>9. QED
  BY <1>1, <1>7, <1>8 DEF IInv, Run

-----------------------------------------------------------------------------
(***************************************************************************)
(* Steps of the host in a prefill                                          *)
(***************************************************************************)
LEMMA KeepsRest ==
  ASSUME IInv, UNCHANGED <<mem, gen>>, At(eng', pc')
  PROVE  IInv'
BY DEF IInv

LEMMA PrefillInv ==
  ASSUME IInv, NEW how \in {"tokens", "graph", "eager"}, Prefill(how)
  PROVE  IInv'
<1> DEFINE of == [i \in Slot |-> Nothing]
           k == [op |-> "fill", slots |-> Slot, of |-> of]
           f == Enqueue(eng, "main", k)
           no == FALSE
           z == 0
           nil == {}
<1>1. eng \in Engines /\ gen \in 0..MaxGen /\ At(eng, pc)
  BY DEF IInv, At, Counted
<1>2. Nothing \in Draft
  BY <1>1, DraftType
<1>3. of \in [Slot -> Draft]
  BY <1>2
<1> HIDE DEF of
<1>4. k \in Command
  BY <1>3 DEF Command
<1>5. eng' = [f EXCEPT !.kind = z, !.slots = z, !.stream12 = no, !.streamed = no,
                       !.first = no, !.windows = z, !.launched = nil]
  BY DEF Prefill, of
<1> HIDE DEF k
<1>6. Quiet(eng, f)
  BY <1>1, <1>4, EnqueueQuiet DEF Stream
<1>7. z \in 0..3 /\ z \in 0..4
  OBVIOUS
<1>8. no \in BOOLEAN /\ nil \in SUBSET Slot
  OBVIOUS
<1>9. nil = 1..z
  OBVIOUS
<1> HIDE DEF f, no, z, nil
<1>10. f \in Engines
  BY <1>6 DEF Quiet
<1>11. eng' \in Engines /\ eng'.slots = z /\ eng'.launched = nil /\ eng'.have = f.have
  BY <1>5, <1>7, <1>8, <1>10 DEF Engines
<1>12. pc' = how
  BY DEF Prefill
<1>13. At(eng', pc')
  <2>1. eng'.have = eng.have
    BY <1>6, <1>11 DEF Quiet
  <2>2. Counted(eng')
    BY <1>9, <1>11 DEF Counted
  <2>3. QED
    BY <1>1, <1>12, <2>1, <2>2 DEF At, Has, Prefilling, InCall, Windows
<1>14. gen' \in 0..MaxGen
  BY <1>1, StreamsAssumption DEF Prefill
<1>15. Memory(mem')
  BY DEF Prefill, IInv, Memory
<1>16. QED
  BY <1>13, <1>14, <1>15 DEF IInv

LEMMA JoinInv ==
  ASSUME IInv, JoinAndKick
  PROVE  IInv'
<1> DEFINE no == FALSE
           e == [eng EXCEPT !.side = no, !.side2 = no]
           f == Kick(e)
<1>1. eng \in Engines /\ gen \in 0..MaxGen /\ At(eng, pc) /\ Counted(eng)
  BY DEF IInv, At, Counted
<1>2. /\ pc = "tokens" => eng' = e /\ pc' = "settle"
      /\ pc # "tokens" => eng' = f /\ pc' \in {"stream12", "streamed"}
      /\ pc' = "stream12" => eng.have["h31"] = "zero"
      /\ UNCHANGED <<mem, gen>>
  BY DEF JoinAndKick
<1>3. no \in BOOLEAN
  OBVIOUS
<1> HIDE DEF no
<1>4. e \in Engines /\ e.slots = eng.slots /\ e.launched = eng.launched /\ e.have = eng.have
  BY <1>1, <1>3 DEF Engines
<1> HIDE DEF e
<1>5. Counted(e)
  BY <1>1, <1>4 DEF Counted
<1>6. Advances(e, f) /\ (Has(e, "h4") => f.slots >= 1)
  BY <1>1, <1>5, KickAdvances
<1> HIDE DEF f
<1>7. CASE pc = "tokens"
  <2>1. At(eng', pc')
    BY <1>1, <1>2, <1>4, <1>5, <1>7 DEF At, Has, Prefilling, InCall, Windows
  <2>2. QED
    BY <1>2, <2>1, KeepsRest
<1>8. CASE pc # "tokens"
  <2>1. f.have = eng.have /\ Counted(f)
    BY <1>4, <1>6 DEF Advances
  <2>2. pc' = "stream12" => f.slots >= 1
    BY <1>1, <1>2, <1>4, <1>6 DEF At, Has
  <2>3. At(eng', pc')
    BY <1>1, <1>2, <1>8, <2>1, <2>2 DEF At, Has, Prefilling, InCall, Windows
  <2>4. QED
    BY <1>2, <2>3, KeepsRest
<1>9. QED
  BY <1>7, <1>8

LEMMA KickStream12Inv ==
  ASSUME IInv, KickStream12
  PROVE  IInv'
<1> DEFINE no == FALSE
           e == [eng EXCEPT !.side = no]
           k == [op |-> "fill", slots |-> 2..4, of |-> SlotDraft]
           f == Enqueue(e, "main", k)
           g == Record(f, "slot1", "main")
           h == Record(g, "side", "main")
           yes == TRUE
           four == 4
           kind == 3
           all == h.launched \cup 2..4
<1>1. eng \in Engines /\ gen \in 0..MaxGen /\ At(eng, pc) /\ Counted(eng) /\ pc = "stream12"
  BY DEF IInv, At, Counted, KickStream12
<1>2. /\ \/ eng' = e
         \/ eng' = [h EXCEPT !.side = yes, !.stream12 = yes, !.slots = four, !.kind = kind, !.launched = all]
      /\ pc' = "streamed" /\ UNCHANGED <<mem, gen>>
  BY DEF KickStream12
<1>3. no \in BOOLEAN /\ yes \in BOOLEAN
  OBVIOUS
<1>4. four \in 0..4 /\ kind \in 0..3
  OBVIOUS
<1> HIDE DEF no, yes
<1>5. e \in Engines /\ e.slots = eng.slots /\ e.launched = eng.launched /\ e.have = eng.have
  BY <1>1, <1>3 DEF Engines
<1> HIDE DEF e
<1>6. k \in Command
  BY <1>1, DraftType DEF Command, Slot
<1> HIDE DEF k
<1>7. Quiet(e, f)
  BY <1>5, <1>6, EnqueueQuiet DEF Stream
<1> HIDE DEF f
<1>8. Quiet(f, g)
  BY <1>7, RecordQuiet DEF Quiet, Stream, Event
<1> HIDE DEF g
<1>9. Quiet(g, h)
  BY <1>8, RecordQuiet DEF Quiet, Stream, Event
<1> HIDE DEF h
<1>10. Quiet(e, h)
  BY <1>7, <1>8, <1>9, QuietTrans
<1>11. h \in Engines /\ h.launched = eng.launched /\ h.have = eng.have
  BY <1>5, <1>10 DEF Quiet
<1>12. all = 1..four /\ all \in SUBSET Slot
  <2>1. eng.slots \in 1..4 /\ eng.launched = 1..eng.slots
    BY <1>1, QueueParts DEF At, Counted
  <2>2. QED
    BY <1>11, <2>1 DEF Slot
<1> HIDE DEF four, kind, all
<1>13. Counted(eng') /\ eng'.have = eng.have
  <2>1. CASE eng' = e
    BY <1>1, <1>5, <2>1 DEF Counted
  <2>2. CASE eng' = [h EXCEPT !.side = yes, !.stream12 = yes, !.slots = four, !.kind = kind, !.launched = all]
    <3>1. eng' \in Engines /\ eng'.slots = four /\ eng'.launched = all /\ eng'.have = h.have
      BY <1>3, <1>4, <1>11, <1>12, <2>2 DEF Engines
    <3>2. QED
      BY <1>11, <1>12, <3>1 DEF Counted
  <2>3. QED
    BY <1>2, <2>1, <2>2
<1>14. At(eng', pc')
  BY <1>1, <1>2, <1>13 DEF At, Has, Prefilling, InCall, Windows
<1>15. QED
  BY <1>2, <1>14, KeepsRest

LEMMA SettleInv ==
  ASSUME IInv, Settle
  PROVE  IInv'
<1> DEFINE was == pc = "streamed"
<1>1. eng \in Engines /\ At(eng, pc) /\ eng' = [eng EXCEPT !.streamed = was] /\ pc' = "idle" /\ UNCHANGED <<mem, gen>>
  BY DEF IInv, At, Counted, Settle
<1>2. was \in BOOLEAN
  OBVIOUS
<1> HIDE DEF was
<1>3. Quiet(eng, eng')
  BY <1>1, <1>2 DEF Quiet, Engines
<1>4. At(eng', pc')
  BY <1>1, <1>3 DEF At, Quiet, Counted, Has, InCall, Windows
<1>5. QED
  BY <1>1, <1>4, KeepsRest

-----------------------------------------------------------------------------
(***************************************************************************)
(* Steps of the host in the first call of a prefill                        *)
(***************************************************************************)
LEMMA CopyQuiet ==
  ASSUME gen \in 0..MaxGen, NEW e \in Engines, NEW slots \in SUBSET Slot
  PROVE  Quiet(e, CopySlots(e, slots))
<1> DEFINE k == [op |-> "copy", slots |-> slots, of |-> SlotDraft]
<1>1. k \in Command
  BY DraftType DEF Command
<1>2. CopySlots(e, slots) = Enqueue(e, "main", k)
  BY DEF CopySlots
<1> HIDE DEF k
<1>3. QED
  BY <1>1, <1>2, EnqueueQuiet DEF Stream

LEMMA TakeQuiet ==
  ASSUME NEW e \in Engines, NEW d \in Draft
  PROVE  Quiet(e, TakeDrafts(e, d))
<1> DEFINE k == [op |-> "take", of |-> d]
<1>1. k \in Command
  BY DEF Command
<1>2. TakeDrafts(e, d) = Enqueue(e, "main", k)
  BY DEF TakeDrafts
<1> HIDE DEF k
<1>3. QED
  BY <1>1, <1>2, EnqueueQuiet DEF Stream

LEMMA TakeH4Inv ==
  ASSUME IInv, TakeH4
  PROVE  IInv'
<1> DEFINE have == [eng.have EXCEPT !["h4"] = "zero"]
<1>1. eng \in Engines /\ At(eng, pc) /\ pc = "idle" /\ pc' = "idle" /\ UNCHANGED <<mem, gen>>
  BY DEF IInv, At, Counted, TakeH4
<1>2. eng' = [eng EXCEPT !.have = have]
  BY DEF TakeH4
<1>3. have \in Have /\ have["h4"] = "zero"
  BY <1>1, QueueParts DEF Have
<1> HIDE DEF have
<1>4. eng' \in Engines /\ eng'.have = have /\ eng'.slots = eng.slots /\ eng'.launched = eng.launched
  BY <1>1, <1>2, <1>3 DEF Engines
<1>5. Has(eng', "h4")
  BY <1>3, <1>4 DEF Has
<1>6. Counted(eng')
  BY <1>1, <1>4 DEF At, Counted
<1>7. At(eng', pc')
  BY <1>1, <1>5, <1>6 DEF At, InCall, Windows
<1>8. QED
  BY <1>1, <1>7, KeepsRest

LEMMA FirstCallInv ==
  ASSUME IInv, FirstCall
  PROVE  IInv'
<1> DEFINE yes == TRUE
           e == [eng EXCEPT !.first = yes]
           f == KickH4(e)
<1>1. eng \in Engines /\ gen \in 0..MaxGen /\ At(eng, pc) /\ Counted(eng) /\ Has(eng, "h4")
  BY DEF IInv, At, Counted, FirstCall
<1>2. eng' \in {e, f} /\ UNCHANGED <<mem, gen>>
  BY DEF FirstCall
<1>3. pc' \in {"slots", "drafts", "align"} /\ (pc' = "slots" => eng'.slots >= 2)
  BY DEF FirstCall
<1>4. yes \in BOOLEAN
  OBVIOUS
<1> HIDE DEF yes
<1>5. e \in Engines /\ e.slots = eng.slots /\ e.launched = eng.launched /\ e.have = eng.have
  BY <1>1, <1>4 DEF Engines
<1> HIDE DEF e
<1>6. Counted(e)
  BY <1>1, <1>5 DEF Counted
<1>7. Counted(f) /\ f.have = eng.have
  BY <1>1, <1>5, <1>6, KickH4Advances DEF Advances
<1> HIDE DEF f
<1>8. Counted(eng') /\ eng'.have = eng.have
  BY <1>2, <1>5, <1>6, <1>7
<1>9. At(eng', pc')
  BY <1>1, <1>3, <1>8 DEF At, Has, Prefilling, InCall, Windows
<1>10. QED
  BY <1>2, <1>9, KeepsRest

LEMMA UseSlotsInv ==
  ASSUME IInv, UseSlots
  PROVE  IInv'
<1> DEFINE v == IF eng.side THEN "side" ELSE "slot0"
           e == Wait(eng, v, "main")
           f == CopySlots(e, {1})
           z == 0
<1>1. eng \in Engines /\ gen \in 0..MaxGen /\ At(eng, pc) /\ pc = "slots" /\ pc' = "drain" /\ UNCHANGED <<mem, gen>>
  BY DEF IInv, At, Counted, UseSlots
<1>2. eng' = [f EXCEPT !.kind = z]
  BY DEF UseSlots
<1>3. v \in Event
  BY DEF Event
<1> HIDE DEF v
<1>4. Quiet(eng, e)
  BY <1>1, <1>3, WaitQuiet DEF Stream
<1> HIDE DEF e
<1>5. Quiet(e, f)
  BY <1>1, <1>4, CopyQuiet DEF Quiet, Slot
<1>6. z \in 0..3
  OBVIOUS
<1> HIDE DEF f, z
<1>7. Quiet(f, eng')
  BY <1>2, <1>5, <1>6 DEF Quiet, Engines
<1>8. Quiet(eng, eng')
  BY <1>4, <1>5, <1>7, QuietTrans
<1>9. At(eng', pc')
  BY <1>1, <1>8 DEF At, Quiet, Counted, Has, InCall, Windows
<1>10. QED
  BY <1>1, <1>9, KeepsRest

LEMMA UseDraftsInv ==
  ASSUME IInv, UseDrafts
  PROVE  IInv'
<1> DEFINE d == SlotDraft[1]
           f == TakeDrafts(eng, d)
           no == FALSE
           z == 0
<1>1. eng \in Engines /\ gen \in 0..MaxGen /\ At(eng, pc) /\ pc = "drafts" /\ pc' = "align" /\ UNCHANGED <<mem, gen>>
  BY DEF IInv, At, Counted, UseDrafts
<1>2. eng' = [f EXCEPT !.side = no, !.kind = z]
  BY DEF UseDrafts
<1>3. d \in Draft
  BY <1>1, DraftType DEF Slot
<1> HIDE DEF d
<1>4. Quiet(eng, f)
  BY <1>1, <1>3, TakeQuiet
<1>5. z \in 0..3
  OBVIOUS
<1>6. no \in BOOLEAN
  OBVIOUS
<1> HIDE DEF f, z, no
<1>7. Quiet(f, eng')
  BY <1>2, <1>4, <1>5, <1>6 DEF Quiet, Engines
<1>8. Quiet(eng, eng')
  BY <1>4, <1>7, QuietTrans
<1>9. At(eng', pc')
  BY <1>1, <1>8 DEF At, Quiet, Counted, Has, InCall, Windows
<1>10. QED
  BY <1>1, <1>9, KeepsRest

LEMMA AlignInv ==
  ASSUME IInv, Align
  PROVE  IInv'
<1> DEFINE d == <<gen, "seed", 0>>
           e == Record(eng, "side", "main")
           f == Wait(e, "side", "bak")
           g == LaunchSide(f, "bak", d)
           two == 2
<1>1. eng \in Engines /\ gen \in 0..MaxGen /\ At(eng, pc) /\ pc = "align" /\ pc' = "aligned" /\ UNCHANGED <<mem, gen>>
  BY DEF IInv, At, Counted, Align
<1>2. eng' = [g EXCEPT !.kind = two]
  BY DEF Align
<1>3. d \in Draft
  BY <1>1, DraftType DEF Names
<1> HIDE DEF d
<1>4. Quiet(eng, e)
  BY <1>1, RecordQuiet DEF Stream, Event
<1> HIDE DEF e
<1>5. Quiet(e, f)
  BY <1>4, WaitQuiet DEF Quiet, Stream, Event
<1> HIDE DEF f
<1>6. Quiet(f, g)
  BY <1>3, <1>5, LaunchQuiet DEF Quiet
<1>7. two \in 0..3
  OBVIOUS
<1> HIDE DEF g, two
<1>8. Quiet(g, eng')
  BY <1>2, <1>6, <1>7 DEF Quiet, Engines
<1>9. Quiet(eng, eng')
  BY <1>4, <1>5, <1>6, <1>8, QuietTrans
<1>10. At(eng', pc')
  BY <1>1, <1>9 DEF At, Quiet, Counted, Has, InCall, Windows
<1>11. QED
  BY <1>1, <1>10, KeepsRest

LEMMA AlignedInv ==
  ASSUME IInv, Aligned
  PROVE  IInv'
<1> DEFINE one == 1
<1>1. eng \in Engines /\ At(eng, pc) /\ pc = "aligned" /\ UNCHANGED <<mem, gen>>
  BY DEF IInv, At, Counted, Aligned
<1>2. \/ pc' = "idle" /\ eng' = eng
      \/ eng' = [eng EXCEPT !.windows = one] /\ pc' \in {"cycle", "launch"}
  BY DEF Aligned
<1>3. one \in 0..4 /\ one <= 3
  OBVIOUS
<1> HIDE DEF one
<1>4. CASE pc' = "idle" /\ eng' = eng
  <2>1. At(eng', pc')
    BY <1>1, <1>4 DEF At, InCall, Windows
  <2>2. QED
    BY <1>1, <2>1, KeepsRest
<1>5. CASE eng' = [eng EXCEPT !.windows = one] /\ pc' \in {"cycle", "launch"}
  <2>1. eng' \in Engines /\ eng'.have = eng.have /\ eng'.slots = eng.slots /\ eng'.launched = eng.launched
        /\ eng'.windows = one
    BY <1>1, <1>3, <1>5 DEF Engines
  <2>2. Counted(eng')
    BY <1>1, <2>1 DEF At, Counted
  <2>3. At(eng', pc')
    BY <1>1, <1>3, <1>5, <2>1, <2>2 DEF At, Has, InCall, Windows
  <2>4. QED
    BY <1>1, <2>3, KeepsRest
<1>6. QED
  BY <1>2, <1>4, <1>5

-----------------------------------------------------------------------------
(***************************************************************************)
(* The slots are drained                                                   *)
(***************************************************************************)
LEMMA JoinQuiet ==
  ASSUME NEW e \in Engines
  PROVE  Quiet(e, JoinSide(e)) /\ Quiet(e, JoinSide2(e))
<1> DEFINE no == FALSE
           f == Wait(e, "side", "main")
           g == Wait(e, "side2", "main")
           x == JoinSide(e)
           y == JoinSide2(e)
<1>1. (x = IF e.side THEN [f EXCEPT !.side = no] ELSE e) /\ (y = IF e.side2 THEN [g EXCEPT !.side2 = no] ELSE e)
  BY DEF JoinSide, JoinSide2
<1>2. Quiet(e, f) /\ Quiet(e, g)
  BY WaitQuiet DEF Stream, Event
<1>3. Quiet(e, e)
  BY DEF Quiet
<1>4. no \in BOOLEAN
  OBVIOUS
<1> HIDE DEF f, g, no, x, y
<1>5. Quiet(e, x)
  <2>1. CASE x = e
    BY <1>3, <2>1
  <2>2. CASE x = [f EXCEPT !.side = no]
    BY <1>2, <1>4, <2>2 DEF Quiet, Engines
  <2>3. QED
    BY <1>1, <2>1, <2>2
<1>6. Quiet(e, y)
  <2>1. CASE y = e
    BY <1>3, <2>1
  <2>2. CASE y = [g EXCEPT !.side2 = no]
    BY <1>2, <1>4, <2>2 DEF Quiet, Engines
  <2>3. QED
    BY <1>1, <2>1, <2>2
<1>7. QED
  BY <1>5, <1>6 DEF x, y

LEMMA TwelveQuiet ==
  ASSUME gen \in 0..MaxGen, NEW e \in Engines
  PROVE  Quiet(e, DrainTwelve(e))
<1> DEFINE a == Wait(e, "slot1", "main")
           b == JoinSide2(a)
           c == JoinSide(b)
           d == CopySlots(c, 2..4)
<1>1. DrainTwelve(e) = d
  BY DEF DrainTwelve
<1>2. Quiet(e, a)
  BY WaitQuiet DEF Stream, Event
<1> HIDE DEF a
<1>3. Quiet(a, b)
  BY <1>2, JoinQuiet DEF Quiet
<1> HIDE DEF b
<1>4. Quiet(b, c)
  BY <1>3, JoinQuiet DEF Quiet
<1> HIDE DEF c
<1>5. 2..4 \in SUBSET Slot
  BY DEF Slot
<1>6. Quiet(c, d)
  BY <1>4, <1>5, CopyQuiet DEF Quiet
<1> HIDE DEF d
<1>7. QED
  BY <1>1, <1>2, <1>3, <1>4, <1>6, QuietTrans

LEMMA OneByOneQuiet ==
  ASSUME gen \in 0..MaxGen, NEW e \in Engines, e.slots \in 2..4
  PROVE  Quiet(e, DrainOneByOne(e))
<1> DEFINE a == Wait(e, "slot1", "main")
           b == CopySlots(a, {2})
           c == IF b.side2 THEN JoinSide2(b) ELSE JoinSide(b)
           d == CopySlots(c, {3})
           f == CopySlots(d, {4})
           x == DrainOneByOne(e)
<1>1. x = CASE e.slots = 2 -> b [] e.slots = 3 -> d [] e.slots = 4 -> f
  BY DEF DrainOneByOne
<1> HIDE DEF x
<1>2. {2} \in SUBSET Slot /\ {3} \in SUBSET Slot /\ {4} \in SUBSET Slot
  BY DEF Slot
<1>3. Quiet(e, a)
  BY WaitQuiet DEF Stream, Event
<1> HIDE DEF a
<1>4. Quiet(a, b)
  BY <1>2, <1>3, CopyQuiet DEF Quiet
<1> HIDE DEF b
<1>5. Quiet(b, JoinSide(b)) /\ Quiet(b, JoinSide2(b))
  BY <1>4, JoinQuiet DEF Quiet
<1>6. Quiet(b, c)
  BY <1>5
<1> HIDE DEF c
<1>7. Quiet(c, d)
  BY <1>2, <1>6, CopyQuiet DEF Quiet
<1> HIDE DEF d
<1>8. Quiet(d, f)
  BY <1>2, <1>7, CopyQuiet DEF Quiet
<1> HIDE DEF f
<1>9. x \in {b, d, f}
  <2>1. e.slots = 2 \/ e.slots = 3 \/ e.slots = 4
    OBVIOUS
  <2>2. QED
    BY <1>1, <2>1
<1>10. Quiet(e, b) /\ Quiet(e, d) /\ Quiet(e, f)
  BY <1>3, <1>4, <1>6, <1>7, <1>8, QuietTrans
<1>11. QED
  BY <1>9, <1>10 DEF x

LEMMA DrainInv ==
  ASSUME IInv, Drain
  PROVE  IInv'
<1> DEFINE x == KickExtra(eng)
           e == IF eng.slots < 4 /\ eng.clean THEN x ELSE eng
           f == DrainTwelve(e)
           g == DrainOneByOne(e)
<1>1. eng \in Engines /\ gen \in 0..MaxGen /\ At(eng, pc) /\ Counted(eng) /\ pc = "drain"
  BY DEF IInv, At, Counted, Drain
<1>2. eng' \in {f, g} /\ pc' \in {"drained", "drained all"} /\ UNCHANGED <<mem, gen>>
  BY DEF Drain
<1>3. Advances(eng, x)
  BY <1>1, KickExtraAdvances
<1> HIDE DEF x
<1>4. Counted(e) /\ e.have = eng.have /\ e.slots >= eng.slots
  <2>1. eng.slots >= eng.slots
    BY <1>1, QueueParts
  <2>2. QED
    BY <1>1, <1>3, <2>1 DEF Advances
<1> HIDE DEF e
<1>5. e.slots \in 2..4
  <2>1. e.slots \in 0..4 /\ eng.slots \in 0..4
    BY <1>1, <1>4, QueueParts DEF Counted
  <2>2. eng.slots >= 2
    BY <1>1 DEF At
  <2>3. QED
    BY <1>4, <2>1, <2>2
<1>6. Quiet(e, f) /\ Quiet(e, g)
  BY <1>1, <1>4, <1>5, TwelveQuiet, OneByOneQuiet DEF Counted
<1> HIDE DEF f, g
<1>7. Quiet(e, eng')
  BY <1>2, <1>6
<1>8. At(eng', pc')
  BY <1>1, <1>2, <1>4, <1>7 DEF At, Quiet, Counted, Has, InCall, Windows
<1>9. QED
  BY <1>2, <1>8, KeepsRest

LEMMA StashNextKeeps ==
  ASSUME NEW have \in Have, NEW v \in {"zero", "other"}
  PROVE  StashNext(have, v) \in Have /\ StashNext(have, v)["h4"] = have["h4"] /\ StashNext(have, v)["h31"] = have["h31"]
BY DEF StashNext, Have

LEMMA DrainedInv ==
  ASSUME IInv, Drained
  PROVE  IInv'
<1>1. eng \in Engines /\ gen \in 0..MaxGen /\ At(eng, pc) /\ Counted(eng) /\ pc \in {"drained", "drained all"}
  BY DEF IInv, At, Counted, Drained
<1>2. PICK w \in 0..eng.slots :
        \E v \in {"zero", "other"} :
          /\ eng' = [eng EXCEPT !.windows = w,
                       !.have = IF pc = "drained" /\ w >= 2 THEN StashNext(@, v) ELSE @]
          /\ pc' = IF w \in 1..3 THEN "next" ELSE "idle"
  BY DEF Drained
<1>3. PICK v \in {"zero", "other"} :
        /\ eng' = [eng EXCEPT !.windows = w,
                     !.have = IF pc = "drained" /\ w >= 2 THEN StashNext(@, v) ELSE @]
        /\ pc' = IF w \in 1..3 THEN "next" ELSE "idle"
  BY <1>2
<1> DEFINE s == StashNext(eng.have, v)
           have == IF pc = "drained" /\ w >= 2 THEN s ELSE eng.have
<1>4. eng' = [eng EXCEPT !.windows = w, !.have = have]
  BY <1>3
<1>5. s \in Have /\ s["h4"] = eng.have["h4"] /\ s["h31"] = eng.have["h31"]
  BY <1>1, QueueParts, StashNextKeeps
<1> HIDE DEF s
<1>6. have \in Have /\ have["h4"] = eng.have["h4"] /\ have["h31"] = eng.have["h31"]
  BY <1>1, <1>5, QueueParts
<1> HIDE DEF have
<1>7. w \in 0..4 /\ (pc' = "next" => w <= 3) /\ pc' \in {"next", "idle"}
  <2>1. eng.slots \in 0..4
    BY <1>1, QueueParts
  <2>2. QED
    BY <1>3, <2>1
<1>8. eng' \in Engines /\ eng'.have = have /\ eng'.slots = eng.slots /\ eng'.launched = eng.launched
      /\ eng'.windows = w
  BY <1>1, <1>4, <1>6, <1>7 DEF Engines
<1>9. Counted(eng')
  BY <1>1, <1>8 DEF Counted
<1>10. At(eng', pc')
  BY <1>1, <1>6, <1>7, <1>8, <1>9 DEF At, Has, InCall, Windows
<1>11. QED
  BY <1>10, KeepsRest DEF Drained

-----------------------------------------------------------------------------
(***************************************************************************)
(* The windows after them                                                  *)
(***************************************************************************)
\* f is e but for its residuals, and has the first one if e does.
Stashed(e, f) ==
  /\ f \in Engines /\ f.have["h4"] = e.have["h4"]
  /\ f.slots = e.slots /\ f.launched = e.launched /\ f.windows = e.windows

LEMMA StashGoodKeeps ==
  ASSUME NEW e \in Engines
  PROVE  Stashed(e, StashGood(e))
<1> DEFINE r == CASE ~Has(e, "h31")            -> "h31"
                  [] e.have["cont1"] # "zero"  -> "cont1"
                  [] OTHER                     -> "cont2"
           filled == [e.have EXCEPT ![r] = "zero"]
           yes == TRUE
           ready == e.clean \/ (filled["cont1"] = "zero" /\ filled["cont2"] = "zero")
           f == StashGood(e)
<1>1. f = [e EXCEPT !.clean = yes] \/ f = [e EXCEPT !.have = filled, !.clean = ready]
  BY DEF StashGood
<1>2. r \in {"h31", "cont1", "cont2"}
  OBVIOUS
<1> HIDE DEF r
<1>3. filled \in Have /\ filled["h4"] = e.have["h4"]
  BY <1>2, QueueParts DEF Have
<1>4. yes \in BOOLEAN /\ ready \in BOOLEAN
  BY DEF Engines
<1> HIDE DEF filled, yes, ready, f
<1>5. CASE f = [e EXCEPT !.clean = yes]
  <2>1. Stashed(e, f)
    BY <1>4, <1>5 DEF Engines, Stashed
  <2>2. QED
    BY <2>1 DEF f
<1>6. CASE f = [e EXCEPT !.have = filled, !.clean = ready]
  <2>1. f \in Engines /\ f.have = filled /\ f.slots = e.slots /\ f.launched = e.launched /\ f.windows = e.windows
    BY <1>3, <1>4, <1>6 DEF Engines
  <2>2. QED
    BY <1>3, <2>1 DEF Stashed, f
<1>7. QED
  BY <1>1, <1>5, <1>6

\* A window is counted, and the host goes on if there are fewer than four.
LEMMA WindowCounted ==
  ASSUME NEW e \in Engines, e.windows <= 3, NEW w, w = e.windows + 1
  PROVE  w \in 0..4 /\ After(w) \in {"next", "idle"} /\ (After(w) = "next" => w <= 3)
<1>1. e.windows \in 0..4
  BY QueueParts
<1>2. QED
  BY <1>1 DEF After

LEMMA CycleInv ==
  ASSUME IInv, Cycle
  PROVE  IInv'
<1>1. eng \in Engines /\ At(eng, pc) /\ Counted(eng) /\ Has(eng, "h4") /\ eng.windows <= 3 /\ UNCHANGED <<mem, gen>>
  BY DEF IInv, At, Counted, Cycle, InCall, Windows
<1>2. CASE pc' = "idle" /\ UNCHANGED eng
  <2>1. At(eng', pc')
    BY <1>1, <1>2 DEF At, InCall, Windows
  <2>2. QED
    BY <1>1, <2>1, KeepsRest
<1>3. CASE \E e \in {eng, StashGood(eng)} : eng' = [e EXCEPT !.windows = @ + 1] /\ pc' = After(eng'.windows)
  <2>1. PICK e \in {eng, StashGood(eng)} : eng' = [e EXCEPT !.windows = @ + 1] /\ pc' = After(eng'.windows)
    BY <1>3
  <2> DEFINE w == e.windows + 1
  <2>2. Stashed(eng, eng)
    BY <1>1 DEF Stashed
  <2>3. Stashed(eng, e)
    BY <1>1, <2>2, StashGoodKeeps
  <2>4. e \in Engines /\ e.windows <= 3
    BY <1>1, <2>3 DEF Stashed
  <2>5. eng' = [e EXCEPT !.windows = w]
    BY <2>1
  <2>6. w \in 0..4 /\ After(w) \in {"next", "idle"} /\ (After(w) = "next" => w <= 3)
    BY <2>4, WindowCounted
  <2> HIDE DEF w
  <2>7. eng' \in Engines /\ eng'.have = e.have /\ eng'.slots = e.slots /\ eng'.launched = e.launched /\ eng'.windows = w
    BY <2>4, <2>5, <2>6 DEF Engines
  <2>8. Counted(eng') /\ Has(eng', "h4")
    BY <1>1, <2>3, <2>7 DEF Counted, Stashed, Has
  <2>9. At(eng', pc')
    BY <2>1, <2>6, <2>7, <2>8 DEF At, InCall, Windows
  <2>10. QED
    BY <1>1, <2>9, KeepsRest
<1>4. QED
  BY <1>2, <1>3 DEF Cycle

LEMMA LaunchNextInv ==
  ASSUME IInv, LaunchNext
  PROVE  IInv'
<1> DEFINE d == <<gen, "mid", eng.windows>>
<1>1. eng \in Engines /\ gen \in 0..MaxGen /\ At(eng, pc) /\ pc \in {"launch", "next"}
  BY DEF IInv, At, Counted, LaunchNext
<1>2. eng' = LaunchSide(eng, "bak", d) /\ pc' = "await" /\ UNCHANGED <<mem, gen>>
  BY DEF LaunchNext
<1>3. d \in Draft
  BY <1>1, QueueParts, DraftType DEF Names
<1> HIDE DEF d
<1>4. Quiet(eng, eng')
  BY <1>1, <1>2, <1>3, LaunchQuiet
<1>5. At(eng', pc')
  BY <1>1, <1>2, <1>4 DEF At, Quiet, Counted, Has, InCall, Windows
<1>6. QED
  BY <1>2, <1>5, KeepsRest

LEMMA AwaitNextInv ==
  ASSUME IInv, AwaitNext
  PROVE  IInv'
<1> DEFINE d == <<gen, "mid", eng.windows>>
           f == TakeDrafts(eng, d)
           no == FALSE
<1>1. eng \in Engines /\ gen \in 0..MaxGen /\ At(eng, pc) /\ pc = "await" /\ pc' = "awaited" /\ UNCHANGED <<mem, gen>>
  BY DEF IInv, At, Counted, AwaitNext
<1>2. eng' = [f EXCEPT !.side = no]
  BY DEF AwaitNext
<1>3. d \in Draft
  BY <1>1, QueueParts, DraftType DEF Names
<1> HIDE DEF d
<1>4. Quiet(eng, f)
  BY <1>1, <1>3, TakeQuiet
<1>5. no \in BOOLEAN
  OBVIOUS
<1> HIDE DEF f, no
<1>6. Quiet(f, eng')
  BY <1>2, <1>4, <1>5 DEF Quiet, Engines
<1>7. Quiet(eng, eng')
  BY <1>4, <1>6, QuietTrans
<1>8. At(eng', pc')
  BY <1>1, <1>7 DEF At, Quiet, Counted, Has, InCall, Windows
<1>9. QED
  BY <1>1, <1>8, KeepsRest

LEMMA VerifyNextInv ==
  ASSUME IInv, VerifyNext
  PROVE  IInv'
<1>1. eng \in Engines /\ At(eng, pc) /\ Counted(eng) /\ Has(eng, "h4") /\ eng.windows <= 3 /\ UNCHANGED <<mem, gen>>
  BY DEF IInv, At, Counted, VerifyNext, InCall, Windows
<1>2. CASE pc' = "idle" /\ UNCHANGED eng
  <2>1. At(eng', pc')
    BY <1>1, <1>2 DEF At, InCall, Windows
  <2>2. QED
    BY <1>1, <2>1, KeepsRest
<1>3. CASE ~(pc' = "idle" /\ UNCHANGED eng)
  <2>1. PICK v \in {"zero", "other"} :
          LET have == StashNext(eng.have, v)
              w == eng.windows + 1
          IN  /\ eng' = [eng EXCEPT !.windows = w, !.have = have,
                           !.clean = @ \/ (w = 4 /\ have["cont1"] = "zero" /\ have["cont2"] = "zero")]
              /\ pc' = After(w)
    BY <1>3 DEF VerifyNext
  <2> DEFINE have == StashNext(eng.have, v)
             w == eng.windows + 1
             ready == eng.clean \/ (w = 4 /\ have["cont1"] = "zero" /\ have["cont2"] = "zero")
  <2>2. eng' = [eng EXCEPT !.windows = w, !.have = have, !.clean = ready] /\ pc' = After(w)
    BY <2>1
  <2>3. ready \in BOOLEAN
    BY <1>1 DEF Engines
  <2> HIDE DEF ready
  <2>4. have \in Have /\ have["h4"] = eng.have["h4"]
    BY <1>1, QueueParts, StashNextKeeps
  <2> HIDE DEF have
  <2>5. w \in 0..4 /\ After(w) \in {"next", "idle"} /\ (After(w) = "next" => w <= 3)
    BY <1>1, WindowCounted
  <2> HIDE DEF w
  <2>6. eng' \in Engines /\ eng'.have = have /\ eng'.slots = eng.slots /\ eng'.launched = eng.launched
        /\ eng'.windows = w
    BY <1>1, <2>2, <2>3, <2>4, <2>5 DEF Engines
  <2>7. Counted(eng') /\ Has(eng', "h4")
    BY <1>1, <2>4, <2>6 DEF Counted, Has
  <2>8. At(eng', pc')
    BY <2>2, <2>5, <2>6, <2>7 DEF At, InCall, Windows
  <2>9. QED
    BY <1>1, <2>8, KeepsRest
<1>4. QED
  BY <1>2, <1>3

LEMMA ThreeHoldInv ==
  ASSUME IInv, ThreeHold
  PROVE  IInv'
<1>1. eng \in Engines /\ At(eng, pc) /\ Counted(eng) /\ Has(eng, "h4") /\ pc = "idle"
      /\ UNCHANGED <<mem, pc, gen>>
  BY DEF IInv, At, Counted, ThreeHold
<1>2. PICK v \in {"zero", "other"} : eng' = [eng EXCEPT !.have["h31"] = v]
  BY DEF ThreeHold
<1> DEFINE have == [eng.have EXCEPT !["h31"] = v]
<1>3. eng' = [eng EXCEPT !.have = have]
  BY <1>2
<1>4. have \in Have /\ have["h4"] = eng.have["h4"]
  BY <1>1, QueueParts DEF Have
<1> HIDE DEF have
<1>5. eng' \in Engines /\ eng'.have = have /\ eng'.slots = eng.slots /\ eng'.launched = eng.launched
  BY <1>1, <1>3, <1>4 DEF Engines
<1>6. Counted(eng') /\ Has(eng', "h4")
  BY <1>1, <1>4, <1>5 DEF Counted, Has
<1>7. At(eng', pc')
  BY <1>1, <1>6 DEF At, InCall, Windows
<1>8. QED
  BY <1>1, <1>7, KeepsRest

-----------------------------------------------------------------------------
(***************************************************************************)
(* What holds of every behaviour                                           *)
(***************************************************************************)
LEMMA NextInv ==
  ASSUME IInv, [Next]_vars
  PROVE  IInv'
<1>1. CASE ClientCall
  BY <1>1, ThreeHoldInv, TakeH4Inv, FirstCallInv, PrefillInv DEF ClientCall
<1>2. CASE HostStep
  BY <1>2, JoinInv, KickStream12Inv, SettleInv, UseSlotsInv, UseDraftsInv, AlignInv, AlignedInv, DrainInv,
     DrainedInv, CycleInv, LaunchNextInv, AwaitNextInv, VerifyNextInv DEF HostStep
<1>3. CASE \E s \in Stream : Run(s)
  BY <1>3, RunInv
<1>4. CASE UNCHANGED vars
  BY <1>4 DEF IInv, vars
<1>5. QED
  BY <1>1, <1>2, <1>3, <1>4 DEF Next

\* The invariant holds in every state: see At.
THEOREM Invariance == Spec => []IInv
<1>1. Init => IInv
  BY InitInv
<1>2. IInv /\ [Next]_vars => IInv'
  BY NextInv
<1>3. QED
  BY <1>1, <1>2, PTL DEF Spec

\* The fields have the values the code can give them, the counts of slots and of
\* windows among them: mtp_live_continue never counts a fifth window.
THEOREM TypeCorrect == Spec => []TypeOK
<1>1. IInv => TypeOK
  <2> SUFFICES ASSUME IInv PROVE TypeOK
    OBVIOUS
  <2>1. eng \in Engines /\ gen \in 0..MaxGen /\ Memory(mem)
    BY DEF IInv, At, Counted
  <2>2. eng.graphs \subseteq AllGraphs /\ \A r \in DOMAIN eng.have : eng.have[r] \in {"none", "other", "zero"}
    BY <2>1 DEF Engines, Have
  <2>3. {eng.clean, eng.side, eng.side2, eng.stream12, eng.streamed, eng.first} \subseteq BOOLEAN
    BY <2>1 DEF Engines
  <2>4. eng.kind \in 0..3 /\ eng.slots \in 0..4 /\ eng.windows \in 0..4
    BY <2>1 DEF Engines
  <2>5. QED
    BY <2>1, <2>2, <2>3, <2>4 DEF TypeOK, Memory
<1>2. QED
  BY <1>1, Invariance, PTL

\* "Timed draft slots must equal MTP kernel launches" (mtp_live_draft.h), whichever
\* graphs were captured, whatever residuals are stashed when, and however the
\* streams run.
THEOREM SlotsCounted == Spec => []SlotsAreLaunched
<1>1. IInv => SlotsAreLaunched
  BY DEF IInv, At, Counted, SlotsAreLaunched
<1>2. QED
  BY <1>1, Invariance, PTL

-----------------------------------------------------------------------------
(***************************************************************************)
(* What is in a slot when it is copied                                     *)
(***************************************************************************)
\* The draft a side stream has made when the first k commands of b have run.
InPlace(m, b, k, d) ==
  \/ \E p \in 1..k : b[p].op = "draft" /\ b[p].of = d /\ \A r \in (p + 1)..k : b[r].op # "draft"
  \/ (\A p \in 1..k : b[p].op # "draft") /\ m.drafts["bak"] = d

Writes(c, i) == (c.op = "stash" /\ c.slot = i) \/ (c.op = "fill" /\ i \in c.slots)

Good(m, b, w, i, d) == IF b[w].op = "stash" THEN InPlace(m, b, w, d) ELSE b[w].of[i] = d

\* What b writes to slot i, from its command w on, is d.
GoodFrom(m, b, w, i, d) == \A v \in w..Len(b) : Writes(b[v], i) => Good(m, b, v, i, d)

\* Slot i is d once the first n commands of b have run, and stays it.
WrittenBy(m, b, n, i, d) == \E w \in 1..n : Writes(b[w], i) /\ GoodFrom(m, b, w, i, d)

\* Slot i is d, and stays it.
Filled(m, b, i, d) == m.slot[i] = d /\ GoodFrom(m, b, 1, i, d)

\* Slot i is d when the event r has fired.
Promised(m, b, i, d, r) ==
  \/ Filled(m, b, i, d)
  \/ \E n \in 1..Len(b) : b[n] = r /\ WrittenBy(m, b, n, i, d)

\* The main stream a is about to fill it.
Arriving(m, b, a, i, d) ==
  /\ \E w \in 1..Len(a) : a[w].op = "fill" /\ i \in a[w].slots
  /\ GoodFrom(m, b, 1, i, d)

\* The last draft of b is d, and there is none behind the event r.
DraftBy(m, b, d, r) ==
  /\ InPlace(m, b, Len(b), d)
  /\ \/ \A p \in 1..Len(b) : b[p].op # "draft"
     \/ \E n \in 1..Len(b) : b[n] = r /\ \A p \in n..Len(b) : b[p].op # "draft"

\* The last record of event v.
LastOf(e, v) == [op |-> "record", ev |-> v, n |-> e.count[v]]

\* What the main stream holds where the host is.
MainOps(p) ==
  CASE p \in {"tokens", "graph", "eager"}           -> {"fill"}
    [] p = "streamed"                               -> {"fill", "record"}
    [] p \in {"align", "awaited"}                   -> {"take"}
    [] p = "aligned"                                -> {"take", "record"}
    [] p \in {"drain", "drained", "drained all"}    -> {"copy", "wait"}
    [] OTHER                                        -> {}

SideOps == {"draft", "stash", "fill", "record", "wait"}

FreshDraft(g, i) == <<g, Residual[i], 0>>

\* The slots that are counted are filled by the events they are awaited with.
SlotsReady(m, e, g) ==
  LET b == e.q["bak"]
      Comes(i, v) == \/ Promised(m, b, i, FreshDraft(g, i), LastOf(e, v))
                     \/ Arriving(m, b, e.q["main"], i, FreshDraft(g, i))
      Is(i) == Filled(m, b, i, FreshDraft(g, i)) \/ Arriving(m, b, e.q["main"], i, FreshDraft(g, i))
  IN  e.slots >= 2 => /\ Comes(1, "slot0") /\ Comes(2, "slot1")
                      /\ e.side => \A i \in {1} \cup 3..e.slots : Comes(i, "side")
                      /\ ~e.side => \A i \in 3..e.slots : Is(i)

\* Nothing of an earlier prefill is written behind the last draft.
NoneOld(m, e, g) ==
  LET b == e.q["bak"]
      From(w) == \A i \in Slot : GoodFrom(m, b, w, i, FreshDraft(g, i))
  IN  From(1) \/ \E n \in 1..Len(b) : b[n] = LastOf(e, "side") /\ From(n)

\* The windows that are still to be drained were drafted.
Pending(e, p) == p \in Prefilling \cup {"slots", "drafts", "drain"} \/ (p = "idle" /\ ~e.first)

CopiesFresh(m, e, g) ==
  LET a == e.q["main"]
      b == e.q["bak"]
  IN  \A k \in 1..Len(a) : a[k].op = "copy" =>
        \A i \in a[k].slots :
          /\ a[k].of[i] = FreshDraft(g, i)
          /\ \/ Filled(m, b, i, FreshDraft(g, i))
             \/ \E j \in 1..(k - 1) : a[j].op = "wait"
                  /\ Promised(m, b, i, FreshDraft(g, i), [op |-> "record", ev |-> a[j].ev, n |-> a[j].n])

\* Command k of a takes a draft that is there, and b drafts no other before it has run.
Taken(m, a, b, k) ==
  /\ m.drafts["bak"] = a[k].of
  /\ \A p \in 1..Len(b) : b[p].op = "draft" =>
       \E w \in 1..(p - 1) : b[w].op = "wait"
         /\ \E j \in (k + 1)..Len(a) : a[j] = [op |-> "record", ev |-> b[w].ev, n |-> b[w].n]

TakesFresh(m, e) ==
  \A k \in 1..Len(e.q["main"]) : e.q["main"][k].op = "take" => Taken(m, e.q["main"], e.q["bak"], k)

KindsRight(m, e, p, g) ==
  /\ p \in {"tokens", "graph", "eager", "settle"} => e.slots = 0 /\ e.kind = 0
  /\ p # "drain" /\ Pending(e, p) => (e.slots >= 2 <=> e.kind = 3) /\ e.kind # 2
  /\ Pending(e, p) /\ e.kind = 1 => e.side /\ DraftBy(m, e.q["bak"], FreshDraft(g, 1), LastOf(e, "side"))
  /\ p \in InCall => e.first
  /\ p = "drafts" => e.kind = 1
  /\ p = "stream12" => e.slots >= 2 /\ e.side /\ NoneOld(m, e, g)
  /\ p = "await" => e.side /\ DraftBy(m, e.q["bak"], <<g, "mid", e.windows>>, LastOf(e, "side"))

QueuesRight(m, e, p, g) ==
  /\ e.q["bak2"] = <<>> /\ ~e.side2 /\ DOMAIN m.drafts = {"bak", "bak2"}
  /\ \A k \in 1..Len(e.q["main"]) : e.q["main"][k].op \in MainOps(p)
  /\ \A k \in 1..Len(e.q["bak"]) : e.q["bak"][k].op \in SideOps
  /\ p = "streamed" => \A k \in 1..Len(e.q["main"]) : e.q["main"][k].op = "fill" =>
        \A i \in e.q["main"][k].slots : e.q["main"][k].of[i] = FreshDraft(g, i)

Matched(m) == \A c \in m.copied : c[1] = c[2]

StreamInv(m, e, p, g) ==
  /\ QueuesRight(m, e, p, g) /\ KindsRight(m, e, p, g)
  /\ Pending(e, p) => SlotsReady(m, e, g)
  /\ CopiesFresh(m, e, g) /\ TakesFresh(m, e)
  /\ Matched(m)

SInv == OneSide => StreamInv(mem, eng, pc, gen)

\* c is b with x behind it; b is x and then t.
Longer(b, c, x) ==
  /\ Len(b) \in Nat /\ Len(c) = Len(b) + 1 /\ c[Len(c)] = x
  /\ \A k \in 1..Len(b) : c[k] = b[k]

Popped(b, t, x) ==
  /\ Len(t) \in Nat /\ Len(b) = Len(t) + 1 /\ b[1] = x
  /\ \A k \in 1..Len(t) : t[k] = b[k + 1]

LEMMA AppendLonger ==
  ASSUME NEW b \in Seq(Command), NEW x \in Command
  PROVE  Append(b, x) \in Seq(Command) /\ Longer(b, Append(b, x), x)
<1>1. Len(b) \in Nat /\ Len(Append(b, x)) = Len(b) + 1 /\ Append(b, x) \in Seq(Command)
  OBVIOUS
<1>2. \A k \in 1..Len(b) : Append(b, x)[k] = b[k]
  OBVIOUS
<1>3. Append(b, x)[Len(b) + 1] = x
  OBVIOUS
<1>4. QED
  BY <1>1, <1>2, <1>3 DEF Longer

LEMMA TailPopped ==
  ASSUME NEW b \in Seq(Command), b # <<>>
  PROVE  Tail(b) \in Seq(Command) /\ Popped(b, Tail(b), Head(b)) /\ Head(b) \in Command
<1>1. Tail(b) \in Seq(Command) /\ Head(b) \in Command /\ Head(b) = b[1]
  BY HeadTailProperties
<1>2. Len(Tail(b)) = Len(b) - 1 /\ Len(b) \in Nat /\ Len(b) >= 1
  OBVIOUS
<1>3. \A k \in 1..Len(Tail(b)) : Tail(b)[k] = b[k + 1]
  BY <1>2
<1>4. QED
  BY <1>1, <1>2, <1>3 DEF Popped

LEMMA InPlaceSame ==
  ASSUME NEW m, NEW b, NEW c, NEW k \in Nat, NEW d, \A p \in 1..k : c[p] = b[p], InPlace(m, b, k, d)
  PROVE  InPlace(m, c, k, d)
<1>1. CASE \E p \in 1..k : b[p].op = "draft" /\ b[p].of = d /\ \A r \in (p + 1)..k : b[r].op # "draft"
  <2>1. PICK p \in 1..k : b[p].op = "draft" /\ b[p].of = d /\ \A r \in (p + 1)..k : b[r].op # "draft"
    BY <1>1
  <2>2. \A r \in (p + 1)..k : r \in 1..k
    BY <2>1
  <2>3. c[p].op = "draft" /\ c[p].of = d /\ \A r \in (p + 1)..k : c[r].op # "draft"
    BY <2>1, <2>2
  <2>4. QED
    BY <2>3 DEF InPlace
<1>2. CASE (\A p \in 1..k : b[p].op # "draft") /\ m.drafts["bak"] = d
  BY <1>2 DEF InPlace
<1>3. QED
  BY <1>1, <1>2 DEF InPlace

\* c is b and more, and what the rest writes belongs to prefill g.
Grows(m, b, c, g) ==
  /\ Len(b) \in Nat /\ Len(c) \in Nat /\ Len(b) <= Len(c)
  /\ \A k \in 1..Len(b) : c[k] = b[k]
  /\ \A i \in Slot : GoodFrom(m, c, Len(b) + 1, i, FreshDraft(g, i))

LEMMA GrowsGood ==
  ASSUME NEW m, NEW b, NEW c, NEW g, Grows(m, b, c, g), NEW i \in Slot, NEW w \in 1..(Len(b) + 1),
         GoodFrom(m, b, w, i, FreshDraft(g, i))
  PROVE  GoodFrom(m, c, w, i, FreshDraft(g, i))
<1> DEFINE d == FreshDraft(g, i)
<1> HIDE DEF d
<1>1. Len(b) \in Nat /\ Len(c) \in Nat /\ Len(b) <= Len(c) /\ (\A k \in 1..Len(b) : c[k] = b[k])
      /\ GoodFrom(m, c, Len(b) + 1, i, d)
  BY DEF Grows, d
<1>2. GoodFrom(m, b, w, i, d)
  BY DEF d
<1>3. ASSUME NEW v \in w..Len(c), Writes(c[v], i) PROVE Good(m, c, v, i, d)
  <2>1. CASE v >= Len(b) + 1
    <3>1. v \in (Len(b) + 1)..Len(c)
      BY <1>1, <2>1
    <3>2. QED
      BY <1>1, <1>3, <3>1 DEF GoodFrom
  <2>2. CASE ~(v >= Len(b) + 1) /\ v >= 1
    <3>1. v \in w..Len(b) /\ v \in 1..Len(b) /\ v \in Nat
      BY <1>1, <2>2
    <3>2. c[v] = b[v] /\ \A p \in 1..v : c[p] = b[p]
      BY <1>1, <3>1
    <3>3. Good(m, b, v, i, d)
      BY <1>2, <1>3, <3>1, <3>2 DEF GoodFrom
    <3>4. CASE b[v].op = "stash"
      BY <3>1, <3>2, <3>3, <3>4, InPlaceSame DEF Good
    <3>5. CASE b[v].op # "stash"
      BY <3>2, <3>3, <3>5 DEF Good
    <3>6. QED
      BY <3>4, <3>5
  <2>3. QED
    BY <1>1, <2>1, <2>2
<1>4. QED
  BY <1>3 DEF GoodFrom, d

LEMMA GrowsSame ==
  ASSUME NEW m, NEW b, NEW g, Len(b) \in Nat
  PROVE  Grows(m, b, b, g)
<1>1. \A i \in Slot : GoodFrom(m, b, Len(b) + 1, i, FreshDraft(g, i))
  BY DEF GoodFrom
<1>2. QED
  BY <1>1 DEF Grows

LEMMA GrowsTrans ==
  ASSUME NEW m, NEW b, NEW c, NEW x, NEW g, Grows(m, b, c, g), Grows(m, c, x, g)
  PROVE  Grows(m, b, x, g)
<1>1. /\ Len(b) \in Nat /\ Len(c) \in Nat /\ Len(x) \in Nat /\ Len(b) <= Len(c) /\ Len(c) <= Len(x)
      /\ \A k \in 1..Len(b) : c[k] = b[k]
      /\ \A k \in 1..Len(c) : x[k] = c[k]
  BY DEF Grows
<1>2. \A k \in 1..Len(b) : x[k] = b[k]
  BY <1>1
<1>3. ASSUME NEW i \in Slot PROVE GoodFrom(m, x, Len(b) + 1, i, FreshDraft(g, i))
  <2>1. Len(b) + 1 \in 1..(Len(c) + 1)
    BY <1>1
  <2>2. GoodFrom(m, c, Len(b) + 1, i, FreshDraft(g, i))
    BY DEF Grows
  <2>3. QED
    BY <2>1, <2>2, GrowsGood
<1>4. QED
  BY <1>1, <1>2, <1>3 DEF Grows

\* A command that fills no slot, and one that fills its slots with this prefill's drafts.
LEMMA GrowsBy ==
  ASSUME NEW m, NEW b, NEW c, NEW x, NEW g, Longer(b, c, x),
         \A i \in Slot : Writes(x, i) => Good(m, c, Len(c), i, FreshDraft(g, i))
  PROVE  Grows(m, b, c, g)
<1>1. Len(b) \in Nat /\ Len(c) = Len(b) + 1 /\ c[Len(c)] = x /\ \A k \in 1..Len(b) : c[k] = b[k]
  BY DEF Longer
<1>2. ASSUME NEW i \in Slot PROVE GoodFrom(m, c, Len(b) + 1, i, FreshDraft(g, i))
  <2>1. \A v \in (Len(b) + 1)..Len(c) : v = Len(c)
    BY <1>1
  <2>2. QED
    BY <1>1, <2>1 DEF GoodFrom
<1>3. QED
  BY <1>1, <1>2 DEF Grows

LEMMA GrowsQuietly ==
  ASSUME NEW m, NEW b, NEW c, NEW x, NEW g, Longer(b, c, x), x.op \notin {"stash", "fill"}
  PROVE  Grows(m, b, c, g)
BY GrowsBy DEF Writes

\* The last of the commands of c fills slot i.
LEMMA LastWrites ==
  ASSUME NEW m, NEW b, NEW c, NEW x, NEW g, Longer(b, c, x), Grows(m, b, c, g), NEW i \in Slot, Writes(x, i)
  PROVE  WrittenBy(m, c, Len(c), i, FreshDraft(g, i))
<1>1. Len(b) \in Nat /\ Len(c) = Len(b) + 1 /\ c[Len(c)] = x
  BY DEF Longer
<1>2. Len(c) \in 1..Len(c) /\ Len(c) = Len(b) + 1
  BY <1>1
<1>3. GoodFrom(m, c, Len(c), i, FreshDraft(g, i))
  BY <1>2 DEF Grows
<1>4. QED
  BY <1>1, <1>2, <1>3 DEF WrittenBy

LEMMA GrowsByStash ==
  ASSUME NEW m, NEW b, NEW c, NEW x, NEW g, NEW i \in Slot, Longer(b, c, x),
         x = [op |-> "stash", slot |-> i], InPlace(m, b, Len(b), FreshDraft(g, i))
  PROVE  Grows(m, b, c, g) /\ WrittenBy(m, c, Len(c), i, FreshDraft(g, i))
<1> DEFINE d == FreshDraft(g, i)
<1>1. Len(b) \in Nat /\ Len(c) = Len(b) + 1 /\ c[Len(c)] = x /\ \A k \in 1..Len(b) : c[k] = b[k]
  BY DEF Longer
<1>2. x.op = "stash" /\ x.slot = i
  OBVIOUS
<1>3. InPlace(m, c, Len(c), d)
  <2>1. InPlace(m, b, Len(b), d)
    OBVIOUS
  <2>2. InPlace(m, c, Len(b), d)
    BY <1>1, <2>1, InPlaceSame
  <2> HIDE DEF d
  <2>3. CASE \E p \in 1..Len(b) : c[p].op = "draft" /\ c[p].of = d /\ \A r \in (p + 1)..Len(b) : c[r].op # "draft"
    <3>1. PICK p \in 1..Len(b) : c[p].op = "draft" /\ c[p].of = d /\ \A r \in (p + 1)..Len(b) : c[r].op # "draft"
      BY <2>3
    <3>2. \A r \in (p + 1)..Len(c) : r \in (p + 1)..Len(b) \/ r = Len(c)
      BY <1>1
    <3>3. p \in 1..Len(c) /\ \A r \in (p + 1)..Len(c) : c[r].op # "draft"
      BY <1>1, <1>2, <3>1, <3>2
    <3>4. QED
      BY <3>1, <3>3 DEF InPlace
  <2>4. CASE (\A p \in 1..Len(b) : c[p].op # "draft") /\ m.drafts["bak"] = d
    <3>1. \A r \in 1..Len(c) : r \in 1..Len(b) \/ r = Len(c)
      BY <1>1
    <3>2. \A r \in 1..Len(c) : c[r].op # "draft"
      BY <1>1, <1>2, <2>4, <3>1
    <3>3. QED
      BY <2>4, <3>2 DEF InPlace
  <2>5. QED
    BY <2>2, <2>3, <2>4 DEF InPlace
<1>4. ASSUME NEW j \in Slot, Writes(x, j) PROVE Good(m, c, Len(c), j, FreshDraft(g, j))
  <2>1. j = i
    BY <1>2, <1>4 DEF Writes
  <2>2. QED
    BY <1>1, <1>2, <1>3, <2>1 DEF Good
<1>5. Grows(m, b, c, g)
  BY <1>4, GrowsBy
<1>6. Writes(x, i)
  BY <1>2 DEF Writes
<1>7. QED
  BY <1>5, <1>6, LastWrites

LEMMA GrowsByFill ==
  ASSUME NEW m, NEW b, NEW c, NEW x, NEW g, Longer(b, c, x), x.op = "fill", x.slots = Slot,
         \A i \in Slot : x.of[i] = FreshDraft(g, i)
  PROVE  Grows(m, b, c, g) /\ \A i \in Slot : WrittenBy(m, c, Len(c), i, FreshDraft(g, i))
<1>1. c[Len(c)] = x
  BY DEF Longer
<1>2. \A i \in Slot : Good(m, c, Len(c), i, FreshDraft(g, i))
  BY <1>1 DEF Good
<1>3. Grows(m, b, c, g)
  BY <1>2, GrowsBy
<1>4. \A i \in Slot : Writes(x, i)
  BY DEF Writes
<1>5. QED
  BY <1>3, <1>4, LastWrites

\* What was filled or promised stays so.
LEMMA GrowsKeeps ==
  ASSUME NEW m, NEW b, NEW c, NEW g, Grows(m, b, c, g), NEW i \in Slot
  PROVE  LET d == FreshDraft(g, i)
         IN  /\ Filled(m, b, i, d) => Filled(m, c, i, d)
             /\ \A n \in 1..Len(b) : WrittenBy(m, b, n, i, d) => WrittenBy(m, c, n, i, d)
             /\ \A r : Promised(m, b, i, d, r) => Promised(m, c, i, d, r)
             /\ \A a : Arriving(m, b, a, i, d) => Arriving(m, c, a, i, d)
<1> DEFINE d == FreshDraft(g, i)
<1>1. Len(b) \in Nat /\ Len(c) \in Nat /\ Len(b) <= Len(c) /\ (\A k \in 1..Len(b) : c[k] = b[k])
  BY DEF Grows
<1>2. \A w \in 1..(Len(b) + 1) : GoodFrom(m, b, w, i, d) => GoodFrom(m, c, w, i, d)
  BY GrowsGood
<1> HIDE DEF d
<1>3. Filled(m, b, i, d) => Filled(m, c, i, d)
  BY <1>1, <1>2 DEF Filled
<1>4. ASSUME NEW n \in 1..Len(b), WrittenBy(m, b, n, i, d) PROVE WrittenBy(m, c, n, i, d)
  <2>1. PICK w \in 1..n : Writes(b[w], i) /\ GoodFrom(m, b, w, i, d)
    BY <1>4 DEF WrittenBy
  <2>2. w \in 1..Len(b) /\ w \in 1..(Len(b) + 1)
    BY <1>1
  <2>3. Writes(c[w], i) /\ GoodFrom(m, c, w, i, d)
    BY <1>1, <1>2, <2>1, <2>2
  <2>4. QED
    BY <2>3 DEF WrittenBy
<1>5. ASSUME NEW r, Promised(m, b, i, d, r) PROVE Promised(m, c, i, d, r)
  <2>1. CASE Filled(m, b, i, d)
    BY <1>3, <2>1 DEF Promised
  <2>2. CASE \E n \in 1..Len(b) : b[n] = r /\ WrittenBy(m, b, n, i, d)
    <3>1. PICK n \in 1..Len(b) : b[n] = r /\ WrittenBy(m, b, n, i, d)
      BY <2>2
    <3>2. n \in 1..Len(c) /\ c[n] = r /\ WrittenBy(m, c, n, i, d)
      BY <1>1, <1>4, <3>1
    <3>3. QED
      BY <3>2 DEF Promised
  <2>3. QED
    BY <1>5, <2>1, <2>2 DEF Promised
<1>6. ASSUME NEW a, Arriving(m, b, a, i, d) PROVE Arriving(m, c, a, i, d)
  <2>1. 1 \in 1..(Len(b) + 1)
    BY <1>1
  <2>2. QED
    BY <1>2, <1>6, <2>1 DEF Arriving
<1>7. QED
  BY <1>3, <1>4, <1>5, <1>6 DEF d

\* Slot i will be d when b has run.
Sure(m, b, i, d) == Filled(m, b, i, d) \/ \E n \in 1..Len(b) : WrittenBy(m, b, n, i, d)

LEMMA GrowsSure ==
  ASSUME NEW m, NEW b, NEW c, NEW g, Grows(m, b, c, g), NEW i \in Slot, Sure(m, b, i, FreshDraft(g, i))
  PROVE  Sure(m, c, i, FreshDraft(g, i))
<1> DEFINE d == FreshDraft(g, i)
<1>1. \A n \in 1..Len(b) : n \in 1..Len(c)
  BY DEF Grows
<1>2. /\ Filled(m, b, i, d) => Filled(m, c, i, d)
      /\ \A n \in 1..Len(b) : WrittenBy(m, b, n, i, d) => WrittenBy(m, c, n, i, d)
  BY GrowsKeeps
<1> HIDE DEF d
<1>3. QED
  BY <1>1, <1>2 DEF Sure, d

\* A later event promises what an earlier one did.
LEMMA PromisedLater ==
  ASSUME NEW m, NEW b, NEW c, NEW r, NEW g, Longer(b, c, r), r.op = "record", NEW i \in Slot,
         Sure(m, b, i, FreshDraft(g, i))
  PROVE  Promised(m, c, i, FreshDraft(g, i), r)
<1> DEFINE d == FreshDraft(g, i)
<1>1. Len(b) \in Nat /\ Len(c) = Len(b) + 1 /\ c[Len(c)] = r /\ \A k \in 1..Len(b) : c[k] = b[k]
  BY DEF Longer
<1>2. Grows(m, b, c, g)
  BY GrowsQuietly
<1> HIDE DEF d
<1>3. CASE Filled(m, b, i, d)
  BY <1>2, <1>3, GrowsKeeps DEF Promised, d
<1>4. CASE \E n \in 1..Len(b) : WrittenBy(m, b, n, i, d)
  <2>1. PICK n \in 1..Len(b) : WrittenBy(m, b, n, i, d)
    BY <1>4
  <2>2. WrittenBy(m, c, n, i, d)
    BY <1>2, <2>1, GrowsKeeps DEF d
  <2>3. n \in 1..Len(c) /\ Len(c) \in 1..Len(c) /\ \A w \in 1..n : w \in 1..Len(c)
    BY <1>1, <2>1
  <2>4. WrittenBy(m, c, Len(c), i, d)
    BY <2>2, <2>3 DEF WrittenBy
  <2>5. QED
    BY <1>1, <2>3, <2>4 DEF Promised, d
<1>5. QED
  BY <1>3, <1>4 DEF Sure, d

\* A draft that has just been launched.
LEMMA Launched ==
  ASSUME NEW m, NEW b, NEW c, NEW x, NEW d, NEW r, Longer(b, c, [op |-> "draft", of |-> d]),
         Longer(c, x, r), r.op = "record"
  PROVE  InPlace(m, x, Len(x), d) /\ DraftBy(m, x, d, r)
<1>1. /\ Len(b) \in Nat /\ Len(c) = Len(b) + 1 /\ Len(x) = Len(c) + 1
      /\ x[Len(x)] = r /\ x[Len(c)] = c[Len(c)] /\ c[Len(c)] = [op |-> "draft", of |-> d]
  BY DEF Longer
<1>2. Len(c) \in 1..Len(x) /\ Len(x) \in 1..Len(x) /\ (\A k \in (Len(c) + 1)..Len(x) : k = Len(x))
      /\ \A k \in Len(x)..Len(x) : k = Len(x)
  BY <1>1
<1>3. InPlace(m, x, Len(x), d)
  BY <1>1, <1>2 DEF InPlace
<1>4. QED
  BY <1>1, <1>2, <1>3 DEF DraftBy

\* What is enqueued behind it and drafts nothing leaves it alone.
LEMMA DraftByLonger ==
  ASSUME NEW m, NEW b, NEW c, NEW x, NEW d, NEW r, Longer(b, c, x), x.op # "draft", DraftBy(m, b, d, r)
  PROVE  DraftBy(m, c, d, r)
<1>1. Len(b) \in Nat /\ Len(c) = Len(b) + 1 /\ c[Len(c)] = x /\ \A k \in 1..Len(b) : c[k] = b[k]
  BY DEF Longer
<1>2. \A k \in Nat : k <= Len(c) => k <= Len(b) \/ k = Len(c)
  BY <1>1
<1>3. InPlace(m, c, Len(c), d)
  <2>1. CASE \E p \in 1..Len(b) : b[p].op = "draft" /\ b[p].of = d /\ \A s \in (p + 1)..Len(b) : b[s].op # "draft"
    <3>1. PICK p \in 1..Len(b) : b[p].op = "draft" /\ b[p].of = d /\ \A s \in (p + 1)..Len(b) : b[s].op # "draft"
      BY <2>1
    <3>2. ASSUME NEW s \in (p + 1)..Len(c) PROVE c[s].op # "draft"
      <4>1. CASE s = Len(c)
        BY <1>1, <4>1
      <4>2. CASE s # Len(c)
        <5>1. s \in (p + 1)..Len(b) /\ s \in 1..Len(b)
          BY <1>1, <4>2
        <5>2. QED
          BY <1>1, <3>1, <5>1
      <4>3. QED
        BY <4>1, <4>2
    <3>3. p \in 1..Len(c) /\ c[p] = b[p]
      BY <1>1
    <3>4. QED
      BY <3>1, <3>2, <3>3 DEF InPlace
  <2>2. CASE (\A p \in 1..Len(b) : b[p].op # "draft") /\ m.drafts["bak"] = d
    <3>1. \A p \in 1..Len(c) : c[p].op # "draft"
      BY <1>1, <2>2
    <3>2. QED
      BY <2>2, <3>1 DEF InPlace
  <2>3. QED
    BY <2>1, <2>2 DEF DraftBy, InPlace
<1>4. CASE \A p \in 1..Len(b) : b[p].op # "draft"
  <2>1. \A p \in 1..Len(c) : c[p].op # "draft"
    BY <1>1, <1>4
  <2>2. QED
    BY <1>3, <2>1 DEF DraftBy
<1>5. CASE \E n \in 1..Len(b) : b[n] = r /\ \A p \in n..Len(b) : b[p].op # "draft"
  <2>1. PICK n \in 1..Len(b) : b[n] = r /\ \A p \in n..Len(b) : b[p].op # "draft"
    BY <1>5
  <2>2. ASSUME NEW p \in n..Len(c) PROVE c[p].op # "draft"
    <3>1. CASE p = Len(c)
      BY <1>1, <3>1
    <3>2. CASE p # Len(c)
      <4>1. p \in n..Len(b) /\ p \in 1..Len(b)
        BY <1>1, <3>2
      <4>2. QED
        BY <1>1, <2>1, <4>1
    <3>3. QED
      BY <3>1, <3>2
  <2>3. n \in 1..Len(c) /\ c[n] = r
    BY <1>1, <2>1
  <2>4. QED
    BY <1>3, <2>2, <2>3 DEF DraftBy
<1>6. QED
  BY <1>4, <1>5 DEF DraftBy

-----------------------------------------------------------------------------
(***************************************************************************)
(* What the host's calls do to the queues                                  *)
(***************************************************************************)
SameFlags(e, f) ==
  /\ f.graphs = e.graphs /\ f.have = e.have /\ f.clean = e.clean /\ f.side2 = e.side2
  /\ f.stream12 = e.stream12 /\ f.first = e.first /\ f.windows = e.windows

\* f is e with command c enqueued on stream s.
Queued(e, f, s, c) ==
  /\ f \in Engines /\ SameFlags(e, f) /\ f.side = e.side /\ f.slots = e.slots /\ f.kind = e.kind
  /\ f.q[s] \in Seq(Command) /\ Longer(e.q[s], f.q[s], c)
  /\ \A t \in Stream \ {s} : f.q[t] = e.q[t]

LEMMA EnqueueIs ==
  ASSUME NEW e \in Engines, NEW s \in Stream, NEW c \in Command
  PROVE  LET f == Enqueue(e, s, c) IN Queued(e, f, s, c) /\ f.count = e.count
<1> DEFINE p == [e.q EXCEPT ![s] = Append(@, c)]
           f == Enqueue(e, s, c)
<1>1. p \in [Stream -> Seq(Command)] /\ p[s] = Append(e.q[s], c) /\ \A t \in Stream \ {s} : p[t] = e.q[t]
  BY QueueParts
<1>2. f = [e EXCEPT !.q = p]
  BY DEF Enqueue
<1>3. p[s] \in Seq(Command) /\ Longer(e.q[s], p[s], c)
  BY <1>1, QueueParts, AppendLonger
<1> HIDE DEF p, f
<1>4. f \in Engines /\ SameFlags(e, f) /\ f.side = e.side /\ f.slots = e.slots /\ f.kind = e.kind /\ f.q = p
      /\ f.count = e.count
  BY <1>1, <1>2 DEF Engines, SameFlags
<1>5. QED
  BY <1>1, <1>3, <1>4 DEF Queued, f

LEMMA RecordIs ==
  ASSUME NEW e \in Engines, NEW v \in Event, NEW s \in Stream
  PROVE  LET f == Record(e, v, s)
         IN  Queued(e, f, s, LastOf(f, v)) /\ \A u \in Event \ {v} : LastOf(f, u) = LastOf(e, u)
<1> DEFINE n == e.count[v] + 1
           c == [op |-> "record", ev |-> v, n |-> n]
           x == Enqueue(e, s, c)
           k == [e.count EXCEPT ![v] = n]
           f == Record(e, v, s)
<1>1. n \in Nat /\ k \in [Event -> Nat] /\ k[v] = n /\ \A u \in Event \ {v} : k[u] = e.count[u]
  BY QueueParts
<1> HIDE DEF n
<1>2. c \in Command
  BY <1>1, EventCommand
<1> HIDE DEF c
<1>3. Queued(e, x, s, c) /\ x.count = e.count
  BY <1>2, EnqueueIs
<1>4. f = [x EXCEPT !.count[v] = @ + 1]
  BY DEF Record, c, n
<1> HIDE DEF x, f
<1>5. f = [x EXCEPT !.count = k]
  BY <1>3, <1>4 DEF n
<1> HIDE DEF k
<1>6. x \in Engines
  BY <1>3 DEF Queued
<1>7. f \in Engines /\ f.count = k /\ f.q = x.q /\ SameFlags(x, f) /\ f.side = x.side /\ f.slots = x.slots /\ f.kind = x.kind
  BY <1>1, <1>5, <1>6 DEF Engines, SameFlags
<1>8. Queued(e, f, s, c)
  BY <1>3, <1>7 DEF Queued, SameFlags
<1>9. LastOf(f, v) = c /\ \A u \in Event \ {v} : LastOf(f, u) = LastOf(e, u)
  BY <1>1, <1>7 DEF LastOf, c
<1>10. QED
  BY <1>8, <1>9 DEF f

LEMMA WaitIs ==
  ASSUME NEW e \in Engines, NEW v \in Event, NEW s \in Stream
  PROVE  LET f == Wait(e, v, s)
         IN  Queued(e, f, s, [op |-> "wait", ev |-> v, n |-> e.count[v]]) /\ f.count = e.count
<1>1. e.count[v] \in Nat
  BY QueueParts
<1>2. [op |-> "wait", ev |-> v, n |-> e.count[v]] \in Command
  BY <1>1, EventCommand
<1>3. QED
  BY <1>2, EnqueueIs DEF Wait

\* From e to f the side stream was given what belongs to prefill g, and no other stream anything.
Sided(m, e, f, g) ==
  /\ f \in Engines /\ SameFlags(e, f)
  /\ f.q["main"] = e.q["main"] /\ f.q["bak2"] = e.q["bak2"]
  /\ f.q["bak"] \in Seq(Command) /\ Grows(m, e.q["bak"], f.q["bak"], g)
  /\ \A k \in 1..Len(f.q["bak"]) : k <= Len(e.q["bak"]) \/ f.q["bak"][k].op \in SideOps

LEMMA SidedTrans ==
  ASSUME NEW m, NEW e, NEW f, NEW h, NEW g, Sided(m, e, f, g), Sided(m, f, h, g)
  PROVE  Sided(m, e, h, g)
<1>1. Grows(m, e.q["bak"], h.q["bak"], g)
  BY GrowsTrans DEF Sided
<1>2. \A k \in 1..Len(h.q["bak"]) : k <= Len(e.q["bak"]) \/ h.q["bak"][k].op \in SideOps
  <2>1. /\ \A k \in 1..Len(f.q["bak"]) : k <= Len(e.q["bak"]) \/ f.q["bak"][k].op \in SideOps
        /\ \A k \in 1..Len(h.q["bak"]) : k <= Len(f.q["bak"]) \/ h.q["bak"][k].op \in SideOps
        /\ \A k \in 1..Len(f.q["bak"]) : h.q["bak"][k] = f.q["bak"][k]
        /\ Len(f.q["bak"]) \in Nat
    BY DEF Sided, Grows
  <2>2. QED
    BY <2>1
<1>3. QED
  BY <1>1, <1>2 DEF Sided, SameFlags

LEMMA SidedBy ==
  ASSUME NEW m, NEW e, NEW f, NEW x, NEW g, Queued(e, f, "bak", x), x.op \in SideOps,
         Grows(m, e.q["bak"], f.q["bak"], g)
  PROVE  Sided(m, e, f, g)
<1>1. f.q["main"] = e.q["main"] /\ f.q["bak2"] = e.q["bak2"]
  BY DEF Queued, Stream
<1>2. \A k \in 1..Len(f.q["bak"]) : k <= Len(e.q["bak"]) \/ f.q["bak"][k].op \in SideOps
  <2>1. Longer(e.q["bak"], f.q["bak"], x)
    BY DEF Queued
  <2>2. QED
    BY <2>1 DEF Longer
<1>3. QED
  BY <1>1, <1>2 DEF Sided, Queued

\* A record on the side stream.
LEMMA SideRecord ==
  ASSUME NEW m, NEW e \in Engines, NEW v \in Event, NEW g
  PROVE  LET f == Record(e, v, "bak")
         IN  /\ Sided(m, e, f, g) /\ f.side = e.side /\ f.slots = e.slots /\ f.kind = e.kind
             /\ Longer(e.q["bak"], f.q["bak"], LastOf(f, v))
             /\ \A u \in Event \ {v} : LastOf(f, u) = LastOf(e, u)
<1> DEFINE f == Record(e, v, "bak")
           x == LastOf(f, v)
<1>1. Queued(e, f, "bak", x) /\ \A u \in Event \ {v} : LastOf(f, u) = LastOf(e, u)
  BY RecordIs DEF Stream
<1>2. x.op = "record"
  BY DEF LastOf
<1> HIDE DEF f, x
<1>3. Longer(e.q["bak"], f.q["bak"], x)
  BY <1>1 DEF Queued
<1>4. Grows(m, e.q["bak"], f.q["bak"], g)
  BY <1>2, <1>3, GrowsQuietly
<1>5. Sided(m, e, f, g)
  BY <1>1, <1>2, <1>4, SidedBy DEF SideOps
<1>6. QED
  BY <1>1, <1>3, <1>5 DEF Queued, f, x

\* A launch on the side stream.
LEMMA SideLaunch ==
  ASSUME NEW m, NEW e \in Engines, NEW d \in Draft, NEW g
  PROVE  LET f == LaunchSide(e, "bak", d)
         IN  /\ Sided(m, e, f, g) /\ f.side /\ f.slots = e.slots /\ f.kind = e.kind
             /\ InPlace(m, f.q["bak"], Len(f.q["bak"]), d) /\ DraftBy(m, f.q["bak"], d, LastOf(f, "side"))
             /\ f.q["bak"][Len(f.q["bak"])] = LastOf(f, "side") /\ Len(f.q["bak"]) = Len(e.q["bak"]) + 2
             /\ f.q["bak"][Len(e.q["bak"]) + 1] = [op |-> "draft", of |-> d]
             /\ \A u \in Event \ {"side"} : LastOf(f, u) = LastOf(e, u)
<1> DEFINE c == [op |-> "draft", of |-> d]
           a == Enqueue(e, "bak", c)
           h == Record(a, "side", "bak")
           yes == TRUE
           f == LaunchSide(e, "bak", d)
<1>1. f = [h EXCEPT !.side = yes]
  BY DEF LaunchSide
<1>2. c \in Command /\ c.op = "draft"
  BY DEF Command
<1> HIDE DEF f
<1>3. Queued(e, a, "bak", c) /\ a.count = e.count
  BY <1>2, EnqueueIs DEF Stream
<1> HIDE DEF a
<1>4. Longer(e.q["bak"], a.q["bak"], c) /\ a \in Engines /\ a.slots = e.slots /\ a.kind = e.kind
  BY <1>3 DEF Queued
<1>5. Sided(m, e, a, g)
  <2>1. Grows(m, e.q["bak"], a.q["bak"], g)
    BY <1>2, <1>4, GrowsQuietly
  <2>2. QED
    BY <1>2, <1>3, <2>1, SidedBy DEF SideOps
<1>6. /\ Sided(m, a, h, g) /\ h.slots = a.slots /\ h.kind = a.kind
      /\ Longer(a.q["bak"], h.q["bak"], LastOf(h, "side"))
      /\ \A u \in Event \ {"side"} : LastOf(h, u) = LastOf(a, u)
  BY <1>4, SideRecord DEF Event
<1> HIDE DEF h
<1>7. Sided(m, e, h, g)
  BY <1>5, <1>6, SidedTrans
<1>8. yes \in BOOLEAN /\ yes
  OBVIOUS
<1> HIDE DEF yes
<1>9. h \in Engines
  BY <1>6 DEF Sided
<1>10. f \in Engines /\ f.q = h.q /\ f.count = h.count /\ f.slots = h.slots /\ f.kind = h.kind /\ f.side = yes
       /\ SameFlags(h, f)
  BY <1>1, <1>8, <1>9 DEF Engines, SameFlags
<1>11. Sided(m, e, f, g)
  BY <1>7, <1>10 DEF Sided, SameFlags
<1>12. \A u : LastOf(f, u) = LastOf(h, u) /\ LastOf(a, u) = LastOf(e, u)
  BY <1>3, <1>10 DEF LastOf
<1> DEFINE r == LastOf(f, "side")
<1>13. Longer(a.q["bak"], f.q["bak"], r) /\ r.op = "record"
  BY <1>6, <1>10, <1>12 DEF LastOf
<1> HIDE DEF r
<1>14. InPlace(m, f.q["bak"], Len(f.q["bak"]), d) /\ DraftBy(m, f.q["bak"], d, r)
  BY <1>4, <1>13, Launched DEF c
<1>15. /\ f.q["bak"][Len(f.q["bak"])] = r /\ Len(f.q["bak"]) = Len(e.q["bak"]) + 2
       /\ f.q["bak"][Len(e.q["bak"]) + 1] = c
  <2>1. /\ Len(e.q["bak"]) \in Nat /\ Len(a.q["bak"]) = Len(e.q["bak"]) + 1 /\ a.q["bak"][Len(a.q["bak"])] = c
        /\ Len(f.q["bak"]) = Len(a.q["bak"]) + 1 /\ f.q["bak"][Len(f.q["bak"])] = r
        /\ \A k \in 1..Len(a.q["bak"]) : f.q["bak"][k] = a.q["bak"][k]
    BY <1>4, <1>13 DEF Longer
  <2>2. Len(e.q["bak"]) + 1 = Len(a.q["bak"]) /\ Len(a.q["bak"]) \in 1..Len(a.q["bak"])
    BY <2>1
  <2> HIDE DEF c
  <2>3. f.q["bak"][Len(a.q["bak"])] = c
    BY <2>1, <2>2
  <2>4. Len(f.q["bak"]) = Len(e.q["bak"]) + 2
    BY <2>1
  <2>5. f.q["bak"][Len(e.q["bak"]) + 1] = c
    BY <2>2, <2>3
  <2>6. QED
    BY <2>1, <2>4, <2>5
<1>16. f.side /\ f.slots = e.slots /\ f.kind = e.kind /\ \A u \in Event \ {"side"} : LastOf(f, u) = LastOf(e, u)
  BY <1>4, <1>6, <1>8, <1>10, <1>12
<1>17. QED
  BY <1>11, <1>14, <1>15, <1>16 DEF f, r, c

\* A kick: this prefill's draft for slot i, the event, and the copy into the slot.
LEMMA SideKick ==
  ASSUME gen \in 0..MaxGen, NEW m, NEW e \in Engines, NEW i \in Slot
  PROVE  LET f == KickSlot(e, "bak", i)
         IN  /\ Sided(m, e, f, gen) /\ f.side /\ f.slots = e.slots /\ f.kind = e.kind
             /\ WrittenBy(m, f.q["bak"], Len(f.q["bak"]), i, FreshDraft(gen, i))
             /\ DraftBy(m, f.q["bak"], FreshDraft(gen, i), LastOf(f, "side"))
             /\ \E n \in (Len(e.q["bak"]) + 1)..Len(f.q["bak"]) : f.q["bak"][n] = LastOf(f, "side")
             /\ \A u \in Event \ {"side"} : LastOf(f, u) = LastOf(e, u)
<1> DEFINE d == SlotDraft[i]
           c == [op |-> "stash", slot |-> i]
           a == LaunchSide(e, "bak", d)
           h == Enqueue(a, "bak", c)
           w == h.launched \cup {i}
           f == KickSlot(e, "bak", i)
           r == LastOf(f, "side")
<1>1. d \in Draft /\ d = FreshDraft(gen, i) /\ c \in Command /\ c.op = "stash"
  BY DraftType DEF Command, SlotDraft, FreshDraft
<1>2. f = [h EXCEPT !.launched = w]
  BY DEF KickSlot
<1> HIDE DEF d, f
<1>3. /\ Sided(m, e, a, gen) /\ a.side /\ a.slots = e.slots /\ a.kind = e.kind
      /\ InPlace(m, a.q["bak"], Len(a.q["bak"]), d) /\ DraftBy(m, a.q["bak"], d, LastOf(a, "side"))
      /\ a.q["bak"][Len(a.q["bak"])] = LastOf(a, "side") /\ Len(a.q["bak"]) = Len(e.q["bak"]) + 2
      /\ \A u \in Event \ {"side"} : LastOf(a, u) = LastOf(e, u)
  BY <1>1, SideLaunch
<1> HIDE DEF a
<1>4. a \in Engines
  BY <1>3 DEF Sided
<1>5. Queued(a, h, "bak", c) /\ h.count = a.count
  BY <1>1, <1>4, EnqueueIs DEF Stream
<1> HIDE DEF h
<1>6. Longer(a.q["bak"], h.q["bak"], c) /\ h \in Engines
  BY <1>5 DEF Queued
<1>7. Grows(m, a.q["bak"], h.q["bak"], gen) /\ WrittenBy(m, h.q["bak"], Len(h.q["bak"]), i, FreshDraft(gen, i))
  BY <1>1, <1>3, <1>6, GrowsByStash
<1>8. Sided(m, a, h, gen)
  BY <1>1, <1>5, <1>7, SidedBy DEF SideOps
<1>9. Sided(m, e, h, gen)
  BY <1>3, <1>8, SidedTrans
<1>10. w \in SUBSET Slot
  BY <1>6, QueueParts
<1> HIDE DEF w
<1>11. f \in Engines /\ f.q = h.q /\ f.count = h.count /\ f.slots = h.slots /\ f.kind = h.kind /\ f.side = h.side
       /\ SameFlags(h, f)
  BY <1>2, <1>6, <1>10 DEF Engines, SameFlags
<1>12. Sided(m, e, f, gen)
  BY <1>9, <1>11 DEF Sided, SameFlags
<1>13. f.side /\ f.slots = e.slots /\ f.kind = e.kind
  BY <1>3, <1>5, <1>11 DEF Queued
<1>14. \A u : LastOf(f, u) = LastOf(a, u)
  BY <1>5, <1>11 DEF LastOf
<1>15. Len(e.q["bak"]) \in Nat /\ Len(a.q["bak"]) \in Nat /\ Len(f.q["bak"]) = Len(a.q["bak"]) + 1
       /\ f.q["bak"][Len(f.q["bak"])] = c /\ \A k \in 1..Len(a.q["bak"]) : f.q["bak"][k] = a.q["bak"][k]
  BY <1>3, <1>6, <1>11 DEF Longer, Sided, Grows
<1>16. \E n \in (Len(e.q["bak"]) + 1)..Len(f.q["bak"]) : f.q["bak"][n] = r
  <2>1. Len(a.q["bak"]) \in (Len(e.q["bak"]) + 1)..Len(f.q["bak"]) /\ Len(a.q["bak"]) \in 1..Len(a.q["bak"])
    BY <1>3, <1>15
  <2>2. f.q["bak"][Len(a.q["bak"])] = r
    BY <1>3, <1>14, <1>15, <2>1
  <2>3. QED
    BY <2>1, <2>2
<1>17. DraftBy(m, f.q["bak"], d, r)
  <2> DEFINE b == a.q["bak"]
             x == f.q["bak"]
  <2>1. Longer(b, x, c) /\ DraftBy(m, b, d, r) /\ c.op # "draft"
    BY <1>1, <1>3, <1>6, <1>11, <1>14
  <2> HIDE DEF b, x, r, c
  <2>2. DraftBy(m, x, d, r)
    BY <2>1, DraftByLonger
  <2>3. QED
    BY <2>2 DEF x
<1>18. QED
  BY <1>1, <1>3, <1>7, <1>11, <1>12, <1>13, <1>14, <1>16, <1>17 DEF f, r

-----------------------------------------------------------------------------
(***************************************************************************)
(* What a kick prepares, on an engine with one side stream                 *)
(***************************************************************************)
OneGraph(e) == e.graphs \cap {"rec4", "rec4 b2", "hin b2"} = {"rec4"}

LEMMA OneStream ==
  ASSUME NEW e, OneGraph(e)
  PROVE  /\ On(e, "rec4 b2") = "bak" /\ On(e, "hin b2") = "bak"
         /\ e.graphs \cap {"rec4", "rec4 b2"} # {}
<1>1. \A x \in {"rec4", "rec4 b2", "hin b2"} : x \in e.graphs <=> x = "rec4"
  BY DEF OneGraph
<1>2. "rec4" \in e.graphs /\ "rec4 b2" \notin e.graphs /\ "hin b2" \notin e.graphs
  BY <1>1
<1>3. QED
  BY <1>2 DEF On

NoFill(a) == \A k \in 1..Len(a) : a[k].op # "fill"

LEMMA NoneArrives == \A m, b, a, i, d : NoFill(a) => ~Arriving(m, b, a, i, d)
BY DEF NoFill, Arriving

LEMMA WrittenPromised ==
  ASSUME NEW m, NEW b, NEW i, NEW d, NEW r, NEW k \in 1..Len(b), b[k] = r, NEW n \in 1..k, WrittenBy(m, b, n, i, d),
         Len(b) \in Nat
  PROVE  Promised(m, b, i, d, r)
<1>1. \A w \in 1..n : w \in 1..k
  OBVIOUS
<1>2. QED
  BY <1>1 DEF Promised, WrittenBy

LEMMA NewRecord ==
  ASSUME NEW m, NEW e, NEW f, NEW g, Sided(m, e, f, g), f.q["bak"] \in Seq(Command), Len(e.q["bak"]) \in Nat,
         \E n \in (Len(e.q["bak"]) + 1)..Len(f.q["bak"]) : f.q["bak"][n] = LastOf(f, "side")
  PROVE  NoneOld(m, f, g)
<1> DEFINE b == e.q["bak"]
           c == f.q["bak"]
<1>1. PICK n \in (Len(b) + 1)..Len(c) : c[n] = LastOf(f, "side")
  OBVIOUS
<1>2. Len(c) \in Nat /\ Len(b) \in Nat
  OBVIOUS
<1>3. \A i \in Slot : GoodFrom(m, c, Len(b) + 1, i, FreshDraft(g, i))
  BY DEF Sided, Grows
<1> HIDE DEF b, c
<1>4. \A v \in n..Len(c) : v \in (Len(b) + 1)..Len(c)
  BY <1>1, <1>2
<1>5. \A i \in Slot : GoodFrom(m, c, n, i, FreshDraft(g, i))
  BY <1>3, <1>4 DEF GoodFrom
<1>6. n \in 1..Len(c)
  BY <1>1, <1>2
<1>7. QED
  BY <1>1, <1>5, <1>6 DEF NoneOld, c

KindRight(m, e, g) ==
  /\ (e.slots >= 2 <=> e.kind = 3) /\ e.kind # 2
  /\ e.kind = 1 => e.side /\ DraftBy(m, e.q["bak"], FreshDraft(g, 1), LastOf(e, "side"))

Prepared(m, e, g) ==
  /\ SlotsReady(m, e, g) /\ KindRight(m, e, g)
  /\ e.slots >= 2 => e.side /\ NoneOld(m, e, g)

LEMMA H4Prepares ==
  ASSUME gen \in 0..MaxGen, NEW m, NEW e \in Engines, OneGraph(e), e.slots \in {0, 1}, Has(e, "h4")
  PROVE  /\ Sided(m, e, KickH4(e), gen) /\ Prepared(m, KickH4(e), gen)
         /\ Has(e, "h31") => KickH4(e).slots = 2
<1> DEFINE a == KickSlot(e, "bak", 1)
           one == Record(a, "slot0", "bak")
           b == KickSlot(one, "bak", 2)
           two == Record(b, "slot1", "bak")
           both == Has(e, "h31")
           f == KickH4(e)
           D(i) == FreshDraft(gen, i)
           B(x) == x.q["bak"]
<1>1. f = IF both THEN Recount(two, 2, 3) ELSE Recount(one, 1, 1)
  <2> DEFINE s == On(e, "rec4 b2")
             may == both /\ e.graphs \cap {"rec4", "rec4 b2"} # {}
             n == IF may /\ e.slots < 2 THEN 2 ELSE IF e.slots < 1 THEN 1 ELSE e.slots
             kind == IF n >= 2 THEN 3 ELSE 1
             last == IF may THEN Record(KickSlot(one, s, 2), "slot1", s) ELSE one
  <2>1. f = Recount(last, n, kind)
    BY DEF KickH4, Recount
  <2>2. s = "bak" /\ (may <=> both)
    BY OneStream
  <2>3. last = IF both THEN two ELSE one
    BY <2>2
  <2> HIDE DEF f, two, one, both, s, last
  <2>4. CASE both
    <3>1. may
      BY <2>2, <2>4
    <3> HIDE DEF may
    <3>2. n = 2
      <4>1. e.slots < 2
        OBVIOUS
      <4>2. QED
        BY <3>1, <4>1
    <3> HIDE DEF n
    <3>3. kind = 3
      BY <3>2
    <3>4. QED
      BY <2>1, <2>3, <2>4, <3>2, <3>3
  <2>5. CASE ~both
    <3>1. ~may
      BY <2>2, <2>5
    <3> HIDE DEF may
    <3>2. n = 1
      <4>1. e.slots < 1 \/ (~(e.slots < 1) /\ e.slots = 1)
        OBVIOUS
      <4>2. QED
        BY <3>1, <4>1
    <3> HIDE DEF n
    <3>3. kind = 1
      BY <3>2
    <3>4. QED
      BY <2>1, <2>3, <2>5, <3>2, <3>3
  <2>6. QED
    BY <2>4, <2>5
<1> HIDE DEF f, both
<1>2. 1 \in Slot /\ 2 \in Slot
  BY DEF Slot
<1>3. /\ Sided(m, e, a, gen) /\ a.side
      /\ WrittenBy(m, B(a), Len(B(a)), 1, D(1))
      /\ DraftBy(m, B(a), D(1), LastOf(a, "side"))
  BY <1>2, SideKick
<1> HIDE DEF a
<1>4. a \in Engines
  BY <1>3 DEF Sided
<1>5. /\ Sided(m, a, one, gen) /\ one.side = a.side
      /\ Longer(B(a), B(one), LastOf(one, "slot0"))
      /\ \A u \in Event \ {"slot0"} : LastOf(one, u) = LastOf(a, u)
  BY <1>4, SideRecord DEF Event
<1> HIDE DEF one
<1>6. one \in Engines
  BY <1>5 DEF Sided
<1>7. /\ Sided(m, one, b, gen) /\ b.side
      /\ WrittenBy(m, B(b), Len(B(b)), 2, D(2))
      /\ \E n \in (Len(B(one)) + 1)..Len(B(b)) : B(b)[n] = LastOf(b, "side")
      /\ \A u \in Event \ {"side"} : LastOf(b, u) = LastOf(one, u)
  BY <1>2, <1>6, SideKick
<1> HIDE DEF b
<1>8. b \in Engines
  BY <1>7 DEF Sided
<1>9. /\ Sided(m, b, two, gen) /\ two.side = b.side
      /\ Longer(B(b), B(two), LastOf(two, "slot1"))
      /\ \A u \in Event \ {"slot1"} : LastOf(two, u) = LastOf(b, u)
  BY <1>8, SideRecord DEF Event
<1> HIDE DEF two
<1>10. two \in Engines
  BY <1>9 DEF Sided
<1>11. Sided(m, e, one, gen) /\ Sided(m, one, two, gen) /\ Sided(m, e, two, gen)
  BY <1>3, <1>5, <1>7, <1>9, SidedTrans
<1>12. /\ Grows(m, B(a), B(one), gen) /\ Grows(m, B(one), B(b), gen) /\ Grows(m, B(b), B(two), gen)
  BY <1>5, <1>7, <1>9 DEF Sided
<1>13. /\ Len(B(e)) \in Nat /\ Len(B(a)) \in Nat /\ Len(B(one)) \in Nat /\ Len(B(b)) \in Nat /\ Len(B(two)) \in Nat
       /\ Len(B(e)) <= Len(B(a)) /\ Len(B(a)) <= Len(B(one)) /\ Len(B(one)) <= Len(B(b)) /\ Len(B(b)) <= Len(B(two))
  BY <1>3, <1>5, <1>7, <1>9 DEF Sided, Grows
<1> HIDE DEF D
<1>14. Len(B(a)) \in 1..Len(B(a)) /\ Len(B(b)) \in 1..Len(B(b))
  BY <1>3, <1>7, <1>13 DEF WrittenBy
<1>15. Promised(m, B(one), 1, D(1), LastOf(one, "slot0"))
  <2>1. Sure(m, B(a), 1, D(1))
    BY <1>3, <1>14 DEF Sure
  <2>2. LastOf(one, "slot0").op = "record"
    BY DEF LastOf
  <2>3. QED
    BY <1>2, <1>5, <2>1, <2>2, PromisedLater DEF D
<1>16. Promised(m, B(two), 1, D(1), LastOf(two, "slot0"))
  <2>1. Promised(m, B(two), 1, D(1), LastOf(one, "slot0"))
    BY <1>2, <1>12, <1>15, GrowsKeeps DEF D
  <2>2. LastOf(two, "slot0") = LastOf(one, "slot0")
    BY <1>7, <1>9 DEF Event
  <2>3. QED
    BY <2>1, <2>2
<1>17. Promised(m, B(two), 2, D(2), LastOf(two, "slot1"))
  <2>1. Sure(m, B(b), 2, D(2))
    BY <1>7, <1>14 DEF Sure
  <2>2. LastOf(two, "slot1").op = "record"
    BY DEF LastOf
  <2>3. QED
    BY <1>2, <1>9, <2>1, <2>2, PromisedLater DEF D
<1>18. PICK n \in (Len(B(one)) + 1)..Len(B(b)) : B(b)[n] = LastOf(b, "side")
  BY <1>7
<1>19. LastOf(two, "side") = LastOf(b, "side")
  BY <1>9 DEF Event
<1>20. Promised(m, B(two), 1, D(1), LastOf(two, "side"))
  <2>1. WrittenBy(m, B(one), Len(B(a)), 1, D(1))
    BY <1>2, <1>3, <1>12, <1>14, GrowsKeeps DEF D
  <2>2. Len(B(a)) \in 1..Len(B(one)) /\ Len(B(a)) \in 1..n /\ n \in 1..Len(B(b))
    BY <1>13, <1>14, <1>18
  <2>3. WrittenBy(m, B(b), Len(B(a)), 1, D(1))
    BY <1>2, <1>12, <2>1, <2>2, GrowsKeeps DEF D
  <2>4. Promised(m, B(b), 1, D(1), LastOf(b, "side"))
    BY <1>13, <1>18, <2>2, <2>3, WrittenPromised
  <2>5. QED
    BY <1>2, <1>12, <1>19, <2>4, GrowsKeeps DEF D
<1>21. CASE both
  <2>1. f = Recount(two, 2, 3)
    BY <1>1, <1>21
  <2> DEFINE l == 2
             kind == 3
  <2>2. l \in 0..4 /\ kind \in 0..3
    OBVIOUS
  <2>3. f = [two EXCEPT !.slots = l, !.kind = kind]
    BY <2>1 DEF Recount
  <2> HIDE DEF l, kind
  <2>4. f \in Engines /\ f.q = two.q /\ f.count = two.count /\ f.slots = l /\ f.kind = kind /\ f.side = two.side
        /\ SameFlags(two, f)
    BY <1>10, <2>2, <2>3 DEF Engines, SameFlags
  <2>5. Sided(m, e, f, gen)
    BY <1>11, <2>4 DEF Sided, SameFlags
  <2>6. \A u : LastOf(f, u) = LastOf(two, u)
    BY <2>4 DEF LastOf
  <2>7. SlotsReady(m, f, gen)
    <3>1. \A i \in {1} \cup 3..f.slots : i = 1
      BY <2>4 DEF l
    <3>2. f.side
      BY <1>7, <1>9, <2>4
    <3>3. B(f) = B(two)
      BY <2>4
    <3>4. QED
      BY <1>16, <1>17, <1>20, <2>6, <3>1, <3>2, <3>3 DEF SlotsReady, D
  <2>8. NoneOld(m, f, gen)
    <3> DEFINE last == Len(B(f))
    <3>0. last = Len(B(two))
      BY <2>4
    <3> HIDE DEF last
    <3>1. n \in (Len(B(e)) + 1)..last /\ n \in 1..Len(B(b))
      <4>1. Len(B(e)) <= Len(B(one))
        BY <1>11 DEF Sided, Grows
      <4>0. Len(B(b)) <= last /\ last \in Nat
        BY <1>13, <3>0
      <4>2. Len(B(one)) + 1 <= n /\ n <= Len(B(b)) /\ n \in Nat
        BY <1>13, <1>18
      <4>3. QED
        BY <1>13, <4>0, <4>1, <4>2
    <3> USE DEF last
    <3>2. B(f)[n] = LastOf(f, "side")
      BY <1>12, <1>18, <1>19, <2>4, <2>6, <3>1 DEF Grows
    <3>3. B(f) \in Seq(Command)
      BY <2>5 DEF Sided
    <3>4. QED
      BY <1>13, <2>5, <3>1, <3>2, <3>3, NewRecord
  <2>9. f.side /\ f.slots = 2 /\ f.kind = 3
    BY <1>7, <1>9, <2>4 DEF l, kind
  <2>10. QED
    BY <2>5, <2>7, <2>8, <2>9 DEF Prepared, KindRight, f
<1>22. CASE ~both
  <2>1. f = Recount(one, 1, 1)
    BY <1>1, <1>22
  <2> DEFINE l == 1
             kind == 1
  <2>2. l \in 0..4 /\ kind \in 0..3
    OBVIOUS
  <2>3. f = [one EXCEPT !.slots = l, !.kind = kind]
    BY <2>1 DEF Recount
  <2> HIDE DEF l, kind
  <2>4. f \in Engines /\ f.q = one.q /\ f.count = one.count /\ f.slots = l /\ f.kind = kind /\ f.side = one.side
        /\ SameFlags(one, f)
    BY <1>6, <2>2, <2>3 DEF Engines, SameFlags
  <2>5. Sided(m, e, f, gen)
    BY <1>11, <2>4 DEF Sided, SameFlags
  <2>6. LastOf(f, "side") = LastOf(a, "side")
    BY <1>5, <2>4 DEF LastOf, Event
  <2>7. DraftBy(m, B(one), D(1), LastOf(a, "side"))
    <3>1. LastOf(one, "slot0").op # "draft"
      BY DEF LastOf
    <3>2. QED
      BY <1>3, <1>5, <3>1, DraftByLonger DEF D
  <2>8. f.side /\ f.slots = 1 /\ f.kind = 1 /\ B(f) = B(one)
    BY <1>3, <1>5, <2>4 DEF l, kind
  <2>9. ~(f.slots >= 2)
    BY <2>8
  <2>10. DraftBy(m, B(f), D(1), LastOf(f, "side"))
    BY <2>6, <2>7, <2>8
  <2>11. SlotsReady(m, f, gen) /\ KindRight(m, f, gen)
    BY <2>8, <2>9, <2>10 DEF SlotsReady, KindRight, D
  <2>12. QED
    BY <1>22, <2>5, <2>9, <2>11 DEF Prepared, f, both
<1>23. QED
  BY <1>21, <1>22

\* Every counted slot will be filled.
LEMMA ReadySure ==
  ASSUME NEW m, NEW e, NEW g, SlotsReady(m, e, g), NoFill(e.q["main"]), e.slots \in {2, 3}
  PROVE  \A i \in 1..e.slots : Sure(m, e.q["bak"], i, FreshDraft(g, i))
<1>1. \A i, r : Promised(m, e.q["bak"], i, FreshDraft(g, i), r) => Sure(m, e.q["bak"], i, FreshDraft(g, i))
  BY DEF Promised, Sure
<1>2. \A i : Filled(m, e.q["bak"], i, FreshDraft(g, i)) => Sure(m, e.q["bak"], i, FreshDraft(g, i))
  BY DEF Sure
<1>3. \A i : ~Arriving(m, e.q["bak"], e.q["main"], i, FreshDraft(g, i))
  BY NoneArrives
<1>4. Sure(m, e.q["bak"], 1, FreshDraft(g, 1)) /\ Sure(m, e.q["bak"], 2, FreshDraft(g, 2))
  BY <1>1, <1>3 DEF SlotsReady
<1>5. ASSUME e.slots = 3 PROVE Sure(m, e.q["bak"], 3, FreshDraft(g, 3))
  <2>1. 3 \in 3..e.slots
    BY <1>5
  <2>2. QED
    BY <1>1, <1>2, <1>3, <2>1 DEF SlotsReady
<1>6. \A i \in 1..e.slots : i = 1 \/ i = 2 \/ (i = 3 /\ e.slots = 3)
  OBVIOUS
<1>7. QED
  BY <1>4, <1>5, <1>6

LEMMA ExtraPrepares ==
  ASSUME gen \in 0..MaxGen, NEW m, NEW e \in Engines, OneGraph(e), e.slots >= 2, NoFill(e.q["main"]),
         SlotsReady(m, e, gen)
  PROVE  LET f == KickExtra(e)
         IN  /\ Sided(m, e, f, gen) /\ SlotsReady(m, f, gen)
             /\ f.slots >= 2 /\ f.kind = e.kind /\ (e.side => f.side)
             /\ e.side /\ NoneOld(m, e, gen) => NoneOld(m, f, gen)
<1> DEFINE third == e.slots = 2
           fourth == e.slots \in {2, 3} /\ e.have["cont2"] = "zero"
           a == KickSlot(e, "bak", 3)
           three == IF third THEN a ELSE e
           b == KickSlot(three, "bak", 4)
           four == IF fourth THEN b ELSE three
           c == Record(four, "side", "bak")
           f == KickExtra(e)
           D(i) == FreshDraft(gen, i)
           B(x) == x.q["bak"]
<1>1. CASE e.have["cont1"] # "zero" \/ ~(third \/ fourth)
  <2>1. f = e
    BY <1>1 DEF KickExtra
  <2>2. Sided(m, e, e, gen)
    <3>1. B(e) \in Seq(Command) /\ Len(B(e)) \in Nat
      BY QueueParts DEF Stream
    <3>2. Grows(m, B(e), B(e), gen)
      BY <3>1, GrowsSame
    <3>3. QED
      BY <3>1, <3>2 DEF Sided, SameFlags
  <2> HIDE DEF f
  <2>3. QED
    BY <2>1, <2>2 DEF f
<1>2. CASE ~(e.have["cont1"] # "zero" \/ ~(third \/ fourth))
  <2> DEFINE yes == TRUE
             n == IF fourth THEN 4 ELSE 3
  <2>1. f = [c EXCEPT !.side = yes, !.slots = n]
    BY <1>2, OneStream DEF KickExtra
  <2> HIDE DEF f
  <2>2. 1 \in Slot /\ 2 \in Slot /\ 3 \in Slot /\ 4 \in Slot
    BY DEF Slot
  <2>3. B(e) \in Seq(Command) /\ Len(B(e)) \in Nat
    BY QueueParts DEF Stream
  <2>4. Sided(m, e, e, gen)
    <3>1. Grows(m, B(e), B(e), gen)
      BY <2>3, GrowsSame
    <3>2. QED
      BY <2>3, <3>1 DEF Sided, SameFlags
  <2>5. Sided(m, e, a, gen) /\ a.kind = e.kind /\ WrittenBy(m, B(a), Len(B(a)), 3, D(3))
        /\ \A u \in Event \ {"side"} : LastOf(a, u) = LastOf(e, u)
    BY <2>2, SideKick
  <2> HIDE DEF a
  <2>6. third \/ (e.slots = 3 /\ fourth)
    BY <1>2
  <2>7. yes \in BOOLEAN /\ yes
    OBVIOUS
  <2>8. n \in 0..4 /\ n >= 2
    OBVIOUS
  <2>9. \A i \in 1..n : i = 1 \/ i = 2 \/ i = 3 \/ (i = 4 /\ fourth)
    OBVIOUS
  <2>10. \A i \in 1..e.slots : Sure(m, B(e), i, D(i))
    BY <2>6, ReadySure
  <2>11. 1 \in 1..e.slots /\ 2 \in 1..e.slots /\ (~third => 3 \in 1..e.slots)
    BY <2>6
  <2> HIDE DEF fourth, third, n, yes
  <2>12. Sided(m, e, three, gen) /\ three.kind = e.kind /\ \A u \in Event \ {"side"} : LastOf(three, u) = LastOf(e, u)
    BY <2>4, <2>5
  <2>13. Sure(m, B(three), 3, D(3))
    <3>1. CASE third
      <4>1. Len(B(a)) \in 1..Len(B(a))
        BY <2>5 DEF WrittenBy, Sided, Grows
      <4>2. Sure(m, B(a), 3, D(3))
        BY <2>5, <4>1 DEF Sure
      <4>3. QED
        BY <3>1, <4>2
    <3>2. CASE ~third
      BY <2>10, <2>11, <3>2
    <3>3. QED
      BY <3>1, <3>2
  <2> HIDE DEF three
  <2>14. three \in Engines
    BY <2>12 DEF Sided
  <2>15. Sided(m, three, b, gen) /\ b.kind = three.kind /\ WrittenBy(m, B(b), Len(B(b)), 4, D(4))
         /\ \A u \in Event \ {"side"} : LastOf(b, u) = LastOf(three, u)
    BY <2>2, <2>14, SideKick
  <2> HIDE DEF b
  <2>16. Sided(m, three, three, gen)
    <3>1. B(three) \in Seq(Command) /\ Len(B(three)) \in Nat
      BY <2>14, QueueParts DEF Stream
    <3>2. Grows(m, B(three), B(three), gen)
      BY <3>1, GrowsSame
    <3>3. QED
      BY <2>14, <3>1, <3>2 DEF Sided, SameFlags
  <2>17. Sided(m, three, four, gen) /\ four.kind = three.kind
         /\ \A u \in Event \ {"side"} : LastOf(four, u) = LastOf(three, u)
    BY <2>15, <2>16
  <2>18. fourth => Sure(m, B(four), 4, D(4))
    <3>1. Len(B(b)) \in 1..Len(B(b))
      BY <2>15 DEF WrittenBy, Sided, Grows
    <3>2. QED
      BY <2>15, <3>1 DEF Sure
  <2> HIDE DEF four
  <2>19. Sided(m, e, four, gen) /\ four \in Engines
    <3>1. Sided(m, e, four, gen)
      BY <2>12, <2>17, SidedTrans
    <3>2. QED
      BY <3>1 DEF Sided
  <2>20. Sure(m, B(four), 1, D(1)) /\ Sure(m, B(four), 2, D(2)) /\ Sure(m, B(four), 3, D(3))
    <3>1. Grows(m, B(e), B(four), gen) /\ Grows(m, B(three), B(four), gen)
      BY <2>17, <2>19 DEF Sided
    <3>2. Sure(m, B(e), 1, D(1)) /\ Sure(m, B(e), 2, D(2))
      BY <2>10, <2>11
    <3>3. QED
      BY <2>2, <2>13, <3>1, <3>2, GrowsSure
  <2>21. /\ Sided(m, four, c, gen) /\ c.kind = four.kind /\ Longer(B(four), B(c), LastOf(c, "side"))
         /\ \A u \in Event \ {"side"} : LastOf(c, u) = LastOf(four, u)
    BY <2>19, SideRecord DEF Event
  <2> HIDE DEF c
  <2>22. Sided(m, e, c, gen) /\ c \in Engines
    <3>1. Sided(m, e, c, gen)
      BY <2>19, <2>21, SidedTrans
    <3>2. QED
      BY <3>1 DEF Sided
  <2>23. \A i \in 1..n : Promised(m, B(c), i, D(i), LastOf(c, "side"))
    <3>1. LastOf(c, "side").op = "record"
      BY DEF LastOf
    <3>2. \A i \in Slot : Sure(m, B(four), i, D(i)) => Promised(m, B(c), i, D(i), LastOf(c, "side"))
      BY <2>21, <3>1, PromisedLater
    <3>3. QED
      BY <2>2, <2>9, <2>18, <2>20, <3>2
  <2>24. f \in Engines /\ f.q = c.q /\ f.count = c.count /\ f.slots = n /\ f.kind = c.kind /\ f.side
         /\ SameFlags(c, f)
    BY <2>1, <2>7, <2>8, <2>22 DEF Engines, SameFlags
  <2>25. Sided(m, e, f, gen)
    BY <2>22, <2>24 DEF Sided, SameFlags
  <2>26. \A u : LastOf(f, u) = LastOf(c, u)
    BY <2>24 DEF LastOf
  <2>27. \A u \in {"slot0", "slot1"} : LastOf(f, u) = LastOf(e, u)
    BY <2>12, <2>17, <2>21, <2>26 DEF Event
  <2>28. Promised(m, B(f), 1, D(1), LastOf(f, "slot0")) /\ Promised(m, B(f), 2, D(2), LastOf(f, "slot1"))
    <3>1. Promised(m, B(e), 1, D(1), LastOf(e, "slot0")) /\ Promised(m, B(e), 2, D(2), LastOf(e, "slot1"))
      BY NoneArrives DEF SlotsReady
    <3>2. Grows(m, B(e), B(f), gen)
      BY <2>25 DEF Sided
    <3>3. Promised(m, B(f), 1, D(1), LastOf(e, "slot0")) /\ Promised(m, B(f), 2, D(2), LastOf(e, "slot1"))
      BY <2>2, <3>1, <3>2, GrowsKeeps
    <3>4. QED
      BY <2>27, <3>3
  <2>29. SlotsReady(m, f, gen)
    <3>1. \A i \in {1} \cup 3..f.slots : i \in 1..n
      BY <2>8, <2>24
    <3>2. \A i \in {1} \cup 3..f.slots : Promised(m, B(f), i, D(i), LastOf(f, "side"))
      BY <2>23, <2>24, <2>26, <3>1
    <3>3. QED
      BY <2>24, <2>28, <3>2 DEF SlotsReady
  <2>30. NoneOld(m, f, gen)
    <3>1. B(f) \in Seq(Command) /\ Len(B(c)) = Len(B(four)) + 1 /\ B(c)[Len(B(c))] = LastOf(c, "side")
          /\ Len(B(e)) <= Len(B(four)) /\ Len(B(four)) \in Nat
      BY <2>19, <2>21, <2>25 DEF Longer, Sided, Grows
    <3>2. Len(B(f)) \in (Len(B(e)) + 1)..Len(B(f)) /\ B(f)[Len(B(f))] = LastOf(f, "side")
      BY <2>3, <2>24, <2>26, <3>1
    <3>3. QED
      BY <2>3, <2>25, <3>1, <3>2, NewRecord
  <2>31. f.kind = e.kind
    BY <2>12, <2>17, <2>21, <2>24
  <2>32. QED
    BY <2>8, <2>24, <2>25, <2>29, <2>30, <2>31 DEF f
<1>3. QED
  BY <1>1, <1>2

LEMMA QuadPrepares ==
  ASSUME gen \in 0..MaxGen, NEW m, NEW e \in Engines, ~e.side2
  PROVE  Sided(m, e, KickQuad(e), gen) /\ Prepared(m, KickQuad(e), gen) /\ KickQuad(e).slots = 4
<1> DEFINE k == [op |-> "fill", slots |-> Slot, of |-> SlotDraft]
           a == Enqueue(e, "bak", k)
           b == Record(a, "slot0", "bak")
           c == Record(b, "side", "bak")
           x == Record(c, "slot1", "bak")
           f == KickQuad(e)
           D(i) == FreshDraft(gen, i)
           B(y) == y.q["bak"]
<1>1. f = [x EXCEPT !.side = TRUE, !.side2 = FALSE, !.slots = 4, !.kind = 3, !.launched = Slot]
  BY DEF KickQuad
<1> HIDE DEF f
<1>2. k \in Command /\ k.op = "fill" /\ k.slots = Slot /\ \A i \in Slot : k.of[i] = D(i)
  BY DraftType DEF Command, SlotDraft, FreshDraft
<1> HIDE DEF k
<1>3. Queued(e, a, "bak", k) /\ a.count = e.count
  BY <1>2, EnqueueIs DEF Stream
<1> HIDE DEF a
<1>4. Longer(B(e), B(a), k) /\ a \in Engines
  BY <1>3 DEF Queued
<1>5. Grows(m, B(e), B(a), gen) /\ \A i \in Slot : WrittenBy(m, B(a), Len(B(a)), i, D(i))
  BY <1>2, <1>4, GrowsByFill
<1>6. Sided(m, e, a, gen)
  BY <1>2, <1>3, <1>5, SidedBy DEF SideOps
<1>7. Len(B(a)) \in 1..Len(B(a)) /\ \A i \in Slot : Sure(m, B(a), i, D(i))
  <2>1. Len(B(a)) \in 1..Len(B(a))
    BY <1>4 DEF Longer
  <2>2. QED
    BY <1>5, <2>1 DEF Sure
<1>8. Sided(m, a, b, gen) /\ Longer(B(a), B(b), LastOf(b, "slot0"))
  BY <1>4, SideRecord DEF Event
<1> HIDE DEF b
<1>9. b \in Engines
  BY <1>8 DEF Sided
<1>10. Sided(m, b, c, gen) /\ Longer(B(b), B(c), LastOf(c, "side")) /\ LastOf(c, "slot0") = LastOf(b, "slot0")
  BY <1>9, SideRecord DEF Event
<1> HIDE DEF c
<1>11. c \in Engines
  BY <1>10 DEF Sided
<1>12. Sided(m, c, x, gen) /\ Longer(B(c), B(x), LastOf(x, "slot1")) /\ LastOf(x, "slot0") = LastOf(c, "slot0")
       /\ LastOf(x, "side") = LastOf(c, "side")
  BY <1>11, SideRecord DEF Event
<1> HIDE DEF x
<1>13. x \in Engines
  BY <1>12 DEF Sided
<1>14. Grows(m, B(a), B(b), gen) /\ Grows(m, B(b), B(c), gen) /\ Grows(m, B(c), B(x), gen)
  BY <1>8, <1>10, <1>12 DEF Sided
<1> HIDE DEF D
<1>15. \A i \in Slot : Promised(m, B(x), i, D(i), LastOf(x, "slot0"))
  <2>1. LastOf(b, "slot0").op = "record"
    BY DEF LastOf
  <2>2. \A i \in Slot : Promised(m, B(b), i, D(i), LastOf(b, "slot0"))
    BY <1>7, <1>8, <2>1, PromisedLater DEF D
  <2>3. \A i \in Slot : Promised(m, B(c), i, D(i), LastOf(b, "slot0"))
    BY <1>14, <2>2, GrowsKeeps DEF D
  <2>4. \A i \in Slot : Promised(m, B(x), i, D(i), LastOf(b, "slot0"))
    BY <1>14, <2>3, GrowsKeeps DEF D
  <2>5. QED
    BY <1>10, <1>12, <2>4
<1>16. \A i \in Slot : Sure(m, B(b), i, D(i)) /\ Sure(m, B(c), i, D(i))
  BY <1>7, <1>14, GrowsSure DEF D
<1>17. \A i \in Slot : Promised(m, B(x), i, D(i), LastOf(x, "side"))
  <2>1. LastOf(c, "side").op = "record"
    BY DEF LastOf
  <2>2. \A i \in Slot : Promised(m, B(c), i, D(i), LastOf(c, "side"))
    BY <1>10, <1>16, <2>1, PromisedLater DEF D
  <2>3. \A i \in Slot : Promised(m, B(x), i, D(i), LastOf(c, "side"))
    BY <1>14, <2>2, GrowsKeeps DEF D
  <2>4. QED
    BY <1>12, <2>3
<1>18. \A i \in Slot : Promised(m, B(x), i, D(i), LastOf(x, "slot1"))
  <2>1. LastOf(x, "slot1").op = "record"
    BY DEF LastOf
  <2>2. QED
    BY <1>12, <1>16, <2>1, PromisedLater DEF D
<1>19. Sided(m, e, x, gen)
  BY <1>6, <1>8, <1>10, <1>12, SidedTrans
<1>20. /\ f \in Engines /\ f.q = x.q /\ f.count = x.count /\ f.slots = 4 /\ f.kind = 3 /\ f.side /\ SameFlags(x, f)
  <2> DEFINE yes == TRUE
             no == FALSE
             n == 4
             kind == 3
             all == Slot
  <2>1. yes \in BOOLEAN /\ no \in BOOLEAN /\ yes
    OBVIOUS
  <2>2. n \in 0..4 /\ kind \in 0..3 /\ all \in SUBSET Slot
    OBVIOUS
  <2>3. f = [x EXCEPT !.side = yes, !.side2 = no, !.slots = n, !.kind = kind, !.launched = all]
    BY <1>1
  <2>4. x.side2 = no
    <3>1. x.side2 = e.side2 /\ e.side2 \in BOOLEAN
      BY <1>19 DEF Sided, SameFlags, Engines
    <3>2. QED
      BY <3>1
  <2> HIDE DEF yes, no, n, kind, all
  <2>5. /\ f \in Engines /\ f.q = x.q /\ f.count = x.count /\ f.slots = n /\ f.kind = kind /\ f.side = yes
        /\ SameFlags(x, f)
    BY <1>13, <2>1, <2>2, <2>3, <2>4 DEF Engines, SameFlags
  <2>6. QED
    BY <2>1, <2>5 DEF n, kind
<1>21. Sided(m, e, f, gen)
  BY <1>19, <1>20 DEF Sided, SameFlags
<1>22. \A u : LastOf(f, u) = LastOf(x, u)
  BY <1>20 DEF LastOf
<1>23. SlotsReady(m, f, gen)
  <2>1. \A i \in {1} \cup 3..f.slots : i \in Slot
    BY <1>20 DEF Slot
  <2>2. 1 \in Slot /\ 2 \in Slot
    BY DEF Slot
  <2>3. \A i \in Slot, u \in {"slot0", "slot1", "side"} : Promised(m, B(f), i, D(i), LastOf(f, u))
    BY <1>15, <1>17, <1>18, <1>20, <1>22
  <2>4. QED
    BY <1>20, <2>1, <2>2, <2>3 DEF SlotsReady, D
<1>24. NoneOld(m, f, gen)
  <2>1. B(f) \in Seq(Command) /\ Len(B(e)) \in Nat /\ Len(B(a)) = Len(B(e)) + 1 /\ Len(B(b)) = Len(B(a)) + 1
        /\ Len(B(c)) = Len(B(b)) + 1 /\ Len(B(x)) = Len(B(c)) + 1
        /\ B(c)[Len(B(c))] = LastOf(c, "side") /\ \A j \in 1..Len(B(c)) : B(x)[j] = B(c)[j]
    BY <1>4, <1>8, <1>10, <1>12, <1>21 DEF Longer, Sided
  <2>2. Len(B(c)) \in (Len(B(e)) + 1)..Len(B(f)) /\ B(f)[Len(B(c))] = LastOf(f, "side")
    <3>1. B(f) = B(x) /\ LastOf(f, "side") = LastOf(c, "side")
      BY <1>12, <1>20, <1>22
    <3>2. Len(B(e)) \in Nat /\ Len(B(c)) = Len(B(e)) + 3 /\ Len(B(x)) = Len(B(e)) + 4
      BY <2>1
    <3>3. Len(B(c)) \in (Len(B(e)) + 1)..Len(B(x)) /\ Len(B(c)) \in 1..Len(B(c))
      BY <3>2
    <3>4. QED
      BY <2>1, <3>1, <3>3
  <2>3. QED
    BY <1>21, <2>1, <2>2, NewRecord
<1>25. QED
  BY <1>20, <1>21, <1>23, <1>24 DEF Prepared, KindRight, f

\* What prefill kicks.
LEMMA KickPrepares ==
  ASSUME gen \in 0..MaxGen, NEW m, NEW e \in Engines, OneGraph(e), ~e.side2, e.slots = 0, e.kind = 0,
         NoFill(e.q["main"]), Has(e, "h31") => Has(e, "h4")
  PROVE  /\ Sided(m, e, Kick(e), gen) /\ Prepared(m, Kick(e), gen)
         /\ Has(e, "h31") => Kick(e).slots >= 2
<1>1. CASE ~Has(e, "h4")
  <2>1. Kick(e) = e
    BY <1>1 DEF Kick, TimedReuse, KickH4
  <2>2. e.q["bak"] \in Seq(Command) /\ Len(e.q["bak"]) \in Nat
    BY QueueParts DEF Stream
  <2>3. Sided(m, e, e, gen)
    <3>1. Grows(m, e.q["bak"], e.q["bak"], gen)
      BY <2>2, GrowsSame
    <3>2. QED
      BY <2>2, <3>1 DEF Sided, SameFlags
  <2>4. Prepared(m, e, gen)
    BY DEF Prepared, SlotsReady, KindRight
  <2>5. QED
    BY <1>1, <2>1, <2>3, <2>4
<1>2. CASE TimedReuse(e) /\ "quad" \in e.graphs
  BY <1>2, QuadPrepares DEF Kick
<1>3. CASE TimedReuse(e) /\ "quad" \notin e.graphs
  <2> DEFINE f == KickH4(e)
             h == KickExtra(f)
  <2>1. Kick(e) = h
    BY <1>3 DEF Kick
  <2>2. Sided(m, e, f, gen) /\ Prepared(m, f, gen) /\ f.slots = 2
    BY <1>3, H4Prepares DEF TimedReuse
  <2> HIDE DEF f
  <2>3. f \in Engines /\ OneGraph(f) /\ NoFill(f.q["main"]) /\ f.slots >= 2
    <3>1. f \in Engines /\ f.graphs = e.graphs /\ f.q["main"] = e.q["main"]
      BY <2>2 DEF Sided, SameFlags
    <3>2. f.slots >= 2
      BY <2>2
    <3>3. OneGraph(f)
      BY <3>1 DEF OneGraph
    <3>4. QED
      BY <3>1, <3>2, <3>3
  <2>4. SlotsReady(m, f, gen) /\ f.side /\ NoneOld(m, f, gen) /\ f.kind = 3
    BY <2>2 DEF Prepared, KindRight
  <2>5. Sided(m, f, h, gen) /\ SlotsReady(m, h, gen) /\ h.slots >= 2 /\ h.kind = f.kind /\ h.side /\ NoneOld(m, h, gen)
    BY <2>3, <2>4, ExtraPrepares
  <2> HIDE DEF h
  <2>6. Prepared(m, h, gen)
    BY <2>4, <2>5 DEF Prepared, KindRight
  <2>7. Sided(m, e, h, gen)
    BY <2>2, <2>5, SidedTrans
  <2>8. QED
    BY <2>1, <2>5, <2>6, <2>7
<1>4. CASE Has(e, "h4") /\ ~TimedReuse(e)
  <2>1. Kick(e) = KickH4(e)
    BY <1>4 DEF Kick
  <2>2. /\ Sided(m, e, KickH4(e), gen) /\ Prepared(m, KickH4(e), gen)
        /\ Has(e, "h31") => KickH4(e).slots = 2
    BY <1>4, H4Prepares
  <2>3. QED
    BY <2>1, <2>2
<1>5. QED
  BY <1>1, <1>2, <1>3, <1>4

-----------------------------------------------------------------------------
(***************************************************************************)
(* A command of the side stream is run                                     *)
(***************************************************************************)
Ran(m, n, x) ==
  /\ DOMAIN n.drafts = DOMAIN m.drafts /\ n.copied = m.copied
  /\ n.drafts["bak"] = IF x.op = "draft" THEN x.of ELSE m.drafts["bak"]
  /\ \A i \in Slot : n.slot[i] = IF x.op = "stash" /\ x.slot = i THEN m.drafts["bak"]
                                 ELSE IF x.op = "fill" /\ i \in x.slots THEN x.of[i] ELSE m.slot[i]

LEMMA RanInPlace ==
  ASSUME NEW m, NEW n, NEW x, NEW b, NEW t, NEW d, Popped(b, t, x), Ran(m, n, x),
         NEW k \in 0..Len(t), InPlace(m, b, k + 1, d)
  PROVE  InPlace(n, t, k, d)
<1>1. Len(t) \in Nat /\ Len(b) = Len(t) + 1 /\ b[1] = x /\ \A j \in 1..Len(t) : t[j] = b[j + 1]
  BY DEF Popped
<1>2. n.drafts["bak"] = IF x.op = "draft" THEN x.of ELSE m.drafts["bak"]
  BY DEF Ran
<1>3. CASE \E p \in 1..(k + 1) : b[p].op = "draft" /\ b[p].of = d /\ \A r \in (p + 1)..(k + 1) : b[r].op # "draft"
  <2>1. PICK p \in 1..(k + 1) : b[p].op = "draft" /\ b[p].of = d /\ \A r \in (p + 1)..(k + 1) : b[r].op # "draft"
    BY <1>3
  <2>2. CASE p = 1
    <3>1. n.drafts["bak"] = d
      BY <1>1, <1>2, <2>1, <2>2
    <3>2. \A j \in 1..k : t[j] = b[j + 1] /\ j + 1 \in (p + 1)..(k + 1)
      BY <1>1, <2>2
    <3>3. \A j \in 1..k : t[j].op # "draft"
      BY <2>1, <3>2
    <3>4. QED
      BY <3>1, <3>3 DEF InPlace
  <2>3. CASE p # 1
    <3>1. p - 1 \in 1..k /\ t[p - 1] = b[p]
      BY <1>1, <2>3
    <3>2. \A j \in ((p - 1) + 1)..k : t[j] = b[j + 1] /\ j + 1 \in (p + 1)..(k + 1)
      BY <1>1, <2>3
    <3>3. \A j \in ((p - 1) + 1)..k : t[j].op # "draft"
      BY <2>1, <3>2
    <3>4. QED
      BY <2>1, <3>1, <3>3 DEF InPlace
  <2>4. QED
    BY <2>2, <2>3
<1>4. CASE (\A p \in 1..(k + 1) : b[p].op # "draft") /\ m.drafts["bak"] = d
  <2>1. 1 \in 1..(k + 1) /\ \A j \in 1..k : t[j] = b[j + 1] /\ j + 1 \in 1..(k + 1)
    BY <1>1
  <2>2. n.drafts["bak"] = d /\ \A j \in 1..k : t[j].op # "draft"
    BY <1>1, <1>2, <1>4, <2>1
  <2>3. QED
    BY <2>2 DEF InPlace
<1>5. QED
  BY <1>3, <1>4 DEF InPlace

LEMMA RanGood ==
  ASSUME NEW m, NEW n, NEW x, NEW b, NEW t, NEW i, NEW d, Popped(b, t, x), Ran(m, n, x),
         NEW w \in Nat \ {0}, GoodFrom(m, b, w + 1, i, d) \/ GoodFrom(m, b, 1, i, d)
  PROVE  GoodFrom(n, t, w, i, d)
<1>1. Len(t) \in Nat /\ Len(b) = Len(t) + 1 /\ b[1] = x /\ \A j \in 1..Len(t) : t[j] = b[j + 1]
  BY DEF Popped
<1>2. ASSUME NEW v \in w..Len(t), Writes(t[v], i) PROVE Good(n, t, v, i, d)
  <2>1. v \in 1..Len(t) /\ v + 1 \in (w + 1)..Len(b) /\ v + 1 \in 1..Len(b) /\ v \in 0..Len(t)
    BY <1>1
  <2>2. t[v] = b[v + 1]
    BY <1>1, <2>1
  <2>3. Good(m, b, v + 1, i, d)
    BY <1>2, <2>1, <2>2 DEF GoodFrom
  <2>4. CASE t[v].op = "stash"
    <3>1. InPlace(m, b, v + 1, d)
      BY <2>2, <2>3, <2>4 DEF Good
    <3>2. InPlace(n, t, v, d)
      BY <2>1, <3>1, RanInPlace
    <3>3. QED
      BY <2>4, <3>2 DEF Good
  <2>5. CASE t[v].op # "stash"
    BY <2>2, <2>3, <2>5 DEF Good
  <2>6. QED
    BY <2>4, <2>5
<1>3. QED
  BY <1>2 DEF GoodFrom

\* The first command of b writes what it should.
LEMMA RanWrites ==
  ASSUME NEW m, NEW n, NEW x, NEW b, NEW t, NEW i \in Slot, NEW d, Popped(b, t, x), Ran(m, n, x),
         Writes(x, i), GoodFrom(m, b, 1, i, d)
  PROVE  n.slot[i] = d
<1>1. Len(t) \in Nat /\ Len(b) = Len(t) + 1 /\ b[1] = x
  BY DEF Popped
<1>2. 1 \in 1..Len(b)
  BY <1>1
<1>3. Good(m, b, 1, i, d)
  BY <1>1, <1>2 DEF GoodFrom
<1>4. CASE x.op = "stash"
  <2>1. InPlace(m, b, 1, d) /\ x.slot = i
    BY <1>1, <1>3, <1>4 DEF Good, Writes
  <2>2. b[1].op # "draft" /\ \A p \in 1..1 : p = 1
    BY <1>1, <1>4
  <2>3. m.drafts["bak"] = d
    BY <2>1, <2>2 DEF InPlace
  <2>4. QED
    BY <1>4, <2>1, <2>3 DEF Ran
<1>5. CASE x.op # "stash"
  <2>1. x.of[i] = d /\ x.op = "fill" /\ i \in x.slots
    BY <1>1, <1>3, <1>5 DEF Good, Writes
  <2>2. QED
    BY <1>5, <2>1 DEF Ran
<1>6. QED
  BY <1>4, <1>5

LEMMA RanFilled ==
  ASSUME NEW m, NEW n, NEW x, NEW b, NEW t, NEW i \in Slot, NEW d, Popped(b, t, x), Ran(m, n, x), Filled(m, b, i, d)
  PROVE  Filled(n, t, i, d)
<1>1. m.slot[i] = d /\ GoodFrom(m, b, 1, i, d)
  BY DEF Filled
<1>2. GoodFrom(n, t, 1, i, d)
  BY <1>1, RanGood
<1>3. n.slot[i] = d
  <2>1. CASE Writes(x, i)
    BY <1>1, <2>1, RanWrites
  <2>2. CASE ~Writes(x, i)
    BY <1>1, <2>2 DEF Writes, Ran
  <2>3. QED
    BY <2>1, <2>2
<1>4. QED
  BY <1>2, <1>3 DEF Filled

LEMMA RanPromised ==
  ASSUME NEW m, NEW n, NEW x, NEW b, NEW t, NEW i \in Slot, NEW d, NEW r, Popped(b, t, x), Ran(m, n, x),
         r.op = "record", Promised(m, b, i, d, r)
  PROVE  Promised(n, t, i, d, r)
<1>1. Len(t) \in Nat /\ Len(b) = Len(t) + 1 /\ b[1] = x /\ \A j \in 1..Len(t) : t[j] = b[j + 1]
  BY DEF Popped
<1>2. CASE Filled(m, b, i, d)
  BY <1>2, RanFilled DEF Promised
<1>3. CASE \E k \in 1..Len(b) : b[k] = r /\ WrittenBy(m, b, k, i, d)
  <2>1. PICK k \in 1..Len(b) : b[k] = r /\ WrittenBy(m, b, k, i, d)
    BY <1>3
  <2>2. PICK w \in 1..k : Writes(b[w], i) /\ GoodFrom(m, b, w, i, d)
    BY <2>1 DEF WrittenBy
  <2>3. w # k
    BY <2>1, <2>2 DEF Writes
  <2>4. CASE w = 1
    <3>1. n.slot[i] = d
      BY <1>1, <2>2, <2>4, RanWrites
    <3>2. GoodFrom(n, t, 1, i, d)
      BY <2>2, <2>4, RanGood
    <3>3. QED
      BY <3>1, <3>2 DEF Filled, Promised
  <2>5. CASE w # 1
    <3> DEFINE u == w - 1
    <3>1. u \in Nat \ {0} /\ u + 1 = w /\ u \in 1..(k - 1) /\ k - 1 \in 1..Len(t) /\ u \in 1..Len(t)
      BY <1>1, <2>3, <2>5
    <3> HIDE DEF u
    <3>2. GoodFrom(n, t, u, i, d)
      <4>1. GoodFrom(m, b, u + 1, i, d)
        BY <2>2, <3>1
      <4>2. QED
        BY <3>1, <4>1, RanGood
    <3>3. t[u] = b[w] /\ t[k - 1] = b[k]
      BY <1>1, <3>1
    <3>4. QED
      BY <2>1, <2>2, <3>1, <3>2, <3>3 DEF WrittenBy, Promised
  <2>6. QED
    BY <2>4, <2>5
<1>4. QED
  BY <1>2, <1>3 DEF Promised

LEMMA RanDraftBy ==
  ASSUME NEW m, NEW n, NEW x, NEW b, NEW t, NEW d, NEW r, Popped(b, t, x), Ran(m, n, x), DraftBy(m, b, d, r)
  PROVE  DraftBy(n, t, d, r)
<1>1. Len(t) \in Nat /\ Len(b) = Len(t) + 1 /\ b[1] = x /\ \A j \in 1..Len(t) : t[j] = b[j + 1]
  BY DEF Popped
<1>2. InPlace(n, t, Len(t), d)
  <2>1. InPlace(m, b, Len(t) + 1, d) /\ Len(t) \in 0..Len(t)
    BY <1>1 DEF DraftBy
  <2>2. QED
    BY <2>1, RanInPlace
<1>3. CASE \A p \in 1..Len(b) : b[p].op # "draft"
  <2>1. \A p \in 1..Len(t) : t[p].op # "draft"
    BY <1>1, <1>3
  <2>2. QED
    BY <1>2, <2>1 DEF DraftBy
<1>4. CASE \E k \in 1..Len(b) : b[k] = r /\ \A p \in k..Len(b) : b[p].op # "draft"
  <2>1. PICK k \in 1..Len(b) : b[k] = r /\ \A p \in k..Len(b) : b[p].op # "draft"
    BY <1>4
  <2>2. CASE k = 1
    <3>1. \A p \in 1..Len(t) : t[p].op # "draft"
      BY <1>1, <2>1, <2>2
    <3>2. QED
      BY <1>2, <3>1 DEF DraftBy
  <2>3. CASE k # 1
    <3>1. k - 1 \in 1..Len(t) /\ t[k - 1] = b[k]
      BY <1>1, <2>3
    <3>2. \A p \in (k - 1)..Len(t) : t[p] = b[p + 1] /\ p + 1 \in k..Len(b)
      BY <1>1, <2>3
    <3>3. \A p \in (k - 1)..Len(t) : t[p].op # "draft"
      BY <2>1, <3>2
    <3>4. QED
      BY <1>2, <2>1, <3>1, <3>3 DEF DraftBy
  <2>4. QED
    BY <2>2, <2>3
<1>5. QED
  BY <1>3, <1>4 DEF DraftBy

\* f is e with the first command of the side stream taken.
SideTaken(e, f, x) ==
  /\ Popped(e.q["bak"], f.q["bak"], x) /\ f.q["main"] = e.q["main"] /\ f.q["bak2"] = e.q["bak2"]
  /\ SameFlags(e, f) /\ f.side = e.side /\ f.slots = e.slots /\ f.kind = e.kind /\ f.count = e.count

LEMMA RanNoneOld ==
  ASSUME NEW m, NEW n, NEW x, NEW e, NEW f, NEW g, SideTaken(e, f, x), Ran(m, n, x), NoneOld(m, e, g)
  PROVE  NoneOld(n, f, g)
<1> DEFINE b == e.q["bak"]
           t == f.q["bak"]
           r == LastOf(e, "side")
<1>1. Popped(b, t, x) /\ LastOf(f, "side") = r
  BY DEF SideTaken, LastOf
<1>2. \/ \A i \in Slot : GoodFrom(m, b, 1, i, FreshDraft(g, i))
      \/ \E k \in 1..Len(b) : b[k] = r /\ \A i \in Slot : GoodFrom(m, b, k, i, FreshDraft(g, i))
  BY DEF NoneOld
<1> HIDE DEF b, t, r
<1>3. Len(t) \in Nat /\ Len(b) = Len(t) + 1 /\ b[1] = x /\ \A j \in 1..Len(t) : t[j] = b[j + 1]
  BY <1>1 DEF Popped
<1>4. CASE \A i \in Slot : GoodFrom(m, b, 1, i, FreshDraft(g, i))
  <2>1. \A i \in Slot : GoodFrom(n, t, 1, i, FreshDraft(g, i))
    BY <1>1, <1>4, RanGood
  <2>2. QED
    BY <2>1 DEF NoneOld, t
<1>5. CASE \E k \in 1..Len(b) : b[k] = r /\ \A i \in Slot : GoodFrom(m, b, k, i, FreshDraft(g, i))
  <2>1. PICK k \in 1..Len(b) : b[k] = r /\ \A i \in Slot : GoodFrom(m, b, k, i, FreshDraft(g, i))
    BY <1>5
  <2>2. CASE k = 1
    BY <1>4, <2>1, <2>2
  <2>3. CASE k # 1
    <3> DEFINE u == k - 1
    <3>1. u \in Nat \ {0} /\ u + 1 = k /\ u \in 1..Len(t)
      BY <1>3, <2>3
    <3> HIDE DEF u
    <3>2. \A i \in Slot : GoodFrom(n, t, u, i, FreshDraft(g, i))
      <4>1. \A i \in Slot : GoodFrom(m, b, u + 1, i, FreshDraft(g, i))
        BY <2>1, <3>1
      <4>2. QED
        BY <1>1, <3>1, <4>1, RanGood
    <3>3. t[u] = LastOf(f, "side")
      BY <1>1, <1>3, <2>1, <3>1
    <3>4. QED
      BY <3>1, <3>2, <3>3 DEF NoneOld, t
  <2>4. QED
    BY <2>2, <2>3
<1>6. QED
  BY <1>2, <1>4, <1>5

LEMMA CopiedSlots ==
  ASSUME NEW c \in Command, c.op \in {"copy", "fill"}
  PROVE  c.slots \subseteq Slot
BY DEF Command

\* If x is a wait, the record it is for is not in the queue q.
Arrived(q, x) == x.op = "wait" => \A k \in 1..Len(q) : q[k] # [op |-> "record", ev |-> x.ev, n |-> x.n]

\* A command of the side stream keeps the invariant.
LEMMA RunSide ==
  ASSUME NEW m, NEW n, NEW e \in Engines, NEW f, NEW p, NEW g, NEW x, StreamInv(m, e, p, g),
         SideTaken(e, f, x), Ran(m, n, x),
         Arrived(e.q["main"], x)
  PROVE  StreamInv(n, f, p, g)
<1> DEFINE a == e.q["main"]
           b == e.q["bak"]
           t == f.q["bak"]
<1>1. a \in Seq(Command) /\ e.slots \in 0..4
  BY QueueParts DEF Stream
<1>2. /\ Popped(b, t, x) /\ f.q["main"] = a /\ f.q["bak2"] = e.q["bak2"] /\ f.side2 = e.side2
      /\ f.side = e.side /\ f.slots = e.slots /\ f.kind = e.kind /\ f.count = e.count
      /\ f.first = e.first /\ f.windows = e.windows
  BY DEF SideTaken, SameFlags
<1>3. /\ Len(t) \in Nat /\ Len(b) = Len(t) + 1 /\ b[1] = x
      /\ \A j \in 1..Len(t) : t[j] = b[j + 1] /\ j + 1 \in 1..Len(b)
  BY <1>2 DEF Popped
<1>4. \A u : LastOf(f, u) = LastOf(e, u) /\ LastOf(e, u).op = "record"
  BY <1>2 DEF LastOf
<1>5. Pending(f, p) = Pending(e, p)
  BY <1>2 DEF Pending
<1>6. /\ \A i \in Slot : \A d : Filled(m, b, i, d) => Filled(n, t, i, d)
      /\ \A i \in Slot : \A d, r : r.op = "record" /\ Promised(m, b, i, d, r) => Promised(n, t, i, d, r)
      /\ \A d, r : DraftBy(m, b, d, r) => DraftBy(n, t, d, r)
  BY <1>2, RanFilled, RanPromised, RanDraftBy
<1>7. \A i \in Slot : \A d : Arriving(m, b, a, i, d) => Arriving(n, t, a, i, d)
  BY <1>2, RanGood DEF Arriving
<1>8. QueuesRight(n, f, p, g)
  <2>1. e.q["bak2"] = <<>> /\ ~e.side2 /\ DOMAIN m.drafts = {"bak", "bak2"}
        /\ (\A k \in 1..Len(a) : a[k].op \in MainOps(p)) /\ (\A k \in 1..Len(b) : b[k].op \in SideOps)
        /\ (p = "streamed" => \A k \in 1..Len(a) : a[k].op = "fill" =>
              \A i \in a[k].slots : a[k].of[i] = FreshDraft(g, i))
    BY DEF StreamInv, QueuesRight
  <2>2. \A k \in 1..Len(t) : t[k].op \in SideOps
    BY <1>3, <2>1
  <2>3. DOMAIN n.drafts = {"bak", "bak2"}
    BY <2>1 DEF Ran
  <2>4. QED
    BY <1>2, <2>1, <2>2, <2>3 DEF QueuesRight
<1>9. SlotsReady(m, e, g) => SlotsReady(n, f, g)
  <2> SUFFICES ASSUME SlotsReady(m, e, g), e.slots >= 2 PROVE SlotsReady(n, f, g)
    BY <1>2 DEF SlotsReady
  <2> DEFINE D(i) == FreshDraft(g, i)
             Comes(i, v) == Promised(m, b, i, D(i), LastOf(e, v)) \/ Arriving(m, b, a, i, D(i))
             Still(i, v) == Promised(n, t, i, D(i), LastOf(f, v)) \/ Arriving(n, t, a, i, D(i))
             Is(i) == Filled(m, b, i, D(i)) \/ Arriving(m, b, a, i, D(i))
             IsStill(i) == Filled(n, t, i, D(i)) \/ Arriving(n, t, a, i, D(i))
  <2>1. /\ Comes(1, "slot0") /\ Comes(2, "slot1")
        /\ e.side => \A i \in {1} \cup 3..e.slots : Comes(i, "side")
        /\ ~e.side => \A i \in 3..e.slots : Is(i)
    BY DEF SlotsReady
  <2>2. \A i \in Slot : \A v : Comes(i, v) => Still(i, v)
    BY <1>4, <1>6, <1>7
  <2>3. \A i \in Slot : Is(i) => IsStill(i)
    BY <1>6, <1>7
  <2>4. 1 \in Slot /\ 2 \in Slot /\ (\A i \in {1} \cup 3..e.slots : i \in Slot) /\ \A i \in 3..e.slots : i \in Slot
    BY <1>1 DEF Slot
  <2> HIDE DEF Comes, Is
  <2>5. /\ Still(1, "slot0") /\ Still(2, "slot1")
        /\ e.side => \A i \in {1} \cup 3..e.slots : Still(i, "side")
        /\ ~e.side => \A i \in 3..e.slots : IsStill(i)
    BY <2>1, <2>2, <2>3, <2>4
  <2>6. QED
    BY <1>2, <2>5 DEF SlotsReady
<1>10. CopiesFresh(n, f, g)
  <2> SUFFICES ASSUME NEW k \in 1..Len(a), a[k].op = "copy", NEW i \in a[k].slots
               PROVE  /\ a[k].of[i] = FreshDraft(g, i)
                      /\ \/ Filled(n, t, i, FreshDraft(g, i))
                         \/ \E j \in 1..(k - 1) : a[j].op = "wait"
                              /\ Promised(n, t, i, FreshDraft(g, i), [op |-> "record", ev |-> a[j].ev, n |-> a[j].n])
    BY <1>2 DEF CopiesFresh
  <2>1. i \in Slot
    BY <1>1, CopiedSlots
  <2>2. /\ a[k].of[i] = FreshDraft(g, i)
        /\ \/ Filled(m, b, i, FreshDraft(g, i))
           \/ \E j \in 1..(k - 1) : a[j].op = "wait"
                /\ Promised(m, b, i, FreshDraft(g, i), [op |-> "record", ev |-> a[j].ev, n |-> a[j].n])
    BY DEF StreamInv, CopiesFresh
  <2>3. \A j : [op |-> "record", ev |-> a[j].ev, n |-> a[j].n].op = "record"
    OBVIOUS
  <2> HIDE DEF a, b, t
  <2>4. QED
    BY <1>6, <2>1, <2>2, <2>3
<1>11. TakesFresh(n, f)
  <2> SUFFICES ASSUME NEW k \in 1..Len(a), a[k].op = "take"
               PROVE  Taken(n, a, t, k)
    BY <1>2 DEF TakesFresh
  <2>1. m.drafts["bak"] = a[k].of /\
        \A r \in 1..Len(b) : b[r].op = "draft" =>
          \E w \in 1..(r - 1) : b[w].op = "wait"
            /\ \E j \in (k + 1)..Len(a) : a[j] = [op |-> "record", ev |-> b[w].ev, n |-> b[w].n]
    BY DEF StreamInv, TakesFresh, Taken
  <2>2. x.op # "draft"
    <3>1. 1 \in 1..Len(b) /\ 1..(1 - 1) = {}
      BY <1>3
    <3>2. QED
      BY <1>3, <2>1, <3>1
  <2>3. n.drafts["bak"] = a[k].of
    BY <2>1, <2>2 DEF Ran
  <2>4. ASSUME NEW r \in 1..Len(t), t[r].op = "draft"
        PROVE  \E w \in 1..(r - 1) : t[w].op = "wait"
                 /\ \E j \in (k + 1)..Len(a) : a[j] = [op |-> "record", ev |-> t[w].ev, n |-> t[w].n]
    <3>1. PICK w \in 1..((r + 1) - 1) : b[w].op = "wait"
            /\ \E j \in (k + 1)..Len(a) : a[j] = [op |-> "record", ev |-> b[w].ev, n |-> b[w].n]
      BY <1>3, <2>1, <2>4
    <3>2. \A j \in (k + 1)..Len(a) : j \in 1..Len(a)
      BY <1>1
    <3>3. w # 1
      BY <1>3, <3>1, <3>2 DEF Arrived
    <3>4. w - 1 \in 1..(r - 1) /\ w - 1 \in 1..Len(t) /\ (w - 1) + 1 = w
      <4>1. w \in 2..r /\ r \in 1..Len(t) /\ Len(t) \in Nat
        BY <1>3, <3>3
      <4>2. QED
        BY <4>1
    <3>5. t[w - 1] = b[w]
      BY <1>3, <3>4
    <3>6. QED
      BY <3>1, <3>4, <3>5
  <2>5. QED
    BY <2>3, <2>4 DEF Taken
<1>12. KindsRight(n, f, p, g)
  <2>1. NoneOld(m, e, g) => NoneOld(n, f, g)
    BY RanNoneOld
  <2>2. KindsRight(m, e, p, g)
    BY DEF StreamInv
  <2>3. QED
    BY <1>2, <1>4, <1>5, <1>6, <2>1, <2>2 DEF KindsRight
<1>13. Matched(n)
  BY DEF StreamInv, Ran, Matched
<1>14. QED
  BY <1>5, <1>8, <1>9, <1>10, <1>11, <1>12, <1>13 DEF StreamInv

-----------------------------------------------------------------------------
(***************************************************************************)
(* A command of the main stream is run                                     *)
(***************************************************************************)
\* f is e with the first command of the main stream taken.
MainTaken(e, f, x) ==
  /\ Popped(e.q["main"], f.q["main"], x) /\ f.q["bak"] = e.q["bak"] /\ f.q["bak2"] = e.q["bak2"]
  /\ SameFlags(e, f) /\ f.side = e.side /\ f.slots = e.slots /\ f.kind = e.kind /\ f.count = e.count

MainRan(m, n, x) ==
  /\ n.drafts = m.drafts
  /\ \A i \in Slot : n.slot[i] = IF x.op = "fill" /\ i \in x.slots THEN x.of[i] ELSE m.slot[i]
  /\ n.copied = IF x.op = "copy" THEN {<<m.slot[i], x.of[i]>> : i \in x.slots}
                ELSE IF x.op = "take" THEN {<<m.drafts["bak"], x.of>>} ELSE m.copied

\* What the side stream has left to do does not depend on the slots.
LEMMA SameDrafts ==
  ASSUME NEW m, NEW n, n.drafts = m.drafts
  PROVE  /\ \A b, k, d : InPlace(m, b, k, d) => InPlace(n, b, k, d)
         /\ \A b, w, i, d : GoodFrom(m, b, w, i, d) => GoodFrom(n, b, w, i, d)
         /\ \A b, k, i, d : WrittenBy(m, b, k, i, d) => WrittenBy(n, b, k, i, d)
         /\ \A b, d, r : DraftBy(m, b, d, r) => DraftBy(n, b, d, r)
<1>1. \A b, k, d : InPlace(m, b, k, d) => InPlace(n, b, k, d)
  BY DEF InPlace
<1>2. \A b, w, i, d : GoodFrom(m, b, w, i, d) => GoodFrom(n, b, w, i, d)
  BY <1>1 DEF GoodFrom, Good
<1>3. \A b, k, i, d : WrittenBy(m, b, k, i, d) => WrittenBy(n, b, k, i, d)
  BY <1>2 DEF WrittenBy
<1>4. \A b, d, r : DraftBy(m, b, d, r) => DraftBy(n, b, d, r)
  BY <1>1 DEF DraftBy
<1>5. QED
  BY <1>1, <1>2, <1>3, <1>4

LEMMA MainKeepsFilled ==
  ASSUME NEW m, NEW n, NEW x, NEW b, NEW i \in Slot, NEW d, MainRan(m, n, x),
         x.op = "fill" /\ i \in x.slots => x.of[i] = d
  PROVE  /\ Filled(m, b, i, d) => Filled(n, b, i, d)
         /\ \A r : Promised(m, b, i, d, r) => Promised(n, b, i, d, r)
<1>1. n.drafts = m.drafts /\ (m.slot[i] = d => n.slot[i] = d)
  BY DEF MainRan
<1>2. Filled(m, b, i, d) => Filled(n, b, i, d)
  BY <1>1, SameDrafts DEF Filled
<1>3. \A r : Promised(m, b, i, d, r) => Promised(n, b, i, d, r)
  BY <1>1, <1>2, SameDrafts DEF Promised
<1>4. QED
  BY <1>2, <1>3

\* What was arriving is there, or still arriving.
LEMMA MainArrives ==
  ASSUME NEW m, NEW n, NEW x, NEW b, NEW a, NEW t, NEW i \in Slot, NEW d, Popped(a, t, x), MainRan(m, n, x),
         x.op = "fill" /\ i \in x.slots => x.of[i] = d, Arriving(m, b, a, i, d)
  PROVE  Filled(n, b, i, d) \/ Arriving(n, b, t, i, d)
<1>1. Len(t) \in Nat /\ Len(a) = Len(t) + 1 /\ a[1] = x /\ \A k \in 1..Len(t) : t[k] = a[k + 1]
  BY DEF Popped
<1>2. GoodFrom(n, b, 1, i, d)
  BY SameDrafts DEF Arriving, MainRan
<1>3. PICK w \in 1..Len(a) : a[w].op = "fill" /\ i \in a[w].slots
  BY DEF Arriving
<1>4. CASE w = 1
  <2>1. n.slot[i] = d
    BY <1>1, <1>3, <1>4 DEF MainRan
  <2>2. QED
    BY <1>2, <2>1 DEF Filled
<1>5. CASE w # 1
  <2>1. w - 1 \in 1..Len(t) /\ (w - 1) + 1 = w
    BY <1>1, <1>3, <1>5
  <2>2. t[w - 1] = a[w]
    BY <1>1, <2>1
  <2>3. QED
    BY <1>2, <1>3, <2>1, <2>2 DEF Arriving
<1>6. QED
  BY <1>4, <1>5

\* The commands that are left were there.
LEMMA MainLeft ==
  ASSUME NEW e, NEW f, NEW x, MainTaken(e, f, x)
  PROVE  /\ Len(f.q["main"]) \in Nat /\ Len(e.q["main"]) = Len(f.q["main"]) + 1 /\ e.q["main"][1] = x
         /\ \A k \in 1..Len(f.q["main"]) : k + 1 \in 1..Len(e.q["main"]) /\ f.q["main"][k] = e.q["main"][k + 1]
         /\ f.q["bak"] = e.q["bak"] /\ f.q["bak2"] = e.q["bak2"] /\ f.side2 = e.side2
         /\ f.side = e.side /\ f.slots = e.slots /\ f.kind = e.kind
         /\ f.first = e.first /\ f.windows = e.windows
         /\ (\A u : LastOf(f, u) = LastOf(e, u)) /\ (\A p : Pending(f, p) = Pending(e, p))
<1>1. Popped(e.q["main"], f.q["main"], x)
  BY DEF MainTaken
<1>2. /\ Len(f.q["main"]) \in Nat /\ Len(e.q["main"]) = Len(f.q["main"]) + 1 /\ e.q["main"][1] = x
      /\ \A k \in 1..Len(f.q["main"]) : k + 1 \in 1..Len(e.q["main"]) /\ f.q["main"][k] = e.q["main"][k + 1]
  BY <1>1 DEF Popped
<1>3. /\ f.q["bak"] = e.q["bak"] /\ f.q["bak2"] = e.q["bak2"] /\ f.side2 = e.side2
      /\ f.side = e.side /\ f.slots = e.slots /\ f.kind = e.kind
      /\ f.first = e.first /\ f.windows = e.windows /\ f.count = e.count
  BY DEF MainTaken, SameFlags
<1>4. (\A u : LastOf(f, u) = LastOf(e, u)) /\ (\A p : Pending(f, p) = Pending(e, p))
  BY <1>3 DEF LastOf, Pending
<1>5. QED
  BY <1>2, <1>3, <1>4

LEMMA MainSlots ==
  ASSUME NEW m, NEW n, NEW e \in Engines, NEW f, NEW g, NEW x, MainTaken(e, f, x), MainRan(m, n, x),
         \A i \in Slot : x.op = "fill" /\ i \in x.slots => x.of[i] = FreshDraft(g, i),
         SlotsReady(m, e, g)
  PROVE  SlotsReady(n, f, g)
<1> DEFINE a == e.q["main"]
           t == f.q["main"]
           b == e.q["bak"]
           D(i) == FreshDraft(g, i)
           Comes(i, v) == Promised(m, b, i, D(i), LastOf(e, v)) \/ Arriving(m, b, a, i, D(i))
           Still(i, v) == Promised(n, b, i, D(i), LastOf(f, v)) \/ Arriving(n, b, t, i, D(i))
           Is(i) == Filled(m, b, i, D(i)) \/ Arriving(m, b, a, i, D(i))
           IsStill(i) == Filled(n, b, i, D(i)) \/ Arriving(n, b, t, i, D(i))
<1> SUFFICES ASSUME e.slots >= 2 PROVE SlotsReady(n, f, g)
  BY MainLeft DEF SlotsReady
<1>1. e.slots \in 0..4 /\ Popped(a, t, x)
  BY QueueParts DEF MainTaken
<1>2. f.q["bak"] = b /\ f.side = e.side /\ f.slots = e.slots /\ \A u : LastOf(f, u) = LastOf(e, u)
  BY MainLeft
<1>3. /\ Comes(1, "slot0") /\ Comes(2, "slot1")
      /\ e.side => \A i \in {1} \cup 3..e.slots : Comes(i, "side")
      /\ ~e.side => \A i \in 3..e.slots : Is(i)
  BY DEF SlotsReady
<1>4. ASSUME NEW i \in Slot PROVE x.op = "fill" /\ i \in x.slots => x.of[i] = D(i)
  OBVIOUS
<1> HIDE DEF a, t, b, D
<1>5. \A i \in Slot : Filled(m, b, i, D(i)) => Filled(n, b, i, D(i))
  BY <1>4, MainKeepsFilled
<1>6. \A i \in Slot : \A r : Promised(m, b, i, D(i), r) => Promised(n, b, i, D(i), r)
  BY <1>4, MainKeepsFilled
<1>7. \A i \in Slot : Arriving(m, b, a, i, D(i)) => Filled(n, b, i, D(i)) \/ Arriving(n, b, t, i, D(i))
  BY <1>1, <1>4, MainArrives
<1>8. \A i \in Slot : \A v : Comes(i, v) => Still(i, v)
  BY <1>2, <1>6, <1>7 DEF Promised
<1>9. \A i \in Slot : Is(i) => IsStill(i)
  BY <1>5, <1>7
<1>10. 1 \in Slot /\ 2 \in Slot /\ (\A i \in {1} \cup 3..e.slots : i \in Slot) /\ \A i \in 3..e.slots : i \in Slot
  BY <1>1 DEF Slot
<1> HIDE DEF Comes, Is, Still, IsStill
<1>11. /\ Still(1, "slot0") /\ Still(2, "slot1")
       /\ e.side => \A i \in {1} \cup 3..e.slots : Still(i, "side")
       /\ ~e.side => \A i \in 3..e.slots : IsStill(i)
  BY <1>3, <1>8, <1>9, <1>10
<1>12. QED
  BY <1>2, <1>11 DEF SlotsReady, Still, IsStill, D, b, t

LEMMA MainQueues ==
  ASSUME NEW m, NEW n, NEW e, NEW f, NEW p, NEW g, NEW x, MainTaken(e, f, x), MainRan(m, n, x),
         QueuesRight(m, e, p, g)
  PROVE  QueuesRight(n, f, p, g) /\ x.op \in MainOps(p)
<1>1. /\ Len(f.q["main"]) \in Nat /\ Len(e.q["main"]) = Len(f.q["main"]) + 1 /\ e.q["main"][1] = x
      /\ \A k \in 1..Len(f.q["main"]) : k + 1 \in 1..Len(e.q["main"]) /\ f.q["main"][k] = e.q["main"][k + 1]
      /\ f.q["bak"] = e.q["bak"] /\ f.q["bak2"] = e.q["bak2"] /\ f.side2 = e.side2
  BY MainLeft
<1>2. /\ e.q["bak2"] = <<>> /\ ~e.side2 /\ DOMAIN m.drafts = {"bak", "bak2"}
      /\ \A k \in 1..Len(e.q["main"]) : e.q["main"][k].op \in MainOps(p)
      /\ \A k \in 1..Len(e.q["bak"]) : e.q["bak"][k].op \in SideOps
      /\ p = "streamed" => \A k \in 1..Len(e.q["main"]) : e.q["main"][k].op = "fill" =>
            \A i \in e.q["main"][k].slots : e.q["main"][k].of[i] = FreshDraft(g, i)
  BY DEF QueuesRight
<1>3. \A k \in 1..Len(f.q["main"]) : f.q["main"][k].op \in MainOps(p)
  BY <1>1, <1>2
<1>4. p = "streamed" => \A k \in 1..Len(f.q["main"]) : f.q["main"][k].op = "fill" =>
        \A i \in f.q["main"][k].slots : f.q["main"][k].of[i] = FreshDraft(g, i)
  BY <1>1, <1>2
<1>5. DOMAIN n.drafts = {"bak", "bak2"}
  BY <1>2 DEF MainRan
<1>6. x.op \in MainOps(p)
  <2>1. 1 \in 1..Len(e.q["main"])
    BY <1>1
  <2>2. QED
    BY <1>1, <1>2, <2>1
<1>7. QED
  BY <1>1, <1>2, <1>3, <1>4, <1>5, <1>6 DEF QueuesRight

LEMMA MainKinds ==
  ASSUME NEW m, NEW n, NEW e, NEW f, NEW p, NEW g, NEW x, MainTaken(e, f, x), MainRan(m, n, x),
         KindsRight(m, e, p, g), x.op \in MainOps(p)
  PROVE  KindsRight(n, f, p, g)
<1>1. /\ f.q["bak"] = e.q["bak"] /\ f.side = e.side /\ f.slots = e.slots /\ f.kind = e.kind
      /\ f.first = e.first /\ f.windows = e.windows
      /\ (\A u : LastOf(f, u) = LastOf(e, u)) /\ Pending(f, p) = Pending(e, p)
  BY MainLeft
<1>2. p # "stream12" /\ p # "await"
  BY DEF MainOps
<1>3. \A b, d, r : DraftBy(m, b, d, r) => DraftBy(n, b, d, r)
  BY SameDrafts DEF MainRan
<1>4. QED
  BY <1>1, <1>2, <1>3 DEF KindsRight

LEMMA MainCopies ==
  ASSUME NEW m, NEW n, NEW e \in Engines, NEW f, NEW g, NEW x, MainTaken(e, f, x), MainRan(m, n, x),
         x.op # "fill", CopiesFresh(m, e, g),
         Arrived(e.q["bak"], x)
  PROVE  CopiesFresh(n, f, g) /\ (x.op = "copy" => Matched(n))
<1> DEFINE a == e.q["main"]
           t == f.q["main"]
           b == e.q["bak"]
           Fires(c) == [op |-> "record", ev |-> c.ev, n |-> c.n]
<1>1. /\ Len(t) \in Nat /\ Len(a) = Len(t) + 1 /\ a[1] = x
      /\ \A k \in 1..Len(t) : k + 1 \in 1..Len(a) /\ t[k] = a[k + 1]
      /\ f.q["bak"] = b
  BY MainLeft
<1>2. a \in Seq(Command) /\ \A k \in 1..Len(a) : a[k].op = "copy" => a[k].slots \subseteq Slot
  <2>1. a \in Seq(Command)
    BY QueueParts DEF Stream
  <2>2. QED
    BY <2>1, CopiedSlots
<1>3. \A k \in 1..Len(a) : a[k].op = "copy" =>
        \A i \in a[k].slots :
          /\ a[k].of[i] = FreshDraft(g, i)
          /\ \/ Filled(m, b, i, FreshDraft(g, i))
             \/ \E j \in 1..(k - 1) : a[j].op = "wait" /\ Promised(m, b, i, FreshDraft(g, i), Fires(a[j]))
  BY DEF CopiesFresh
<1>4. /\ \A i \in Slot : \A d : Filled(m, b, i, d) => Filled(n, b, i, d)
      /\ \A i \in Slot : \A d, r : Promised(m, b, i, d, r) => Promised(n, b, i, d, r)
  BY MainKeepsFilled
<1>5. x.op = "wait" => \A i, d : Promised(m, b, i, d, Fires(x)) => Filled(m, b, i, d)
  BY DEF Promised, Arrived
<1>6. CopiesFresh(n, f, g)
  <2> SUFFICES ASSUME NEW k \in 1..Len(t), t[k].op = "copy", NEW i \in t[k].slots
               PROVE  /\ t[k].of[i] = FreshDraft(g, i)
                      /\ \/ Filled(n, b, i, FreshDraft(g, i))
                         \/ \E j \in 1..(k - 1) : t[j].op = "wait" /\ Promised(n, b, i, FreshDraft(g, i), Fires(t[j]))
    BY <1>1 DEF CopiesFresh
  <2> HIDE DEF a, t, b, Fires
  <2>1. k + 1 \in 1..Len(a) /\ t[k] = a[k + 1]
    BY <1>1
  <2>2. i \in Slot
    BY <1>2, <2>1
  <2>3. /\ a[k + 1].of[i] = FreshDraft(g, i)
        /\ \/ Filled(m, b, i, FreshDraft(g, i))
           \/ \E j \in 1..((k + 1) - 1) : a[j].op = "wait" /\ Promised(m, b, i, FreshDraft(g, i), Fires(a[j]))
    BY <1>3, <2>1
  <2>4. CASE Filled(m, b, i, FreshDraft(g, i))
    BY <1>4, <2>1, <2>2, <2>3, <2>4
  <2>5. CASE \E j \in 1..((k + 1) - 1) : a[j].op = "wait" /\ Promised(m, b, i, FreshDraft(g, i), Fires(a[j]))
    <3>1. PICK j \in 1..((k + 1) - 1) : a[j].op = "wait" /\ Promised(m, b, i, FreshDraft(g, i), Fires(a[j]))
      BY <2>5
    <3>2. CASE j = 1
      <4>1. Filled(m, b, i, FreshDraft(g, i))
        BY <1>1, <1>5, <3>1, <3>2
      <4>2. QED
        BY <1>4, <2>1, <2>2, <2>3, <4>1
    <3>3. CASE j # 1
      <4>1. j - 1 \in 1..(k - 1) /\ j - 1 \in 1..Len(t) /\ (j - 1) + 1 = j
        BY <1>1, <3>1, <3>3
      <4>2. t[j - 1] = a[j]
        BY <1>1, <4>1
      <4>3. Promised(n, b, i, FreshDraft(g, i), Fires(a[j]))
        BY <1>4, <2>2, <3>1
      <4>4. QED
        BY <2>1, <2>3, <3>1, <4>1, <4>2, <4>3
    <3>4. QED
      BY <3>2, <3>3
  <2>6. QED
    BY <2>3, <2>4, <2>5
<1>7. ASSUME x.op = "copy" PROVE Matched(n)
  <2>1. 1 \in 1..Len(a) /\ 1..(1 - 1) = {}
    BY <1>1
  <2> HIDE DEF a, t, b, Fires
  <2>2. \A i \in x.slots : x.of[i] = FreshDraft(g, i) /\ Filled(m, b, i, FreshDraft(g, i))
    BY <1>1, <1>3, <1>7, <2>1
  <2>3. \A i \in x.slots : m.slot[i] = x.of[i]
    BY <2>2 DEF Filled
  <2>4. n.copied = {<<m.slot[i], x.of[i]>> : i \in x.slots}
    BY <1>7 DEF MainRan
  <2>5. QED
    BY <2>3, <2>4 DEF Matched
<1>8. QED
  BY <1>6, <1>7

LEMMA MainTakes ==
  ASSUME NEW m, NEW n, NEW e, NEW f, NEW x, MainTaken(e, f, x), MainRan(m, n, x), TakesFresh(m, e)
  PROVE  TakesFresh(n, f) /\ (x.op = "take" => Matched(n))
<1> DEFINE a == e.q["main"]
           t == f.q["main"]
           b == e.q["bak"]
           Fires(c) == [op |-> "record", ev |-> c.ev, n |-> c.n]
<1>1. /\ Len(t) \in Nat /\ Len(a) = Len(t) + 1 /\ a[1] = x
      /\ \A k \in 1..Len(t) : k + 1 \in 1..Len(a) /\ t[k] = a[k + 1]
      /\ f.q["bak"] = b
  BY MainLeft
<1>2. \A k \in 1..Len(a) : a[k].op = "take" =>
        /\ m.drafts["bak"] = a[k].of
        /\ \A r \in 1..Len(b) : b[r].op = "draft" =>
             \E w \in 1..(r - 1) : b[w].op = "wait" /\ \E j \in (k + 1)..Len(a) : a[j] = Fires(b[w])
  BY DEF TakesFresh, Taken
<1>3. n.drafts = m.drafts
  BY DEF MainRan
<1>4. TakesFresh(n, f)
  <2>1. f.q["main"] = t /\ f.q["bak"] = b
    BY <1>1
  <2> HIDE DEF a, t, b
  <2>2. ASSUME NEW k \in 1..Len(t), t[k].op = "take"
        PROVE  Taken(n, t, b, k)
    <3> HIDE DEF Fires
    <3>1. k + 1 \in 1..Len(a) /\ t[k] = a[k + 1]
      BY <1>1
    <3>2. n.drafts["bak"] = t[k].of
      BY <1>2, <1>3, <2>2, <3>1
    <3>3. ASSUME NEW r \in 1..Len(b), b[r].op = "draft"
          PROVE  \E w \in 1..(r - 1) : b[w].op = "wait" /\ \E j \in (k + 1)..Len(t) : t[j] = Fires(b[w])
      <4>1. PICK w \in 1..(r - 1) : b[w].op = "wait" /\ \E j \in ((k + 1) + 1)..Len(a) : a[j] = Fires(b[w])
        BY <1>2, <2>2, <3>1, <3>3
      <4>2. PICK j \in ((k + 1) + 1)..Len(a) : a[j] = Fires(b[w])
        BY <4>1
      <4>3. j - 1 \in (k + 1)..Len(t) /\ j - 1 \in 1..Len(t) /\ (j - 1) + 1 = j
        BY <1>1, <4>2
      <4>4. t[j - 1] = a[j]
        BY <1>1, <4>3
      <4>5. QED
        BY <4>1, <4>2, <4>3, <4>4
    <3>4. QED
      BY <3>2, <3>3 DEF Fires, Taken
  <2>3. QED
    BY <2>1, <2>2 DEF TakesFresh
<1>5. ASSUME x.op = "take" PROVE Matched(n)
  <2>1. 1 \in 1..Len(a)
    BY <1>1
  <2> HIDE DEF a, t, b, Fires
  <2>2. m.drafts["bak"] = x.of
    BY <1>1, <1>2, <1>5, <2>1
  <2>3. n.copied = {<<m.drafts["bak"], x.of>>}
    BY <1>5 DEF MainRan
  <2>4. QED
    BY <2>2, <2>3 DEF Matched
<1>6. QED
  BY <1>4, <1>5

\* A command of the main stream keeps the invariant.
LEMMA RunMain ==
  ASSUME NEW m, NEW n, NEW e \in Engines, NEW f, NEW p, NEW g, NEW x, StreamInv(m, e, p, g),
         MainTaken(e, f, x), MainRan(m, n, x),
         Arrived(e.q["bak"], x)
  PROVE  StreamInv(n, f, p, g)
<1> DEFINE a == e.q["main"]
           t == f.q["main"]
<1>1. QueuesRight(n, f, p, g) /\ x.op \in MainOps(p)
  BY MainQueues DEF StreamInv
<1>2. KindsRight(n, f, p, g)
  BY <1>1, MainKinds DEF StreamInv
<1>3. Pending(f, p) = Pending(e, p) /\ f.slots = e.slots
  BY MainLeft
<1>4. /\ Len(t) \in Nat /\ Len(a) = Len(t) + 1 /\ a[1] = x
      /\ \A k \in 1..Len(t) : k + 1 \in 1..Len(a) /\ t[k] = a[k + 1]
  BY MainLeft
<1>5. TakesFresh(n, f) /\ (x.op = "take" => Matched(n))
  BY MainTakes DEF StreamInv
<1>6. CopiesFresh(n, f, g) /\ (x.op = "copy" => Matched(n))
  <2>1. CASE x.op # "fill"
    <3>1. CopiesFresh(m, e, g)
      BY DEF StreamInv
    <3>2. QED
      BY <2>1, <3>1, MainCopies
  <2>2. CASE x.op = "fill"
    <3>1. p \in {"tokens", "graph", "eager", "streamed"}
      BY <1>1, <2>2 DEF MainOps
    <3>2. \A k \in 1..Len(a) : a[k].op \in MainOps(p)
      BY DEF StreamInv, QueuesRight
    <3>3. \A k \in 1..Len(t) : t[k].op # "copy"
      BY <1>4, <3>1, <3>2 DEF MainOps
    <3>4. CopiesFresh(n, f, g)
      BY <3>3 DEF CopiesFresh
    <3>5. QED
      BY <2>2, <3>4
  <2>3. QED
    BY <2>1, <2>2
<1>7. x.op \notin {"copy", "take"} => n.copied = m.copied
  BY DEF MainRan
<1>8. Matched(n)
  BY <1>5, <1>6, <1>7 DEF StreamInv, Matched
<1>9. Pending(f, p) => SlotsReady(n, f, g)
  <2> SUFFICES ASSUME Pending(e, p), e.slots >= 2 PROVE SlotsReady(n, f, g)
    BY <1>3 DEF SlotsReady
  <2>1. SlotsReady(m, e, g)
    BY DEF StreamInv
  <2>2. p \notin {"tokens", "graph", "eager"}
    BY DEF StreamInv, KindsRight
  <2>3. \A i \in Slot : x.op = "fill" /\ i \in x.slots => x.of[i] = FreshDraft(g, i)
    <3>1. CASE x.op # "fill"
      BY <3>1
    <3>2. CASE x.op = "fill"
      <4>0. p = "streamed"
        BY <1>1, <2>2, <3>2 DEF MainOps
      <4>1. p = "streamed" /\ 1 \in 1..Len(a)
        BY <1>4, <4>0
      <4>2. QED
        BY <1>4, <3>2, <4>1 DEF StreamInv, QueuesRight
    <3>3. QED
      BY <3>1, <3>2
  <2>4. QED
    BY <2>1, <2>3, MainSlots
<1>10. QED
  BY <1>1, <1>2, <1>5, <1>6, <1>8, <1>9 DEF StreamInv

\* What Run does to the queues and to the memory.
LEMMA RunTakes ==
  ASSUME IInv, NEW s \in Stream, Run(s)
  PROVE  LET x == Head(eng.q[s])
         IN  /\ eng' \in Engines /\ x \in Command /\ Popped(eng.q[s], eng'.q[s], x)
             /\ \A t \in Stream \ {s} : eng'.q[t] = eng.q[t] /\ Arrived(eng.q[t], x)
             /\ SameFlags(eng, eng') /\ eng'.side = eng.side /\ eng'.slots = eng.slots /\ eng'.kind = eng.kind
             /\ eng'.count = eng.count
<1> DEFINE x == Head(eng.q[s])
           p == [eng.q EXCEPT ![s] = Tail(@)]
<1>1. eng \in Engines
  BY DEF IInv, At, Counted
<1>2. eng.q[s] \in Seq(Command) /\ eng.q[s] # <<>> /\ eng.q \in [Stream -> Seq(Command)]
  BY <1>1, QueueParts DEF Run
<1>3. Tail(eng.q[s]) \in Seq(Command) /\ Popped(eng.q[s], Tail(eng.q[s]), x) /\ x \in Command
  BY <1>2, TailPopped
<1>4. p \in [Stream -> Seq(Command)] /\ p[s] = Tail(eng.q[s]) /\ \A t \in Stream \ {s} : p[t] = eng.q[t]
  BY <1>2, <1>3
<1>5. eng' = [eng EXCEPT !.q = p]
  BY DEF Run
<1>6. x.op = "wait" => Fired(x.ev, x.n)
  BY DEF Run
<1> HIDE DEF p, x
<1>7. eng' \in Engines /\ eng'.q = p /\ SameFlags(eng, eng') /\ eng'.side = eng.side /\ eng'.slots = eng.slots
      /\ eng'.kind = eng.kind /\ eng'.count = eng.count
  BY <1>1, <1>4, <1>5 DEF Engines, SameFlags
<1>8. ASSUME NEW t \in Stream PROVE Arrived(eng.q[t], x)
  <2> SUFFICES ASSUME x.op = "wait", NEW k \in 1..Len(eng.q[t]),
                      eng.q[t][k] = [op |-> "record", ev |-> x.ev, n |-> x.n]
               PROVE  FALSE
    BY DEF Arrived
  <2>1. k \in DOMAIN eng.q[t]
    BY <1>2
  <2>2. eng.q[t][k].op = "record" /\ eng.q[t][k].ev = x.ev /\ eng.q[t][k].n = x.n
    OBVIOUS
  <2>3. QED
    BY <1>6, <2>1, <2>2 DEF Fired
<1>9. QED
  BY <1>3, <1>4, <1>7, <1>8 DEF x

LEMMA RunFresh ==
  ASSUME IInv, StreamInv(mem, eng, pc, gen), NEW s \in Stream, Run(s)
  PROVE  StreamInv(mem', eng', pc', gen')
<1> DEFINE x == Head(eng.q[s])
<1>1. eng \in Engines /\ Memory(mem) /\ UNCHANGED <<pc, gen>>
  BY DEF IInv, At, Counted, Run
<1>2. /\ eng' \in Engines /\ x \in Command /\ Popped(eng.q[s], eng'.q[s], x)
      /\ \A t \in Stream \ {s} : eng'.q[t] = eng.q[t] /\ Arrived(eng.q[t], x)
      /\ SameFlags(eng, eng') /\ eng'.side = eng.side /\ eng'.slots = eng.slots /\ eng'.kind = eng.kind
      /\ eng'.count = eng.count
  BY RunTakes
<1>3. mem' = CASE x.op = "draft" -> [mem EXCEPT !.drafts[s] = x.of]
               [] x.op = "stash" -> [mem EXCEPT !.slot[x.slot] = mem.drafts[s]]
               [] x.op = "fill"  -> [mem EXCEPT !.slot = [i \in Slot |-> IF i \in x.slots THEN x.of[i] ELSE @[i]]]
               [] x.op = "copy"  -> [mem EXCEPT !.copied = {<<mem.slot[i], x.of[i]>> : i \in x.slots}]
               [] x.op = "take"  -> [mem EXCEPT !.copied = {<<mem.drafts["bak"], x.of>>}]
               [] OTHER          -> mem
  BY DEF Run
<1>4. /\ eng.q["bak2"] = <<>> /\ DOMAIN mem.drafts = {"bak", "bak2"}
      /\ \A k \in 1..Len(eng.q["main"]) : eng.q["main"][k].op \in MainOps(pc)
      /\ \A k \in 1..Len(eng.q["bak"]) : eng.q["bak"][k].op \in SideOps
  BY DEF StreamInv, QueuesRight
<1> HIDE DEF x
<1>5. 1 \in 1..Len(eng.q[s]) /\ eng.q[s][1] = x
  BY <1>2 DEF Popped
<1>6. CASE s = "bak2"
  <2>1. eng.q[s] # <<>>
    BY DEF Run
  <2>2. QED
    BY <1>4, <1>6, <2>1
<1>7. CASE s = "bak"
  <2>1. SideTaken(eng, eng', x)
    BY <1>2, <1>7 DEF SideTaken, Stream
  <2>2. x.op \in SideOps
    BY <1>4, <1>5, <1>7
  <2>3. Ran(mem, mem', x)
    <3>1. CASE x.op = "draft"
      BY <1>1, <1>3, <1>4, <1>7, <3>1 DEF Ran, Memory
    <3>2. CASE x.op = "stash"
      BY <1>1, <1>3, <1>4, <1>7, <3>2 DEF Ran, Memory
    <3>3. CASE x.op = "fill"
      BY <1>1, <1>3, <1>4, <1>7, <3>3 DEF Ran, Memory
    <3>4. CASE x.op \in {"record", "wait"}
      <4>1. mem' = mem
        BY <1>3, <3>4
      <4>2. QED
        BY <3>4, <4>1 DEF Ran
    <3>5. QED
      BY <2>2, <3>1, <3>2, <3>3, <3>4 DEF SideOps
  <2>4. Arrived(eng.q["main"], x)
    BY <1>2, <1>7 DEF Stream
  <2>5. StreamInv(mem', eng', pc, gen)
    BY <1>1, <2>1, <2>3, <2>4, RunSide
  <2>6. QED
    BY <1>1, <2>5
<1>8. CASE s = "main"
  <2>1. MainTaken(eng, eng', x)
    BY <1>2, <1>8 DEF MainTaken, Stream
  <2>2. x.op \in MainOps(pc)
    BY <1>4, <1>5, <1>8
  <2>3. MainRan(mem, mem', x)
    <3>1. CASE x.op = "fill"
      BY <1>1, <1>3, <1>4, <1>8, <3>1 DEF MainRan, Memory
    <3>2. CASE x.op = "copy"
      BY <1>1, <1>3, <1>4, <1>8, <3>2 DEF MainRan, Memory
    <3>3. CASE x.op = "take"
      BY <1>1, <1>3, <1>4, <1>8, <3>3 DEF MainRan, Memory
    <3>4. CASE x.op \in {"record", "wait"}
      <4>1. mem' = mem
        BY <1>3, <3>4
      <4>2. QED
        BY <3>4, <4>1 DEF MainRan
    <3>5. x.op \in {"fill", "copy", "take", "record", "wait"}
      BY <2>2 DEF MainOps
    <3>6. QED
      BY <3>1, <3>2, <3>3, <3>4, <3>5
  <2>4. Arrived(eng.q["bak"], x)
    BY <1>2, <1>8 DEF Stream
  <2>5. StreamInv(mem', eng', pc, gen)
    BY <1>1, <2>1, <2>3, <2>4, RunMain
  <2>6. QED
    BY <1>1, <2>5
<1>9. QED
  BY <1>6, <1>7, <1>8 DEF Stream

-----------------------------------------------------------------------------
(***************************************************************************)
(* Steps of the host that enqueue nothing                                  *)
(***************************************************************************)
\* f has the queues of e, and the flags that say what is in them.
SameQueues(e, f) ==
  /\ f.q = e.q /\ f.count = e.count /\ f.side = e.side /\ f.side2 = e.side2
  /\ f.slots = e.slots /\ f.kind = e.kind

LEMMA MainEmpty ==
  ASSUME NEW m, NEW e \in Engines, NEW p, NEW g, StreamInv(m, e, p, g), MainOps(p) = {}
  PROVE  e.q["main"] = <<>>
<1>1. e.q["main"] \in Seq(Command)
  BY QueueParts DEF Stream
<1>2. \A k \in 1..Len(e.q["main"]) : e.q["main"][k].op \in {}
  BY DEF StreamInv, QueuesRight
<1>3. ~(1 \in 1..Len(e.q["main"]))
  BY <1>2
<1>4. Len(e.q["main"]) = 0
  BY <1>1, <1>3
<1>5. QED
  BY <1>1, <1>4

LEMMA FlagStep ==
  ASSUME NEW m, NEW e, NEW f, NEW p, NEW r, NEW g, StreamInv(m, e, p, g), SameQueues(e, f), e.q["main"] = <<>>,
         r \in {"idle", "next", "cycle", "launch"}, r # "idle" => f.first,
         r = "idle" /\ ~f.first => Pending(e, p) /\ p # "drain"
  PROVE  StreamInv(m, f, r, g)
<1>1. /\ f.q = e.q /\ f.count = e.count /\ f.side = e.side /\ f.side2 = e.side2
      /\ f.slots = e.slots /\ f.kind = e.kind
  BY DEF SameQueues
<1>2. f.q["main"] = <<>> /\ \A k : ~(k \in 1..Len(f.q["main"]))
  BY <1>1
<1>3. Pending(f, r) => Pending(e, p) /\ p # "drain"
  BY DEF Pending, Prefilling
<1>4. \A u : LastOf(f, u) = LastOf(e, u)
  BY <1>1 DEF LastOf
<1>5. QueuesRight(m, f, r, g)
  BY <1>1, <1>2 DEF StreamInv, QueuesRight
<1>6. CopiesFresh(m, f, g)
  BY <1>2 DEF CopiesFresh
<1>7. TakesFresh(m, f)
  BY <1>2 DEF TakesFresh
<1>8. Pending(f, r) => SlotsReady(m, f, g)
  <2>1. SlotsReady(m, e, g) => SlotsReady(m, f, g)
    BY <1>1, <1>4 DEF SlotsReady
  <2>2. QED
    BY <1>3, <2>1 DEF StreamInv
<1>9. KindsRight(m, f, r, g)
  <2>1. /\ p # "drain" /\ Pending(e, p) => (e.slots >= 2 <=> e.kind = 3) /\ e.kind # 2
        /\ Pending(e, p) /\ e.kind = 1 => e.side /\ DraftBy(m, e.q["bak"], FreshDraft(g, 1), LastOf(e, "side"))
    BY DEF StreamInv, KindsRight
  <2>2. r \notin {"tokens", "graph", "eager", "settle", "stream12", "await"} /\ (r \in InCall => f.first)
    BY DEF InCall, Windows
  <2>3. QED
    BY <1>1, <1>3, <1>4, <2>1, <2>2 DEF KindsRight
<1>10. QED
  BY <1>5, <1>6, <1>7, <1>8, <1>9 DEF StreamInv

LEMMA SettleFresh ==
  ASSUME IInv, StreamInv(mem, eng, pc, gen), Settle
  PROVE  StreamInv(mem', eng', pc', gen')
<1> DEFINE yes == pc = "streamed"
<1>1. eng \in Engines /\ pc \in {"settle", "streamed"} /\ eng.q["main"] = <<>> /\ pc' = "idle" /\ UNCHANGED <<mem, gen>>
  BY DEF IInv, At, Counted, Settle, MainDone
<1>2. eng' = [eng EXCEPT !.streamed = yes]
  BY DEF Settle
<1> HIDE DEF yes
<1>3. SameQueues(eng, eng')
  BY <1>1, <1>2 DEF Engines, SameQueues
<1>4. Pending(eng, pc) /\ pc # "drain"
  BY <1>1 DEF Pending, Prefilling
<1>5. StreamInv(mem, eng', "idle", gen)
  BY <1>1, <1>3, <1>4, FlagStep
<1>6. QED
  BY <1>1, <1>5

LEMMA TakeH4Fresh ==
  ASSUME IInv, StreamInv(mem, eng, pc, gen), TakeH4
  PROVE  StreamInv(mem', eng', pc', gen')
<1>1. eng \in Engines /\ pc = "idle" /\ ~eng.first /\ UNCHANGED <<mem, pc, gen>>
  BY DEF IInv, At, Counted, TakeH4
<1>2. eng' = [eng EXCEPT !.have["h4"] = "zero"]
  BY DEF TakeH4
<1>3. SameQueues(eng, eng')
  BY <1>1, <1>2 DEF Engines, SameQueues
<1>4. Pending(eng, pc) /\ eng.q["main"] = <<>>
  BY <1>1, MainEmpty DEF Pending, MainOps
<1>5. StreamInv(mem, eng', "idle", gen)
  BY <1>1, <1>3, <1>4, FlagStep
<1>6. QED
  BY <1>1, <1>5

LEMMA ThreeHoldFresh ==
  ASSUME IInv, StreamInv(mem, eng, pc, gen), ThreeHold
  PROVE  StreamInv(mem', eng', pc', gen')
<1>1. eng \in Engines /\ pc = "idle" /\ UNCHANGED <<mem, pc, gen>>
  BY DEF IInv, At, Counted, ThreeHold
<1>2. PICK v \in {"zero", "other"} : eng' = [eng EXCEPT !.have["h31"] = v]
  BY DEF ThreeHold
<1>3. SameQueues(eng, eng') /\ eng'.first = eng.first
  BY <1>1, <1>2 DEF Engines, SameQueues
<1>4. eng.q["main"] = <<>> /\ (~eng.first => Pending(eng, pc))
  BY <1>1, MainEmpty DEF Pending, MainOps
<1>5. StreamInv(mem, eng', "idle", gen)
  BY <1>1, <1>3, <1>4, FlagStep
<1>6. QED
  BY <1>1, <1>5

LEMMA AlignedFresh ==
  ASSUME IInv, StreamInv(mem, eng, pc, gen), Aligned
  PROVE  StreamInv(mem', eng', pc', gen')
<1>1. eng \in Engines /\ pc = "aligned" /\ eng.q["main"] = <<>> /\ UNCHANGED <<mem, gen>>
      /\ pc' \in {"idle", "cycle", "launch"} /\ (eng' = eng \/ eng' = [eng EXCEPT !.windows = 1])
  BY DEF IInv, At, Counted, Aligned, MainDone
<1>2. eng.first
  BY <1>1 DEF StreamInv, KindsRight, InCall
<1>3. SameQueues(eng, eng') /\ eng'.first
  BY <1>1, <1>2 DEF Engines, SameQueues
<1>4. StreamInv(mem, eng', pc', gen)
  BY <1>1, <1>3, FlagStep
<1>5. QED
  BY <1>1, <1>4

LEMMA DrainedFresh ==
  ASSUME IInv, StreamInv(mem, eng, pc, gen), Drained
  PROVE  StreamInv(mem', eng', pc', gen')
<1>1. eng \in Engines /\ pc \in {"drained", "drained all"} /\ eng.q["main"] = <<>> /\ UNCHANGED <<mem, gen>>
  BY DEF IInv, At, Counted, Drained, MainDone
<1>2. PICK w \in 0..eng.slots, v \in {"zero", "other"} :
        /\ eng' = [eng EXCEPT !.windows = w,
                     !.have = IF pc = "drained" /\ w >= 2 THEN StashNext(@, v) ELSE @]
        /\ pc' = IF w \in 1..3 THEN "next" ELSE "idle"
  BY DEF Drained
<1> DEFINE have == IF pc = "drained" /\ w >= 2 THEN StashNext(eng.have, v) ELSE eng.have
<1>3. eng' = [eng EXCEPT !.windows = w, !.have = have] /\ pc' \in {"next", "idle"}
  BY <1>2
<1> HIDE DEF have
<1>4. eng.first
  BY <1>1 DEF StreamInv, KindsRight, InCall
<1>5. SameQueues(eng, eng') /\ eng'.first
  BY <1>1, <1>3, <1>4 DEF Engines, SameQueues
<1>6. StreamInv(mem, eng', pc', gen)
  BY <1>1, <1>3, <1>5, FlagStep
<1>7. QED
  BY <1>1, <1>6

LEMMA CycleFresh ==
  ASSUME IInv, StreamInv(mem, eng, pc, gen), Cycle
  PROVE  StreamInv(mem', eng', pc', gen')
<1>1. eng \in Engines /\ pc \in {"cycle", "next"} /\ UNCHANGED <<mem, gen>>
  BY DEF IInv, At, Counted, Cycle
<1>2. eng.first /\ eng.q["main"] = <<>>
  BY <1>1, MainEmpty DEF StreamInv, KindsRight, InCall, Windows, MainOps
<1>3. SameQueues(eng, eng') /\ eng'.first /\ pc' \in {"idle", "next"}
  <2>1. CASE pc' = "idle" /\ UNCHANGED eng
    BY <1>2, <2>1 DEF SameQueues
  <2>2. CASE \E e \in {eng, StashGood(eng)} : eng' = [e EXCEPT !.windows = @ + 1] /\ pc' = After(eng'.windows)
    <3>1. PICK e \in {eng, StashGood(eng)} : eng' = [e EXCEPT !.windows = @ + 1] /\ pc' = After(eng'.windows)
      BY <2>2
    <3>2. Stashed(eng, eng)
      BY <1>1 DEF Stashed
    <3>3. e \in Engines
      BY <1>1, <3>1, <3>2, StashGoodKeeps DEF Stashed
    <3>4. SameQueues(eng, e) /\ e.first = eng.first
      <4>1. CASE e = eng
        BY <4>1 DEF SameQueues
      <4>2. CASE e = StashGood(eng)
        <5>1. PICK h, c : e = [eng EXCEPT !.clean = c] \/ e = [eng EXCEPT !.have = h, !.clean = c]
          BY <4>2 DEF StashGood
        <5>2. QED
          BY <1>1, <5>1 DEF Engines, SameQueues
      <4>3. QED
        BY <3>1, <4>1, <4>2
    <3> DEFINE w == e.windows + 1
    <3>5. eng' = [e EXCEPT !.windows = w]
      BY <3>1
    <3> HIDE DEF w
    <3>6. SameQueues(e, eng') /\ eng'.first = e.first
      BY <3>3, <3>5 DEF Engines, SameQueues
    <3>7. SameQueues(eng, eng') /\ eng'.first
      BY <1>2, <3>4, <3>6 DEF SameQueues
    <3>8. pc' \in {"idle", "next"}
      BY <3>1 DEF After
    <3>9. QED
      BY <3>7, <3>8
  <2>3. QED
    BY <2>1, <2>2 DEF Cycle
<1>4. StreamInv(mem, eng', pc', gen)
  BY <1>1, <1>2, <1>3, FlagStep
<1>5. QED
  BY <1>1, <1>4

LEMMA VerifyNextFresh ==
  ASSUME IInv, StreamInv(mem, eng, pc, gen), VerifyNext
  PROVE  StreamInv(mem', eng', pc', gen')
<1>1. eng \in Engines /\ pc = "awaited" /\ eng.q["main"] = <<>> /\ UNCHANGED <<mem, gen>>
  BY DEF IInv, At, Counted, VerifyNext, MainDone
<1>2. eng.first
  BY <1>1 DEF StreamInv, KindsRight, InCall, Windows
<1>3. SameQueues(eng, eng') /\ eng'.first /\ pc' \in {"idle", "next"}
  <2>1. CASE pc' = "idle" /\ UNCHANGED eng
    BY <1>2, <2>1 DEF SameQueues
  <2>2. CASE ~(pc' = "idle" /\ UNCHANGED eng)
    <3>1. PICK v \in {"zero", "other"} :
            LET have == StashNext(eng.have, v)
                w == eng.windows + 1
            IN  /\ eng' = [eng EXCEPT !.windows = w, !.have = have,
                             !.clean = @ \/ (w = 4 /\ have["cont1"] = "zero" /\ have["cont2"] = "zero")]
                /\ pc' = After(w)
      BY <2>2 DEF VerifyNext
    <3> DEFINE have == StashNext(eng.have, v)
               w == eng.windows + 1
               ready == eng.clean \/ (w = 4 /\ have["cont1"] = "zero" /\ have["cont2"] = "zero")
    <3>2. eng' = [eng EXCEPT !.windows = w, !.have = have, !.clean = ready] /\ pc' = After(w)
      BY <3>1
    <3> HIDE DEF have, w, ready
    <3>3. SameQueues(eng, eng') /\ eng'.first
      BY <1>1, <1>2, <3>2 DEF Engines, SameQueues
    <3>4. pc' \in {"idle", "next"}
      BY <3>2 DEF After
    <3>5. QED
      BY <3>3, <3>4
  <2>3. QED
    BY <2>1, <2>2
<1>4. StreamInv(mem, eng', pc', gen)
  BY <1>1, <1>3, FlagStep
<1>5. QED
  BY <1>1, <1>4

-----------------------------------------------------------------------------
(***************************************************************************)
(* Steps of prefill                                                        *)
(***************************************************************************)
\* Nothing is counted, and the main stream only fills.
LEMMA NoSlots ==
  ASSUME NEW m, NEW e, NEW p, NEW g, QueuesRight(m, e, p, g), e.slots = 0, e.kind = 0, Matched(m),
         p \in {"tokens", "graph", "eager", "settle"}
  PROVE  StreamInv(m, e, p, g)
<1>1. \A k \in 1..Len(e.q["main"]) : e.q["main"][k].op \in {"fill"}
  BY DEF QueuesRight, MainOps
<1>2. CopiesFresh(m, e, g)
  BY <1>1 DEF CopiesFresh
<1>3. TakesFresh(m, e)
  BY <1>1 DEF TakesFresh
<1>4. SlotsReady(m, e, g)
  BY DEF SlotsReady
<1>5. KindsRight(m, e, p, g)
  <2>1. p \notin InCall /\ p \notin {"drafts", "stream12", "await"}
    BY DEF InCall, Windows
  <2>2. ~(e.slots >= 2) /\ e.kind # 3 /\ e.kind # 2 /\ e.kind # 1
    OBVIOUS
  <2>3. QED
    BY <2>1, <2>2 DEF KindsRight
<1>6. QED
  BY <1>2, <1>3, <1>4, <1>5 DEF StreamInv

\* Nothing is on the main stream, and what is counted is prepared.
LEMMA Kicks ==
  ASSUME NEW m, NEW e, NEW r, NEW g, QueuesRight(m, e, r, g), e.q["main"] = <<>>, Matched(m),
         SlotsReady(m, e, g), KindRight(m, e, g),
         r \in {"streamed", "stream12", "slots", "drafts", "align"},
         r = "stream12" => e.slots >= 2 /\ e.side /\ NoneOld(m, e, g),
         r = "drafts" => e.kind = 1,
         r \in {"slots", "drafts", "align"} => e.first
  PROVE  StreamInv(m, e, r, g)
<1>1. \A k : ~(k \in 1..Len(e.q["main"]))
  OBVIOUS
<1>2. CopiesFresh(m, e, g) /\ TakesFresh(m, e)
  BY <1>1 DEF CopiesFresh, TakesFresh
<1>3. KindsRight(m, e, r, g)
  <2>1. r \in InCall => e.first
    BY DEF InCall, Windows
  <2>2. QED
    BY <2>1 DEF KindsRight, KindRight
<1>4. QED
  BY <1>2, <1>3 DEF StreamInv

LEMMA SidedQueues ==
  ASSUME NEW m, NEW e, NEW f, NEW p, NEW r, NEW g, QueuesRight(m, e, p, g), Sided(m, e, f, g), e.q["main"] = <<>>
  PROVE  QueuesRight(m, f, r, g)
<1>1. /\ f.q["main"] = e.q["main"] /\ f.q["bak2"] = e.q["bak2"] /\ f.side2 = e.side2
      /\ Len(e.q["bak"]) \in Nat /\ \A k \in 1..Len(e.q["bak"]) : f.q["bak"][k] = e.q["bak"][k]
      /\ \A k \in 1..Len(f.q["bak"]) : k <= Len(e.q["bak"]) \/ f.q["bak"][k].op \in SideOps
  BY DEF Sided, SameFlags, Grows
<1>2. \A k \in 1..Len(e.q["bak"]) : e.q["bak"][k].op \in SideOps
  BY DEF QueuesRight
<1>3. \A k \in 1..Len(f.q["bak"]) : f.q["bak"][k].op \in SideOps
  BY <1>1, <1>2
<1>4. \A k : ~(k \in 1..Len(f.q["main"]))
  BY <1>1
<1>5. QED
  BY <1>1, <1>3, <1>4 DEF QueuesRight

LEMMA SlotDraftIs == \A i \in Slot : SlotDraft[i] = FreshDraft(gen, i)
BY DEF SlotDraft, FreshDraft

LEMMA PrefillFresh ==
  ASSUME IInv, StreamInv(mem, eng, pc, gen), NEW how \in {"tokens", "graph", "eager"}, Prefill(how)
  PROVE  StreamInv(mem', eng', pc', gen')
<1> DEFINE of == [i \in Slot |-> Nothing]
           x == [op |-> "fill", slots |-> Slot, of |-> of]
           f == Enqueue(eng, "main", x)
           no == FALSE
           z == 0
           nil == {}
<1>1. eng \in Engines /\ gen \in 0..MaxGen /\ Memory(mem) /\ pc = "idle" /\ pc' = how
  BY DEF IInv, At, Counted, Prefill
<1>2. eng.q["main"] = <<>>
  BY <1>1, MainEmpty DEF MainOps
<1>3. x \in Command
  <2>1. Nothing \in Draft
    BY <1>1, DraftType
  <2>2. of \in [Slot -> Draft]
    BY <2>1
  <2> HIDE DEF of
  <2>3. QED
    BY <2>2 DEF Command
<1>4. eng' = [f EXCEPT !.kind = z, !.slots = z, !.stream12 = no, !.streamed = no,
                       !.first = no, !.windows = z, !.launched = nil]
  BY DEF Prefill
<1>5. mem' = [mem EXCEPT !.copied = {}]
  BY DEF Prefill
<1>6. x.op = "fill"
  OBVIOUS
<1> HIDE DEF x, f
<1>7. Queued(eng, f, "main", x)
  BY <1>1, <1>3, EnqueueIs DEF f, Stream
<1>8. f \in Engines /\ Longer(eng.q["main"], f.q["main"], x) /\ f.q["bak"] = eng.q["bak"] /\ f.q["bak2"] = eng.q["bak2"]
      /\ f.side2 = eng.side2
  BY <1>7 DEF Queued, Stream, SameFlags
<1> HIDE DEF no, nil, z
<1>9. eng'.q = f.q /\ eng'.side2 = f.side2 /\ eng'.slots = z /\ eng'.kind = z
  BY <1>4, <1>8 DEF Engines
<1>10. \A k \in 1..Len(f.q["main"]) : f.q["main"][k].op = "fill"
  <2>1. Len(f.q["main"]) = 1 /\ f.q["main"][1] = x
    BY <1>2, <1>8 DEF Longer
  <2>2. QED
    BY <1>6, <2>1
<1>11. mem'.drafts = mem.drafts /\ Matched(mem')
  BY <1>1, <1>5 DEF Memory, Matched
<1>12. QueuesRight(mem', eng', how, gen')
  <2>1. /\ eng.q["bak2"] = <<>> /\ ~eng.side2 /\ DOMAIN mem.drafts = {"bak", "bak2"}
        /\ \A k \in 1..Len(eng.q["bak"]) : eng.q["bak"][k].op \in SideOps
    BY DEF StreamInv, QueuesRight
  <2>2. MainOps(how) = {"fill"} /\ how # "streamed"
    BY DEF MainOps
  <2>3. QED
    BY <1>8, <1>9, <1>10, <1>11, <2>1, <2>2 DEF QueuesRight
<1>13. StreamInv(mem', eng', how, gen')
  BY <1>9, <1>11, <1>12, NoSlots DEF z
<1>14. QED
  BY <1>1, <1>13

LEMMA JoinFresh ==
  ASSUME IInv, OneSide, StreamInv(mem, eng, pc, gen), JoinAndKick
  PROVE  StreamInv(mem', eng', pc', gen')
<1> DEFINE no == FALSE
           e == [eng EXCEPT !.side = no, !.side2 = no]
           f == Kick(e)
<1>1. eng \in Engines /\ gen \in 0..MaxGen /\ pc \in {"tokens", "graph", "eager"} /\ eng.q["main"] = <<>>
      /\ (Has(eng, "h31") => Has(eng, "h4"))
  BY DEF IInv, At, Counted, JoinAndKick, MainDone
<1>2. /\ pc = "tokens" => eng' = e /\ pc' = "settle"
      /\ pc # "tokens" => eng' = f /\ pc' \in {"stream12", "streamed"}
      /\ pc' = "stream12" => eng.have["h31"] = "zero"
      /\ UNCHANGED <<mem, gen>>
  BY DEF JoinAndKick
<1>3. no \in BOOLEAN /\ ~no
  OBVIOUS
<1> HIDE DEF no
<1>4. /\ e \in Engines /\ e.slots = eng.slots /\ e.kind = eng.kind /\ e.have = eng.have /\ e.q = eng.q
      /\ e.side2 = no /\ e.graphs = eng.graphs
  BY <1>1, <1>3 DEF Engines
<1> HIDE DEF e
<1>5. e.slots = 0 /\ e.kind = 0 /\ Matched(mem)
  BY <1>1, <1>4 DEF StreamInv, KindsRight
<1>6. QueuesRight(mem, e, "settle", gen)
  <2>1. \A k : ~(k \in 1..Len(e.q["main"]))
    BY <1>1, <1>4
  <2>2. /\ eng.q["bak2"] = <<>> /\ DOMAIN mem.drafts = {"bak", "bak2"}
        /\ \A k \in 1..Len(eng.q["bak"]) : eng.q["bak"][k].op \in SideOps
    BY DEF StreamInv, QueuesRight
  <2>3. QED
    BY <1>3, <1>4, <2>1, <2>2 DEF QueuesRight
<1>7. CASE pc = "tokens"
  <2>1. StreamInv(mem, e, "settle", gen)
    BY <1>5, <1>6, NoSlots
  <2>2. QED
    BY <1>2, <1>7, <2>1
<1>8. CASE pc # "tokens"
  <2>1. OneGraph(e) /\ ~e.side2 /\ NoFill(e.q["main"]) /\ (Has(e, "h31") => Has(e, "h4"))
    <3>1. OneGraph(e)
      BY <1>4 DEF OneGraph, OneSide
    <3>2. NoFill(e.q["main"])
      BY <1>1, <1>4 DEF NoFill
    <3>3. Has(e, "h31") => Has(e, "h4")
      BY <1>1, <1>4 DEF Has
    <3>4. QED
      BY <1>3, <1>4, <3>1, <3>2, <3>3
  <2>2. /\ Sided(mem, e, f, gen) /\ Prepared(mem, f, gen)
        /\ Has(e, "h31") => f.slots >= 2
    BY <1>1, <1>4, <1>5, <2>1, KickPrepares
  <2> HIDE DEF f
  <2>3. QueuesRight(mem, f, pc', gen) /\ f.q["main"] = <<>>
    <3>1. e.q["main"] = <<>>
      BY <1>1, <1>4
    <3>2. QueuesRight(mem, f, pc', gen)
      BY <1>6, <2>2, <3>1, SidedQueues
    <3>3. QED
      BY <2>2, <3>1, <3>2 DEF Sided
  <2>4. pc' \in {"streamed", "stream12"} /\ (pc' = "stream12" => f.slots >= 2 /\ f.side /\ NoneOld(mem, f, gen))
    <3>1. pc' = "stream12" => f.slots >= 2
      BY <1>2, <1>4, <2>2 DEF Has
    <3>2. QED
      BY <1>2, <1>8, <2>2, <3>1 DEF Prepared
  <2>5. StreamInv(mem, f, pc', gen)
    BY <1>5, <2>2, <2>3, <2>4, Kicks DEF Prepared
  <2>6. QED
    BY <1>2, <1>8, <2>5
<1>9. QED
  BY <1>7, <1>8

\* What the host has awaited is not on the side stream any more.
LEMMA SyncedSide ==
  ASSUME eng \in Engines, NEW v \in Event, Synced(v)
  PROVE  \A k \in 1..Len(eng.q["bak"]) : eng.q["bak"][k] # LastOf(eng, v)
<1>1. eng.q["bak"] \in Seq(Command)
  BY QueueParts DEF Stream
<1>2. ASSUME NEW k \in 1..Len(eng.q["bak"]), eng.q["bak"][k] = LastOf(eng, v) PROVE FALSE
  <2>1. k \in DOMAIN eng.q["bak"]
    BY <1>1
  <2>2. /\ eng.q["bak"][k].op = "record" /\ eng.q["bak"][k].ev = v
        /\ eng.q["bak"][k].n = eng.count[v]
    BY <1>2 DEF LastOf
  <2>3. QED
    BY <2>1, <2>2 DEF Synced, Fired, Stream
<1>3. QED
  BY <1>2

\* So what it promised is there.
LEMMA PromiseKept ==
  ASSUME NEW m, NEW b, NEW r, NEW i, NEW d, \A k \in 1..Len(b) : b[k] # r, Promised(m, b, i, d, r)
  PROVE  Filled(m, b, i, d)
BY DEF Promised

LEMMA FilledPromised == \A m, b, i, d, r : Filled(m, b, i, d) => Promised(m, b, i, d, r)
BY DEF Promised

LEMMA Stream12Ready ==
  ASSUME IInv, StreamInv(mem, eng, pc, gen), KickStream12
  PROVE  /\ eng.slots >= 2 /\ eng.kind = 3 /\ eng.side /\ SlotsReady(mem, eng, gen)
         /\ \A i \in Slot : GoodFrom(mem, eng.q["bak"], 1, i, FreshDraft(gen, i))
         /\ \A i \in Slot : i \in {1} \cup 3..eng.slots => Filled(mem, eng.q["bak"], i, FreshDraft(gen, i))
<1> DEFINE b == eng.q["bak"]
           D(i) == FreshDraft(gen, i)
           r == LastOf(eng, "side")
<1>1. eng \in Engines /\ pc = "stream12" /\ eng.q["main"] = <<>>
  BY DEF IInv, At, Counted, KickStream12, MainDone
<1>2. eng.slots >= 2 /\ eng.side /\ NoneOld(mem, eng, gen)
  BY <1>1 DEF StreamInv, KindsRight
<1>3. Pending(eng, pc) /\ pc # "drain"
  BY <1>1 DEF Pending, Prefilling
<1>4. eng.kind = 3 /\ SlotsReady(mem, eng, gen)
  BY <1>2, <1>3 DEF StreamInv, KindsRight
<1>5. Synced("side")
  BY <1>2 DEF KickStream12
<1>6. \A k \in 1..Len(b) : b[k] # r
  BY <1>1, <1>5, SyncedSide DEF Event
<1>7. \A i \in Slot : GoodFrom(mem, b, 1, i, D(i))
  BY <1>2, <1>6 DEF NoneOld
<1>8. \A i \in {1} \cup 3..eng.slots :
        Promised(mem, b, i, D(i), r) \/ Arriving(mem, b, eng.q["main"], i, D(i))
  BY <1>2, <1>4 DEF SlotsReady
<1>9. NoFill(eng.q["main"])
  BY <1>1 DEF NoFill
<1> HIDE DEF b, D, r
<1>10. \A i \in {1} \cup 3..eng.slots : Promised(mem, b, i, D(i), r)
  BY <1>8, <1>9, NoneArrives
<1>11. \A i \in {1} \cup 3..eng.slots : Filled(mem, b, i, D(i))
  BY <1>6, <1>10, PromiseKept
<1>12. QED
  BY <1>2, <1>4, <1>7, <1>11 DEF b, D

LEMMA KickStream12Fresh ==
  ASSUME IInv, StreamInv(mem, eng, pc, gen), KickStream12
  PROVE  StreamInv(mem', eng', pc', gen')
<1> DEFINE no == FALSE
           yes == TRUE
           four == 4
           kind == 3
           e == [eng EXCEPT !.side = no]
           k == [op |-> "fill", slots |-> 2..4, of |-> SlotDraft]
           f == Enqueue(e, "main", k)
           g == Record(f, "slot1", "main")
           h == Record(g, "side", "main")
           all == h.launched \cup 2..4
           b == eng.q["bak"]
           D(i) == FreshDraft(gen, i)
<1>1. eng \in Engines /\ gen \in 0..MaxGen /\ pc = "stream12" /\ pc' = "streamed" /\ eng.q["main"] = <<>>
      /\ UNCHANGED <<mem, gen>>
  BY DEF IInv, At, Counted, KickStream12, MainDone
<1>2. \/ eng' = e
      \/ eng' = [h EXCEPT !.side = yes, !.stream12 = yes, !.slots = four, !.kind = kind, !.launched = all]
  BY DEF KickStream12
<1>3. /\ eng.slots >= 2 /\ eng.kind = 3 /\ eng.side /\ SlotsReady(mem, eng, gen)
      /\ \A i \in Slot : GoodFrom(mem, b, 1, i, D(i))
      /\ \A i \in Slot : i \in {1} \cup 3..eng.slots => Filled(mem, b, i, D(i))
  BY Stream12Ready
<1>4. no \in BOOLEAN /\ ~no /\ yes \in BOOLEAN /\ yes
  OBVIOUS
<1>5. four \in 0..4 /\ kind \in 0..3 /\ four = 4 /\ kind = 3
  OBVIOUS
<1>6. k \in Command /\ k.op = "fill" /\ k.slots = 2..4 /\ \A i \in Slot : k.of[i] = D(i)
  BY <1>1, DraftType, SlotDraftIs DEF Command, Slot, SlotDraft
<1> HIDE DEF no, yes, four, kind, k
<1>7. /\ e \in Engines /\ e.slots = eng.slots /\ e.kind = eng.kind /\ e.q = eng.q /\ e.side2 = eng.side2
      /\ e.count = eng.count /\ ~e.side
  BY <1>1, <1>4 DEF Engines
<1> HIDE DEF e
<1>8. \A u : LastOf(e, u) = LastOf(eng, u)
  BY <1>7 DEF LastOf
<1>9. Matched(mem) /\ QueuesRight(mem, eng, pc, gen)
  BY DEF StreamInv
<1>10. CASE eng' = e
  <2>1. QueuesRight(mem, e, "streamed", gen)
    <3>1. \A j : ~(j \in 1..Len(e.q["main"]))
      BY <1>1, <1>7
    <3>2. QED
      BY <1>7, <1>9, <3>1 DEF QueuesRight
  <2>2. SlotsReady(mem, e, gen)
    <3>1. e.slots \in 0..4 /\ \A i \in 3..e.slots : i \in Slot /\ i \in {1} \cup 3..eng.slots
      BY <1>7, QueueParts DEF Slot
    <3>2. \A i \in 3..e.slots : Filled(mem, b, i, D(i))
      BY <1>3, <3>1
    <3>3. QED
      BY <1>3, <1>7, <1>8, <3>2 DEF SlotsReady
  <2>3. KindRight(mem, e, gen)
    BY <1>3, <1>7 DEF KindRight
  <2>4. StreamInv(mem, e, "streamed", gen)
    BY <1>1, <1>7, <1>9, <2>1, <2>2, <2>3, Kicks
  <2>5. QED
    BY <1>1, <1>10, <2>4
<1>11. CASE eng' = [h EXCEPT !.side = yes, !.stream12 = yes, !.slots = four, !.kind = kind, !.launched = all]
  <2>1. Queued(e, f, "main", k)
    BY <1>6, <1>7, EnqueueIs DEF Stream
  <2> HIDE DEF f
  <2>2. Queued(f, g, "main", LastOf(g, "slot1")) /\ LastOf(g, "slot0") = LastOf(f, "slot0")
    BY <2>1, RecordIs DEF Queued, Stream, Event
  <2> HIDE DEF g
  <2>3. Queued(g, h, "main", LastOf(h, "side"))
    BY <2>2, RecordIs DEF Queued, Stream, Event
  <2> HIDE DEF h, all
  <2>4. /\ Longer(e.q["main"], f.q["main"], k) /\ Longer(f.q["main"], g.q["main"], LastOf(g, "slot1"))
        /\ Longer(g.q["main"], h.q["main"], LastOf(h, "side"))
        /\ h.q["bak"] = b /\ h.q["bak2"] = eng.q["bak2"] /\ h.side2 = eng.side2 /\ h \in Engines
    BY <1>7, <2>1, <2>2, <2>3 DEF Queued, Stream, SameFlags
  <2>5. /\ eng'.q = h.q /\ eng'.side = yes /\ eng'.slots = four /\ eng'.kind = kind /\ eng'.side2 = h.side2
    BY <1>11, <2>4 DEF Engines
  <2> DEFINE a == h.q["main"]
  <2>6. Len(a) = 3 /\ a[1] = k /\ a[2].op = "record" /\ a[3].op = "record"
    <3>1. Len(e.q["main"]) = 0
      BY <1>1, <1>7
    <3>2. Len(f.q["main"]) = 1 /\ f.q["main"][1] = k
      BY <2>4, <3>1 DEF Longer
    <3>3. Len(g.q["main"]) = 2 /\ g.q["main"][1] = k /\ g.q["main"][2] = LastOf(g, "slot1")
      <4>1. 1 \in 1..Len(f.q["main"]) /\ Len(f.q["main"]) + 1 = 2
        BY <3>2
      <4>2. QED
        BY <2>4, <3>2, <4>1 DEF Longer
    <3>4. Len(a) = 3 /\ a[1] = k /\ a[2] = LastOf(g, "slot1") /\ a[3] = LastOf(h, "side")
      <4>1. 1 \in 1..Len(g.q["main"]) /\ 2 \in 1..Len(g.q["main"]) /\ Len(g.q["main"]) + 1 = 3
        BY <3>3
      <4>2. QED
        BY <2>4, <3>3, <4>1 DEF Longer, a
    <3>5. QED
      BY <3>4 DEF LastOf
  <2> HIDE DEF a
  <2>7. \A j \in 1..Len(a) : (j = 1 /\ a[j] = k) \/ a[j].op = "record"
    <3>1. \A j \in 1..Len(a) : j = 1 \/ j = 2 \/ j = 3
      BY <2>6
    <3>2. QED
      BY <2>6, <3>1
  <2>8. QueuesRight(mem, eng', "streamed", gen)
    <3>1. MainOps("streamed") = {"fill", "record"}
      BY DEF MainOps
    <3>2. \A j \in 1..Len(a) : a[j].op \in {"fill", "record"}
      BY <1>6, <2>7
    <3>3. \A j \in 1..Len(a) : a[j].op = "fill" => \A i \in a[j].slots : a[j].of[i] = FreshDraft(gen, i)
      <4>1. \A i \in 2..4 : i \in Slot
        BY DEF Slot
      <4>2. QED
        BY <1>6, <2>7, <4>1
    <3>4. QED
      BY <1>9, <2>4, <2>5, <3>1, <3>2, <3>3 DEF QueuesRight, a
  <2>9. \A i \in 2..4 : Arriving(mem, b, a, i, D(i))
    <3>1. 1 \in 1..Len(a) /\ a[1].op = "fill" /\ a[1].slots = 2..4
      BY <1>6, <2>6
    <3>2. \A i \in 2..4 : GoodFrom(mem, b, 1, i, D(i))
      BY <1>3 DEF Slot
    <3>3. QED
      BY <3>1, <3>2 DEF Arriving
  <2>10. Filled(mem, b, 1, D(1))
    BY <1>3 DEF Slot
  <2>11. SlotsReady(mem, eng', gen)
    <3>1. \A v : Promised(mem, b, 1, D(1), v)
      BY <2>10, FilledPromised
    <3>2. \A i \in {1} \cup 3..4 : i = 1 \/ i \in 2..4
      OBVIOUS
    <3>3. QED
      BY <1>4, <1>5, <2>4, <2>5, <2>9, <3>1, <3>2 DEF SlotsReady, a
  <2>12. CopiesFresh(mem, eng', gen) /\ TakesFresh(mem, eng')
    BY <1>6, <2>5, <2>7 DEF CopiesFresh, TakesFresh, a
  <2>13. KindsRight(mem, eng', "streamed", gen)
    BY <1>5, <2>5 DEF KindsRight, InCall, Windows
  <2>14. QED
    BY <1>1, <1>9, <2>8, <2>11, <2>12, <2>13 DEF StreamInv
<1>12. QED
  BY <1>2, <1>10, <1>11

-----------------------------------------------------------------------------
(***************************************************************************)
(* Steps of the first call                                                 *)
(***************************************************************************)
LEMMA FirstCallFresh ==
  ASSUME IInv, OneSide, StreamInv(mem, eng, pc, gen), FirstCall
  PROVE  StreamInv(mem', eng', pc', gen')
<1> DEFINE yes == TRUE
           e == [eng EXCEPT !.first = yes]
           f == KickH4(e)
<1>1. eng \in Engines /\ gen \in 0..MaxGen /\ pc = "idle" /\ ~eng.first /\ Has(eng, "h4") /\ UNCHANGED <<mem, gen>>
  BY DEF IInv, At, Counted, FirstCall
<1>2. /\ eng' = IF eng.kind # 3 /\ Has(eng, "h31") THEN f ELSE e
      /\ pc' = CASE eng'.kind = 3 /\ eng'.slots >= 2 -> "slots"
                 [] eng'.kind = 1                    -> "drafts"
                 [] OTHER                            -> "align"
  BY DEF FirstCall
<1>3. pc' \in {"slots", "drafts", "align"} /\ (pc' = "drafts" => eng'.kind = 1)
  BY <1>2
<1>4. yes \in BOOLEAN /\ yes
  OBVIOUS
<1> HIDE DEF yes
<1>5. /\ e \in Engines /\ SameQueues(eng, e) /\ e.first /\ e.have = eng.have /\ e.graphs = eng.graphs
  BY <1>1, <1>4 DEF Engines, SameQueues
<1> HIDE DEF e
<1>6. /\ e.q = eng.q /\ e.count = eng.count /\ e.side = eng.side /\ e.side2 = eng.side2
      /\ e.slots = eng.slots /\ e.kind = eng.kind
  BY <1>5 DEF SameQueues
<1>7. \A u : LastOf(e, u) = LastOf(eng, u)
  BY <1>6 DEF LastOf
<1>8. e.q["main"] = <<>> /\ Matched(mem)
  BY <1>1, <1>6, MainEmpty DEF MainOps, StreamInv
<1>9. SlotsReady(mem, e, gen) /\ KindRight(mem, e, gen)
  <2>1. Pending(eng, pc) /\ pc # "drain"
    BY <1>1 DEF Pending
  <2>2. SlotsReady(mem, eng, gen)
    BY <2>1 DEF StreamInv
  <2>3. SlotsReady(mem, e, gen)
    BY <1>6, <1>7, <2>2 DEF SlotsReady
  <2>4. KindRight(mem, eng, gen)
    BY <2>1 DEF StreamInv, KindsRight, KindRight
  <2>5. KindRight(mem, e, gen)
    BY <1>6, <1>7, <2>4 DEF KindRight
  <2>6. QED
    BY <2>3, <2>5
<1>10. \A r : QueuesRight(mem, e, r, gen)
  <2>1. \A j : ~(j \in 1..Len(e.q["main"]))
    BY <1>8
  <2>2. QED
    BY <1>6, <2>1 DEF StreamInv, QueuesRight
<1>11. CASE ~(eng.kind # 3 /\ Has(eng, "h31"))
  <2>1. eng' = e
    BY <1>2, <1>11
  <2>2. StreamInv(mem, e, pc', gen)
    BY <1>3, <1>5, <1>8, <1>9, <1>10, <2>1, Kicks
  <2>3. QED
    BY <1>1, <2>1, <2>2
<1>12. CASE eng.kind # 3 /\ Has(eng, "h31")
  <2>1. eng' = f
    BY <1>2, <1>12
  <2>2. e.slots \in {0, 1} /\ OneGraph(e) /\ Has(e, "h4")
    <3>1. e.slots \in 0..4 /\ ~(e.slots >= 2)
      BY <1>5, <1>6, <1>9, <1>12, QueueParts DEF KindRight
    <3>2. OneGraph(e)
      BY <1>5 DEF OneGraph, OneSide
    <3>3. Has(e, "h4")
      BY <1>1, <1>5 DEF Has
    <3>4. QED
      BY <3>1, <3>2, <3>3
  <2>3. Sided(mem, e, f, gen) /\ Prepared(mem, f, gen)
    BY <1>1, <1>5, <2>2, H4Prepares
  <2> HIDE DEF f
  <2>4. f.q["main"] = <<>> /\ f.first
    BY <1>5, <1>8, <2>3 DEF Sided, SameFlags
  <2>5. QueuesRight(mem, f, pc', gen)
    BY <1>8, <1>10, <2>3, SidedQueues
  <2>6. StreamInv(mem, f, pc', gen)
    BY <1>3, <1>8, <2>1, <2>3, <2>4, <2>5, Kicks DEF Prepared
  <2>7. QED
    BY <1>1, <2>1, <2>6
<1>13. QED
  BY <1>11, <1>12

LEMMA UseSlotsFresh ==
  ASSUME IInv, StreamInv(mem, eng, pc, gen), UseSlots
  PROVE  StreamInv(mem', eng', pc', gen')
<1> DEFINE v == IF eng.side THEN "side" ELSE "slot0"
           w == [op |-> "wait", ev |-> v, n |-> eng.count[v]]
           e == Wait(eng, v, "main")
           c == [op |-> "copy", slots |-> {1}, of |-> SlotDraft]
           f == CopySlots(e, {1})
           z == 0
           b == eng.q["bak"]
           a == f.q["main"]
           D(i) == FreshDraft(gen, i)
<1>1. /\ eng \in Engines /\ gen \in 0..MaxGen /\ pc = "slots" /\ pc' = "drain" /\ UNCHANGED <<mem, gen>>
      /\ eng.slots >= 2
  BY DEF IInv, At, Counted, UseSlots
<1>2. eng' = [f EXCEPT !.kind = z]
  BY DEF UseSlots
<1>3. v \in Event /\ (eng.side => v = "side") /\ (~eng.side => v = "slot0")
  BY DEF Event
<1>4. eng.q["main"] = <<>> /\ NoFill(eng.q["main"]) /\ eng.first
  <2>1. eng.q["main"] = <<>>
    BY <1>1, MainEmpty DEF MainOps
  <2>2. NoFill(eng.q["main"])
    BY <2>1 DEF NoFill
  <2>3. eng.first
    BY <1>1 DEF StreamInv, KindsRight, InCall
  <2>4. QED
    BY <2>1, <2>2, <2>3
<1>5. SlotsReady(mem, eng, gen) /\ Matched(mem) /\ QueuesRight(mem, eng, pc, gen)
  BY <1>1 DEF StreamInv, Pending
<1>6. /\ Promised(mem, b, 1, D(1), LastOf(eng, "slot0")) /\ Promised(mem, b, 2, D(2), LastOf(eng, "slot1"))
      /\ eng.side => \A i \in {1} \cup 3..eng.slots : Promised(mem, b, i, D(i), LastOf(eng, "side"))
      /\ ~eng.side => \A i \in 3..eng.slots : Filled(mem, b, i, D(i))
  <2>1. \A i : ~Arriving(mem, b, eng.q["main"], i, D(i))
    BY <1>4, NoneArrives
  <2>2. QED
    BY <1>1, <1>3, <1>5, <2>1 DEF SlotsReady
<1>7. c \in Command /\ c.op = "copy" /\ c.slots = {1} /\ c.of[1] = D(1)
  BY <1>1, DraftType, SlotDraftIs DEF Command, Slot, SlotDraft
<1> HIDE DEF v, b
<1>8. Queued(eng, e, "main", w) /\ e.count = eng.count
  BY <1>1, <1>3, WaitIs DEF Stream
<1>9. f = Enqueue(e, "main", c)
  BY DEF CopySlots
<1> HIDE DEF e, c
<1>10. Queued(e, f, "main", c) /\ f.count = e.count
  BY <1>7, <1>8, <1>9, EnqueueIs DEF Queued, Stream
<1>11. w.op = "wait" /\ w.ev = v /\ w.n = eng.count[v]
  OBVIOUS
<1>12. z \in 0..3
  OBVIOUS
<1> HIDE DEF f, w, z
<1>13. /\ f \in Engines /\ f.q["bak"] = b /\ f.q["bak2"] = eng.q["bak2"] /\ f.side2 = eng.side2 /\ f.side = eng.side
       /\ f.slots = eng.slots /\ f.first = eng.first /\ f.count = eng.count
       /\ Longer(eng.q["main"], e.q["main"], w) /\ Longer(e.q["main"], a, c)
  BY <1>8, <1>10 DEF Queued, Stream, SameFlags, b
<1>14. Len(a) = 2 /\ a[1] = w /\ a[2] = c
  <2>1. Len(eng.q["main"]) = 0
    BY <1>4
  <2>2. Len(e.q["main"]) = 1 /\ e.q["main"][1] = w
    BY <1>13, <2>1 DEF Longer
  <2>3. 1 \in 1..Len(e.q["main"]) /\ Len(e.q["main"]) + 1 = 2
    BY <2>2
  <2>4. QED
    BY <1>13, <2>2, <2>3 DEF Longer
<1>15. /\ eng'.q = f.q /\ eng'.side2 = f.side2 /\ eng'.side = f.side /\ eng'.slots = f.slots
       /\ eng'.first = f.first /\ eng'.count = f.count
  BY <1>2, <1>12, <1>13 DEF Engines
<1> HIDE DEF a
<1>16. \A j \in 1..Len(a) : (j = 1 /\ a[j] = w) \/ (j = 2 /\ a[j] = c)
  <2>1. \A j \in 1..Len(a) : j = 1 \/ j = 2
    BY <1>14
  <2>2. QED
    BY <1>14, <2>1
<1>17. QueuesRight(mem, eng', "drain", gen)
  <2>1. MainOps("drain") = {"copy", "wait"}
    BY DEF MainOps
  <2>2. \A j \in 1..Len(a) : a[j].op \in {"copy", "wait"}
    BY <1>7, <1>11, <1>16
  <2>3. QED
    BY <1>5, <1>13, <1>15, <2>1, <2>2 DEF QueuesRight, a, b
<1>18. \A u : LastOf(eng', u) = LastOf(eng, u)
  BY <1>13, <1>15 DEF LastOf
<1>19. SlotsReady(mem, eng', gen)
  <2>1. eng'.q["bak"] = b /\ eng'.slots = eng.slots /\ eng'.side = eng.side
    BY <1>13, <1>15
  <2>2. QED
    BY <1>6, <1>18, <2>1 DEF SlotsReady
<1>20. CopiesFresh(mem, eng', gen)
  <2>1. Promised(mem, b, 1, D(1), LastOf(eng, v))
    BY <1>3, <1>6
  <2>2. [op |-> "record", ev |-> w.ev, n |-> w.n] = LastOf(eng, v)
    BY <1>11 DEF LastOf
  <2>3. ASSUME NEW k \in 1..Len(a), a[k].op = "copy"
        PROVE  k = 2 /\ a[k].slots = {1} /\ a[k].of[1] = D(1)
    BY <1>7, <1>11, <1>16, <2>3
  <2>4. 1 \in 1..(2 - 1) /\ a[1].op = "wait" /\ Promised(mem, b, 1, D(1), [op |-> "record", ev |-> a[1].ev, n |-> a[1].n])
    BY <1>11, <1>14, <2>1, <2>2
  <2>5. eng'.q["main"] = a /\ eng'.q["bak"] = b
    BY <1>13, <1>15 DEF a
  <2>6. QED
    BY <2>3, <2>4, <2>5 DEF CopiesFresh
<1>21. TakesFresh(mem, eng')
  BY <1>7, <1>11, <1>13, <1>15, <1>16 DEF TakesFresh, a
<1>22. KindsRight(mem, eng', "drain", gen)
  <2>1. eng'.kind = 0
    BY <1>2, <1>12, <1>13 DEF Engines, z
  <2>2. QED
    BY <1>4, <1>13, <1>15, <2>1 DEF KindsRight
<1>23. QED
  BY <1>1, <1>5, <1>17, <1>19, <1>20, <1>21, <1>22 DEF StreamInv

\* A draft the host has awaited is there, and none is behind it.
LEMMA DraftKept ==
  ASSUME NEW m, NEW b, NEW d, NEW r, \A k \in 1..Len(b) : b[k] # r, DraftBy(m, b, d, r)
  PROVE  m.drafts["bak"] = d /\ \A k \in 1..Len(b) : b[k].op # "draft"
<1>1. \A k \in 1..Len(b) : b[k].op # "draft"
  BY DEF DraftBy
<1>2. QED
  BY <1>1 DEF DraftBy, InPlace

LEMMA TakeStep ==
  ASSUME NEW m, NEW e \in Engines, NEW f, NEW p, NEW r \in {"align", "awaited"}, NEW g, NEW d \in Draft,
         StreamInv(m, e, p, g), MainOps(p) = {}, f.q = TakeDrafts(e, d).q, f.side2 = e.side2, f.first,
         m.drafts["bak"] = d, \A k \in 1..Len(e.q["bak"]) : e.q["bak"][k].op # "draft"
  PROVE  StreamInv(m, f, r, g)
<1> DEFINE c == [op |-> "take", of |-> d]
           h == TakeDrafts(e, d)
           a == h.q["main"]
           b == e.q["bak"]
<1>1. c \in Command /\ c.op = "take" /\ c.of = d
  BY DEF Command
<1>2. h = Enqueue(e, "main", c)
  BY DEF TakeDrafts
<1>3. e.q["main"] = <<>>
  BY MainEmpty
<1> HIDE DEF c
<1>4. Queued(e, h, "main", c)
  BY <1>1, <1>2, EnqueueIs DEF Stream
<1>5. f.q = h.q
  OBVIOUS
<1> HIDE DEF h
<1>6. Longer(e.q["main"], a, c) /\ h.q["bak"] = b /\ h.q["bak2"] = e.q["bak2"]
  BY <1>4 DEF Queued, Stream
<1>7. Len(a) = 1 /\ a[1] = c
  <2>1. Len(e.q["main"]) = 0
    BY <1>3
  <2>2. QED
    BY <1>6, <2>1 DEF Longer
<1> HIDE DEF a, b
<1>8. \A k \in 1..Len(a) : k = 1 /\ a[k] = c
  BY <1>7
<1>9. /\ f.q["main"] = a /\ f.q["bak"] = b /\ f.q["bak2"] = e.q["bak2"]
  BY <1>5, <1>6 DEF a
<1>10. \A k \in 1..Len(b) : b[k].op # "draft"
  BY DEF b
<1>11. QueuesRight(m, f, r, g)
  <2>1. MainOps(r) = {"take"}
    BY DEF MainOps
  <2>2. \A k \in 1..Len(a) : a[k].op \in {"take"}
    BY <1>1, <1>8
  <2>3. QED
    BY <1>9, <2>1, <2>2 DEF StreamInv, QueuesRight, b
<1>12. CopiesFresh(m, f, g)
  BY <1>1, <1>8, <1>9 DEF CopiesFresh
<1>13. TakesFresh(m, f)
  <2>1. ASSUME NEW k \in 1..Len(a) PROVE Taken(m, a, b, k)
    BY <1>1, <1>8, <1>10 DEF Taken
  <2>2. QED
    BY <1>9, <2>1 DEF TakesFresh
<1>14. ~Pending(f, r)
  BY DEF Pending, Prefilling
<1>15. KindsRight(m, f, r, g)
  BY <1>14 DEF KindsRight
<1>16. QED
  BY <1>11, <1>12, <1>13, <1>14, <1>15 DEF StreamInv

LEMMA UseDraftsFresh ==
  ASSUME IInv, StreamInv(mem, eng, pc, gen), UseDrafts
  PROVE  StreamInv(mem', eng', pc', gen')
<1> DEFINE d == SlotDraft[1]
           h == TakeDrafts(eng, d)
           no == FALSE
           z == 0
           b == eng.q["bak"]
<1>1. eng \in Engines /\ gen \in 0..MaxGen /\ pc = "drafts" /\ pc' = "align" /\ UNCHANGED <<mem, gen>>
  BY DEF IInv, At, Counted, UseDrafts
<1>2. eng' = [h EXCEPT !.side = no, !.kind = z]
  BY DEF UseDrafts
<1>3. d \in Draft /\ d = FreshDraft(gen, 1)
  BY <1>1, DraftType, SlotDraftIs DEF Slot
<1>4. no \in BOOLEAN /\ z \in 0..3
  OBVIOUS
<1>5. eng.first /\ eng.kind = 1
  BY <1>1 DEF StreamInv, KindsRight, InCall
<1>6. eng.side /\ DraftBy(mem, b, FreshDraft(gen, 1), LastOf(eng, "side"))
  <2>1. Pending(eng, pc)
    BY <1>1 DEF Pending
  <2>2. QED
    BY <1>5, <2>1 DEF StreamInv, KindsRight
<1>7. \A k \in 1..Len(b) : b[k] # LastOf(eng, "side")
  <2>1. Synced("side")
    BY <1>6 DEF UseDrafts
  <2>2. QED
    BY <1>1, <2>1, SyncedSide DEF Event
<1> HIDE DEF d, b, no, z
<1>8. mem.drafts["bak"] = d /\ \A k \in 1..Len(b) : b[k].op # "draft"
  BY <1>3, <1>6, <1>7, DraftKept
<1>9. [op |-> "take", of |-> d] \in Command
  BY <1>3 DEF Command
<1>10. h \in Engines /\ h.first = eng.first /\ h.side2 = eng.side2
  BY <1>1, <1>9, EnqueueIs DEF TakeDrafts, Stream, Queued, SameFlags
<1> HIDE DEF h
<1>11. eng'.q = h.q /\ eng'.side2 = eng.side2 /\ eng'.first
  BY <1>2, <1>4, <1>5, <1>10 DEF Engines
<1>12. MainOps(pc) = {}
  BY <1>1 DEF MainOps
<1>13. StreamInv(mem, eng', "align", gen)
  BY <1>1, <1>3, <1>8, <1>11, <1>12, TakeStep DEF h, b
<1>14. QED
  BY <1>1, <1>13

LEMMA AwaitNextFresh ==
  ASSUME IInv, StreamInv(mem, eng, pc, gen), AwaitNext
  PROVE  StreamInv(mem', eng', pc', gen')
<1> DEFINE d == <<gen, "mid", eng.windows>>
           h == TakeDrafts(eng, d)
           no == FALSE
           b == eng.q["bak"]
<1>1. eng \in Engines /\ gen \in 0..MaxGen /\ pc = "await" /\ pc' = "awaited" /\ UNCHANGED <<mem, gen>>
  BY DEF IInv, At, Counted, AwaitNext
<1>2. eng' = [h EXCEPT !.side = no]
  BY DEF AwaitNext
<1>3. d \in Draft
  BY <1>1 DEF Draft, Names, Engines
<1>4. no \in BOOLEAN
  OBVIOUS
<1>5. eng.first
  BY <1>1 DEF StreamInv, KindsRight, InCall, Windows
<1>6. DraftBy(mem, b, d, LastOf(eng, "side"))
  BY <1>1 DEF StreamInv, KindsRight
<1>7. \A k \in 1..Len(b) : b[k] # LastOf(eng, "side")
  <2>1. Synced("side")
    BY DEF AwaitNext
  <2>2. QED
    BY <1>1, <2>1, SyncedSide DEF Event
<1> HIDE DEF d, b, no
<1>8. mem.drafts["bak"] = d /\ \A k \in 1..Len(b) : b[k].op # "draft"
  BY <1>6, <1>7, DraftKept
<1>9. [op |-> "take", of |-> d] \in Command
  BY <1>3 DEF Command
<1>10. h \in Engines /\ h.first = eng.first /\ h.side2 = eng.side2
  BY <1>1, <1>9, EnqueueIs DEF TakeDrafts, Stream, Queued, SameFlags
<1> HIDE DEF h
<1>11. eng'.q = h.q /\ eng'.side2 = eng.side2 /\ eng'.first
  BY <1>2, <1>4, <1>5, <1>10 DEF Engines
<1>12. MainOps(pc) = {}
  BY <1>1 DEF MainOps
<1>13. StreamInv(mem, eng', "awaited", gen)
  BY <1>1, <1>3, <1>8, <1>11, <1>12, TakeStep DEF h, b
<1>14. QED
  BY <1>1, <1>13

LEMMA LaunchNextFresh ==
  ASSUME IInv, StreamInv(mem, eng, pc, gen), LaunchNext
  PROVE  StreamInv(mem', eng', pc', gen')
<1> DEFINE d == <<gen, "mid", eng.windows>>
           f == LaunchSide(eng, "bak", d)
<1>1. eng \in Engines /\ gen \in 0..MaxGen /\ pc \in {"launch", "next"} /\ pc' = "await" /\ UNCHANGED <<mem, gen>>
      /\ eng' = f
  BY DEF IInv, At, Counted, LaunchNext
<1>2. d \in Draft
  BY <1>1 DEF Draft, Names, Engines
<1>3. eng.q["main"] = <<>> /\ eng.first
  <2>1. MainOps(pc) = {} /\ pc \in InCall
    BY <1>1 DEF MainOps, InCall, Windows
  <2>2. QED
    BY <1>1, <2>1, MainEmpty DEF StreamInv, KindsRight
<1> HIDE DEF d
<1>4. /\ Sided(mem, eng, f, gen) /\ f.side
      /\ DraftBy(mem, f.q["bak"], d, LastOf(f, "side"))
  BY <1>1, <1>2, SideLaunch
<1> HIDE DEF f
<1>5. f.q["main"] = <<>> /\ f.first /\ f.windows = eng.windows
  BY <1>3, <1>4 DEF Sided, SameFlags
<1>6. QueuesRight(mem, f, "await", gen)
  BY <1>3, <1>4, SidedQueues DEF StreamInv
<1>7. CopiesFresh(mem, f, gen) /\ TakesFresh(mem, f)
  <2>1. \A k : ~(k \in 1..Len(f.q["main"]))
    BY <1>5
  <2>2. QED
    BY <2>1 DEF CopiesFresh, TakesFresh
<1>8. ~Pending(f, "await")
  BY DEF Pending, Prefilling
<1>9. KindsRight(mem, f, "await", gen)
  BY <1>4, <1>5, <1>8 DEF KindsRight, d
<1>10. QED
  BY <1>1, <1>6, <1>7, <1>8, <1>9 DEF StreamInv

LEMMA AlignFresh ==
  ASSUME IInv, StreamInv(mem, eng, pc, gen), Align
  PROVE  StreamInv(mem', eng', pc', gen')
<1> DEFINE d == <<gen, "seed", 0>>
           e == Record(eng, "side", "main")
           h == Wait(e, "side", "bak")
           f == LaunchSide(h, "bak", d)
           kind == 2
           r == LastOf(e, "side")
           x == [op |-> "wait", ev |-> "side", n |-> e.count["side"]]
           a == eng.q["main"]
           b == eng.q["bak"]
           c == f.q["main"]
           t == f.q["bak"]
<1>1. eng \in Engines /\ gen \in 0..MaxGen /\ pc = "align" /\ pc' = "aligned" /\ UNCHANGED <<mem, gen>>
  BY DEF IInv, At, Counted, Align
<1>2. eng' = [f EXCEPT !.kind = kind]
  BY DEF Align
<1>3. d \in Draft
  BY <1>1, QueueParts, DraftType DEF Names
<1>4. kind \in 0..3
  OBVIOUS
<1>5. Queued(eng, e, "main", r)
  BY <1>1, RecordIs DEF Stream, Event
<1>6. r = [op |-> "record", ev |-> x.ev, n |-> x.n] /\ x.op = "wait" /\ r.op = "record"
  BY DEF LastOf
<1> HIDE DEF e, d, kind
<1>7. Queued(e, h, "bak", x)
  BY <1>5, WaitIs DEF Queued, Stream, Event
<1> HIDE DEF h, r, x
<1>8. /\ Sided(mem, h, f, gen)
      /\ Len(f.q["bak"]) = Len(h.q["bak"]) + 2
      /\ f.q["bak"][Len(f.q["bak"])] = LastOf(f, "side")
      /\ f.q["bak"][Len(h.q["bak"]) + 1] = [op |-> "draft", of |-> d]
  <2>1. h \in Engines
    BY <1>7 DEF Queued
  <2>2. QED
    BY <1>3, <2>1, SideLaunch
<1>9. (LastOf(f, "side")).op = "record"
  BY DEF LastOf
<1> HIDE DEF f
<1>10. /\ Longer(a, c, r) /\ f.q["bak2"] = eng.q["bak2"] /\ f.side2 = eng.side2 /\ f.first = eng.first
       /\ e.q["bak"] = b /\ f \in Engines
  BY <1>5, <1>7, <1>8 DEF Queued, Sided, SameFlags, Stream
<1>11. /\ Len(b) \in Nat /\ Len(t) = Len(b) + 3 /\ t[Len(b) + 1] = x /\ t[Len(b) + 2].op = "draft"
       /\ t[Len(b) + 3].op = "record" /\ \A k \in 1..Len(b) : t[k] = b[k]
  <2>1. Longer(b, h.q["bak"], x)
    BY <1>7, <1>10 DEF Queued
  <2>2. /\ Len(b) \in Nat /\ Len(h.q["bak"]) = Len(b) + 1 /\ h.q["bak"][Len(b) + 1] = x
        /\ \A k \in 1..Len(b) : h.q["bak"][k] = b[k]
    BY <2>1 DEF Longer
  <2>3. /\ Len(h.q["bak"]) \in Nat /\ \A k \in 1..Len(h.q["bak"]) : t[k] = h.q["bak"][k]
    BY <1>8 DEF Sided, Grows
  <2>4. Len(b) + 1 \in 1..Len(h.q["bak"]) /\ \A k \in 1..Len(b) : k \in 1..Len(h.q["bak"])
    BY <2>2
  <2>5. Len(t) = Len(b) + 3 /\ Len(h.q["bak"]) + 1 = Len(b) + 2
    BY <1>8, <2>2
  <2>6. t[Len(b) + 1] = x /\ \A k \in 1..Len(b) : t[k] = b[k]
    BY <2>2, <2>3, <2>4
  <2>7. t[Len(b) + 2].op = "draft"
    BY <1>8, <2>5
  <2>8. t[Len(b) + 3].op = "record"
    BY <1>8, <1>9, <2>5
  <2>9. QED
    BY <2>2, <2>5, <2>6, <2>7, <2>8
<1>12. /\ eng'.q = f.q /\ eng'.side2 = f.side2 /\ eng'.first = f.first
  BY <1>2, <1>4, <1>10 DEF Engines
<1>13. QueuesRight(mem, eng, pc, gen) /\ TakesFresh(mem, eng) /\ Matched(mem) /\ eng.first
  BY <1>1 DEF StreamInv, KindsRight, InCall
<1>14. \A k \in 1..Len(a) : a[k].op = "take"
  <2>1. MainOps(pc) = {"take"}
    BY <1>1 DEF MainOps
  <2>2. QED
    BY <1>13, <2>1 DEF QueuesRight
<1> HIDE DEF a, b, c, t
<1>15. /\ Len(a) \in Nat /\ Len(c) = Len(a) + 1 /\ c[Len(a) + 1] = r
       /\ \A k \in 1..Len(a) : c[k] = a[k]
  BY <1>10 DEF Longer
<1>16. \A k \in 1..Len(c) : k \in 1..Len(a) \/ k = Len(a) + 1
  BY <1>15
<1>17. \A p \in 1..Len(t) : p \in 1..Len(b) \/ p = Len(b) + 1 \/ p = Len(b) + 2 \/ p = Len(b) + 3
  BY <1>11
<1>18. QueuesRight(mem, eng', "aligned", gen)
  <2>1. MainOps("aligned") = {"take", "record"}
    BY DEF MainOps
  <2>2. \A k \in 1..Len(c) : c[k].op \in {"take", "record"}
    BY <1>6, <1>14, <1>15, <1>16
  <2>3. \A p \in 1..Len(b) : b[p].op \in SideOps
    BY <1>13 DEF QueuesRight, b
  <2>4. \A p \in 1..Len(t) : t[p].op \in SideOps
    BY <1>6, <1>11, <1>17, <2>3 DEF SideOps
  <2>5. QED
    BY <1>10, <1>12, <1>13, <2>1, <2>2, <2>4 DEF QueuesRight, c, t
<1>19. TakesFresh(mem, eng')
  <2>1. ASSUME NEW k \in 1..Len(c), c[k].op = "take"
        PROVE  Taken(mem, c, t, k)
    <3>1. k \in 1..Len(a) /\ c[k] = a[k]
      BY <1>6, <1>15, <1>16, <2>1
    <3>2. /\ mem.drafts["bak"] = a[k].of
          /\ \A p \in 1..Len(b) : b[p].op = "draft" =>
               \E w \in 1..(p - 1) : b[w].op = "wait"
                 /\ \E j \in (k + 1)..Len(a) : a[j] = [op |-> "record", ev |-> b[w].ev, n |-> b[w].n]
      BY <1>13, <2>1, <3>1 DEF TakesFresh, Taken, a, b
    <3>3. ASSUME NEW p \in 1..Len(t), t[p].op = "draft"
          PROVE  \E w \in 1..(p - 1) : t[w].op = "wait"
                   /\ \E j \in (k + 1)..Len(c) : c[j] = [op |-> "record", ev |-> t[w].ev, n |-> t[w].n]
      <4>1. CASE p \in 1..Len(b)
        <5>1. PICK w \in 1..(p - 1) : b[w].op = "wait"
                 /\ \E j \in (k + 1)..Len(a) : a[j] = [op |-> "record", ev |-> b[w].ev, n |-> b[w].n]
          BY <1>11, <3>2, <3>3, <4>1
        <5>2. PICK j \in (k + 1)..Len(a) : a[j] = [op |-> "record", ev |-> b[w].ev, n |-> b[w].n]
          BY <5>1
        <5>3. w \in 1..Len(b) /\ j \in 1..Len(a) /\ j \in (k + 1)..Len(c)
          BY <1>11, <1>15, <3>1, <4>1, <5>1, <5>2
        <5>4. QED
          BY <1>11, <1>15, <5>1, <5>2, <5>3
      <4>2. CASE p = Len(b) + 2
        <5>1. Len(b) + 1 \in 1..(p - 1) /\ Len(a) + 1 \in (k + 1)..Len(c)
          BY <1>11, <1>15, <3>1, <4>2
        <5>2. QED
          BY <1>6, <1>11, <1>15, <5>1
      <4>3. QED
        BY <1>6, <1>11, <1>17, <3>3, <4>1, <4>2
    <3>4. QED
      BY <3>1, <3>2, <3>3 DEF Taken
  <2>2. eng'.q["main"] = c /\ eng'.q["bak"] = t
    BY <1>12 DEF c, t
  <2>3. QED
    BY <2>1, <2>2 DEF TakesFresh
<1>20. CopiesFresh(mem, eng', gen)
  <2>1. \A k \in 1..Len(c) : c[k].op # "copy"
    BY <1>6, <1>14, <1>15, <1>16
  <2>2. QED
    BY <1>12, <2>1 DEF CopiesFresh, c
<1>21. ~Pending(eng', "aligned")
  BY DEF Pending, Prefilling
<1>22. KindsRight(mem, eng', "aligned", gen)
  BY <1>10, <1>12, <1>13, <1>21 DEF KindsRight
<1>23. QED
  BY <1>1, <1>13, <1>18, <1>19, <1>20, <1>21, <1>22 DEF StreamInv

-----------------------------------------------------------------------------
(***************************************************************************)
(* Draining the slots                                                      *)
(***************************************************************************)
Awaits(c) == [op |-> "record", ev |-> c.ev, n |-> c.n]

\* Slot i is d once what is on the main stream a has run.
Seen(m, b, a, i, d) ==
  \/ Filled(m, b, i, d)
  \/ \E j \in 1..Len(a) : a[j].op = "wait" /\ Promised(m, b, i, d, Awaits(a[j]))

SeenOf(m, e, i, g) == Seen(m, e.q["bak"], e.q["main"], i, FreshDraft(g, i))

Draining(m, e, g) ==
  /\ e \in Engines /\ e.first /\ QueuesRight(m, e, "drain", g) /\ CopiesFresh(m, e, g)

\* f is e with more on its main stream.
Drains(m, e, f, g) ==
  /\ Draining(m, f, g) /\ f.q["bak"] = e.q["bak"] /\ f.slots = e.slots
  /\ \A i \in Slot : SeenOf(m, e, i, g) => SeenOf(m, f, i, g)

LEMMA DrainsTrans ==
  ASSUME NEW m, NEW e, NEW f, NEW h, NEW g, Drains(m, e, f, g), Drains(m, f, h, g)
  PROVE  Drains(m, e, h, g)
BY DEF Drains

LEMMA DrainsBy ==
  ASSUME NEW m, NEW e, NEW f, NEW g, NEW c, Draining(m, e, g), Queued(e, f, "main", c), c.op \in {"copy", "wait"},
         c.op = "copy" => \A i \in c.slots : c.of[i] = FreshDraft(g, i) /\ SeenOf(m, e, i, g)
  PROVE  Drains(m, e, f, g)
<1> DEFINE a == e.q["main"]
           t == f.q["main"]
           b == e.q["bak"]
           D(i) == FreshDraft(g, i)
<1>1. /\ f \in Engines /\ Longer(a, t, c) /\ f.q["bak"] = b /\ f.q["bak2"] = e.q["bak2"] /\ f.side2 = e.side2
      /\ f.slots = e.slots /\ f.first = e.first
  BY DEF Queued, SameFlags, Stream
<1>2. /\ Len(a) \in Nat /\ Len(t) = Len(a) + 1 /\ t[Len(a) + 1] = c /\ \A k \in 1..Len(a) : t[k] = a[k]
  BY <1>1 DEF Longer
<1> HIDE DEF t
<1>3. \A k \in 1..Len(t) : k \in 1..Len(a) \/ k = Len(a) + 1
  BY <1>2
<1>4. QueuesRight(m, f, "drain", g)
  <2>1. MainOps("drain") = {"copy", "wait"}
    BY DEF MainOps
  <2>2. \A k \in 1..Len(a) : a[k].op \in {"copy", "wait"}
    BY <2>1 DEF Draining, QueuesRight
  <2>3. \A k \in 1..Len(t) : t[k].op \in {"copy", "wait"}
    BY <1>2, <1>3, <2>2
  <2>4. QED
    BY <1>1, <2>1, <2>3 DEF Draining, QueuesRight, t
<1> HIDE DEF a, b
<1>5. CopiesFresh(m, f, g)
  <2>1. \A k \in 1..Len(a) : a[k].op = "copy" =>
          \A i \in a[k].slots :
            /\ a[k].of[i] = D(i)
            /\ \/ Filled(m, b, i, D(i))
               \/ \E j \in 1..(k - 1) : a[j].op = "wait"
                    /\ Promised(m, b, i, D(i), [op |-> "record", ev |-> a[j].ev, n |-> a[j].n])
    BY DEF Draining, CopiesFresh, a, b
  <2>2. c.op = "copy" => \A i \in c.slots : c.of[i] = D(i) /\ Seen(m, b, a, i, D(i))
    BY DEF SeenOf, a, b
  <2> HIDE DEF D
  <2>3. ASSUME NEW k \in 1..Len(t), t[k].op = "copy", NEW i \in t[k].slots
        PROVE  /\ t[k].of[i] = D(i)
               /\ \/ Filled(m, b, i, D(i))
                  \/ \E j \in 1..(k - 1) : t[j].op = "wait"
                       /\ Promised(m, b, i, D(i), [op |-> "record", ev |-> t[j].ev, n |-> t[j].n])
    <3>1. CASE k \in 1..Len(a)
      <4>1. t[k] = a[k] /\ \A j \in 1..(k - 1) : j \in 1..Len(a)
        BY <1>2, <3>1
      <4>2. \A j \in 1..(k - 1) : t[j] = a[j]
        BY <1>2, <4>1
      <4>3. /\ a[k].of[i] = D(i)
            /\ \/ Filled(m, b, i, D(i))
               \/ \E j \in 1..(k - 1) : a[j].op = "wait"
                    /\ Promised(m, b, i, D(i), [op |-> "record", ev |-> a[j].ev, n |-> a[j].n])
        BY <2>1, <2>3, <3>1, <4>1
      <4>4. CASE Filled(m, b, i, D(i))
        BY <4>1, <4>3, <4>4
      <4>5. CASE \E j \in 1..(k - 1) : a[j].op = "wait"
                   /\ Promised(m, b, i, D(i), [op |-> "record", ev |-> a[j].ev, n |-> a[j].n])
        <5>1. PICK j \in 1..(k - 1) : a[j].op = "wait"
                   /\ Promised(m, b, i, D(i), [op |-> "record", ev |-> a[j].ev, n |-> a[j].n])
          BY <4>5
        <5>2. t[j] = a[j]
          BY <4>2, <5>1
        <5>3. QED
          BY <4>1, <4>3, <5>1, <5>2
      <4>6. QED
        BY <4>3, <4>4, <4>5
    <3>2. CASE k = Len(a) + 1
      <4>1. t[k] = c /\ \A j \in 1..Len(a) : j \in 1..(k - 1) /\ t[j] = a[j]
        BY <1>2, <3>2
      <4>2. c.of[i] = D(i) /\ Seen(m, b, a, i, D(i))
        BY <2>2, <2>3, <4>1
      <4>3. QED
        BY <4>1, <4>2 DEF Seen, Awaits
    <3>3. QED
      BY <1>3, <3>1, <3>2
  <2>4. f.q["main"] = t /\ f.q["bak"] = b
    BY <1>1 DEF t
  <2>5. QED
    BY <2>3, <2>4 DEF CopiesFresh, D
<1>6. ASSUME NEW i \in Slot, SeenOf(m, e, i, g) PROVE SeenOf(m, f, i, g)
  <2>1. \A j \in 1..Len(a) : j \in 1..Len(t) /\ t[j] = a[j]
    BY <1>2
  <2>2. Seen(m, b, a, i, D(i))
    BY <1>6 DEF SeenOf, a, b
  <2> HIDE DEF D
  <2>3. Seen(m, b, t, i, D(i))
    BY <2>1, <2>2 DEF Seen
  <2>4. QED
    BY <1>1, <2>3 DEF SeenOf, t, D, b
<1>7. QED
  BY <1>1, <1>4, <1>5, <1>6 DEF Drains, Draining, b

\* A wait on the main stream: what the event promises is there behind it.
LEMMA DrainWait ==
  ASSUME NEW m, NEW e, NEW g, Draining(m, e, g), NEW v \in Event
  PROVE  LET f == Wait(e, v, "main")
         IN  /\ Drains(m, e, f, g) /\ f.side = e.side /\ f.side2 = e.side2 /\ f.count = e.count
             /\ \A i \in Slot : Promised(m, e.q["bak"], i, FreshDraft(g, i), LastOf(e, v)) => SeenOf(m, f, i, g)
<1> DEFINE f == Wait(e, v, "main")
           c == [op |-> "wait", ev |-> v, n |-> e.count[v]]
           t == f.q["main"]
<1>1. Queued(e, f, "main", c) /\ f.count = e.count
  BY WaitIs DEF Draining, Stream
<1>2. c.op = "wait" /\ Awaits(c) = LastOf(e, v)
  BY DEF Awaits, LastOf
<1> HIDE DEF f, c
<1>3. Drains(m, e, f, g)
  BY <1>1, <1>2, DrainsBy
<1>4. Longer(e.q["main"], t, c) /\ f.side = e.side /\ f.side2 = e.side2 /\ f.q["bak"] = e.q["bak"]
  BY <1>1 DEF Queued, SameFlags, Stream
<1>5. Len(t) \in 1..Len(t) /\ t[Len(t)] = c
  BY <1>4 DEF Longer
<1>6. ASSUME NEW i \in Slot, Promised(m, e.q["bak"], i, FreshDraft(g, i), LastOf(e, v)) PROVE SeenOf(m, f, i, g)
  BY <1>2, <1>4, <1>5, <1>6 DEF SeenOf, Seen
<1>7. QED
  BY <1>1, <1>3, <1>4, <1>6 DEF f

LEMMA DrainCopy ==
  ASSUME NEW m, NEW e, Draining(m, e, gen), gen \in 0..MaxGen, NEW S \in SUBSET Slot, \A i \in S : SeenOf(m, e, i, gen)
  PROVE  LET f == CopySlots(e, S)
         IN  Drains(m, e, f, gen) /\ f.side = e.side /\ f.side2 = e.side2 /\ f.count = e.count
<1> DEFINE f == CopySlots(e, S)
           c == [op |-> "copy", slots |-> S, of |-> SlotDraft]
<1>1. c \in Command /\ c.op = "copy" /\ \A i \in c.slots : c.of[i] = FreshDraft(gen, i) /\ SeenOf(m, e, i, gen)
  BY DraftType, SlotDraftIs DEF Command
<1>2. f = Enqueue(e, "main", c)
  BY DEF CopySlots
<1> HIDE DEF c
<1>3. Queued(e, f, "main", c) /\ f.count = e.count
  BY <1>1, <1>2, EnqueueIs DEF Draining, Stream
<1> HIDE DEF f
<1>4. Drains(m, e, f, gen)
  BY <1>1, <1>3, DrainsBy
<1>5. QED
  BY <1>3, <1>4 DEF Queued, SameFlags, f

LEMMA DrainsSame ==
  ASSUME NEW m, NEW e, NEW f, NEW g, Draining(m, e, g), f \in Engines, f.q = e.q, f.first = e.first, f.side2 = e.side2,
         f.slots = e.slots
  PROVE  Drains(m, e, f, g)
<1>1. QueuesRight(m, f, "drain", g) /\ CopiesFresh(m, f, g)
  BY DEF Draining, QueuesRight, CopiesFresh
<1>2. Draining(m, f, g)
  BY <1>1 DEF Draining
<1>3. QED
  BY <1>2 DEF Drains, SeenOf

\* The slots from the third on are there once the side stream is joined, if it must be.
LEMMA DrainJoin ==
  ASSUME NEW m, NEW e, NEW h, NEW g, Draining(m, e, g), e.slots \in 2..4, SlotsReady(m, e, g), Drains(m, e, h, g),
         h.side = e.side, h.count = e.count
  PROVE  LET f == JoinSide(h)
         IN  Drains(m, h, f, g) /\ \A i \in 3..e.slots : SeenOf(m, f, i, g)
<1> DEFINE b == e.q["bak"]
           no == FALSE
           k == Wait(h, "side", "main")
           f == JoinSide(h)
           D(i) == FreshDraft(g, i)
<1>1. \A i : ~Arriving(m, b, e.q["main"], i, D(i))
  <2>1. \A j \in 1..Len(e.q["main"]) : e.q["main"][j].op \in {"copy", "wait"}
    BY DEF Draining, QueuesRight, MainOps
  <2>2. NoFill(e.q["main"])
    BY <2>1 DEF NoFill
  <2>3. QED
    BY <2>2, NoneArrives
<1>2. /\ e.side => \A i \in 3..e.slots : Promised(m, b, i, D(i), LastOf(e, "side"))
      /\ ~e.side => \A i \in 3..e.slots : Filled(m, b, i, D(i))
  BY <1>1 DEF SlotsReady
<1>3. \A i \in 3..e.slots : i \in Slot
  BY DEF Slot
<1>4. Draining(m, h, g) /\ h \in Engines /\ h.q["bak"] = b
  BY DEF Drains, Draining
<1>5. CASE h.side
  <2>1. f = [k EXCEPT !.side = no]
    BY <1>5 DEF JoinSide
  <2>2. no \in BOOLEAN
    OBVIOUS
  <2>3. LastOf(h, "side") = LastOf(e, "side")
    BY DEF LastOf
  <2>4. /\ Drains(m, h, k, g) /\ k.side2 = h.side2
        /\ \A i \in Slot : Promised(m, h.q["bak"], i, FreshDraft(g, i), LastOf(h, "side")) => SeenOf(m, k, i, g)
    BY <1>4, DrainWait DEF Event
  <2> HIDE DEF f, k, no
  <2>5. k \in Engines /\ Draining(m, k, g)
    BY <2>4 DEF Drains, Draining
  <2>6. f \in Engines /\ f.q = k.q /\ f.first = k.first /\ f.side2 = k.side2 /\ f.slots = k.slots
    BY <2>1, <2>2, <2>5 DEF Engines
  <2>7. Drains(m, k, f, g)
    BY <2>5, <2>6, DrainsSame
  <2>8. Drains(m, h, f, g)
    BY <2>4, <2>7, DrainsTrans
  <2>9. \A i \in 3..e.slots : SeenOf(m, f, i, g)
    BY <1>2, <1>3, <1>4, <1>5, <2>3, <2>4, <2>7 DEF Drains
  <2>10. QED
    BY <2>8, <2>9 DEF f
<1>6. CASE ~h.side
  <2>1. f = h
    BY <1>6 DEF JoinSide
  <2>2. \A i \in 3..e.slots : SeenOf(m, h, i, g)
    BY <1>2, <1>4, <1>6 DEF SeenOf, Seen
  <2>3. Drains(m, h, h, g)
    BY <1>4, DrainsSame
  <2>4. QED
    BY <2>1, <2>2, <2>3
<1>7. QED
  BY <1>5, <1>6

\* The second slot is there behind its event.
LEMMA DrainSecond ==
  ASSUME NEW m, NEW e, NEW g, Draining(m, e, g), e.slots \in 2..4, SlotsReady(m, e, g)
  PROVE  LET f == Wait(e, "slot1", "main")
         IN  Drains(m, e, f, g) /\ f.side = e.side /\ f.side2 = e.side2 /\ f.count = e.count /\ SeenOf(m, f, 2, g)
<1> DEFINE b == e.q["bak"]
<1>1. ~Arriving(m, b, e.q["main"], 2, FreshDraft(g, 2))
  <2>1. \A j \in 1..Len(e.q["main"]) : e.q["main"][j].op \in {"copy", "wait"}
    BY DEF Draining, QueuesRight, MainOps
  <2>2. NoFill(e.q["main"])
    BY <2>1 DEF NoFill
  <2>3. QED
    BY <2>2, NoneArrives
<1>2. Promised(m, b, 2, FreshDraft(g, 2), LastOf(e, "slot1"))
  BY <1>1 DEF SlotsReady
<1>3. QED
  BY <1>2, DrainWait DEF Event, Slot

LEMMA DrainAll ==
  ASSUME NEW m, NEW e, gen \in 0..MaxGen, Draining(m, e, gen), ~e.side2, e.slots = 4, SlotsReady(m, e, gen)
  PROVE  Draining(m, DrainTwelve(e), gen)
<1> DEFINE h == Wait(e, "slot1", "main")
           k == JoinSide(h)
           f == CopySlots(k, 2..4)
<1>1. Drains(m, e, h, gen) /\ h.side = e.side /\ h.side2 = e.side2 /\ h.count = e.count /\ SeenOf(m, h, 2, gen)
  BY DrainSecond
<1>2. DrainTwelve(e) = f
  BY <1>1 DEF DrainTwelve, JoinSide2
<1> HIDE DEF h
<1>3. Drains(m, h, k, gen) /\ \A i \in 3..e.slots : SeenOf(m, k, i, gen)
  BY <1>1, DrainJoin
<1>4. SeenOf(m, k, 2, gen)
  BY <1>1, <1>3 DEF Drains, Slot
<1> HIDE DEF k
<1>5. \A i \in 2..4 : i = 2 \/ i \in 3..e.slots
  OBVIOUS
<1>6. 2..4 \in SUBSET Slot
  BY DEF Slot
<1>7. Drains(m, k, f, gen)
  BY <1>3, <1>4, <1>5, <1>6, DrainCopy DEF Drains
<1>8. QED
  BY <1>2, <1>7 DEF Drains

LEMMA DrainEach ==
  ASSUME NEW m, NEW e, gen \in 0..MaxGen, Draining(m, e, gen), ~e.side2, e.slots \in 2..4, SlotsReady(m, e, gen)
  PROVE  Draining(m, DrainOneByOne(e), gen)
<1> DEFINE h == Wait(e, "slot1", "main")
           two == CopySlots(h, {2})
           k == JoinSide(two)
           three == CopySlots(k, {3})
           four == CopySlots(three, {4})
<1>1. Drains(m, e, h, gen) /\ h.side = e.side /\ h.side2 = e.side2 /\ h.count = e.count /\ SeenOf(m, h, 2, gen)
  BY DrainSecond
<1> HIDE DEF h
<1>2. Drains(m, h, two, gen) /\ two.side = e.side /\ two.side2 = e.side2 /\ two.count = e.count
  <2>1. {2} \in SUBSET Slot /\ \A i \in {2} : SeenOf(m, h, i, gen)
    BY <1>1 DEF Slot
  <2>2. QED
    BY <1>1, <2>1, DrainCopy DEF Drains
<1>3. DrainOneByOne(e) =
        CASE e.slots = 2 -> two [] e.slots = 3 -> three [] e.slots = 4 -> four
  BY <1>2 DEF DrainOneByOne, h
<1> HIDE DEF two
<1>4. Drains(m, two, k, gen) /\ \A i \in 3..e.slots : SeenOf(m, k, i, gen)
  <2>1. Drains(m, e, two, gen)
    BY <1>1, <1>2, DrainsTrans
  <2>2. QED
    BY <1>2, <2>1, DrainJoin
<1> HIDE DEF k
<1>5. CASE e.slots = 2
  BY <1>2, <1>3, <1>5 DEF Drains
<1>6. ASSUME e.slots \in {3, 4} PROVE Drains(m, k, three, gen)
  <2>1. {3} \in SUBSET Slot /\ \A i \in {3} : i \in 3..e.slots
    BY <1>6 DEF Slot
  <2>2. QED
    BY <1>4, <2>1, DrainCopy DEF Drains
<1>7. CASE e.slots = 3
  BY <1>3, <1>6, <1>7 DEF Drains
<1>8. CASE e.slots = 4
  <2>1. Drains(m, k, three, gen)
    BY <1>6, <1>8
  <2>2. {4} \in SUBSET Slot /\ \A i \in {4} : i \in 3..e.slots /\ i \in Slot
    BY <1>8 DEF Slot
  <2>3. \A i \in {4} : SeenOf(m, three, i, gen)
    BY <1>4, <2>1, <2>2 DEF Drains
  <2> HIDE DEF three
  <2>4. Drains(m, three, four, gen)
    BY <2>1, <2>2, <2>3, DrainCopy DEF Drains
  <2>5. QED
    BY <1>3, <1>8, <2>4 DEF Drains
<1>9. QED
  BY <1>5, <1>7, <1>8

\* Slots 3 and 4, kicked when the drain begins.
LEMMA DrainKick ==
  ASSUME NEW m, NEW e, gen \in 0..MaxGen, Draining(m, e, gen), OneGraph(e), e.slots >= 2, SlotsReady(m, e, gen)
  PROVE  LET f == KickExtra(e)
         IN  Draining(m, f, gen) /\ f.slots >= 2 /\ SlotsReady(m, f, gen)
<1> DEFINE f == KickExtra(e)
           a == e.q["main"]
           b == e.q["bak"]
           c == f.q["bak"]
           D(i) == FreshDraft(gen, i)
<1>1. e \in Engines /\ \A j \in 1..Len(a) : a[j].op \in {"copy", "wait"}
  BY DEF Draining, QueuesRight, MainOps
<1>2. NoFill(a)
  BY <1>1 DEF NoFill
<1>3. Sided(m, e, f, gen) /\ SlotsReady(m, f, gen) /\ f.slots >= 2
  BY <1>1, <1>2, ExtraPrepares
<1> HIDE DEF f
<1>4. /\ f \in Engines /\ f.first = e.first /\ f.side2 = e.side2 /\ f.q["main"] = a /\ f.q["bak2"] = e.q["bak2"]
      /\ Grows(m, b, c, gen) /\ \A k \in 1..Len(c) : k <= Len(b) \/ c[k].op \in SideOps
      /\ Len(b) \in Nat /\ \A k \in 1..Len(b) : c[k] = b[k]
  BY <1>3 DEF Sided, SameFlags, Grows
<1>5. QueuesRight(m, f, "drain", gen)
  <2>1. \A k \in 1..Len(b) : b[k].op \in SideOps
    BY DEF Draining, QueuesRight
  <2>2. \A k \in 1..Len(c) : c[k].op \in SideOps
    BY <1>4, <2>1
  <2>3. QED
    BY <1>4, <2>2 DEF Draining, QueuesRight
<1>6. CopiesFresh(m, f, gen)
  <2>1. ASSUME NEW i \in Slot
        PROVE  /\ Filled(m, b, i, D(i)) => Filled(m, c, i, D(i))
               /\ \A r : Promised(m, b, i, D(i), r) => Promised(m, c, i, D(i), r)
    BY <1>4, GrowsKeeps
  <2>2. \A k \in 1..Len(a) : a[k].op = "copy" => \A i \in a[k].slots : i \in Slot
    <3>1. a \in Seq(Command)
      BY <1>1, QueueParts DEF Stream
    <3>2. ASSUME NEW k \in 1..Len(a), a[k].op = "copy" PROVE a[k].slots \subseteq Slot
      BY <3>1, <3>2, CopiedSlots
    <3>3. QED
      BY <3>2
  <2> HIDE DEF D, a, b, c
  <2>3. \A k \in 1..Len(a) : a[k].op = "copy" =>
          \A i \in a[k].slots :
            /\ a[k].of[i] = D(i)
            /\ \/ Filled(m, b, i, D(i))
               \/ \E j \in 1..(k - 1) : a[j].op = "wait"
                    /\ Promised(m, b, i, D(i), [op |-> "record", ev |-> a[j].ev, n |-> a[j].n])
    BY DEF Draining, CopiesFresh, a, b, D
  <2>4. \A k \in 1..Len(a) : a[k].op = "copy" =>
          \A i \in a[k].slots :
            /\ a[k].of[i] = D(i)
            /\ \/ Filled(m, c, i, D(i))
               \/ \E j \in 1..(k - 1) : a[j].op = "wait"
                    /\ Promised(m, c, i, D(i), [op |-> "record", ev |-> a[j].ev, n |-> a[j].n])
    BY <2>1, <2>2, <2>3
  <2>5. f.q["main"] = a /\ f.q["bak"] = c
    BY <1>4 DEF c
  <2>6. QED
    BY <2>4, <2>5 DEF CopiesFresh, D
<1>7. QED
  BY <1>3, <1>4, <1>5, <1>6 DEF Draining, f

LEMMA DrainFresh ==
  ASSUME IInv, OneSide, StreamInv(mem, eng, pc, gen), Drain
  PROVE  StreamInv(mem', eng', pc', gen')
<1> DEFINE e == IF eng.slots < 4 /\ eng.clean THEN KickExtra(eng) ELSE eng
<1>1. /\ eng \in Engines /\ gen \in 0..MaxGen /\ pc = "drain" /\ eng.slots >= 2
      /\ pc' \in {"drained", "drained all"} /\ UNCHANGED <<mem, gen>>
  BY DEF IInv, At, Counted, Drain
<1>2. Draining(mem, eng, gen) /\ SlotsReady(mem, eng, gen) /\ Matched(mem)
  BY <1>1 DEF StreamInv, KindsRight, InCall, Pending, Draining
<1>3. OneGraph(eng)
  BY DEF OneGraph, OneSide
<1>4. Draining(mem, e, gen) /\ SlotsReady(mem, e, gen) /\ e.slots >= 2
  BY <1>1, <1>2, <1>3, DrainKick
<1>5. \/ e.slots = 4 /\ eng' = DrainTwelve(e)
      \/ eng' = DrainOneByOne(e)
  BY DEF Drain
<1> HIDE DEF e
<1>6. e.slots \in 2..4 /\ ~e.side2
  BY <1>4, QueueParts DEF Draining, QueuesRight
<1>7. Draining(mem, eng', gen)
  BY <1>1, <1>4, <1>5, <1>6, DrainAll, DrainEach
<1>8. QueuesRight(mem, eng', pc', gen)
  BY <1>1, <1>7 DEF Draining, QueuesRight, MainOps
<1>9. TakesFresh(mem, eng')
  BY <1>7 DEF Draining, QueuesRight, MainOps, TakesFresh
<1>10. ~Pending(eng', pc')
  BY <1>1 DEF Pending, Prefilling
<1>11. KindsRight(mem, eng', pc', gen)
  BY <1>1, <1>7, <1>10 DEF KindsRight, Draining
<1>12. QED
  BY <1>1, <1>2, <1>7, <1>8, <1>9, <1>10, <1>11 DEF StreamInv, Draining

-----------------------------------------------------------------------------
(***************************************************************************)
(* The graphs that were captured stay                                      *)
(***************************************************************************)
LEMMA KickGraphs ==
  ASSUME IInv, JoinAndKick \/ FirstCall
  PROVE  eng'.graphs = eng.graphs
<1>1. Counted(eng) /\ eng \in Engines /\ gen \in 0..MaxGen
  BY DEF IInv, At, Counted
<1>2. CASE JoinAndKick
  <2> DEFINE no == FALSE
             e == [eng EXCEPT !.side = no, !.side2 = no]
  <2>1. eng' = e \/ eng' = Kick(e)
    BY <1>2 DEF JoinAndKick
  <2>2. no \in BOOLEAN
    OBVIOUS
  <2> HIDE DEF no
  <2>3. e \in Engines /\ e.slots = eng.slots /\ e.launched = eng.launched /\ e.graphs = eng.graphs
    BY <1>1, <2>2 DEF Engines
  <2> HIDE DEF e
  <2>4. Counted(e)
    BY <1>1, <2>3 DEF Counted
  <2>5. QED
    BY <1>1, <2>1, <2>3, <2>4, KickAdvances DEF Advances
<1>3. CASE FirstCall
  <2> DEFINE yes == TRUE
             e == [eng EXCEPT !.first = yes]
  <2>1. eng' = e \/ eng' = KickH4(e)
    BY <1>3 DEF FirstCall
  <2>2. yes \in BOOLEAN
    OBVIOUS
  <2> HIDE DEF yes
  <2>3. e \in Engines /\ e.slots = eng.slots /\ e.launched = eng.launched /\ e.graphs = eng.graphs
    BY <1>1, <2>2 DEF Engines
  <2> HIDE DEF e
  <2>4. Counted(e)
    BY <1>1, <2>3 DEF Counted
  <2>5. QED
    BY <1>1, <2>1, <2>3, <2>4, KickH4Advances DEF Advances
<1>4. QED
  BY <1>2, <1>3

LEMMA DrainGraphs ==
  ASSUME IInv, Drain
  PROVE  eng'.graphs = eng.graphs
<1> DEFINE e == IF eng.slots < 4 /\ eng.clean THEN KickExtra(eng) ELSE eng
<1>1. Counted(eng) /\ gen \in 0..MaxGen /\ eng.slots \in 2..4
  <2>1. Counted(eng) /\ gen \in 0..MaxGen /\ eng.slots >= 2
    BY DEF IInv, At, Drain
  <2>2. eng.slots \in 0..4
    BY <2>1, QueueParts DEF Counted
  <2>3. QED
    BY <2>1, <2>2
<1>2. eng' = DrainTwelve(e) \/ eng' = DrainOneByOne(e)
  BY DEF Drain
<1>3. Counted(e) /\ e.graphs = eng.graphs /\ e.slots >= eng.slots
  BY <1>1, KickExtraAdvances DEF Advances
<1> HIDE DEF e
<1>4. e \in Engines /\ e.slots \in 2..4
  BY <1>1, <1>3, QueueParts DEF Counted
<1>5. QED
  BY <1>1, <1>2, <1>3, <1>4, TwelveQuiet, OneByOneQuiet DEF Quiet

LEMMA MainGraphs ==
  ASSUME IInv, (\E how \in {"tokens", "graph", "eager"} : Prefill(how)) \/ KickStream12 \/ UseSlots
  PROVE  eng'.graphs = eng.graphs
<1>1. eng \in Engines /\ gen \in 0..MaxGen
  BY DEF IInv, At, Counted
<1>2. ASSUME NEW how \in {"tokens", "graph", "eager"}, Prefill(how) PROVE eng'.graphs = eng.graphs
  <2> DEFINE of == [i \in Slot |-> Nothing]
             x == [op |-> "fill", slots |-> Slot, of |-> of]
             f == Enqueue(eng, "main", x)
             no == FALSE
             z == 0
             nil == {}
  <2>1. eng' = [f EXCEPT !.kind = z, !.slots = z, !.stream12 = no, !.streamed = no,
                         !.first = no, !.windows = z, !.launched = nil]
    BY <1>2 DEF Prefill
  <2>2. x \in Command
    <3>1. of \in [Slot -> Draft]
      BY <1>1, DraftType
    <3> HIDE DEF of
    <3>2. QED
      BY <3>1 DEF Command
  <2> HIDE DEF x
  <2>3. Quiet(eng, f)
    BY <1>1, <2>2, EnqueueQuiet DEF Stream
  <2> HIDE DEF f, no, z, nil
  <2>4. QED
    BY <2>1, <2>3 DEF Quiet, Engines
<1>3. CASE KickStream12
  <2> DEFINE no == FALSE
             e == [eng EXCEPT !.side = no]
             k == [op |-> "fill", slots |-> 2..4, of |-> SlotDraft]
             f == Enqueue(e, "main", k)
             g == Record(f, "slot1", "main")
             h == Record(g, "side", "main")
             yes == TRUE
             four == 4
             kind == 3
             all == h.launched \cup 2..4
  <2>1. \/ eng' = e
        \/ eng' = [h EXCEPT !.side = yes, !.stream12 = yes, !.slots = four, !.kind = kind, !.launched = all]
    BY <1>3 DEF KickStream12
  <2>2. no \in BOOLEAN
    OBVIOUS
  <2> HIDE DEF no, yes, four, kind
  <2>3. e \in Engines /\ e.graphs = eng.graphs
    BY <1>1, <2>2 DEF Engines
  <2> HIDE DEF e
  <2>4. k \in Command
    BY <1>1, DraftType DEF Command, Slot
  <2> HIDE DEF k
  <2>5. Quiet(e, f)
    BY <2>3, <2>4, EnqueueQuiet DEF Stream
  <2> HIDE DEF f
  <2>6. Quiet(f, g)
    BY <2>5, RecordQuiet DEF Quiet, Stream, Event
  <2> HIDE DEF g
  <2>7. Quiet(g, h)
    BY <2>6, RecordQuiet DEF Quiet, Stream, Event
  <2> HIDE DEF h, all
  <2>8. h \in Engines /\ h.graphs = eng.graphs
    BY <2>3, <2>5, <2>6, <2>7 DEF Quiet
  <2>9. QED
    BY <2>1, <2>3, <2>8 DEF Engines
<1>4. CASE UseSlots
  <2> DEFINE v == IF eng.side THEN "side" ELSE "slot0"
             e == Wait(eng, v, "main")
             f == CopySlots(e, {1})
             z == 0
  <2>1. eng' = [f EXCEPT !.kind = z]
    BY <1>4 DEF UseSlots
  <2>2. v \in Event
    BY DEF Event
  <2> HIDE DEF v
  <2>3. Quiet(eng, e)
    BY <1>1, <2>2, WaitQuiet DEF Stream
  <2> HIDE DEF e
  <2>4. Quiet(e, f)
    BY <1>1, <2>3, CopyQuiet DEF Quiet, Slot
  <2> HIDE DEF f, z
  <2>5. QED
    BY <2>1, <2>3, <2>4 DEF Quiet, Engines
<1>5. QED
  BY <1>2, <1>3, <1>4

LEMMA TakeGraphs ==
  ASSUME IInv, UseDrafts \/ AwaitNext
  PROVE  eng'.graphs = eng.graphs
<1>1. eng \in Engines /\ gen \in 0..MaxGen
  BY DEF IInv, At, Counted
<1> DEFINE no == FALSE
           z == 0
           d == SlotDraft[1]
           w == <<gen, "mid", eng.windows>>
           f == TakeDrafts(eng, d)
           h == TakeDrafts(eng, w)
<1>2. UseDrafts => eng' = [f EXCEPT !.side = no, !.kind = z]
  BY DEF UseDrafts
<1>3. AwaitNext => eng' = [h EXCEPT !.side = no]
  BY DEF AwaitNext
<1>4. d \in Draft /\ w \in Draft
  <2>1. d \in Draft
    BY <1>1, DraftType DEF Slot
  <2>2. w \in Draft
    BY <1>1 DEF Draft, Names, Engines
  <2>3. QED
    BY <2>1, <2>2
<1> HIDE DEF d, w, no, z
<1>5. Quiet(eng, f) /\ Quiet(eng, h)
  BY <1>1, <1>4, TakeQuiet
<1> HIDE DEF f, h
<1>6. QED
  BY <1>2, <1>3, <1>5 DEF Quiet, Engines

LEMMA LaunchGraphs ==
  ASSUME IInv, Align \/ LaunchNext
  PROVE  eng'.graphs = eng.graphs
<1>1. eng \in Engines /\ gen \in 0..MaxGen
  BY DEF IInv, At, Counted
<1> DEFINE s == <<gen, "seed", 0>>
           w == <<gen, "mid", eng.windows>>
           e == Record(eng, "side", "main")
           h == Wait(e, "side", "bak")
           f == LaunchSide(h, "bak", s)
           kind == 2
<1>2. Align => eng' = [f EXCEPT !.kind = kind]
  BY DEF Align
<1>3. LaunchNext => eng' = LaunchSide(eng, "bak", w)
  BY DEF LaunchNext
<1>4. s \in Draft /\ w \in Draft
  BY <1>1 DEF Draft, Names, Engines
<1> HIDE DEF s, w, kind
<1>5. Quiet(eng, e)
  BY <1>1, RecordQuiet DEF Stream, Event
<1> HIDE DEF e
<1>6. Quiet(e, h)
  BY <1>5, WaitQuiet DEF Quiet, Stream, Event
<1> HIDE DEF h
<1>7. Quiet(h, f)
  BY <1>4, <1>6, LaunchQuiet DEF Quiet
<1> HIDE DEF f
<1>8. LaunchNext => eng'.graphs = eng.graphs
  <2>1. Quiet(eng, LaunchSide(eng, "bak", w))
    BY <1>1, <1>4, LaunchQuiet
  <2>2. QED
    BY <1>3, <2>1 DEF Quiet
<1>9. QED
  BY <1>2, <1>5, <1>6, <1>7, <1>8 DEF Quiet, Engines

\* The steps that enqueue nothing.
LEMMA FlagGraphs ==
  ASSUME IInv, ThreeHold \/ TakeH4 \/ Settle \/ Aligned \/ Drained \/ Cycle \/ VerifyNext
  PROVE  eng'.graphs = eng.graphs
<1>1. eng \in Engines
  BY DEF IInv, At, Counted
<1>2. CASE ThreeHold \/ TakeH4
  BY <1>1, <1>2 DEF ThreeHold, TakeH4, Engines
<1>3. CASE Settle
  <2> DEFINE yes == pc = "streamed"
  <2>1. eng' = [eng EXCEPT !.streamed = yes]
    BY <1>3 DEF Settle
  <2> HIDE DEF yes
  <2>2. QED
    BY <1>1, <2>1 DEF Engines
<1>4. CASE Aligned
  BY <1>1, <1>4 DEF Aligned, Engines
<1>5. CASE Drained
  <2>1. PICK w \in 0..eng.slots : \E v \in {"zero", "other"} :
          eng' = [eng EXCEPT !.windows = w, !.have = IF pc = "drained" /\ w >= 2 THEN StashNext(@, v) ELSE @]
    BY <1>5 DEF Drained
  <2>2. PICK v \in {"zero", "other"} :
          eng' = [eng EXCEPT !.windows = w, !.have = IF pc = "drained" /\ w >= 2 THEN StashNext(@, v) ELSE @]
    BY <2>1
  <2> DEFINE have == IF pc = "drained" /\ w >= 2 THEN StashNext(eng.have, v) ELSE eng.have
  <2>3. eng' = [eng EXCEPT !.windows = w, !.have = have]
    BY <2>2
  <2> HIDE DEF have
  <2>4. QED
    BY <1>1, <2>3 DEF Engines
<1>6. CASE Cycle
  <2> DEFINE r == CASE ~Has(eng, "h31")            -> "h31"
                    [] eng.have["cont1"] # "zero"  -> "cont1"
                    [] OTHER                       -> "cont2"
             filled == [eng.have EXCEPT ![r] = "zero"]
             clean == eng.clean \/ (filled["cont1"] = "zero" /\ filled["cont2"] = "zero")
             yes == TRUE
  <2>1. StashGood(eng) \in {[eng EXCEPT !.clean = yes], [eng EXCEPT !.have = filled, !.clean = clean]}
    BY DEF StashGood
  <2> HIDE DEF filled, clean, yes
  <2>2. StashGood(eng).graphs = eng.graphs /\ DOMAIN StashGood(eng) = DOMAIN eng
    BY <1>1, <2>1 DEF Engines
  <2>3. CASE UNCHANGED eng
    BY <2>3
  <2>4. CASE \E e \in {eng, StashGood(eng)} : eng' = [e EXCEPT !.windows = @ + 1]
    <3>1. PICK e \in {eng, StashGood(eng)} : eng' = [e EXCEPT !.windows = @ + 1]
      BY <2>4
    <3>2. e.graphs = eng.graphs
      BY <2>2, <3>1
    <3>3. QED
      BY <3>1, <3>2
  <2>5. QED
    BY <1>6, <2>3, <2>4 DEF Cycle
<1>7. CASE VerifyNext
  <2>1. CASE UNCHANGED eng
    BY <2>1
  <2>2. CASE ~UNCHANGED eng
    <3>1. \E v \in {"zero", "other"} :
            LET have == StashNext(eng.have, v)
                w == eng.windows + 1
            IN  eng' = [eng EXCEPT !.windows = w, !.have = have,
                          !.clean = @ \/ (w = 4 /\ have["cont1"] = "zero" /\ have["cont2"] = "zero")]
      BY <1>7, <2>2 DEF VerifyNext
    <3>2. PICK v \in {"zero", "other"} :
            LET have == StashNext(eng.have, v)
                w == eng.windows + 1
            IN  eng' = [eng EXCEPT !.windows = w, !.have = have,
                          !.clean = @ \/ (w = 4 /\ have["cont1"] = "zero" /\ have["cont2"] = "zero")]
      BY <3>1
    <3> DEFINE have == StashNext(eng.have, v)
               w == eng.windows + 1
               clean == eng.clean \/ (w = 4 /\ have["cont1"] = "zero" /\ have["cont2"] = "zero")
    <3>3. eng' = [eng EXCEPT !.windows = w, !.have = have, !.clean = clean]
      BY <3>2
    <3> HIDE DEF have, w, clean
    <3>4. QED
      BY <1>1, <3>3 DEF Engines
  <2>3. QED
    BY <2>1, <2>2
<1>8. QED
  BY <1>2, <1>3, <1>4, <1>5, <1>6, <1>7

LEMMA GraphsKept ==
  ASSUME IInv, [Next]_vars
  PROVE  eng'.graphs = eng.graphs
<1>1. CASE ClientCall
  BY <1>1, FlagGraphs, KickGraphs, MainGraphs DEF ClientCall
<1>2. CASE HostStep
  BY <1>2, FlagGraphs, KickGraphs, MainGraphs, DrainGraphs, TakeGraphs, LaunchGraphs DEF HostStep
<1>3. CASE \E s \in Stream : Run(s)
  <2>1. PICK s \in Stream : Run(s)
    BY <1>3
  <2>2. eng \in Engines
    BY DEF IInv, At, Counted
  <2>3. QED
    BY <2>1, <2>2 DEF Run, Engines
<1>4. CASE UNCHANGED vars
  BY <1>4 DEF vars
<1>5. QED
  BY <1>1, <1>2, <1>3, <1>4 DEF Next

-----------------------------------------------------------------------------
(***************************************************************************)
(* Every step                                                              *)
(***************************************************************************)
LEMMA InitFresh == Init => SInv
<1> SUFFICES ASSUME Init PROVE StreamInv(mem, eng, pc, gen)
  BY DEF SInv
<1> DEFINE none == [r \in {"h4", "h31", "cont1", "cont2"} |-> "none"]
           q0 == [s \in Stream |-> <<>>]
           n0 == [v \in Event |-> 0]
           no == FALSE
           z == 0
           nil == {}
<1>1. PICK g \in Builds :
        eng = [graphs |-> g, have |-> none, clean |-> no, side |-> no, side2 |-> no, kind |-> z, slots |-> z,
               stream12 |-> no, streamed |-> no, first |-> no, windows |-> z,
               launched |-> nil, q |-> q0, count |-> n0]
  BY DEF Init
<1>2. q0["main"] = <<>> /\ q0["bak"] = <<>> /\ q0["bak2"] = <<>> /\ ~no
  BY DEF Stream
<1> HIDE DEF none, q0, n0, no, nil
<1>3. eng.q["main"] = <<>> /\ eng.q["bak"] = <<>> /\ eng.q["bak2"] = <<>> /\ ~eng.side2 /\ eng.slots = 0 /\ eng.kind = 0
  BY <1>1, <1>2
<1>4. pc = "idle" /\ mem.copied = {} /\ DOMAIN mem.drafts = {"bak", "bak2"}
  BY DEF Init
<1>5. (\A k : ~(k \in 1..Len(eng.q["main"]))) /\ \A k : ~(k \in 1..Len(eng.q["bak"]))
  BY <1>3
<1>6. QueuesRight(mem, eng, pc, gen)
  BY <1>3, <1>4, <1>5 DEF QueuesRight
<1>7. CopiesFresh(mem, eng, gen) /\ TakesFresh(mem, eng)
  BY <1>5 DEF CopiesFresh, TakesFresh
<1>8. SlotsReady(mem, eng, gen)
  BY <1>3 DEF SlotsReady
<1>9. KindsRight(mem, eng, pc, gen)
  <2>1. pc \notin InCall
    BY <1>4 DEF InCall, Windows
  <2>2. QED
    BY <1>3, <1>4, <2>1 DEF KindsRight
<1>10. Matched(mem)
  BY <1>4 DEF Matched
<1>11. QED
  BY <1>6, <1>7, <1>8, <1>9, <1>10 DEF StreamInv

LEMMA NextFresh ==
  ASSUME IInv, SInv, [Next]_vars
  PROVE  SInv'
<1> SUFFICES ASSUME OneSide' PROVE StreamInv(mem', eng', pc', gen')
  BY DEF SInv
<1>1. OneSide
  BY GraphsKept DEF OneSide
<1>2. StreamInv(mem, eng, pc, gen)
  BY <1>1 DEF SInv
<1>3. CASE ClientCall
  BY <1>1, <1>2, <1>3, ThreeHoldFresh, TakeH4Fresh, FirstCallFresh, PrefillFresh DEF ClientCall
<1>4. CASE HostStep
  BY <1>1, <1>2, <1>4, JoinFresh, KickStream12Fresh, SettleFresh, UseSlotsFresh, UseDraftsFresh, AlignFresh,
     AlignedFresh, DrainFresh, DrainedFresh, CycleFresh, LaunchNextFresh, AwaitNextFresh, VerifyNextFresh DEF HostStep
<1>5. CASE \E s \in Stream : Run(s)
  BY <1>2, <1>5, RunFresh
<1>6. CASE UNCHANGED vars
  <2>1. mem' = mem /\ eng' = eng /\ pc' = pc /\ gen' = gen
    BY <1>6 DEF vars
  <2>2. QED
    BY <1>2, <2>1
<1>7. QED
  BY <1>3, <1>4, <1>5, <1>6 DEF Next

\* "Wait THIS generate's stash" (cuda_engine.cu:15310): on an engine with one side
\* stream, for every set of its other graphs, every number of prefills and every
\* order in which the streams run, a window is verified with the tokens that were
\* drafted for it, since this prefill.
THEOREM FreshWindows == Spec => []WindowsAreFresh
<1>1. Init => SInv
  BY InitFresh
<1>2. IInv /\ SInv /\ [Next]_vars => SInv'
  BY NextFresh
<1>3. SInv => WindowsAreFresh
  BY DEF SInv, StreamInv, Matched, WindowsAreFresh
<1>4. QED
  BY <1>1, <1>2, <1>3, Invariance, PTL DEF Spec
=============================================================================
