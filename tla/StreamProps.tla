----------------------------- MODULE StreamProps -----------------------------
(***************************************************************************)
(* What must hold of the drafts that are prepared on side streams.          *)
(***************************************************************************)
EXTENDS SideStreams

TypeOK ==
  /\ eng.graphs \subseteq AllGraphs
  /\ \A r \in DOMAIN eng.have : eng.have[r] \in {"none", "other", "zero"}
  /\ {eng.clean, eng.side, eng.side2, eng.stream12, eng.streamed, eng.first} \subseteq BOOLEAN
  /\ eng.kind \in 0..3 /\ eng.slots \in 0..4 /\ eng.windows \in 0..4
  /\ gen \in 0..MaxGen /\ DOMAIN mem.slot = Slot

\* "Timed draft slots must equal MTP kernel launches" (mtp_live_draft.h): the slots
\* that are counted are those for which this prefill's generation has launched a
\* draft, in order.
SlotsAreLaunched == eng.launched = 1..eng.slots

\* "Wait THIS generate's stash" (cuda_engine.cu:15310): on an engine with one side
\* stream, whatever order the streams run in, the tokens the main stream copies to
\* verify them are the ones drafted for that window, since this prefill.  With two
\* side streams the event the host waits for is recorded before the copy into the
\* slot, and without the chain of four the main stream may record it: then a window
\* can be copied before its slot is filled.
OneSide == eng.graphs \cap {"rec4", "rec4 b2", "hin b2"} = {"rec4"}
WindowsAreFresh == OneSide => \A c \in mem.copied : c[1] = c[2]
=============================================================================
