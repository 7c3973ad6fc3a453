------------------------------ MODULE MtpEngine ------------------------------
(***************************************************************************)
(* The engine with an MTP head on the device: mtp_spec2 and mtp_spec4 of   *)
(* src/src/kernels/cuda/cuda_engine.cu.  The head drafts tokens that the   *)
(* graphs of CudaEngine verify; it reads residuals that earlier calls have *)
(* stashed, on streams of its own, so a draft is any token.  What matters  *)
(* is what the engine is left with when drafts fail.                       *)
(*                                                                         *)
(* A call may verify several windows of four, each from greedy() after the *)
(* one before.  Here each is a step of its own, with what it adds to the   *)
(* tokens the call returns.  A window that holds in part is returned only  *)
(* where the code does return it: see MtpSpec2, and the paths that do not. *)
(***************************************************************************)
EXTENDS CudaEngine

CONSTANTS
  Paths,   \* what an instance lets happen, a subset of AllPaths
  Short    \* bound on the rows of an instance that are filled but by windows of four

\* What a step can come to, and how many tokens the head drafts for it.
DraftCount ==
  [one |-> 0, fused |-> 1, three |-> 3, four |-> 3,
   again |-> 3, lost |-> 3, retry |-> 3, drain2 |-> 7, drain3 |-> 11, drain4 |-> 15]

\* The paths after which the engine and the tokens it returned still agree.
GoodPaths == {"one", "fused", "three", "four"}

\* unsaved: fused also on an engine without a snapshot.  mixed: spec_verify with
\* a caller's drafts after windows.
AllPaths == DOMAIN DraftCount \cup {"unsaved", "mixed"}

ASSUME MtpAssumption == Paths \subseteq AllPaths /\ Short \in Nat

\* The graph of drafting and verifying two.  Without a snapshot a draft that
\* fails is not taken back, and the caller is told that nothing was done.
Fused(e, toks) ==
  IF toks[2] = Best(e, toks, 1) THEN Hit(e, toks, 2)
  ELSE IF e.snap THEN [e |-> KeepFirst(e, toks, 2), n |-> 1]
  ELSE [e |-> Launch(e, toks, 2), n |-> 0]

\* What d_toks_ holds is kept as long as a verify may read it.
Leave(e, flag, toks) ==
  [e EXCEPT !.onDev = flag, !.toks = IF flag /\ "mixed" \in Paths THEN toks ELSE <<>>]

\* spec_verify of T tokens that were drafted on the device: the flag is set, and
\* only a T=4 verify that holds for two or three tokens clears it again.
Window(e, toks, T) ==
  LET v == SpecVerify([e EXCEPT !.onDev = TRUE, !.toks = toks], SubSeq(toks, 1, T))
  IN  [e |-> Leave(v.e, ~(T = 4 /\ v.n = 2), toks), n |-> v.n]

\* What becomes of v, the window of four from t0 = toks[1].
\* four: its tokens are returned.
\* lost: they are not.  mtp_live_continue counts the window of mtp_t4_from_h31
\* only in full, mtp_harvest_more_good_residuals none of its own.
\* again: the first call after a prefill.  Where its window does not hold in
\* full, what held has been consumed, and mtp_spec2 goes on to other ways of
\* drafting after t0, which feed it again (here the graph of two).
\* retry: mtp_spec4 with a residual of an earlier verify.  Where the window does
\* not hold in full, t0 is verified again, alone.
AfterWindow(path, v, toks) ==
  CASE path = "lost"              -> [v EXCEPT !.n = 0]
    [] path = "four"  \/ (path \in {"again", "retry"} /\ v.n = 4) -> v
    [] path = "again" /\ v.n < 4 -> Fused(v.e, toks)
    [] path = "retry" /\ v.n < 4 -> [e |-> Decode(v.e, SubSeq(toks, 1, 1)), n |-> 1]

\* The windows of toks that hold: a token is compared with the one before it
\* only inside a window.
WindowHolds(e, toks, w) == \A i \in (4 * w - 3)..(4 * w - 1) : toks[i + 1] = Best(e, toks, i)

FullWindows(e, toks) ==
  Max({w \in 0..(Len(toks) \div 4) : \A u \in 1..w : WindowHolds(e, toks, u)})

\* mtp_drain_slots: the windows of all slots are launched one after the other,
\* then the results are walked up to the first window that does not hold.
Drain(e, toks) ==
  LET full == FullWindows(e, toks)
      n == IF 4 * full = Len(toks) THEN Len(toks) ELSE 4 * full + 1
      drained == [Launch(e, toks, Len(toks)) EXCEPT !.pos = @ + n, !.last = Best(e, toks, n)]
  IN  [e |-> Leave(drained, TRUE, SubSeq(toks, Len(toks) - 3, Len(toks))), n |-> n]

Outcome(path, e, toks) ==
  CASE path = "one"   -> [e |-> Decode(e, toks), n |-> 1]
    [] path = "fused" -> LET v == Fused(e, toks)
                          IN  [v EXCEPT !.e = Leave(@, e.onDev, toks \o SubSeq(e.toks, 3, 4))]
    [] path = "three" -> Window(e, toks, 3)
    [] path \in {"four", "again", "lost", "retry"} ->
         AfterWindow(path, Window(e, toks, 4), toks)
    [] path \in {"drain2", "drain3", "drain4"} -> Drain(e, toks)

\* The step before was a window of four that held, or several: a call may go on.
HeldFour == call.op = "mtp" /\ call.ret >= 4

\* Which path is taken depends on what was captured and on what earlier calls
\* have stashed; any that the graphs allow may be.
Open(path) ==
  IF path = "fused" THEN 2 \in gpu.graphs /\ (gpu.snap \/ "unsaved" \in Paths)
  ELSE /\ 4 \in gpu.graphs
       /\ path = "again" => 2 \in gpu.graphs /\ call.op = "prefill"
       /\ path = "lost" => HeldFour
       /\ path = "retry" => gpu.last # 0

\* A step of mtp_spec2 from the token that greedy() gives: the head drafts d after
\* it.  A window of four that holds in part ends a call and is returned where
\* another one came before (mtp_live_continue, mtp_spec2 after its first window);
\* as the first of a call it takes the path "again" or "retry".
\* There is room for the tokens: neither Session nor the engine checks it.
MtpSpec2(path, d) ==
  LET toks == <<gpu.last>> \o d
      v == Outcome(path, gpu, toks)
  IN  /\ gpu.mtp /\ Open(path)
      /\ gpu.pos > 0 /\ gpu.pos + Len(toks) <= Ctx
      /\ path = "four" \/ gpu.pos + Len(toks) <= Short
      /\ path = "four" => v.n = 4 \/ HeldFour
      /\ gpu' = v.e
      /\ call' = [op |-> "mtp", toks |-> toks, ret |-> v.n, preds |-> SubSeq(toks, 1, v.n)]

MtpCall == \E path \in Paths \cap DOMAIN DraftCount :
             \E d \in [1..DraftCount[path] -> Token] : MtpSpec2(path, d)

\* spec_verify with drafts of the caller.  A session of the C API drafts in one
\* way all its life, so it does not meet tokens that windows left on the device.
HostVerify(toks) ==
  /\ gpu.onDev => "mixed" \in Paths /\ Len(toks) <= Len(gpu.toks)
  /\ SpecVerifyCall(toks)

MtpNext ==
  \/ \E n \in 1..MaxPrompt : \E ids \in [1..n -> Token] : Prefill(ids)
  \/ \E t \in Token : gpu.pos < Short /\ DecodeToken(t)
  \/ \E n \in 1..MaxSteps : gpu.pos + n <= Short /\ DecodeSteps(n)
  \/ \E T \in 1..MaxDraft : gpu.pos + T <= Short /\ \E toks \in [1..T -> Token] : HostVerify(toks)
  \/ MtpCall

MtpSpec == Init /\ [][MtpNext]_evars
=============================================================================
