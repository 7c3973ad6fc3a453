----------------------------- MODULE GpuSession -----------------------------
(***************************************************************************)
(* A session on the GPU (src/src/runtime/session.cpp where gpu_ is set):   *)
(* the calls of the client, and generate without drafts, with the n-gram   *)
(* drafter, with the engine's MTP head, or, where mtp_spec2 answers 0, with *)
(* the session's.  Images are left out.                                    *)
(***************************************************************************)
EXTENDS MtpEngine, Ngram

CONSTANTS
  MaxWant,    \* bound on the tokens of a generate
  MaxOwn,     \* bound on the context behind which the client decodes a token of its own
  SpecSizes,  \* the values of spec_n (0 turns drafts off)
  DraftCap    \* most n-gram drafts in one verify (11)

ASSUME GpuSessionAssumption == {MaxWant, MaxOwn, DraftCap} \subseteq Nat /\ SpecSizes \subseteq Nat

VARIABLES
  ctx_tokens_,               \* field of Session; pos_ is read from the engine
  pc, want, kind, spec_n,    \* generate: where it is, its arguments
  out, drafts,               \* its locals: tokens produced, tokens to verify or to hand over
  behind                     \* history: the engine was left a token short, or some ahead

run  == <<pc, want, kind, spec_n, out, drafts>>
vars == <<evars, ctx_tokens_, run, behind>>

SessionInit ==
  /\ Init
  /\ ctx_tokens_ = <<>> /\ behind = FALSE
  /\ pc = "idle" /\ want = 0 /\ kind = "off" /\ spec_n = 0 /\ out = <<>> /\ drafts = <<>>

-----------------------------------------------------------------------------
SessionPrefill(ids) ==
  /\ Prefill(ids)
  /\ ctx_tokens_' = ids
  /\ behind' = FALSE

ClientPrefill(ids) == pc = "idle" /\ SessionPrefill(ids) /\ UNCHANGED run

ClientDecode(t) ==
  /\ pc = "idle" /\ gpu.pos < MaxOwn
  /\ DecodeToken(t)
  /\ ctx_tokens_' = Append(ctx_tokens_, t)
  /\ UNCHANGED <<run, behind>>

\* The prompt and what is generated fit the context: neither generate nor the
\* engine checks it.  A session keeps to one kind of drafts (HostVerify).
Generate(ids, w, k, n) ==
  /\ pc = "idle" /\ Len(ids) + w <= Ctx /\ Len(ids) + w <= Short
  /\ k = "ngram" /\ gpu.onDev => "mixed" \in Paths
  /\ SessionPrefill(ids)
  /\ pc' = IF k = "off" /\ w > 0 THEN "first" ELSE "head"
  /\ want' = w /\ kind' = k /\ spec_n' = n /\ out' = <<>> /\ drafts' = <<>>

\* A token is produced: it goes to the caller and to the token list.
Produce(t) == out' = Append(out, t) /\ ctx_tokens_' = Append(ctx_tokens_, t)

(***************************************************************************)
(* Without drafts: the prompt gives the first token, decode_steps the rest *)
(***************************************************************************)
EmitFirst ==
  /\ pc = "first"
  /\ Produce(gpu.last)
  /\ pc' = IF want = 1 THEN "head" ELSE "steps"
  /\ UNCHANGED <<evars, want, kind, spec_n, drafts, behind>>

\* Faulty variant: the token that is already there is decoded for once more.
RunStepsAll ==
  /\ pc = "steps"
  /\ DecodeSteps(want)
  /\ drafts' = GenTokens(gpu', want)
  /\ behind' = TRUE
  /\ pc' = "hand over"
  /\ UNCHANGED <<ctx_tokens_, want, kind, spec_n, out>>

\* The array rest has room for 64 tokens, as many as copy_gen_tokens copies.
RunSteps ==
  /\ pc = "steps"
  /\ DecodeSteps(want - 1)
  /\ drafts' = GenTokens(gpu', want - 1)
  /\ behind' = TRUE
  /\ pc' = "hand over"
  /\ UNCHANGED <<ctx_tokens_, want, kind, spec_n, out>>

(***************************************************************************)
(* The loop                                                                *)
(***************************************************************************)
\* The drafts to verify after t0, which ctx already ends in.
DraftsAfter(ctx, t0, produced) ==
  IF kind = "off" \/ spec_n = 0 \/ produced >= want THEN {<<>>}
  ELSE IF kind = "ngram" THEN {NgramDraft(ctx, t0, Min({spec_n, want - produced, DraftCap}))}
  ELSE {<<>>} \cup [1..1 -> Token]

\* The engine is asked for drafts before the session's own head is.
AsksEngine(produced) == kind = "mtp" /\ spec_n > 0 /\ produced < want /\ gpu.mtp

EmitHead ==
  /\ pc = "head" /\ Len(out) < want
  /\ Produce(gpu.last)
  /\ IF AsksEngine(Len(out'))
     THEN pc' = "ask" /\ drafts' = <<>>
     ELSE pc' = "feed" /\ drafts' \in DraftsAfter(ctx_tokens_', gpu.last, Len(out'))
  /\ UNCHANGED <<evars, want, kind, spec_n, behind>>

\* Without drafts the token is decoded.
FeedHead ==
  /\ pc = "feed" /\ drafts = <<>>
  /\ DecodeToken(out[Len(out)])
  /\ pc' = "head"
  /\ UNCHANGED <<ctx_tokens_, want, kind, spec_n, out, drafts, behind>>

\* Faulty variant: every draft is handed over.
VerifyHeadAll ==
  /\ pc = "feed" /\ drafts # <<>>
  /\ SpecVerifyCall(<<out[Len(out)]>> \o drafts)
  /\ pc' = "hand over"
  /\ UNCHANGED <<ctx_tokens_, want, kind, spec_n, out, drafts, behind>>

\* The drafts the engine consumed are to be handed over.
VerifyHead ==
  /\ pc = "feed" /\ drafts # <<>>
  /\ SpecVerifyCall(<<out[Len(out)]>> \o drafts)
  /\ drafts' = SubSeq(drafts, 1, call'.ret - 1)
  /\ pc' = "hand over"
  /\ UNCHANGED <<ctx_tokens_, want, kind, spec_n, out, behind>>

\* mtp_spec2, from the token just produced.  It is not told how many tokens are
\* wanted, and may go on after drafts that held: those past want are not handed
\* over, but the engine has consumed them.  (It does not matter here whether some
\* have been handed over before it goes on.)
AskEngine ==
  /\ pc = "ask" \/ (pc = "hand over" /\ call.op = "mtp" /\ call.ret = Len(call.toks))
  /\ MtpCall
  /\ drafts' = drafts \o SubSeq(call'.preds, IF pc = "ask" THEN 2 ELSE 1, call'.ret)
  /\ pc' = "hand over"
  /\ behind' = (behind \/ Len(out) + Len(drafts') > want)
  /\ UNCHANGED <<ctx_tokens_, want, kind, spec_n, out>>

HandOver ==
  /\ pc = "hand over" /\ drafts # <<>> /\ Len(out) < want
  /\ Produce(Head(drafts))
  /\ drafts' = Tail(drafts)
  /\ UNCHANGED <<evars, pc, want, kind, spec_n, behind>>

EndHandOver ==
  /\ pc = "hand over" /\ (drafts = <<>> \/ Len(out) >= want)
  /\ pc' = "head" /\ drafts' = <<>>
  /\ UNCHANGED <<evars, ctx_tokens_, want, kind, spec_n, out, behind>>

\* Faulty variant: a token is awaited also when none was asked for.
ReturnProduced ==
  /\ pc = "head" /\ out # <<>> /\ Len(out) >= want
  /\ pc' = "idle" /\ want' = 0 /\ kind' = "off" /\ spec_n' = 0 /\ out' = <<>> /\ drafts' = <<>>
  /\ behind' = (behind \/ (kind = "off" /\ want > 0))
  /\ UNCHANGED <<evars, ctx_tokens_>>

Return ==
  /\ pc = "head" /\ Len(out) >= want
  /\ pc' = "idle" /\ want' = 0 /\ kind' = "off" /\ spec_n' = 0 /\ out' = <<>> /\ drafts' = <<>>
  /\ behind' = (behind \/ (kind = "off" /\ want > 0))
  /\ UNCHANGED <<evars, ctx_tokens_>>

-----------------------------------------------------------------------------
Prompt == UNION {[1..n -> Token] : n \in 1..MaxPrompt}

ClientCall ==
  \/ \E ids \in Prompt : ClientPrefill(ids)
  \/ \E t \in Token : ClientDecode(t)
  \/ \E ids \in Prompt, w \in 0..MaxWant :
       \/ Generate(ids, w, "off", 0)
       \/ \E k \in {"ngram", "mtp"}, n \in SpecSizes : Generate(ids, w, k, n)

GenerateStep ==
  \/ EmitFirst \/ RunSteps
  \/ EmitHead \/ FeedHead \/ HandOver \/ EndHandOver \/ VerifyHead \/ AskEngine
  \/ Return

SessionSpec == SessionInit /\ [][ClientCall \/ GenerateStep]_vars /\ WF_vars(GenerateStep)
=============================================================================
