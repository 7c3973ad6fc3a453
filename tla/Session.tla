------------------------------ MODULE Session ------------------------------
(***************************************************************************)
(* A session on the CPU (src/src/runtime/session.cpp): prefill,            *)
(* decode_token, generate with speculative drafts, and the image that      *)
(* prefill splices into a prompt.                                          *)
(*                                                                         *)
(* The model is a hybrid: its gated-DeltaNet layers summarise the inputs   *)
(* so far in a recurrent state that cannot be rolled back, its attention   *)
(* layers read one cache row per position.  Both are kept here by what     *)
(* they were computed from: rec is the sequence of inputs the recurrent    *)
(* and convolution states have absorbed, kv[r] the input row r was written *)
(* for.  LM gives the token with the largest logit as a function of both.  *)
(* A row past the last one is the first row of the next attention layer    *)
(* (dual_cache.cpp); for the last layer the write leaves the buffer.       *)
(***************************************************************************)
EXTENDS Ngram

CONSTANTS
  Vocab,       \* tokens are 0..Vocab-1
  Ctx,         \* ctx_: rows of the attention cache
  LM(_, _),    \* the model: recurrent history and cache rows to a token
  ImageToken,  \* the placeholder an image is spliced over
  MaxImage,    \* bound on the rows of an image
  MaxPrompt,   \* bound on a prompt's length
  MaxWant,     \* bound on the tokens of a generate
  MaxSpec,     \* bound on spec_n
  DraftCap,    \* size of the array drafts (16)
  MaxPos       \* bound on the position decode_token is called at

ASSUME SessionAssumption ==
  /\ Vocab \in Nat \ {0}
  /\ Ctx \in Nat \ {0}
  /\ ImageToken \in 0..(Vocab - 1)
  /\ {MaxImage, MaxPrompt, MaxWant, MaxSpec, DraftCap, MaxPos} \subseteq Nat

Token == 0..(Vocab - 1)
Blank == -(MaxImage + 1)       \* a row load_image zeroed before the encoder failed
Row   == (-MaxImage)..(-1)     \* the rows of an encoded image
Empty == -(MaxImage + 2)       \* a cache row nothing was written to
Outside == -(MaxImage + 3)     \* a row read past the end of vis_embeds_
Input == Token \cup Row \cup {Blank, Outside}

VARIABLES
  pos_, ctx_tokens_,                \* fields of Session
  logits_,                          \* the token greedy_sample picks from them
  vis_embeds_, vis_n_, vis_ph_,     \* the image to splice
  rec, kv,                          \* the contents of cache_
  pc, want, kind, spec_n,           \* generate: where it is, its arguments
  out, drafts, i,                   \* its locals
  valid                             \* history: the session answers for its context

vision  == <<vis_embeds_, vis_n_, vis_ph_>>
context == <<pos_, ctx_tokens_, logits_, rec, kv, valid>>
run     == <<pc, want, kind, spec_n, out, drafts, i>>
vars    == <<vision, context, run>>

SpecKind == {"ngram", "mtp"}   \* resolve_spec turns Auto into one of these

\* forward_hidden and lm_head on the last position: what the layers compute from
\* the history and the cache rows they have just extended.
Forward(r, c) == LM(r, c)

\* greedy_sample returns an index below vocab whatever the logits are.
Sample(r, c) == LET best == Forward(r, c) IN IF best \in Token THEN best ELSE 0

RowOf(p) == p % Ctx

\* The rows a decode at position p - 1 attends to.
Rows(c, p) == [k \in 1..p |-> c[RowOf(k - 1)]]

Init ==
  /\ pos_ = 0 /\ ctx_tokens_ = <<>> /\ logits_ = 0
  /\ vis_embeds_ = <<>> /\ vis_n_ = 0 /\ vis_ph_ = -1
  /\ rec = <<>> /\ kv = [r \in 0..(Ctx - 1) |-> Empty]
  /\ pc = "idle" /\ want = 0 /\ kind = "off" /\ spec_n = 0
  /\ out = <<>> /\ drafts = <<>> /\ i = 1
  /\ valid = TRUE

(***************************************************************************)
(* The image                                                               *)
(***************************************************************************)
\* set_vision_embeds, and clear_vision with n = 0.
SetVision(n, ph) ==
  /\ pc = "idle"
  /\ vis_embeds_' = [k \in 1..n |-> -k]
  /\ vis_n_' = n
  /\ vis_ph_' = ph
  /\ UNCHANGED <<context, run>>

\* load_image sizes vis_embeds_ before the encoder, which may still throw
\* on a missing weight; only then are the count and the placeholder set.
LoadImage(n) ==
  /\ pc = "idle"
  /\ \/ /\ vis_embeds_' = [k \in 1..n |-> -k]
        /\ vis_n_' = n
        /\ vis_ph_' = ImageToken
     \/ /\ vis_embeds_' = [k \in 1..n |-> Blank]
        /\ UNCHANGED <<vis_n_, vis_ph_>>
  /\ UNCHANGED <<context, run>>

(***************************************************************************)
(* prefill                                                                 *)
(***************************************************************************)
Placeholder == IF vis_ph_ >= 0 THEN vis_ph_ ELSE ImageToken

\* first_placeholder_span: the positions of the first run of placeholders.
Span(ids) ==
  {p \in 1..Len(ids) :
     \E s \in 1..p : /\ \A q \in s..p : ids[q] = Placeholder
                     /\ \A q \in 1..(s - 1) : ids[q] # Placeholder}

\* Faulty variant: placeholders may outnumber the rows of the image.
RefusedShort(ids) ==
  \/ Len(ids) \notin 1..Ctx
  \/ vis_n_ > 0 /\ Cardinality(Span(ids)) < vis_n_

Refused(ids) ==
  \/ Len(ids) \notin 1..Ctx
  \/ vis_n_ > 0 /\ Cardinality(Span(ids)) # vis_n_

\* The memcpy takes vis_n_ rows from a buffer that a failed load_image may have
\* sized for fewer: whatever lies behind it, if the read does not fault.
ImageRow(k) == IF k <= Len(vis_embeds_) THEN vis_embeds_[k] ELSE Outside

\* The placeholders of the run up to position p.
Nth(ids, p) == Cardinality({q \in Span(ids) : q <= p})

\* vis_n_ rows of the image over the first placeholders.
Spliced(ids) ==
  [p \in 1..Len(ids) |->
     IF vis_n_ > 0 /\ p \in Span(ids) /\ Nth(ids, p) <= vis_n_ THEN ImageRow(Nth(ids, p)) ELSE ids[p]]

\* Faulty variant: the cache is not cleared, so the recurrent state goes on.
PrefillOnTop(ids) ==
  /\ ids \in Seq(Token)
  /\ rec' = rec \o Spliced(ids)
  /\ kv' = [r \in 0..(Ctx - 1) |-> IF r < Len(ids) THEN Spliced(ids)[r + 1] ELSE kv[r]]
  /\ logits_' = Sample(rec', Rows(kv', Len(ids)))
  /\ ctx_tokens_' = ids
  /\ pos_' = Len(ids)
  /\ valid' = TRUE

\* Faulty variant: the token list records what the image was spliced into.
PrefillRecordsRows(ids) ==
  /\ ids \in Seq(Token)
  /\ rec' = Spliced(ids)
  /\ kv' = [r \in 0..(Ctx - 1) |-> IF r < Len(ids) THEN Spliced(ids)[r + 1] ELSE Empty]
  /\ logits_' = Sample(rec', Rows(kv', Len(ids)))
  /\ ctx_tokens_' = Spliced(ids)
  /\ pos_' = Len(ids)
  /\ valid' = TRUE

\* The whole prompt in one forward pass, from a cleared cache.
PrefillDone(ids) ==
  /\ ids \in Seq(Token)
  /\ rec' = Spliced(ids)
  /\ kv' = [r \in 0..(Ctx - 1) |-> IF r < Len(ids) THEN Spliced(ids)[r + 1] ELSE Empty]
  /\ logits_' = Sample(rec', Rows(kv', Len(ids)))
  /\ ctx_tokens_' = ids
  /\ pos_' = Len(ids)
  /\ valid' = TRUE

\* A token outside the vocabulary is found once the cache has been cleared:
\* position, tokens and logits still are those of the context that was there.
PrefillThrows(ids) ==
  /\ ids \notin Seq(Token)
  /\ rec' = <<>>
  /\ kv' = [r \in 0..(Ctx - 1) |-> Empty]
  /\ valid' = FALSE
  /\ UNCHANGED <<logits_, ctx_tokens_, pos_>>

Prefill(ids) ==
  /\ pc = "idle" /\ ~Refused(ids)
  /\ PrefillDone(ids) \/ PrefillThrows(ids)
  /\ UNCHANGED <<vision, run>>

(***************************************************************************)
(* decode_token                                                            *)
(***************************************************************************)
\* Faulty variant: the token is fed without its position being counted.
FeedInPlace(t) ==
  /\ rec' = Append(rec, t)
  /\ kv' = [kv EXCEPT ![RowOf(pos_)] = t]
  /\ logits_' = Sample(rec', Rows(kv', pos_ + 1))
  /\ ctx_tokens_' = Append(ctx_tokens_, t)
  /\ pos_' = pos_
  /\ valid' = (valid /\ pos_ < Ctx)

Feed(t) ==
  /\ rec' = Append(rec, t)
  /\ kv' = [kv EXCEPT ![RowOf(pos_)] = t]
  /\ logits_' = Sample(rec', Rows(kv', pos_ + 1))
  /\ ctx_tokens_' = Append(ctx_tokens_, t)
  /\ pos_' = pos_ + 1
  /\ valid' = (valid /\ pos_ < Ctx)

Decode(t) == pc = "idle" /\ pos_ < MaxPos /\ Feed(t) /\ UNCHANGED <<vision, run>>

(***************************************************************************)
(* generate                                                                *)
(***************************************************************************)
\* A refused prompt changes nothing, one that throws ends the call.
Generate(ids, w, k, n) ==
  /\ pc = "idle" /\ ~Refused(ids)
  /\ \/ PrefillThrows(ids) /\ UNCHANGED run
     \/ /\ PrefillDone(ids)
        /\ pc' = "head" /\ want' = w /\ kind' = k /\ spec_n' = n
        /\ out' = <<>> /\ drafts' = <<>> /\ i' = 1
  /\ UNCHANGED vision

Take == Min({spec_n, DraftCap})

\* The drafts to check after t0.  What the MTP head predicts is arbitrary: it
\* has its own weights.  Without them mtp_draft returns none.
DraftsAfter(t0) ==
  IF kind = "off" \/ spec_n = 0 \/ Len(out) + 1 >= want THEN {<<>>}
  ELSE IF kind = "ngram" THEN {NgramDraft(ctx_tokens_, t0, Take)}
  ELSE {<<>>} \cup [1..Take -> Token]

\* The head of the loop: the token the logits give, and drafts of what follows.
EmitHead ==
  /\ pc = "head" /\ Len(out) < want
  /\ out' = Append(out, logits_)
  /\ drafts' \in DraftsAfter(logits_)
  /\ i' = 1
  /\ pc' = "feed"
  /\ UNCHANGED <<vision, context, want, kind, spec_n>>

FeedHead ==
  /\ pc = "feed"
  /\ Feed(out[Len(out)])
  /\ pc' = "check"
  /\ UNCHANGED <<vision, want, kind, spec_n, out, drafts, i>>

\* Faulty variant: every draft is taken.
AcceptableUnchecked == i <= Len(drafts) /\ Len(out) < want

Acceptable == i <= Len(drafts) /\ Len(out) < want /\ drafts[i] = logits_

AcceptDraft ==
  /\ pc = "check" /\ Acceptable
  /\ out' = Append(out, drafts[i])
  /\ Feed(drafts[i])
  /\ i' = i + 1
  /\ UNCHANGED <<vision, pc, want, kind, spec_n, drafts>>

\* Faulty variant: the loop does not go round once a draft is refused.
LeaveChecksStuck ==
  /\ pc = "check" /\ ~Acceptable /\ i > Len(drafts)
  /\ pc' = "head"
  /\ UNCHANGED <<vision, context, want, kind, spec_n, out, drafts, i>>

LeaveChecks ==
  /\ pc = "check" /\ ~Acceptable
  /\ pc' = "head"
  /\ drafts' = <<>> /\ i' = 1
  /\ UNCHANGED <<vision, context, want, kind, spec_n, out>>

\* The locals go out of scope with the call.
Return ==
  /\ pc = "head" /\ Len(out) >= want
  /\ pc' = "idle" /\ want' = 0 /\ kind' = "off" /\ spec_n' = 0
  /\ out' = <<>>
  /\ UNCHANGED <<vision, context, drafts, i>>

-----------------------------------------------------------------------------
\* Prompts as the tokenizer or a client gives them: Vocab is an id the model
\* has no row for.
Prompt == UNION {[1..n -> 0..Vocab] : n \in 1..MaxPrompt}

ClientCall ==
  \/ \E n \in 0..MaxImage, ph \in {-1} \cup Token : SetVision(n, ph)
  \/ \E n \in 1..MaxImage : LoadImage(n)
  \/ \E ids \in Prompt : Prefill(ids)
  \/ \E t \in Token : Decode(t)
  \/ \E ids \in Prompt, w \in 0..MaxWant :
       Generate(ids, w, "off", 0) \/ \E k \in SpecKind, n \in 1..MaxSpec : Generate(ids, w, k, n)

GenerateStep == EmitHead \/ FeedHead \/ AcceptDraft \/ LeaveChecks \/ Return

Next == ClientCall \/ GenerateStep

Spec == Init /\ [][Next]_vars

\* The calling thread runs generate to its end.
FairSpec == Spec /\ WF_vars(GenerateStep)
=============================================================================
