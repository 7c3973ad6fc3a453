---------------------------- MODULE SessionProps ----------------------------
(***************************************************************************)
(* What must hold of a CPU session, and how it implements GreedyDecoding.  *)
(***************************************************************************)
EXTENDS Session

PositionsOK ==
  /\ pos_ \in Nat /\ vis_n_ \in Nat /\ want \in Nat /\ spec_n \in Nat
  /\ vis_ph_ \in {-1} \cup Token
  /\ i \in Nat \ {0}

\* Every variable has the type the code gives it.
TypeOK ==
  /\ PositionsOK
  /\ logits_ \in Token
  /\ vis_embeds_ \in Seq(Row \cup {Blank})
  /\ rec \in Seq(Input)
  /\ kv \in [0..(Ctx - 1) -> Input \cup {Empty}]
  /\ ctx_tokens_ \in Seq(Token) /\ out \in Seq(Token) /\ drafts \in Seq(Token)
  /\ kind \in SpecKind \cup {"off"}
  /\ pc \in {"idle", "head", "feed", "check"}
  /\ valid \in BOOLEAN

\* The token greedy decoding appends; the logits of a new session are zero.
Greedy(h) == IF h = <<>> THEN 0 ELSE Sample(h, h)

\* A context is held in five places that are written by different statements:
\* the recurrent state, the cache rows, the position, the token list and the
\* logits.  As long as the session answers for its context they agree, also
\* between the steps of generate, whatever was drafted and refused, and after
\* any call that failed.
CacheMatchesContext ==
  valid =>
    /\ pos_ = Len(rec) /\ pos_ <= Ctx /\ Len(ctx_tokens_) = pos_
    /\ Rows(kv, pos_) = rec
    /\ \A p \in 1..pos_ : rec[p] \in Token => ctx_tokens_[p] = rec[p]
    /\ logits_ = Greedy(rec)

\* h holds the rows 1..n of one encoded image and no other row, in order, in
\* one piece, over the whole of a run of placeholders.
ShowsImage(h, toks, n) ==
  LET rows == {p \in 1..Len(h) : h[p] \notin Token}
  IN  /\ Cardinality(rows) = n
      /\ \A p \in rows : toks[p] = Placeholder /\ h[p] = -(p - Min(rows) + 1)
      /\ n > 0 /\ Max(rows) < Len(h) => toks[Max(rows) + 1] # Placeholder

\* A load_image failed in the encoder and no image has been set since: the rows
\* of vis_embeds_ are not those that vis_n_ counts.
Torn == vis_n_ > 0 /\ \E k \in 1..Len(vis_embeds_) : vis_embeds_[k] = Blank

\* However images are loaded, set, replaced and cleared between the calls, a
\* prefill that succeeds takes every row of the image set last, in order and in
\* one piece, and leaves no placeholder of its run behind as an ordinary token.
\* Not so after a load_image that failed while an image was set (session.cpp
\* resizes the rows and keeps the count): the prompt is then accepted by the
\* old count and shows zeros or whatever lies behind the buffer.
ImageWhole ==
  [][pc = "idle" /\ ~Torn /\ valid' /\ rec' # rec /\ Len(rec') # Len(rec) + 1
       => ShowsImage(rec', ctx_tokens_', vis_n_)]_vars

\* What generate emitted and has not yet fed.
Pending == IF pc = "feed" THEN <<out[Len(out)]>> ELSE <<>>
Answers == valid /\ Len(rec \o Pending) <= Ctx

Seen == IF Answers THEN rec \o Pending ELSE <<>>
Busy == pc # "idle"

Abs == INSTANCE GreedyDecoding WITH good <- Answers, seen <- Seen, busy <- Busy, Forgets <- FALSE

\* generate appends to the context what greedy decoding appends, one token
\* for each it was asked for, whatever the drafter proposes, and leaves the
\* session where the client can go on (test_spec.cpp: "spec generate changed
\* greedy tokens").
ImplementsGreedy == Abs!Spec

\* A generate that got past its prefill returns.
GenerateReturns == Abs!Ends
=============================================================================
