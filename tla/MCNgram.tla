------------------------------ MODULE MCNgram ------------------------------
(***************************************************************************)
(* Every context of up to eight tokens over a vocabulary of three, and up  *)
(* to five drafts: long enough for an occurrence of three tokens that does *)
(* not overlap the suffix, for all three suffix lengths and the fallback.  *)
(***************************************************************************)
EXTENDS NgramProps
=============================================================================
