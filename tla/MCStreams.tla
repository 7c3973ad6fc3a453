------------------------------ MODULE MCStreams ------------------------------
(***************************************************************************)
(* Three prefills on engines with different graphs: none, those of one side *)
(* stream, and of two.                                                      *)
(***************************************************************************)
EXTENDS StreamProps

SomeBuilds == {{}, {"rec4"}, {"rec4", "t12"}, {"rec4", "quad", "t12"},
               {"rec4", "t12", "rec4 b2", "hin b2"}}
=============================================================================
