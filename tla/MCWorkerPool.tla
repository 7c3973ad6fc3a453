---------------------------- MODULE MCWorkerPool ----------------------------
(***************************************************************************)
(* A pool of up to three threads whose client resizes it, runs jobs of up  *)
(* to five items and destroys it.  Thresholds are scaled down so that a    *)
(* job has several chunks, the last one cut short.                         *)
(***************************************************************************)
EXTENDS WorkerPoolProps
=============================================================================
