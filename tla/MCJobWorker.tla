---------------------------- MODULE MCJobWorker ----------------------------
(* JobWorker on a small instance.                                          *)
EXTENDS JobWorker, TLC
=============================================================================
