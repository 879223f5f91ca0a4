--------------------------- MODULE MCJobExecutor ---------------------------
(* JobExecutor on small instances.                                         *)
EXTENDS JobExecutor, TLC

\* The loading chains are alike.
Alike == Permutations(Loaders)

\* Bounds: one failure, a crash or a database error; two chains at a time.
Few == errors + crashes <= 1 /\ Cardinality({h \in Holders : pc[h] # "idle"}) <= 2
=============================================================================
