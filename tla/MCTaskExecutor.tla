---------------------------- MODULE MCTaskExecutor ----------------------------
(***************************************************************************)
(* Instances of TaskExecutor for TLC.  Two tasks share a rank, so that      *)
(* arrival order shows; the third, of rank HIGH, can evict them.            *)
(***************************************************************************)
EXTENDS TaskExecutor

CONSTANTS t1, t2, t3

\* t1 and t2 are alike in every run that uses this.
MCAlike == Permutations({t1, t2})

MCRank == [t \in Tasks |-> IF t = t3 THEN High ELSE 1]
=============================================================================
