----------------------------- MODULE MCScheduler -----------------------------
(* Scheduler on a small registry; the .cfg files fix the bounds.           *)
EXTENDS Scheduler, TLC

(* Threads other than idle and the shell are interchangeable.              *)
CONSTANTS t1, t2
Workers == Permutations({t1, t2})
=============================================================================
