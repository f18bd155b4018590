----------------------------- MODULE MCSchedCore -----------------------------
(* SchedCore on a small registry; see MCSchedCore.cfg for the bounds.      *)
EXTENDS SchedCore, TLC

(* Tasks other than idle and the bootstrap thread are interchangeable.     *)
CONSTANTS t1, t2
Workers == Permutations({t1, t2})
=============================================================================
