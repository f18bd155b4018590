------------------------------ MODULE MCProcess ------------------------------
(* Process with few slots, results and pids.                               *)
EXTENDS Process, TLC

(* Heap addresses are interchangeable.                                     *)
Addresses == Permutations(Addr)
=============================================================================
