------------------------------ MODULE MCUserVm ------------------------------
EXTENDS UserVm, TLC

SpaceSymmetry == Permutations(Space)

(* States that differ in the record of the last call only are the same: no  *)
(* step reads it, and ImplementsSpaces looks at it only where a step writes *)
(* it, which TLC checks at every step it generates.                         *)
WithoutCall == <<m, cr3, view>>
=============================================================================
