---------------------------- MODULE MCAllocators ----------------------------
(***************************************************************************)
(* What the kernel allocates: page frames, the pages of a mapped range,    *)
(* the stacks of threads and the blocks of the heap.  The parts share no   *)
(* state: a behaviour is of one of them.                                   *)
(*                                                                         *)
(* Nine frames: frame 0 usable, a hole in the middle, one frame of         *)
(* bitmaps.  A range may grow to four pages.  There are two slots for      *)
(* stacks of two pages, retired after their second generation.  The sizes  *)
(* of heap_core.c are divided by eight: alignment 16, header 48 and        *)
(* minimal block 64 bytes become 2, 6 and 8.                               *)
(***************************************************************************)
EXTENDS Pmm, HeapPages, ThreadStack, TLC

CONSTANTS
  Align, Header, MinBlock, InitialSize, MaxSize, GrowthSize, SizeMax,
  Caller, Request, Count      \* of HeapCore

VARIABLES
  part,   \* what this behaviour is of
  heap, heap_held, lost

heap_vars == <<heap, heap_held, lost>>

Heap == INSTANCE HeapCore WITH held <- heap_held

ASSUME PagesAssumption /\ StackAssumption

MCUsable == (0..3) \cup (5..8)
MCStorage == {1}
MCRequest == {1, 5}
HeapSymmetry == Permutations(Caller)

MCSlots == 0..1
MCPages == 1..2

MCInit ==
  /\ part \in {"pages", "growth", "stacks", "heap"}
  /\ pmm_core_init
  /\ heap_pages_init /\ (part # "growth" => Foreign \notin {map[p] : p \in Page})
  /\ StackInit
  /\ Heap!heap_core_init

MCNext ==
  /\ \/ part = "pages" /\ PmmNext /\ UNCHANGED <<hp_vars, stack_vars, heap_vars>>
     \/ part = "growth" /\ PagesNext /\ UNCHANGED <<pmm_vars, stack_vars, heap_vars>>
     \/ part = "stacks" /\ StackNext /\ UNCHANGED <<pmm_vars, hp_vars, heap_vars>>
     \/ part = "heap" /\ Heap!HeapNext /\ UNCHANGED <<pmm_vars, hp_vars, stack_vars>>
  /\ UNCHANGED part

MCSpec == MCInit /\ [][MCNext]_<<part, pmm_vars, hp_vars, stack_vars, heap_vars>>

-----------------------------------------------------------------------------
(* After any sequence of calls the heap passes its own heap_core_validate,  *)
(* callers keep their data and can free it, and only it, and a call fails   *)
(* only when neither a free block nor the end of the heap has the room, and *)
(* then changes nothing (heap_core_alloc, heap_core_realloc, pointer_offset,*)
(* grow_heap).                                                              *)
HeapSound == part = "heap" => Heap!HeapSound
=============================================================================
