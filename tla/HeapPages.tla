------------------------------ MODULE HeapPages ------------------------------
(* Growing a mapped range page by page: kernel/memory/heap_pages.c, which   *)
(* backs the kernel heap and every thread stack.  Each call of one of the   *)
(* page operations is a step, and each may fail; the mapping and the page   *)
(* allocator are what those operations act on.  Offsets count pages.        *)
EXTENDS Integers, FiniteSets

CONSTANTS
  Capacity,   \* capacity_bytes, in pages; not zero
  Frame,      \* the frames the allocator may hand out
  Bad,        \* those whose address breaks the allocator's contract
  Foreign,    \* a frame of somebody else's mapping
  NoFrame

(* Frames are frames, of the allocator and of nobody else.                 *)
PagesAssumption ==
  Capacity \in Nat /\ Foreign \notin Frame /\ NoFrame \notin Frame /\ Foreign # NoFrame

VARIABLES
  mapped_bytes, corrupted,   \* of struct heap_pages
  pc,                        \* where heap_pages_grow is; "idle" outside it
  new, offset, phys,         \* its locals: new_mapped, offset or rollback's end, phys
  map,                       \* virtual page -> frame
  free,                      \* the allocator's free frames
  fault                      \* ghost: cleaning up failed, or a contract was broken

hp_vars == <<mapped_bytes, corrupted, pc, new, offset, phys, map, free, fault>>

(* One page more than the range has.                                       *)
Page == 0..Capacity

(* A range not in use yet.  Pages of it, and behind it, may be taken.       *)
heap_pages_init ==
  /\ mapped_bytes = 0 /\ corrupted = FALSE /\ fault = FALSE
  /\ pc = "idle" /\ new = 0 /\ offset = 0 /\ phys = NoFrame
  /\ map \in [Page -> {NoFrame, Foreign}]
  /\ free = Frame

-----------------------------------------------------------------------------
(* heap_pages_grow                                                          *)

Enter(n) ==
  /\ pc = "idle" /\ ~corrupted
  /\ n >= mapped_bytes /\ n <= Capacity
  /\ pc' = "preflight" /\ new' = n /\ offset' = mapped_bytes
  /\ UNCHANGED <<mapped_bytes, corrupted, phys, map, free, fault>>

Return == pc' = "idle" /\ new' = 0 /\ offset' = 0 /\ phys' = NoFrame

(* The range must be empty before anything is allocated.                   *)
Preflight(answered) ==
  /\ pc = "preflight"
  /\ IF offset = new
     THEN pc' = "alloc" /\ offset' = mapped_bytes /\ UNCHANGED <<new, phys>>
     ELSE IF answered /\ map[offset] = NoFrame
     THEN offset' = offset + 1 /\ UNCHANGED <<pc, new, phys>>
     ELSE Return
  /\ UNCHANGED <<mapped_bytes, corrupted, map, free, fault>>

Publish ==
  /\ pc = "alloc" /\ offset = new
  /\ mapped_bytes' = new
  /\ Return
  /\ UNCHANGED <<corrupted, map, free, fault>>

Alloc(f) ==
  /\ pc = "alloc" /\ offset < new
  /\ f \in free
  /\ free' = free \ {f} /\ phys' = f
  /\ IF f \in Bad
     THEN pc' = "release" /\ corrupted' = TRUE /\ fault' = TRUE
     ELSE pc' = "map" /\ UNCHANGED <<corrupted, fault>>
  /\ UNCHANGED <<mapped_bytes, new, offset, map>>

AllocFails ==
  /\ pc = "alloc" /\ offset < new
  /\ pc' = "rollback"
  /\ UNCHANGED <<mapped_bytes, corrupted, new, offset, phys, map, free, fault>>

Map ==
  /\ pc = "map" /\ map[offset] = NoFrame
  /\ map' = [map EXCEPT ![offset] = phys]
  /\ offset' = offset + 1 /\ pc' = "alloc" /\ phys' = NoFrame
  /\ UNCHANGED <<mapped_bytes, corrupted, new, free, fault>>

(* zero or map fails: neither leaves anything behind.                      *)
MapFails ==
  /\ pc = "map"
  /\ pc' = "release"
  /\ UNCHANGED <<mapped_bytes, corrupted, new, offset, phys, map, free, fault>>

-----------------------------------------------------------------------------
(* Cleaning up                                                              *)

(* The allocator takes the frame back, or refuses.                          *)
release_frame(ok) ==
  /\ free' = IF ok THEN free \cup {phys} ELSE free
  /\ corrupted' = (corrupted \/ ~ok) /\ fault' = (fault \/ ~ok)
  /\ phys' = NoFrame

(* The frame that did not get mapped.                                       *)
Release(ok) ==
  /\ pc = "release"
  /\ release_frame(ok)
  /\ pc' = "rollback"
  /\ UNCHANGED <<mapped_bytes, new, offset, map>>

AtOld == offset = mapped_bytes

RollbackDone ==
  /\ pc = "rollback" /\ AtOld
  /\ Return
  /\ UNCHANGED <<mapped_bytes, corrupted, map, free, fault>>

(* A turn of rollback's loop: the query, then unmap and a second query,     *)
(* then the frame.  answered: the query returned true.                      *)
RollbackQuery(answered) ==
  /\ pc = "rollback" /\ ~AtOld
  /\ offset' = offset - 1
  /\ LET found == answered /\ map[offset - 1] # NoFrame IN
     /\ pc' = IF found THEN "unmap" ELSE "rollback"
     /\ phys' = IF found THEN map[offset - 1] ELSE NoFrame
     /\ corrupted' = (corrupted \/ ~found)
  /\ fault' = (fault \/ ~answered)
  /\ UNCHANGED <<mapped_bytes, new, map, free>>

(* Mutant: the frame goes back although unmap failed.                      *)
Gone_Trusts(ok, answered) == TRUE

(* Both unmap and the second query say that the page is not mapped.         *)
Gone(ok, answered) == ok /\ answered /\ map'[offset] = NoFrame

(* ok: what unmap returns; works: what it does.                             *)
RollbackUnmap(ok, works, answered) ==
  /\ pc = "unmap"
  /\ map' = IF works THEN [map EXCEPT ![offset] = NoFrame] ELSE map
  /\ IF Gone(ok, answered)
     THEN pc' = "free" /\ UNCHANGED <<phys, corrupted>>
     ELSE pc' = "rollback" /\ phys' = NoFrame /\ corrupted' = TRUE
  /\ fault' = (fault \/ ~(ok /\ works /\ answered))
  /\ UNCHANGED <<mapped_bytes, new, offset, free>>

RollbackFree(ok) ==
  /\ pc = "free"
  /\ release_frame(ok)
  /\ pc' = "rollback"
  /\ UNCHANGED <<mapped_bytes, new, offset, map>>

-----------------------------------------------------------------------------
PagesNext ==
  \/ \E n \in 0..(Capacity + 1) : Enter(n)
  \/ \E answered \in BOOLEAN : Preflight(answered) \/ RollbackQuery(answered)
  \/ \E f \in Frame : Alloc(f)
  \/ AllocFails \/ Map \/ MapFails \/ Publish \/ RollbackDone
  \/ \E ok \in BOOLEAN : Release(ok) \/ RollbackFree(ok)
  \/ \E ok, works, answered \in BOOLEAN : RollbackUnmap(ok, works, answered)

PagesSpec == heap_pages_init /\ [][PagesNext]_hp_vars

-----------------------------------------------------------------------------
PagesTypeOK ==
  /\ mapped_bytes \in 0..Capacity /\ new \in 0..Capacity /\ offset \in 0..Capacity
  /\ corrupted \in BOOLEAN /\ fault \in BOOLEAN
  /\ pc \in {"idle", "preflight", "alloc", "map", "release", "rollback", "unmap", "free"}
  /\ phys \in Frame \cup {Foreign, NoFrame}
  /\ map \in [Page -> Frame \cup {Foreign, NoFrame}]
  /\ free \subseteq Frame

Held == {map[p] : p \in {q \in Page : map[q] \in Frame}}

(* Whatever fails on the way, a growth leaves all of the new pages or none: *)
(* the range has its frames and no others, each once, and none is lost.     *)
(* The range counts as corrupted, which makes the kernel panic, exactly     *)
(* when cleaning up itself failed, never for a mere lack of memory.         *)
GrowthAllOrNothing ==
  /\ PagesTypeOK
  /\ pc = "idle" => (corrupted <=> fault)
  /\ pc = "idle" /\ ~corrupted =>
       /\ \A p \in Page : map[p] \in Frame <=> p < mapped_bytes
       /\ free = Frame \ Held
       /\ Cardinality(Held) = mapped_bytes

(* "A possibly still mapped frame must not be freed": not even between two  *)
(* calls, nor when unmap or query fails or is wrong about what it did.      *)
NeverFreedWhileMapped == Held \cap free = {}

(* Both: growth is a transaction, and safe at every step of it             *)
(* (heap_pages_grow, rollback).                                            *)
GrowthSafe == GrowthAllOrNothing /\ NeverFreedWhileMapped

=============================================================================
