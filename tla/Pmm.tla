-------------------------------- MODULE Pmm --------------------------------
(* The physical page allocator of kernel/memory/pmm_core.c.  Its wrappers   *)
(* in kernel/memory/pmm.c run every call with IF=0, so a call is one step.  *)
(* A bitmap is the set of frames whose bit is set.                          *)
EXTENDS Integers, FiniteSets

CONSTANTS
  Span,       \* plan.span_frames: one more than the last usable frame
  Usable,     \* the frames of the USABLE regions of the memory map
  Storage,    \* the frames pmm_plan chose for the two bitmaps
  None        \* no frame

Frames == 0..(Span - 1)

ASSUME PmmAssumption ==
  /\ Span \in Nat \ {0}
  /\ Usable \subseteq Frames
  /\ Storage \subseteq Usable \ {0}
  /\ None \notin Int

VARIABLES
  eligible,      \* frames that are or may become a caller's
  occupied,      \* frames that are not free
  total_frames, free_frames,
  cursor,        \* where the next search starts
  held,          \* ghost: frames handed out, neither given back nor pinned
  withdrawn      \* ghost: frames no caller may ever get

pmm_vars == <<eligible, occupied, total_frames, free_frames, cursor, held, withdrawn>>

Extent(first, end) == first..(end - 1)

Permanent == {0} \cup Storage

pmm_core_init ==
  /\ eligible = Usable \ Permanent
  /\ occupied = Frames \ eligible
  /\ total_frames = Cardinality(Usable)
  /\ free_frames = Cardinality(Usable) - Cardinality(Usable \cap Permanent)
  /\ cursor = 0
  /\ held = {}
  /\ withdrawn = (Frames \ Usable) \cup Permanent

(* The starts of the free runs of count frames at or after start.          *)
Runs(start, count) ==
  {f \in start..(Span - count) : Extent(f, f + count) \cap occupied = {}}

find_run(start, count) ==
  LET R == Runs(start, count) IN
  IF R = {} THEN None ELSE CHOOSE f \in R : \A g \in R : f <= g

(* Mutant: the second search stops at the cursor.                          *)
Chosen_StopsAtCursor(count) ==
  LET next == find_run(cursor, count)
      low  == {f \in Runs(0, count) : f + count <= cursor} IN
  IF next # None \/ low = {} THEN next ELSE CHOOSE f \in low : \A g \in low : f <= g

Chosen(count) ==
  LET next == find_run(cursor, count) IN
  IF next # None \/ cursor = 0 THEN next ELSE find_run(0, count)

pmm_core_alloc_pages(count) ==
  /\ count # 0 /\ count <= free_frames
  /\ LET first == Chosen(count)
         end   == first + count IN
     /\ first # None
     /\ occupied' = occupied \cup Extent(first, end)
     /\ free_frames' = free_frames - count
     /\ cursor' = IF end = Span THEN 0 ELSE end
     /\ held' = held \cup Extent(first, end)
  /\ UNCHANGED <<eligible, total_frames, withdrawn>>

Allocated == eligible \cap occupied

range_frames(first, count) == count # 0 /\ first < Span /\ count <= Span - first

pmm_core_free_pages(first, count) ==
  /\ range_frames(first, count)
  /\ LET range == Extent(first, first + count) IN
     /\ range \subseteq Allocated
     /\ occupied' = occupied \ range
     /\ held' = held \ range
  /\ free_frames' = free_frames + count
  /\ UNCHANGED <<eligible, total_frames, cursor, withdrawn>>

Least(a, b) == IF a < b THEN a ELSE b

(* first and end: the byte range rounded outward to frames.                *)
pmm_core_reserve_range(first, end) ==
  /\ first < end
  /\ LET range == Extent(first, Least(end, Span)) IN
     /\ range \cap Allocated = {}
     /\ free_frames' = free_frames - Cardinality(range \cap eligible)
     /\ eligible' = eligible \ range
     /\ occupied' = occupied \cup (range \cap eligible)
     /\ withdrawn' = withdrawn \cup range
  /\ UNCHANGED <<total_frames, cursor, held>>

(* Mutant: the pinned frame stays releasable.                              *)
pmm_core_pin_page_Releasable(first) ==
  /\ range_frames(first, 1)
  /\ first \in Allocated
  /\ held' = held \ {first}
  /\ withdrawn' = withdrawn \cup {first}
  /\ UNCHANGED <<eligible, occupied, total_frames, free_frames, cursor>>

pmm_core_pin_page(first) ==
  /\ range_frames(first, 1)
  /\ first \in Allocated
  /\ eligible' = eligible \ {first}
  /\ held' = held \ {first}
  /\ withdrawn' = withdrawn \cup {first}
  /\ UNCHANGED <<occupied, total_frames, free_frames, cursor>>

pmm_core_is_allocated_page(first) == range_frames(first, 1) /\ first \in Allocated

used_frames == total_frames - free_frames

(* Any caller, with any argument; a refused call changes nothing.          *)
PmmNext ==
  \/ \E count \in 0..Span : pmm_core_alloc_pages(count)
  \/ \E first \in 0..Span, count \in 0..Span : pmm_core_free_pages(first, count)
  \/ \E first \in 0..Span, end \in 0..(Span + 1) : pmm_core_reserve_range(first, end)
  \/ \E first \in 0..Span : pmm_core_pin_page(first)

PmmSpec == pmm_core_init /\ [][PmmNext]_pmm_vars

-----------------------------------------------------------------------------
PmmTypeOK ==
  /\ eligible \in SUBSET Frames
  /\ occupied \in SUBSET Frames
  /\ held \in SUBSET Frames
  /\ withdrawn \in SUBSET Frames
  /\ total_frames \in 0..Span
  /\ free_frames \in 0..total_frames
  /\ cursor \in Frames

(* The count that gates every allocation and that pmm_core_get_stats        *)
(* reports is the number of free frames, after any mix of allocations,      *)
(* partial frees, reservations over holes and pins.                         *)
CountExact == free_frames = Cardinality(Frames \ occupied)

(* The two bitmaps tell free, allocated and permanently unavailable frames  *)
(* apart exactly (pmm_core.h: eligible=0/occupied=1 and 1/1): a frame is    *)
(* releasable only while a caller holds it, and neither frame 0, the        *)
(* bitmaps, a hole, a reserved nor a pinned frame is ever free again.       *)
FramesAccounted ==
  /\ withdrawn \subseteq occupied
  /\ eligible = Frames \ withdrawn
  /\ held = Allocated

(* The allocator's bookkeeping as a whole.                                  *)
PmmSound == PmmTypeOK /\ CountExact /\ FramesAccounted

(* What pmm_core_alloc_pages would hand out now: a run of free frames, no   *)
(* frame of which is anyone's, and none only when no such run exists, also  *)
(* when the only one straddles the cursor.                                  *)
AllocRight ==
  \A count \in 1..Span :
    IF Chosen(count) = None
    THEN \A f \in 0..(Span - count) : Extent(f, f + count) \cap (held \cup withdrawn) # {}
    ELSE /\ Extent(Chosen(count), Chosen(count) + count) \subseteq Frames
         /\ Extent(Chosen(count), Chosen(count) + count) \cap (held \cup withdrawn) = {}
=============================================================================
