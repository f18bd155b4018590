----------------------------- MODULE MemoryMap -----------------------------
(* The memory map built at boot (kernel/memory/memory_map.c) and the place  *)
(* pmm_plan of kernel/memory/pmm_core.c finds in it for the page            *)
(* allocator's two bitmaps.                                                 *)
EXTENDS Integers, Sequences, FiniteSets

CONSTANTS
  Page,          \* MEMORY_PAGE_SIZE
  AddrMax,       \* UINT64_MAX
  RegionLimit,   \* UTAMO_MEMORY_REGION_LIMIT
  Base, Length,  \* where the boot loader's regions start and how long they are
  Type,          \* the types of regions the boot loader reports
  None           \* no plan

VARIABLES regions, usable_bytes, bootloader_reclaimable_bytes

map_vars == <<regions, usable_bytes, bootloader_reclaimable_bytes>>

Region == [base : Base, length : Length, type : Type]

memory_map_init ==
  /\ regions = << >>
  /\ usable_bytes = 0
  /\ bootloader_reclaimable_bytes = 0

requires_exclusive_region(type) == type \in {"USABLE", "BOOTLOADER_RECLAIMABLE"}

End(r) == r.base + r.length

memory_is_page_aligned(x) == x % Page = 0

(* Mutant: a region inside a longer earlier one is not seen.               *)
Collide_EndOnly(r, s) ==
  /\ requires_exclusive_region(r.type) \/ requires_exclusive_region(s.type)
  /\ r.base < End(s) /\ End(s) <= End(r)

Collide(r, s) ==
  /\ requires_exclusive_region(r.type) \/ requires_exclusive_region(s.type)
  /\ r.base < End(s) /\ s.base < End(r)

memory_map_add(r) ==
  /\ Len(regions) < RegionLimit
  /\ r.length # 0 /\ r.length <= AddrMax - r.base
  /\ regions # << >> => r.base >= regions[Len(regions)].base
  /\ requires_exclusive_region(r.type) =>
       memory_is_page_aligned(r.base) /\ memory_is_page_aligned(r.length)
  /\ \A i \in 1..Len(regions) : ~Collide(r, regions[i])
  /\ regions' = Append(regions, r)
  /\ usable_bytes' = usable_bytes + (IF r.type = "USABLE" THEN r.length ELSE 0)
  /\ bootloader_reclaimable_bytes' = bootloader_reclaimable_bytes
       + (IF r.type = "BOOTLOADER_RECLAIMABLE" THEN r.length ELSE 0)

MapNext == \E r \in Region : memory_map_add(r)

MapSpec == memory_map_init /\ [][MapNext]_map_vars

-----------------------------------------------------------------------------
IsUsable(i) == regions[i].type = "USABLE"

last_end ==
  CHOOSE e \in {0} \cup {End(regions[i]) : i \in {j \in 1..Len(regions) : IsUsable(j)}} :
    \A i \in 1..Len(regions) : IsUsable(i) => End(regions[i]) <= e

memory_align_up(x) == ((x + Page - 1) \div Page) * Page

span_frames == last_end \div Page
bitmap_bytes == (span_frames \div 8) + (IF span_frames % 8 # 0 THEN 1 ELSE 0)
storage_bytes == memory_align_up(bitmap_bytes * 2)

StorageStart(r) == IF r.base = 0 THEN Page ELSE r.base

Fits(r) == StorageStart(r) <= End(r) /\ storage_bytes <= End(r) - StorageStart(r)

(* The plan: the first usable region with room.  Its recount of usable_bytes *)
(* cannot disagree with the map's (MapExact).                                *)
pmm_plan ==
  LET roomy == {i \in 1..Len(regions) : IsUsable(i) /\ Fits(regions[i])} IN
  IF last_end = 0 \/ roomy = {} THEN None
  ELSE LET i == CHOOSE i \in roomy : \A j \in roomy : i <= j IN
       [storage_phys  |-> StorageStart(regions[i]), storage_bytes |-> storage_bytes,
        bitmap_bytes  |-> bitmap_bytes,             span_frames   |-> span_frames]

-----------------------------------------------------------------------------
FramesOf(first, end) == {f \in 0..(AddrMax \div Page) : first <= f * Page /\ (f + 1) * Page <= end}
UsableFrames == UNION {FramesOf(regions[i].base, End(regions[i])) :
                         i \in {j \in 1..Len(regions) : IsUsable(j)}}
TouchedBy(r) == {f \in 0..(AddrMax \div Page) : r.base < (f + 1) * Page /\ f * Page < End(r)}

MapTypeOK ==
  /\ regions \in Seq(Region)
  /\ Len(regions) <= RegionLimit
  /\ usable_bytes \in 0..AddrMax
  /\ bootloader_reclaimable_bytes \in 0..AddrMax

(* usable_bytes, which pmm_core_init takes for the number of allocatable    *)
(* pages, counts every page of the usable regions once, and no such page is *)
(* also, even partly, of a region of another kind (memory_map_add).         *)
MapExact ==
  /\ MapTypeOK
  /\ usable_bytes = Page * Cardinality(UsableFrames)
  /\ \A i \in 1..Len(regions) : ~IsUsable(i) => TouchedBy(regions[i]) \cap UsableFrames = {}

(* pmm_plan puts the bitmaps into usable memory outside page zero, with two *)
(* bits for every frame up to the last usable one; it fails only if the     *)
(* usable pages other than page zero have no run long enough inside one     *)
(* region.                                                                  *)
PlanRight ==
  LET plan == pmm_plan IN
  IF plan # None
  THEN LET storage == FramesOf(plan.storage_phys, plan.storage_phys + plan.storage_bytes) IN
       /\ storage \subseteq UsableFrames \ {0}
       /\ Page * Cardinality(storage) = plan.storage_bytes
       /\ plan.storage_bytes * 8 >= 2 * plan.span_frames
       /\ plan.bitmap_bytes * 2 <= plan.storage_bytes
       /\ UsableFrames \subseteq 0..(plan.span_frames - 1)
  ELSE \A i \in 1..Len(regions) : IsUsable(i) =>
         Page * Cardinality(FramesOf(regions[i].base, End(regions[i])) \ {0}) < storage_bytes

(* The map counts every usable page once, and the allocator's bitmaps get   *)
(* a place in it whenever there is one (memory_map_add, pmm_plan).          *)
MapAndPlanRight == MapExact /\ PlanRight
=============================================================================
