------------------------------ MODULE KernelVm ------------------------------
(***************************************************************************)
(* The kernel's own address space (memory/vmm.c) once memory_init is done: *)
(* pages mapped for the heap and the stacks, device memory, and the upper  *)
(* half that every process gets.                                           *)
(*                                                                         *)
(* Only one slot of the root changes after boot, the one of the dynamic    *)
(* addresses; "slot" is that entry in the kernel's root, and root[p] the   *)
(* copy of it in the root of process p.  The other upper entries are       *)
(* copied once and never change.  Every call runs with IF=0 and is one     *)
(* step.  Addresses are page numbers, within the slot or physical.  The    *)
(* flush of a translation, and the rollback when a table cannot be had,    *)
(* are those of vmm_core.c and in UserVm.                                  *)
(***************************************************************************)
EXTENDS Integers, FiniteSets, SequencesExt

CONSTANTS
    Frame,          \* the frames of usable memory, numbered
    Levels,         \* levels of tables, the root's among them (4)
    Fanout,         \* entries of a table (512)
    MmioBase, MmioPages,   \* the window of device memory (UTAMO_MMIO_BASE, _SIZE)
    MmioMax,        \* pages of one aperture (UTAMO_MMIO_MAX)
    ApertureLimit,  \* apertures (16)
    Device,         \* physical pages a driver may name
    NotReserved,    \* those in regions of the memory map that are not RESERVED
    Process

VARIABLES
    table,      \* table[f]: the entries of a frame, if it is a table
    slot,       \* the table the kernel's root has for the dynamic addresses, or Null
    root,       \* root[p]: what the root of process p has there; Dead if p is not
    free, held, \* frames nobody has; frames a part of the kernel has (the rest are pinned)
    apertures,  \* the mapped device ranges, in order
    used,       \* pages of the window in use
    panicked
vars == <<table, slot, root, free, held, apertures, used, panicked>>

Null == 0
Dead == -1
Absent == [phys |-> Null, flags |-> "none"]
ZeroTable == [i \in 0 .. Fanout - 1 |-> Absent]
Page == 0 .. Fanout ^ (Levels - 1) - 1
Window == MmioBase .. MmioBase + MmioPages - 1

memory_page_index(p, level) == (p \div Fanout ^ (level - 1)) % Fanout

\* The table met at each level on the way from an entry of a root to page p.
Path(s, top, p) ==
    LET met[level \in 1 .. Levels - 1] ==
            IF level = Levels - 1 THEN top
            ELSE LET above == met[level + 1]
                 IN  IF above = Null THEN Null ELSE s.table[above][memory_page_index(p, level + 1)].phys
    IN  [level \in 1 .. Levels - 1 |-> met[level]]

Leaf(s, top, p) ==
    LET t == Path(s, top, p)[1] IN IF t = Null THEN Absent ELSE s.table[t][memory_page_index(p, 1)]

-----------------------------------------------------------------------------
(* vmm_core.c, on the part of the state it changes.                        *)

Now == [table |-> table, slot |-> slot, free |-> free]

CanMap(s, p) ==
    /\ Leaf(s, s.slot, p) = Absent
    /\ LET path == Path(s, s.slot, p)
       IN  Cardinality({l \in 1 .. Levels - 1 : path[l] = Null}) <= Cardinality(s.free)

\* Free frames are alike, the lowest are taken.  New tables are pinned: free no longer
\* has them, and held never gets them.
vmm_space_map(s, p, phys, flags) ==
    LET path == Path(s, s.slot, p)
        needed == Cardinality({l \in 1 .. Levels - 1 : path[l] = Null})   \* the lowest ones
        new == SetToSortSeq(s.free, <)
        at(level) == IF level <= needed THEN new[level] ELSE path[level]
        below(level) == IF level = 1 THEN [phys |-> phys, flags |-> flags]
                        ELSE [phys |-> at(level - 1), flags |-> "parent"]
        content(level) == [(IF level <= needed THEN ZeroTable ELSE s.table[at(level)])
                              EXCEPT ![memory_page_index(p, level)] = below(level)]
    IN  [table |-> [f \in Frame |-> IF \E l \in 1 .. Levels - 1 : at(l) = f
                                    THEN content(CHOOSE l \in 1 .. Levels - 1 : at(l) = f) ELSE s.table[f]],
         slot |-> at(Levels - 1),
         free |-> s.free \ {new[i] : i \in 1 .. needed}]

CanUnmap(s, p) == Leaf(s, s.slot, p) # Absent
store_entry(s, p, entry) == [s EXCEPT !.table[Path(s, s.slot, p)[1]][memory_page_index(p, 1)] = entry]
vmm_space_unmap(s, p) == store_entry(s, p, Absent)
vmm_space_protect(s, p, flags) == store_entry(s, p, [Leaf(s, s.slot, p) EXCEPT !.flags = flags])

Becomes(s) == table' = s.table /\ slot' = s.slot /\ free' = s.free

-----------------------------------------------------------------------------
(* Pages for the heap and the stacks.                                      *)

dynamic_address(p) == p \in Page \ Window

vmm_map_page(p, frame, flags) ==
    /\ dynamic_address(p) /\ frame \in held /\ CanMap(Now, p)
    /\ Becomes(vmm_space_map(Now, p, frame, flags))
    /\ UNCHANGED <<root, held, apertures, used, panicked>>

vmm_unmap_page(p) ==
    /\ dynamic_address(p) /\ CanUnmap(Now, p)
    /\ Becomes(vmm_space_unmap(Now, p))
    /\ UNCHANGED <<root, held, apertures, used, panicked>>

vmm_protect_page(p, flags) ==
    /\ dynamic_address(p) /\ CanUnmap(Now, p)
    /\ Becomes(vmm_space_protect(Now, p, flags))
    /\ UNCHANGED <<root, held, apertures, used, panicked>>

\* The callers get a frame before they map it and give it back after they unmapped it.
pmm_alloc_page ==
    /\ free # {} /\ free' = free \ {Min(free)} /\ held' = held \cup {Min(free)}
    /\ UNCHANGED <<table, slot, root, apertures, used, panicked>>

pmm_free_page(frame) ==
    /\ frame \in held /\ \A p \in Page : Leaf(Now, slot, p).phys # frame
    /\ free' = free \cup {frame} /\ held' = held \ {frame}
    /\ UNCHANGED <<table, slot, root, apertures, used, panicked>>

-----------------------------------------------------------------------------
(* Device memory.                                                          *)

mmio_range_allowed(start, pages) ==
    pages \in 1 .. MmioMax /\ (start .. start + pages - 1) \cap NotReserved = {}

Overlaps(start, pages) ==
    \E i \in DOMAIN apertures : start < apertures[i].end /\ apertures[i].start < start + pages

\* The pages are mapped one by one; the first that cannot be takes the others with it.
vmm_map_mmio(start, pages) ==
    LET done[k \in 0 .. pages] ==
            IF k = 0 THEN [n |-> 0, s |-> Now]
            ELSE LET before == done[k - 1]
                 IN  IF before.n < k - 1 \/ ~CanMap(before.s, MmioBase + used + k - 1) THEN before
                     ELSE [n |-> k, s |-> vmm_space_map(before.s, MmioBase + used + k - 1, start + k - 1, "uc")]
        end == done[pages]
        undone[k \in 0 .. end.n] ==
            IF k = 0 THEN end.s ELSE vmm_space_unmap(undone[k - 1], MmioBase + used + end.n - k)
        good == end.n = pages
    IN  /\ Len(apertures) < ApertureLimit /\ mmio_range_allowed(start, pages)
        /\ pages <= MmioPages - used /\ ~Overlaps(start, pages)
        /\ Becomes(IF good THEN end.s ELSE undone[end.n])
        /\ panicked' = (panicked \/ (~good /\ \E k \in 1 .. end.n : ~CanUnmap(undone[k - 1], MmioBase + used + end.n - k)))
        /\ apertures' = IF good THEN Append(apertures, [start |-> start, end |-> start + pages]) ELSE apertures
        /\ used' = IF good THEN used + pages ELSE used
        /\ UNCHANGED <<root, held>>

-----------------------------------------------------------------------------
(* Processes.                                                              *)

\* Mutant: the slot is copied whether or not it has its table yet.
vmm_copy_kernel_half_AnyTime(p) ==
    /\ root[p] = Dead
    /\ root' = [root EXCEPT ![p] = slot]
    /\ UNCHANGED <<table, slot, free, held, apertures, used, panicked>>

vmm_copy_kernel_half(p) ==
    /\ root[p] = Dead /\ slot # Null
    /\ root' = [root EXCEPT ![p] = slot]
    /\ UNCHANGED <<table, slot, free, held, apertures, used, panicked>>

user_vm_destroy(p) ==
    /\ root[p] # Dead
    /\ root' = [root EXCEPT ![p] = Dead]
    /\ UNCHANGED <<table, slot, free, held, apertures, used, panicked>>

Init ==
    /\ table = [f \in Frame |-> ZeroTable]
    /\ slot = Null
    /\ root = [p \in Process |-> Dead]
    /\ free = Frame /\ held = {}
    /\ apertures = <<>> /\ used = 0
    /\ panicked = FALSE

Next ==
    \/ \E p \in Page, f \in Frame, flags \in {"r", "rw"} : vmm_map_page(p, f, flags)
    \/ \E p \in Page : vmm_unmap_page(p)
    \/ \E p \in Page, flags \in {"r", "rw"} : vmm_protect_page(p, flags)
    \/ pmm_alloc_page
    \/ \E f \in Frame : pmm_free_page(f)
    \/ \E start \in Device, pages \in 0 .. MmioMax + 1 : vmm_map_mmio(start, pages)
    \/ \E p \in Process : vmm_copy_kernel_half(p) \/ user_vm_destroy(p)

Spec == Init /\ [][Next]_vars

-----------------------------------------------------------------------------

\* The place of aperture i in the window.
BaseOf(i) == MmioBase + FoldSet(LAMBDA j, sum : sum + apertures[j].end - apertures[j].start, 0, 1 .. i - 1)

Pinned == Frame \ (free \cup held)

\* The kernel's mappings, whenever they were made, are the same in every process, in
\* tables nobody can be given; the window holds the device ranges that were mapped, each
\* physical page once, uncached and whole, and nothing a failed call left or another
\* call changed (vmm_copy_kernel_half, vmm_map_mmio, vmm_map_page, vmm_unmap_page).
KernelMapsExact ==
    /\ ~panicked
    /\ \A q \in Process : root[q] # Dead => \A p \in Page : Leaf(Now, root[q], p) = Leaf(Now, slot, p)
    /\ \A p \in Page : Range(Path(Now, slot, p)) \subseteq Pinned \cup {Null}
    /\ \A p \in Page \ Window : Leaf(Now, slot, p).phys \in held \cup {Null}
    /\ \A i \in DOMAIN apertures : \A k \in 0 .. apertures[i].end - apertures[i].start - 1 :
          Leaf(Now, slot, BaseOf(i) + k) = [phys |-> apertures[i].start + k, flags |-> "uc"]
    /\ \A p \in Window : p >= MmioBase + used => Leaf(Now, slot, p) = Absent
    /\ \A i, j \in DOMAIN apertures : i # j =>
          (apertures[i].start .. apertures[i].end - 1) \cap (apertures[j].start .. apertures[j].end - 1) = {}
=============================================================================
