----------------------------- MODULE BootMemory -----------------------------
(***************************************************************************)
(* memory_init (memory/vmm.c): what the kernel checks of the memory map    *)
(* and of the page tables it inherits before it trusts them, the direct    *)
(* map (memory/hhdm.c), and the protection of its own sections.            *)
(*                                                                         *)
(* It runs once, before interrupts, and is one step.  What it is given is  *)
(* a sound boot state with some table entries and regions changed.         *)
(* Addresses are page numbers and a region is a run of frames of one type. *)
(* A table has Fanout entries, the root is at level Levels, and an entry   *)
(* above level 1 may be a large page.  The boot loader's answers and the   *)
(* CPU's features are one bit, platform_ok; the allocator's bitmaps take   *)
(* one frame, of which MemoryMap says where it is.                         *)
(***************************************************************************)
EXTENDS Integers, FiniteSets, SequencesExt

CONSTANTS
    Levels,       \* 4
    Fanout,       \* 512
    Phys,         \* the frames there are
    PhysLimit,    \* frames the CPU can name (memory_physical_mask)
    SoundTables,  \* SoundTables[f][i]: entry i of frame f, as a boot loader sets it up
    SoundTypes,   \* SoundTypes[f]: the type of the region frame f is in, or "none"
    Entries,      \* what a changed entry may be
    Types,        \* what a changed type may be
    MaxChanges,
    Hhdm,         \* where the direct map is (layout.hhdm_offset)
    VisitLimit,   \* table visits of validate_boot_tables (65536)
    Root,         \* CR3
    Text, Rodata, Data,   \* the sections, as virtual pages, one after the other
    KernelPhys,   \* the first frame of the image
    Framebuffer,  \* its frames
    DynamicSlot   \* the root's entry for the dynamic addresses

VARIABLES
    b,         \* what memory_init is given: table, type, nx
    changes,   \* entries and regions changed so far
    boot,      \* "before", "ready", "refused" or "panicked"
    free,      \* the frames the allocator may give out
    sections_protected
vars == <<b, changes, boot, free, sections_protected>>

Absent == [present |-> FALSE, phys |-> 0, huge |-> FALSE, w |-> FALSE, nx |-> FALSE, user |-> FALSE]
Kernel == Text \cup Rodata \cup Data
kernel_start == Min(Kernel)
level_page_size(level) == Fanout ^ (level - 1)
memory_page_index(v, level) == (v \div level_page_size(level)) % Fanout
Dynamic == {v \in 0 .. Fanout ^ Levels - 1 : memory_page_index(v, Levels) = DynamicSlot}
KernelFrame(v) == KernelPhys + v - kernel_start

-----------------------------------------------------------------------------
(* hhdm.c                                                                  *)

hhdm_type_mapped(type) == type \in {"usable", "loader", "kernel", "framebuffer"}
hhdm_region(f) == IF f \in Phys THEN b.type[f] ELSE "none"
Mapped == {f \in Phys : hhdm_type_mapped(b.type[f])}
hhdm_translate(f) == Hhdm + f

-----------------------------------------------------------------------------
(* vmm_core.c, on tables t.                                                *)

table_access(f) == hhdm_region(f) \in {"loader", "usable"}

entry_valid(e, level) ==
    /\ e.phys < PhysLimit
    /\ ~b.nx => ~e.nx
    /\ level = Levels => ~e.huge
    /\ (level > 1 /\ e.huge) => e.phys % level_page_size(level) = 0

Ends(how) == [end |-> how, level |-> 0, table |-> 0, phys |-> 0, w |-> FALSE, nx |-> FALSE, user |-> FALSE, parent |-> Absent]

\* Follows v down from table f; "up" is what the entries above allow, "seen" the tables above.
RECURSIVE walk(_, _, _, _, _, _)
walk(t, v, level, f, up, seen) ==
    IF f \in seen \/ ~table_access(f) THEN Ends("refused")
    ELSE LET e == t[f][memory_page_index(v, level)]
             both == [w |-> up.w /\ e.w, user |-> up.user /\ e.user, nx |-> up.nx \/ e.nx]
         IN  CASE ~e.present -> Ends("missing")
               [] e.present /\ ~entry_valid(e, level) -> Ends("refused")
               [] e.present /\ entry_valid(e, level) /\ (level = 1 \/ e.huge) ->
                    [end |-> "leaf", level |-> level, table |-> f, phys |-> e.phys + (v % level_page_size(level)),
                     w |-> both.w, nx |-> both.nx, user |-> both.user, parent |-> up]
               [] OTHER -> walk(t, v, level - 1, e.phys, both, seen \cup {f})

vmm_space_query(t, v) == walk(t, v, Levels, Root, [w |-> TRUE, user |-> TRUE, nx |-> FALSE], {})

CanProtect(t, v, flags) ==
    LET found == vmm_space_query(t, v)
    IN  /\ found.end = "leaf" /\ found.level = 1
        /\ (flags.w => found.parent.w) /\ (found.parent.nx => flags.nx)

vmm_space_protect(t, v, flags) ==
    [t EXCEPT ![vmm_space_query(t, v).table][memory_page_index(v, 1)] =
        [@ EXCEPT !.w = flags.w, !.nx = flags.nx, !.user = FALSE]]

-----------------------------------------------------------------------------
(* The checks of memory_init.                                              *)

\* Mutant: a table may be where any table may be.
OwnedByLoader_Access(f) == table_access(f)
OwnedByLoader(f) == hhdm_region(f) = "loader"

\* Every table is the boot loader's and is none of those above it; every leaf can be queried.
RECURSIVE validate_boot_tables(_, _, _, _)
validate_boot_tables(f, level, prefix, ancestors) ==
    /\ OwnedByLoader(f) /\ f \notin ancestors
    /\ \A i \in 0 .. Fanout - 1 :
          LET e == b.table[f][i]
              virt == prefix + i * level_page_size(level)
          IN  e.present =>
                /\ e.phys < PhysLimit /\ (~b.nx => ~e.nx) /\ (level = Levels => ~e.huge)
                /\ IF level = 1 \/ e.huge THEN vmm_space_query(b.table, virt).end = "leaf"
                   ELSE validate_boot_tables(e.phys, level - 1, virt, ancestors \cup {f})

\* The tables it visits, when it refuses none of them; one reached twice counts twice.
RECURSIVE boot_table_visits(_, _)
boot_table_visits(f, level) ==
    1 + FoldSet(LAMBDA i, sum : LET e == b.table[f][i] IN
                   sum + IF e.present /\ level > 1 /\ ~e.huge THEN boot_table_visits(e.phys, level - 1) ELSE 0,
                0, 0 .. Fanout - 1)

check_linear_mapping(v, f, require_write) ==
    LET found == vmm_space_query(b.table, v)
    IN  found.end = "leaf" /\ found.phys = f /\ ~found.user /\ (require_write => found.w)

Layout ==
    /\ \A f \in Mapped : f < PhysLimit
    /\ \A v \in Kernel : hhdm_region(KernelFrame(v)) = "kernel"
    /\ \A f \in Mapped : hhdm_translate(f) \notin Dynamic /\ hhdm_translate(f) < kernel_start

Inherited ==
    /\ table_access(Root)
    /\ validate_boot_tables(Root, Levels, 0, {}) /\ boot_table_visits(Root, Levels) <= VisitLimit
    /\ b.table[Root][DynamicSlot] = Absent
    /\ \A v \in Kernel : check_linear_mapping(v, KernelFrame(v), FALSE)
    /\ \A f \in Mapped : check_linear_mapping(hhdm_translate(f), f, TRUE)
    /\ \A f \in Framebuffer : hhdm_region(f) = "framebuffer"

\* Page zero and the bitmaps are not given out; pmm_reserve_range of the image and the
\* framebuffer finds nothing usable to take out.
Usable == {f \in Phys : b.type[f] = "usable"}
pmm_init == (Usable \ {0}) \ {Min(Usable \ {0})}

-----------------------------------------------------------------------------
(* protect_sections                                                        *)

Flags(v) == [w |-> v \in Data, nx |-> b.nx /\ v \notin Text]

Preflight ==
    \A v \in Kernel :
       LET found == vmm_space_query(b.table, v)
       IN  found.end = "leaf" /\ found.level = 1 /\ (v \in Text => ~found.nx) /\ (v \in Data => found.w)

\* The tables with the pages protected, in order, up to the first that cannot be.
Protected ==
    FoldLeft(LAMBDA s, v : IF s.ok /\ CanProtect(s.t, v, Flags(v))
                           THEN [s EXCEPT !.t = vmm_space_protect(s.t, v, Flags(v))] ELSE [s EXCEPT !.ok = FALSE],
             [t |-> b.table, ok |-> TRUE], SetToSortSeq(Kernel, <))

memory_init(platform_ok) ==
    LET good == platform_ok /\ Layout /\ Inherited /\ Usable \ {0} # {}
    IN  /\ boot = "before"
        /\ boot' = IF ~good THEN "refused" ELSE IF Preflight /\ ~Protected.ok THEN "panicked" ELSE "ready"
        /\ free' = IF good THEN pmm_init ELSE {}
        /\ sections_protected' = (good /\ Preflight)
        /\ b' = IF good /\ Preflight THEN [b EXCEPT !.table = Protected.t] ELSE b
        /\ UNCHANGED changes

-----------------------------------------------------------------------------
(* What a boot loader may hand over.                                       *)

Change ==
    /\ boot = "before" /\ changes < MaxChanges
    /\ \/ \E f \in Phys, i \in 0 .. Fanout - 1, e \in Entries :
             b.type[f] = "loader" /\ b' = [b EXCEPT !.table[f][i] = e]
       \/ \E f \in Phys, type \in Types : b' = [b EXCEPT !.type[f] = type]
    /\ changes' = changes + 1
    /\ UNCHANGED <<boot, free, sections_protected>>

Init ==
    /\ b \in [table : {SoundTables}, type : {SoundTypes}, nx : BOOLEAN]
    /\ changes = 0 /\ boot = "before" /\ free = {} /\ sections_protected = FALSE

Next == (\E platform_ok \in BOOLEAN : memory_init(platform_ok)) \/ Change

Spec == Init /\ [][Next]_vars

-----------------------------------------------------------------------------
(* What the CPU does with the tables: no check, no region, no ancestors.   *)

RECURSIVE CpuTables(_, _)
CpuTables(f, level) ==
    {f} \cup (IF level = 1 \/ f \notin Phys THEN {}
              ELSE UNION {CpuTables(b.table[f][i].phys, level - 1) :
                             i \in {j \in 0 .. Fanout - 1 : b.table[f][j].present /\ ~b.table[f][j].huge}})

RECURSIVE CpuWalk(_, _, _, _)
CpuWalk(v, level, f, up) ==
    LET e == b.table[f][memory_page_index(v, level)]
        both == [w |-> up.w /\ e.w, user |-> up.user /\ e.user, x |-> up.x /\ ~e.nx]
    IN  IF f \notin Phys \/ ~e.present THEN [phys |-> -1, w |-> FALSE, user |-> FALSE, x |-> FALSE]
        ELSE IF level = 1 \/ e.huge THEN both @@ [phys |-> e.phys + (v % level_page_size(level))]
        ELSE CpuWalk(v, level - 1, e.phys, both)

Seen(v) == CpuWalk(v, Levels, Root, [w |-> TRUE, user |-> TRUE, x |-> TRUE])

\* Once memory_init returns true, no frame the allocator may give out is a page table the
\* CPU walks or a part of the image or the framebuffer, and each is where the direct map
\* says, for the kernel alone; the dynamic addresses are empty; the image is where it was
\* linked, and if its sections are protected then as they should be.  Protecting them
\* never panics half way (validate_boot_tables, check_linear_mapping, protect_sections).
BootMemorySafe ==
    /\ boot # "panicked"
    /\ boot = "ready" =>
          /\ CpuTables(Root, Levels) \cap (free \cup Framebuffer \cup {KernelFrame(v) : v \in Kernel}) = {}
          /\ free \cap (Framebuffer \cup {KernelFrame(v) : v \in Kernel} \cup {0}) = {}
          /\ \A f \in free : LET found == Seen(hhdm_translate(f)) IN found.phys = f /\ found.w /\ ~found.user
          /\ \A v \in Dynamic : Seen(v).phys = -1
          /\ \A v \in Kernel : Seen(v).phys = KernelFrame(v) /\ ~Seen(v).user
          /\ sections_protected => \A v \in Kernel :
                 /\ Seen(v).w <=> v \in Data
                 /\ v \in Text => Seen(v).x
                 /\ (v \notin Text /\ b.nx) => ~Seen(v).x
=============================================================================
