------------------------------ MODULE MCMemory ------------------------------
(***************************************************************************)
(* Memory as the kernel arranges it: the boot map and the plan for the     *)
(* allocator's bitmaps, the tables the boot loader leaves, the kernel's    *)
(* own mappings and the loading of a program.  They share no state: a      *)
(* behaviour is of one of them.                                            *)
(*                                                                         *)
(* The map has pages of two bytes, so that the bitmaps of a dozen frames   *)
(* take several pages and a region may start or end inside a page.  The    *)
(* boot loader's tables have three levels of four entries: a direct map of *)
(* three huge pages over a dozen frames, and the kernel's three sections;  *)
(* up to two entries or region types are not what they should be.  The     *)
(* kernel's half has four levels of two entries, six frames, six pages of  *)
(* device memory and one process.  A program has up to two segments over   *)
(* pages of two bytes.                                                     *)
(***************************************************************************)
EXTENDS BootMemory, TLC

CONSTANTS
  PageBytes, AddrMax, RegionLimit, Base, Length, Type, None   \* of MemoryMap

VARIABLES
  part,   \* what this behaviour is of
  regions, usable_bytes, bootloader_reclaimable_bytes,
  table, slot, root, vm_free, held, apertures, used, panicked,
  image, argument, at, segment, done, page, result

map_vars == <<regions, usable_bytes, bootloader_reclaimable_bytes>>
vm_vars == <<table, slot, root, vm_free, held, apertures, used, panicked>>
program_vars == <<image, argument, at, segment, done, page, result>>

-----------------------------------------------------------------------------
(* What the boot loader leaves.  Frames 0 to 2 are usable, 3 to 5 and 10   *)
(* are the loader's, 6 to 8 the kernel's image, 9 the framebuffer.         *)
Small(frame) == [Absent EXCEPT !.present = TRUE, !.phys = frame, !.w = TRUE]
Huge(frame) == [Small(frame) EXCEPT !.huge = TRUE]

MCPhys == 0..11
BootTypes ==
  [f \in MCPhys |-> CASE f \in 0..2 -> "usable" [] f \in {3, 4, 5, 10} -> "loader"
                    [] f \in 6..8 -> "kernel" [] f = 9 -> "framebuffer" [] OTHER -> "none"]
BootTables ==
  LET Table(entries) == [i \in 0..3 |-> IF i \in DOMAIN entries THEN entries[i] ELSE Absent] IN
  [f \in MCPhys |->
     CASE f = 3 -> Table(1 :> Small(4))
       [] f = 4 -> Table(0 :> Huge(0) @@ 1 :> Huge(4) @@ 2 :> Huge(8) @@ 3 :> Small(5))
       [] f = 5 -> Table(0 :> Small(6) @@ 1 :> Small(7) @@ 2 :> Small(8))
       [] OTHER -> Table(<<>>)]
BootEntries ==
  {Absent, Huge(12), [Huge(0) EXCEPT !.user = TRUE]}
    \cup {Small(p) : p \in {4, 5, 10}}
    \cup {[Small(8) EXCEPT !.w = FALSE], [Small(6) EXCEPT !.nx = TRUE],
          [Small(5) EXCEPT !.user = TRUE]}

-----------------------------------------------------------------------------
(* Programs: a code segment alone, wherever and however long, and one of   *)
(* two good ones before or after another segment.                          *)
Seg(type, flags, from, address, file_size, memory_size, alignment) ==
  [type |-> type, r |-> "r" \in flags, w |-> "w" \in flags, x |-> "x" \in flags,
   offset |-> from, address |-> address, file_size |-> file_size,
   memory_size |-> memory_size, alignment |-> alignment]
Code == {Seg("load", {"r", "x"}, o, a, f, m, al) :
           o \in {0, 1, 4}, a \in {1, 2, 3, 11, 18, 19}, f \in {0, 2, 3}, m \in {0, 2, 3, 5},
           al \in {0, 2, 3, 4}}
Other == {Seg("load", fl, o, a, f, m, 1) :
            fl \in {{"r"}, {"r", "w"}, {"w"}, {"r", "w", "x"}}, o \in {0, 3}, a \in {4, 5, 6, 7, 10},
            f \in {0, 3}, m \in {3, 4}}
  \cup {Seg("stack", fl, 0, 0, 0, 0, 0) : fl \in {{"r", "w"}, {"r", "w", "x"}}}
  \cup {Seg("interp", {"r"}, 0, 0, 0, 0, 0)}
Good1 == Seg("load", {"r", "x"}, 4, 2, 2, 3, 4)
Good2 == Seg("load", {"r", "x"}, 1, 3, 3, 3, 0)
File(segments, entry, size) ==
  [segments |-> segments, entry |-> entry, size |-> size, header |-> TRUE]
Programs ==
  {File(<<c>>, e, 5) : c \in Code, e \in {2, 5}}
    \cup {File(<<c, d>>, 3, 6) : c \in {Good1, Good2}, d \in Other}
    \cup {File(<<d, c>>, 3, 6) : c \in {Good1, Good2}, d \in Other}
    \cup {[File(<<Good1>>, 3, 6) EXCEPT !.header = FALSE], File(<<>>, 3, 6),
          File(<<Good1, Good1, Good1>>, 3, 6), File(<<Good1>>, 3, 9)}

-----------------------------------------------------------------------------
Map == INSTANCE MemoryMap WITH Page <- PageBytes
Mappings == INSTANCE KernelVm WITH
  free <- vm_free,
  Frame <- 1..6, Levels <- 4, Fanout <- 2, MmioBase <- 1, MmioPages <- 6, MmioMax <- 3,
  ApertureLimit <- 2, Device <- 100..102, NotReserved <- {102}, Process <- {1}
Program == INSTANCE ElfLoad WITH
  pc <- at,
  Images <- Programs, Page <- 2, UserMin <- 2, UserEnd <- 20, StackTop <- 18, StackPages <- 2,
  ArgMax <- 2, RspGap <- 1, PageLimit <- 6, CopyLimit <- 2, SegmentLimit <- 2, FileLimit <- 8

MCBase == {0, 2, 3, 8, 12, 20}
MCLength == {0, 1, 4, 8, 16}

MCInit ==
  /\ part \in {"map", "boot", "kernel", "program"}
  /\ Map!memory_map_init
  /\ Init /\ (part # "boot" => b.nx)
  /\ Mappings!Init
  /\ Program!Init

MCNext ==
  /\ \/ /\ part = "map" /\ Map!MapNext
        /\ UNCHANGED <<vars, vm_vars, program_vars>>
     \/ /\ part = "boot" /\ Next
        /\ UNCHANGED <<map_vars, vm_vars, program_vars>>
     \/ /\ part = "kernel" /\ Mappings!Next
        /\ UNCHANGED <<map_vars, vars, program_vars>>
     \/ /\ part = "program" /\ Program!Next
        /\ UNCHANGED <<map_vars, vars, vm_vars>>
  /\ UNCHANGED part

MCSpec == MCInit /\ [][MCNext]_<<part, map_vars, vars, vm_vars, program_vars>>

-----------------------------------------------------------------------------
(* The map counts every usable page once, and the allocator's bitmaps get   *)
(* a place in it whenever there is one (memory_map_add, pmm_plan).          *)
MapAndPlanRight == part = "map" => Map!MapAndPlanRight

(* The kernel's mappings are the same in every process, in tables nobody    *)
(* can be given; the window holds the device ranges that were mapped, whole *)
(* and once, and nothing of a call that failed                              *)
(* (vmm_map_page, vmm_unmap_page, vmm_map_mmio, vmm_copy_kernel_half).      *)
KernelMapsExact == part = "kernel" => Mappings!KernelMapsExact

(* A program that is loaded is in memory as its file says, and one that     *)
(* cannot be is refused (elf_validate, elf_load).                           *)
ProgramExact == part = "program" => Program!ProgramExact
=============================================================================
