------------------------------- MODULE UserVm -------------------------------
(* The address spaces of processes: page tables (kernel/memory/vmm_core.c)  *)
(* and the ledger of the frames a process owns (kernel/memory/user_vm.c).   *)
(* Every call runs with IF=0 and is one step.  Between calls the process    *)
(* that runs uses its memory through the TLB, and the scheduler switches.   *)
(* Left out: the shared upper half of the root, which no user address       *)
(* selects and no ledger holds, and the flags of parent entries, which      *)
(* VMM_NEW_PARENT_FLAGS makes allow everything.  memory_phys_to_virt        *)
(* succeeds for every frame that pmm_alloc_page hands out.                  *)
EXTENDS Integers, FiniteSets, FiniteSetsExt, Sequences

CONSTANTS
  Space,        \* the user_vm objects
  Frames,       \* number of frames the page allocator has
  Levels,       \* 4
  Fanout,       \* entries of a table, 512
  UserMin, UserEnd,        \* USER_VM_MIN and USER_VM_END, as page numbers
  PageLimit, TableLimit,   \* USER_VM_PAGE_LIMIT, USER_VM_TABLE_LIMIT
  CopyPages,    \* the most pages a copy touches
  Data,         \* what a store writes
  Zero, Junk,   \* a zeroed page; what an earlier owner left
  Kernel,       \* CR3 of the kernel's own tables
  None

Frame == 1..Frames
Virt == UserMin..(UserEnd - 1)
(* USER_VM_EXEC without USER_VM_WRITE differs from "r" in NX only.           *)
Access == {"r", "rw"}

ASSUME UvmAssumption ==
  /\ Frames \in Nat /\ Levels \in Nat \ {0, 1} /\ Fanout \in Nat \ {0, 1}
  /\ UserMin \in Nat /\ UserEnd \in Nat /\ UserEnd <= Fanout ^ Levels
  /\ PageLimit \in Nat /\ TableLimit \in Nat \ {0} /\ CopyPages \in Nat
  /\ Zero # Junk /\ Zero \notin Data /\ Junk \notin Data /\ Kernel \notin Space

VARIABLES
  m,     \* [table, data, free, vm, tlb, panic]: memory, allocator, ledgers, TLB, PANIC
  cr3,   \* the space whose root CR3 holds, or Kernel
  view,  \* ghost: what the tables of each space map
  call   \* ghost: the last call and its answer; nothing reads it

uvm_vars == <<m, cr3, view, call>>

(* Table entries: 0, or a frame with an access (of a parent, "rwx").        *)
Absent == [phys |-> 0, access |-> "none"]
JunkTable == [i \in 0..(Fanout - 1) |-> [phys |-> Frames + 1, access |-> "rwx"]]
ZeroTable == [i \in 0..(Fanout - 1) |-> Absent]
NoVm == [initialized |-> FALSE, root |-> 0, tables |-> {}, pages |-> {},
         table_count |-> 0, page_count |-> 0]

memory_page_index(p, level) == (p \div Fanout ^ (level - 1)) % Fanout

-----------------------------------------------------------------------------
(* Frames.  Free ones are alike, so which of them the allocator picks does  *)
(* not matter; it fails only when there is none.                            *)
pmm_alloc_page(s) == IF s.free = {} THEN None ELSE Min(s.free)

release_frame(s, f) ==
  IF f \notin Frame \/ f \in s.free THEN [s EXCEPT !.panic = TRUE]
  ELSE [s EXCEPT !.free = @ \cup {f}, !.table[f] = JunkTable, !.data[f] = Junk]

Tables(s, v) == {t.phys : t \in s.vm[v].tables}
Pages(s, v) == {g.virt : g \in s.vm[v].pages}
PageAt(s, v, p) == CHOOSE g \in s.vm[v].pages : g.virt = p

table_access(s, v, f) == f \notin s.free /\ \E t \in s.vm[v].tables : t.phys = f

table_allocate(s, v) ==
  LET f == pmm_alloc_page(s) IN
  IF s.vm[v].table_count >= TableLimit \/ f = None THEN [s |-> s, phys |-> None]
  ELSE [s |-> [s EXCEPT !.free = @ \ {f}, !.table[f] = ZeroTable,
                        !.vm[v].tables = @ \cup {[phys |-> f, published |-> FALSE]},
                        !.vm[v].table_count = @ + 1],
        phys |-> f]

Private(s, v, f) == f # s.vm[v].root /\ [phys |-> f, published |-> FALSE] \in s.vm[v].tables

table_release(s, v, f) ==
  IF ~Private(s, v, f) THEN [s EXCEPT !.panic = TRUE]
  ELSE [release_frame(s, f) EXCEPT !.vm[v].tables = @ \ {[phys |-> f, published |-> FALSE]},
                                   !.vm[v].table_count = @ - 1]

table_commit(s, v, f) ==
  IF ~Private(s, v, f) THEN [s EXCEPT !.panic = TRUE]
  ELSE [s EXCEPT !.vm[v].tables = (@ \ {[phys |-> f, published |-> FALSE]})
                                    \cup {[phys |-> f, published |-> TRUE]}]

(* Mutant: the TLB keeps the translation.                                  *)
invalidate_Never(s, v, p) == s

invalidate(s, v, p) ==
  IF cr3 = v THEN [s EXCEPT !.tlb = {e \in @ : e.virt # p}] ELSE s

-----------------------------------------------------------------------------
(* Page tables.                                                             *)

(* The last table met on the way from the root down to p and its entry for  *)
(* p.  ok: every table on the way is this space's and met once.             *)
walk(s, v, p) ==
  LET Enter(level, t, met) ==
        LET ok == table_access(s, v, t) /\ t \notin met IN
        [ok |-> ok, level |-> level, table |-> t, met |-> met \cup {t},
         entry |-> IF ok THEN s.table[t][memory_page_index(p, level)] ELSE Absent]
      Met[level \in 1..Levels] ==
        IF level = Levels THEN Enter(level, s.vm[v].root, {})
        ELSE LET above == Met[level + 1] IN
             IF above.entry = Absent THEN above
             ELSE Enter(level, above.entry.phys, above.met) IN
  Met[1]

ready(s, v) ==
  /\ s.vm[v].initialized
  /\ s.vm[v].page_count <= PageLimit
  /\ s.vm[v].table_count \in 1..TableLimit
  /\ [phys |-> s.vm[v].root, published |-> TRUE] \in s.vm[v].tables

(* The entry of p where ledger and tables agree; None where they do not.    *)
query_locked(s, v, p) ==
  LET w == walk(s, v, p) IN
  IF ~ready(s, v) \/ p \notin Virt THEN None
  ELSE IF ~w.ok THEN None
  ELSE IF w.entry = Absent
  THEN IF p \in Pages(s, v) THEN None ELSE Absent
  ELSE IF /\ p \in Pages(s, v) /\ PageAt(s, v, p).phys = w.entry.phys
          /\ w.entry.phys \notin s.free /\ w.entry.access \in Access
  THEN w.entry ELSE None

IsMapped(s, v, p) == query_locked(s, v, p) \notin {None, Absent}

store_entry(s, w, p, entry) == [s EXCEPT !.table[w.table][memory_page_index(p, w.level)] = entry]

(* Up to n new tables, until one cannot be had.                             *)
Acquire(s, v, n) ==
  LET Got[i \in 0..n] ==
        IF i = 0 THEN [s |-> s, frames |-> <<>>]
        ELSE LET before == Got[i - 1]  t == table_allocate(before.s, v) IN
             IF Len(before.frames) < i - 1 \/ t.phys = None THEN before
             ELSE [s |-> t.s, frames |-> Append(before.frames, t.phys)] IN
  Got[n]

(* Mutant: the last table acquired is forgotten.                           *)
rollback_AllButOne(s, v, frames) ==
  LET Undone[i \in 0..Len(frames)] ==
        IF i <= 1 THEN s ELSE table_release(Undone[i - 1], v, frames[Len(frames) + 1 - i]) IN
  Undone[Len(frames)]

rollback(s, v, frames) ==
  LET Undone[i \in 0..Len(frames)] ==
        IF i = 0 THEN s ELSE table_release(Undone[i - 1], v, frames[Len(frames) + 1 - i]) IN
  Undone[Len(frames)]

(* The private subtree below w is linked, published by one store, committed. *)
Publish(s, v, w, p, frames, leaf) ==
  LET n == Len(frames)
      entry(i) == IF i > n THEN leaf ELSE [phys |-> frames[i], access |-> "rwx"]
      linked == [s EXCEPT !.table = [f \in Frame |->
        IF \E i \in 1..n : frames[i] = f
        THEN LET i == CHOOSE i \in 1..n : frames[i] = f IN
             [s.table[f] EXCEPT ![memory_page_index(p, w.level - i)] = entry(i + 1)]
        ELSE s.table[f]]]
      Committed[i \in 0..n] ==
        IF i = 0 THEN store_entry(linked, w, p, entry(1))
        ELSE table_commit(Committed[i - 1], v, frames[i]) IN
  Committed[n]

(* The state after the call, and whether it returned true.                  *)
vmm_space_map(s, v, p, phys, access) ==
  LET w    == walk(s, v, p)
      got  == Acquire(s, v, w.level - 1)
      leaf == [phys |-> phys, access |-> access] IN
  IF ~w.ok \/ w.entry # Absent THEN [s |-> s, ok |-> FALSE]
  ELSE IF Len(got.frames) < w.level - 1
  THEN [s |-> rollback(got.s, v, got.frames), ok |-> FALSE]
  ELSE [s |-> invalidate(Publish(got.s, v, w, p, got.frames, leaf), v, p), ok |-> TRUE]

(* Of a mapped page; the code returns false for any other.                  *)
vmm_space_unmap(s, v, p) == invalidate(store_entry(s, walk(s, v, p), p, Absent), v, p)

vmm_space_protect(s, v, p, access) ==
  LET w == walk(s, v, p) IN
  invalidate(store_entry(s, w, p, [w.entry EXCEPT !.access = access]), v, p)

-----------------------------------------------------------------------------
(* The calls of user_vm.h.  Each is given as the state it leaves and the    *)
(* answer it returns.                                                       *)
Fails(s) == [s |-> s, ok |-> FALSE]
Succeeds(s) == [s |-> s, ok |-> TRUE]

Answer(op, v, P, arg, result) ==
  /\ m' = result.s
  /\ call' = [op |-> op, space |-> v, pages |-> P, arg |-> arg, ok |-> result.ok]
  /\ cr3' = cr3

user_vm_create(v) ==
  LET f == pmm_alloc_page(m) IN
  Answer("create", v, {}, None,
    IF m.vm[v].initialized \/ f = None THEN Fails(m)
    ELSE Succeeds([m EXCEPT !.free = @ \ {f}, !.table[f] = ZeroTable,
           !.vm[v] = [initialized |-> TRUE, root |-> f, page_count |-> 0, table_count |-> 1,
                      tables |-> {[phys |-> f, published |-> TRUE]}, pages |-> {}]]))

memset(s, f) == [s EXCEPT !.data[f] = Zero]

(* The page's frame, then what its tables need, or everything back.         *)
user_vm_alloc_page(v, p, access) ==
  LET f      == pmm_alloc_page(m)
      taken  == memset([m EXCEPT !.free = @ \ {f}], f)
      mapped == vmm_space_map(taken, v, p, f, access) IN
  Answer("alloc", v, {p}, access,
    IF \/ ~ready(m, v) \/ access \notin Access
       \/ m.vm[v].page_count = PageLimit
       \/ query_locked(m, v, p) # Absent
       \/ f = None
    THEN Fails(m)
    ELSE IF ~mapped.ok THEN Fails(release_frame(mapped.s, f))
    ELSE Succeeds([mapped.s EXCEPT !.vm[v].pages = @ \cup {[virt |-> p, phys |-> f]},
                                   !.vm[v].page_count = @ + 1]))

user_vm_unmap_page(v, p) ==
  LET page == PageAt(m, v, p)
      s    == release_frame(vmm_space_unmap(m, v, p), page.phys) IN
  Answer("unmap", v, {p}, None,
    IF ~IsMapped(m, v, p) THEN Fails(m)
    ELSE Succeeds([s EXCEPT !.vm[v].pages = @ \ {page}, !.vm[v].page_count = @ - 1]))

user_vm_protect_page(v, p, access) ==
  Answer("protect", v, {p}, access,
    IF access \notin Access \/ ~IsMapped(m, v, p) THEN Fails(m)
    ELSE Succeeds(vmm_space_protect(m, v, p, access)))

(* The frames behind the first pages of a copy of n from p, until one of    *)
(* them does not allow it.                                                  *)
Chunks(v, p, n, write) ==
  LET Found[i \in 0..n] ==
        IF i = 0 THEN <<>>
        ELSE LET before == Found[i - 1]
                 e      == query_locked(m, v, p + i - 1) IN
             IF Len(before) < i - 1 \/ e \in {None, Absent} \/ (write /\ e.access # "rw")
             THEN before ELSE Append(before, e.phys) IN
  Found[n]

(* Every page is looked at before the first byte is copied.                 *)
copy_preflight(v, p, n, write) ==
  /\ ready(m, v)
  /\ n > 0 => /\ p \in Virt /\ p + n <= UserEnd
              /\ Len(Chunks(v, p, n, write)) = n

Written(s, chunks, d) ==
  [s EXCEPT !.data = [f \in Frame |-> IF \E i \in 1..Len(chunks) : chunks[i] = f THEN d ELSE @[f]]]

(* Mutant: each page is looked at when the copy gets there.                 *)
user_vm_copy_to_AsItGoes(v, p, n, d) ==
  LET chunks == IF ready(m, v) THEN Chunks(v, p, n, TRUE) ELSE <<>> IN
  Answer("store", v, p..(p + n - 1), d,
    [s |-> Written(m, chunks, d), ok |-> ready(m, v) /\ Len(chunks) = n])

user_vm_copy_to(v, p, n, d) ==
  Answer("store", v, p..(p + n - 1), d,
    IF copy_preflight(v, p, n, TRUE) THEN Succeeds(Written(m, Chunks(v, p, n, TRUE), d))
    ELSE Fails(m))

user_vm_copy_from(v, p, n) ==
  LET ok     == copy_preflight(v, p, n, FALSE)
      chunks == Chunks(v, p, n, FALSE)
      got    == [q \in p..(p + n - 1) |-> m.data[chunks[q - p + 1]]] IN
  Answer("load", v, p..(p + n - 1), IF ok THEN got ELSE None, [s |-> m, ok |-> ok])

ownership_valid(s, v) ==
  LET V == s.vm[v] IN
  /\ \A t \in V.tables : t.published /\ t.phys \notin s.free
  /\ \A g \in V.pages : /\ g.phys \notin Tables(s, v)
                        /\ IsMapped(s, v, g.virt) /\ query_locked(s, v, g.virt).phys = g.phys
  /\ Cardinality(Tables(s, v)) = V.table_count
  /\ Cardinality(Pages(s, v)) = V.page_count
  /\ Cardinality({g.phys : g \in V.pages}) = V.page_count

user_vm_destroy(v) ==
  LET gone == {g.phys : g \in m.vm[v].pages} \cup Tables(m, v) IN
  Answer("destroy", v, {}, None,
    IF ~ready(m, v) \/ cr3 = v \/ ~ownership_valid(m, v) THEN Fails(m)
    ELSE Succeeds(
      [m EXCEPT !.free = @ \cup gone, !.vm[v] = NoVm,
                !.panic = @ \/ gone \cap m.free # {},
                !.table = [f \in Frame |-> IF f \in gone THEN JunkTable ELSE @[f]],
                !.data = [f \in Frame |-> IF f \in gone THEN Junk ELSE @[f]]]))

-----------------------------------------------------------------------------
(* The processor: loading CR3 empties the TLB; an access of the running     *)
(* process uses a cached translation or walks the tables and caches it.     *)
Live == {v \in Space : m.vm[v].initialized}

LoadCR3(to) ==
  /\ to # cr3
  /\ to \in Live \cup {Kernel}
  /\ cr3' = to
  /\ m' = [m EXCEPT !.tlb = {}]
  /\ call' = call

Translations(p) ==
  LET cached == {e \in m.tlb : e.virt = p}
      w      == walk(m, cr3, p) IN
  IF cached # {} THEN cached
  ELSE IF w.ok /\ w.entry # Absent
  THEN {[virt |-> p, phys |-> w.entry.phys, access |-> w.entry.access]} ELSE {}

UserLoad(p) ==
  /\ cr3 # Kernel
  /\ \E e \in Translations(p) :
       Answer("load", cr3, {p}, [q \in {p} |-> m.data[e.phys]],
              Succeeds([m EXCEPT !.tlb = @ \cup {e}]))

UserStore(p, d) ==
  /\ cr3 # Kernel
  /\ \E e \in Translations(p) :
       /\ e.access = "rw"
       /\ Answer("store", cr3, {p}, d,
                 Succeeds([m EXCEPT !.tlb = @ \cup {e}, !.data[e.phys] = d]))

-----------------------------------------------------------------------------
(* What the tables of s map, as its process sees it.                        *)
ViewOf(s, v) ==
  IF ~s.vm[v].initialized THEN None
  ELSE LET entry == [p \in Virt |-> walk(s, v, p).entry] IN
       [p \in {q \in Virt : entry[q] # Absent} |->
          [data |-> s.data[entry[p].phys], access |-> entry[p].access]]

UvmInit ==
  /\ m = [table |-> [f \in Frame |-> JunkTable], data |-> [f \in Frame |-> Junk],
          free |-> Frame, vm |-> [v \in Space |-> NoVm], tlb |-> {}, panic |-> FALSE]
  /\ cr3 = Kernel
  /\ view = [v \in Space |-> None]
  /\ call = None

UvmStep ==
  \/ \E v \in Space :
       \/ user_vm_create(v) \/ user_vm_destroy(v)
       \/ \E p \in Virt :
            \/ user_vm_unmap_page(v, p)
            \/ \E access \in Access \cup {"rwx"} :
                 user_vm_alloc_page(v, p, access) \/ user_vm_protect_page(v, p, access)
            \/ \E n \in 0..CopyPages :
                 user_vm_copy_from(v, p, n) \/ \E d \in Data : user_vm_copy_to(v, p, n, d)
  \/ \E to \in Space \cup {Kernel} : LoadCR3(to)
  \/ \E p \in Virt : UserLoad(p) \/ \E d \in Data : UserStore(p, d)

UvmNext ==
  /\ UvmStep
  /\ view' = IF m' = m THEN view ELSE [v \in Space |-> ViewOf(m', v)]

UvmSpec == UvmInit /\ [][UvmNext]_uvm_vars

-----------------------------------------------------------------------------
Owned(v) == {g.phys : g \in m.vm[v].pages} \cup Tables(m, v)
UvmTypeOK ==
  /\ m.free \subseteq Frame /\ cr3 \in Space \cup {Kernel}
  /\ \A v \in Space : /\ m.vm[v].table_count \in 0..TableLimit
                      /\ m.vm[v].page_count \in 0..PageLimit
  /\ m.data \in [Frame -> Data \cup {Zero, Junk}]

(* Every frame is free or one space's, never two spaces' nor a table and a  *)
(* page at once, and none is lost, also after a call that failed half-way;  *)
(* each ledger describes what its tables map, so a space that is not active *)
(* can always be destroyed, and no PANIC on ownership is reached.           *)
FramesOwnedOnce ==
  /\ UvmTypeOK
  /\ ~m.panic
  /\ \A v, w \in Space : v # w => Owned(v) \cap Owned(w) = {}
  /\ m.free = Frame \ UNION {Owned(v) : v \in Space}
  /\ \A v \in Live : ready(m, v) /\ ownership_valid(m, v)
  /\ \A v \in Live, p \in Virt : query_locked(m, v, p) # None

(* The processor never uses a translation the tables do not hold any more:  *)
(* every change of an entry of the active space invalidates it.             *)
TlbCoherent ==
  \A e \in m.tlb : /\ cr3 # Kernel
                   /\ walk(m, cr3, e.virt).entry = [phys |-> e.phys, access |-> e.access]

Spaces == INSTANCE AddressSpaces WITH memory <- view

(* Tables, ledger, frames and TLB together are the private address spaces   *)
(* of AddressSpaces: a new page is zero; a store reaches its own space only;*)
(* what a load or a copy reads is what was stored last; a call that answers *)
(* true has done all it was asked, over page boundaries too, and one that   *)
(* answers false has changed nothing; and a copy is refused only when one   *)
(* of its pages does not allow it.                                          *)
ImplementsSpaces == Spaces!SpacesSpec
=============================================================================
