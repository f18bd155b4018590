------------------------------- MODULE Fat32 --------------------------------
(***************************************************************************)
(* The FAT32 importer (fs/fat32.c) and the boot code and self test that    *)
(* use it (fs/storage.c).                                                  *)
(*                                                                         *)
(* What is on the disk is open until it is read: the first read of a       *)
(* sector chooses its content, every later one finds it.  The recursion of *)
(* directory() is a stack of frames.  A file's bytes are told by the place *)
(* they were read from.  Nothing else touches the importer's state, so     *)
(* that steps may be as large as one cluster or one directory entry; a     *)
(* read or an allocation may fail between any two of them.                 *)
(*                                                                         *)
(* Checks of the boot sector that relate to nothing else are its field     *)
(* "valid".  The limit on the length of a path (128 characters) is left    *)
(* out: nine names of at most twelve characters never reach it.            *)
(***************************************************************************)
EXTENDS Integers, FiniteSets, SequencesExt

CONSTANTS
    Boots,         \* boot sectors a disk may have
    Links,         \* entries of the allocation table
    Dirents,       \* directory entries
    ShortName,     \* the name of a raw 8.3 name in the tree, or Invalid
    Invalid,
    FatPerSector,  \* table entries in a sector (128)
    DirPerSector,  \* directory entries in a sector (16)
    SectorBytes,   \* bytes in a sector (512)
    ReadLimit,     \* sectors one import may read (65536)
    VisitLimit,    \* clusters one import may claim (16384)
    DepthLimit,    \* directories below directories (8)
    NodeLimit,     \* nodes of a tree (128)
    FileMax,       \* bytes of a file (1 MiB)
    CacheMax,      \* bytes of all files (4 MiB)
    Rounds         \* comparisons of one self test (9)

VARIABLES
    boot,      \* sector 0 of the disk
    disk,      \* disk[<<lba, i>>]: directory entry i of a sector, or, with i = 0, a table sector
    fs,        \* fs[who]: the struct fat32 of the mount and of the self test's copy
    heap,      \* heap[b]: content of the live block b
    at,        \* where storage.c stands
    calls,     \* the calls of directory() and read_file() under way, innermost last
    test,      \* the self test: rounds done, blocks before, verdict, and whether a read or allocation failed
    panicked   \* kfree() was given a block that is not live
vars == <<boot, disk, fs, heap, at, calls, test, panicked>>

END == 99     \* any link >= 0x0ffffff8
Torn == <<>>  \* a table sector that differs from the other copy

Zero == [on |-> FALSE, ready |-> FALSE, nodes |-> <<>>, claimed |-> 0, cache_valid |-> FALSE, cached_sector |-> 0,
         fat_cache |-> <<>>, visited |-> 0, reads |-> 0, cached_bytes |-> 0]

RootNode == [path |-> <<>>, type |-> "dir", size |-> 0, data |-> 0]
NoTest == [copy |-> 0, rounds |-> 0, before |-> 0, good |-> TRUE, faulted |-> FALSE]

Importing == calls # <<>>
who == IF at = "start" THEN "mount" ELSE "copy"
me == fs[who]

-----------------------------------------------------------------------------
(* Blocks.                                                                 *)

Fresh == CHOOSE b \in 1 .. Cardinality(DOMAIN heap) + 1 : b \notin DOMAIN heap

\* The blocks fat32_discard gives to free(), each as often as it does.
Owned(f) == [i \in DOMAIN f.nodes |-> f.nodes[i].data] \o <<f.claimed>>

\* release() of a sequence of pointers, NULL ones left out.
Free(blocks) ==
    LET gone == SelectSeq(blocks, LAMBDA b : b # 0)
    IN  /\ heap' = [b \in DOMAIN heap \ Range(gone) |-> heap[b]]
        /\ panicked' = (panicked \/ ~IsInjective(gone) \/ ~(Range(gone) \subseteq DOMAIN heap))

fat32_discard(w) == Free(Owned(fs[w])) /\ fs' = [fs EXCEPT ![w] = Zero]

\* An import ends without a tree: fail: fat32_discard(fs), and what its caller then does.
Fail(fault) ==
    /\ fat32_discard(who)
    /\ calls' = <<>>
    /\ at' = IF at = "start" THEN "off" ELSE "tested"
    /\ test' = IF at = "start" THEN test ELSE [test EXCEPT !.good = FALSE, !.faulted = @ \/ fault]

-----------------------------------------------------------------------------
(* Reading.                                                                *)

OnDisk(place, possible) == IF place \in DOMAIN disk THEN {disk[place]} ELSE possible

fat_lba(copy, relative) == boot.reserved + copy * boot.fat_size + relative
cluster_lba(cluster) == boot.reserved + boot.fats * boot.fat_size + (cluster - 2) * boot.spc
valid_cluster(cluster) == cluster >= 2 /\ cluster - 2 < boot.clusters

\* What a sector of the table may hold; its entries for clusters that do not exist mean nothing.
FatSectors(relative) == {content \in [0 .. FatPerSector - 1 -> Links] :
    \A i \in DOMAIN content : relative * FatPerSector + i - 2 >= boot.clusters => content[i] = END}

\* entry(): the link of a cluster, through the one cached sector of the table.  What it
\* may come to: whether it returns true, the struct, the link and the disk as it is then known.
entry(f, cluster) ==
    LET relative == cluster \div FatPerSector
        place == <<fat_lba(IF boot.mirrored THEN 0 ELSE boot.active, relative), 0>>
        mirror == <<fat_lba(1, relative), 0>>
        compared == boot.mirrored /\ boot.fats = 2
        reads == f.reads + (IF compared THEN 2 ELSE 1)
        Read(content, copy) ==
            [ok |-> reads <= ReadLimit /\ copy = content,
             f |-> [f EXCEPT !.reads = reads, !.cache_valid = TRUE, !.cached_sector = relative,
                             !.fat_cache = content],
             link |-> content[cluster % FatPerSector],
             disk |-> (place :> content) @@ (IF compared THEN mirror :> copy ELSE <<>>) @@ disk]
    IN  IF relative >= boot.fat_size THEN {[ok |-> FALSE, disk |-> disk]}
        ELSE IF f.cache_valid /\ f.cached_sector = relative
        THEN {[ok |-> TRUE, f |-> f, link |-> f.fat_cache[cluster % FatPerSector], disk |-> disk]}
        ELSE UNION {{Read(content, copy) :
                        copy \in IF compared THEN OnDisk(mirror, {content, Torn}) ELSE {content}} :
                    content \in OnDisk(place, FatSectors(relative))}

\* Mutant: whoever comes to a cluster gets it.
CanClaim_Any(f, cluster) == valid_cluster(cluster) /\ f.visited < VisitLimit

\* claim(): a cluster belongs to one file or directory, and once.
CanClaim(f, cluster) ==
    valid_cluster(cluster) /\ f.visited < VisitLimit /\ cluster \notin heap[f.claimed]

-----------------------------------------------------------------------------
(* Calls.                                                                  *)

Directory(first, parent, path, depth) ==
    [fn |-> "directory", first |-> first, parent |-> parent, cluster |-> first, path |-> path, depth |-> depth,
     claimed |-> FALSE, pos |-> 0, ended |-> FALSE]
File(node, cluster) == [fn |-> "read_file", node |-> node, cluster |-> cluster, copied |-> 0]

Top == Last(calls)
In(fn) == Importing /\ Top.fn = fn
Caller == Front(calls)

\* The call on top goes on, as frame, with the struct as f.
GoOn(f, frame) ==
    /\ fs' = [fs EXCEPT ![who] = f]
    /\ calls' = Append(Caller, frame)
    /\ UNCHANGED <<at, test, panicked>>

\* directory() returns true; the outermost return ends the import.
Return(f) ==
    IF Caller # <<>>
    THEN /\ fs' = [fs EXCEPT ![who] = f]
         /\ calls' = Caller
         /\ UNCHANGED <<heap, at, test, panicked>>
    ELSE /\ Free(<<f.claimed>>)
         /\ fs' = [fs EXCEPT ![who] = [f EXCEPT !.claimed = 0, !.ready = TRUE]]
         /\ calls' = <<>>
         /\ at' = IF at = "start" THEN "mounting" ELSE "comparing"
         /\ UNCHANGED test

directory_claim ==
    /\ In("directory") /\ ~Top.claimed
    /\ IF Top.depth > DepthLimit \/ ~CanClaim(me, Top.cluster) THEN Fail(FALSE)
       ELSE /\ heap' = [heap EXCEPT ![me.claimed] = @ \cup {Top.cluster}]
            /\ GoOn([me EXCEPT !.visited = @ + 1], [Top EXCEPT !.claimed = TRUE, !.pos = 0])
    /\ UNCHANGED <<boot, disk>>

\* read_file() up to its loop, for the node that was just added.
StartFile(f, frame, size, cluster) ==
    IF size = 0
    THEN IF cluster # 0 THEN Fail(FALSE) ELSE GoOn(f, frame) /\ UNCHANGED heap
    ELSE IF size > FileMax \/ size > CacheMax - f.cached_bytes THEN Fail(FALSE)
    ELSE /\ heap' = (Fresh :> <<>>) @@ heap
         /\ fs' = [fs EXCEPT ![who] = [f EXCEPT !.nodes[Len(f.nodes)].data = Fresh, !.cached_bytes = @ + size]]
         /\ calls' = Caller \o <<frame, File(Len(f.nodes), cluster)>>
         /\ UNCHANGED <<at, test, panicked>>

AddNode(f, frame, e) ==
    LET name == ShortName[e.name]
        path == Append(Top.path, name)
        node == [path |-> path, type |-> IF e.dir THEN "dir" ELSE "file", size |-> e.size, data |-> 0]
        g == [f EXCEPT !.nodes = Append(@, node)]
    IN  IF \/ name = Invalid
           \/ Len(f.nodes) = NodeLimit
           \/ e.dir /\ e.size # 0
           \/ \E i \in DOMAIN f.nodes : f.nodes[i].path = path
        THEN Fail(FALSE)
        ELSE IF e.dir
        THEN /\ fs' = [fs EXCEPT ![who] = g]
             /\ calls' = Caller \o <<frame, Directory(e.child, IF Top.first = boot.root THEN 0 ELSE Top.first,
                                                      path, Top.depth + 1)>>
             /\ UNCHANGED <<heap, at, test, panicked>>
        ELSE StartFile(g, frame, e.size, e.child)

DotValid(e) == /\ e.name \in {".", ".."} /\ e.dir /\ e.size = 0
               /\ e.child = IF e.name = "." THEN Top.first ELSE Top.parent

\* One directory entry, with the read of its sector when it is the first in it.
directory_entry ==
    /\ In("directory") /\ Top.claimed /\ ~Top.ended /\ Top.pos < boot.spc * DirPerSector
    /\ LET place == <<cluster_lba(Top.cluster) + Top.pos \div DirPerSector, Top.pos % DirPerSector>>
           f == IF Top.pos % DirPerSector = 0 THEN [me EXCEPT !.reads = @ + 1] ELSE me
           next == [Top EXCEPT !.pos = @ + 1]
       IN  \E e \in OnDisk(place, Dirents) :
              /\ disk' = (place :> e) @@ disk
              /\ CASE f.reads > ReadLimit -> Fail(FALSE)
                   [] e.mark = "end" -> GoOn(f, [Top EXCEPT !.ended = TRUE]) /\ UNCHANGED heap
                   [] e.mark = "skip" -> GoOn(f, next) /\ UNCHANGED heap
                   [] e.mark = "reject" -> Fail(FALSE)
                   [] e.mark = "dot" -> IF DotValid(e) THEN GoOn(f, next) /\ UNCHANGED heap ELSE Fail(FALSE)
                   [] e.mark = "name" -> AddNode(f, next, e)
    /\ UNCHANGED boot

directory_next ==
    /\ In("directory") /\ Top.claimed /\ (Top.ended \/ Top.pos = boot.spc * DirPerSector)
    /\ \E got \in entry(me, Top.cluster) :
          /\ disk' = got.disk
          /\ IF got.ok /\ got.link = END THEN Return(got.f)
             ELSE IF got.ok /\ valid_cluster(got.link)
             THEN GoOn(got.f, [Top EXCEPT !.cluster = got.link, !.claimed = FALSE]) /\ UNCHANGED heap
             ELSE Fail(FALSE)
    /\ UNCHANGED boot

\* One cluster of a file: claim, copy, follow the link.
read_file ==
    /\ In("read_file")
    /\ LET node == me.nodes[Top.node]
           now == Min({node.size, Top.copied + boot.spc * SectorBytes})
           bytes == [i \in 1 .. now - Top.copied |->
                        <<cluster_lba(Top.cluster) + (i - 1) \div SectorBytes, (i - 1) % SectorBytes>>]
           f == [me EXCEPT !.visited = @ + 1, !.reads = @ + (now - Top.copied + SectorBytes - 1) \div SectorBytes]
           copied == [heap EXCEPT ![me.claimed] = @ \cup {Top.cluster}, ![node.data] = @ \o bytes]
       IN  IF ~CanClaim(me, Top.cluster) \/ f.reads > ReadLimit THEN Fail(FALSE) /\ UNCHANGED disk
           ELSE \E got \in entry(f, Top.cluster) :
                   /\ disk' = got.disk
                   /\ IF got.ok /\ now = node.size /\ got.link = END
                      THEN /\ heap' = copied
                           /\ fs' = [fs EXCEPT ![who] = got.f]
                           /\ calls' = Caller
                           /\ UNCHANGED <<at, test, panicked>>
                      ELSE IF got.ok /\ now < node.size /\ valid_cluster(got.link)
                      THEN heap' = copied /\ GoOn(got.f, [Top EXCEPT !.cluster = got.link, !.copied = now])
                      ELSE Fail(FALSE)
    /\ UNCHANGED boot

\* A sector cannot be read, or kmalloc returns NULL.
Fault == Importing /\ Fail(TRUE) /\ UNCHANGED <<boot, disk>>

\* fat32_import up to its call of directory(); the struct must be zeroed.
fat32_import ==
    /\ ~Importing /\ ~me.on /\ ~me.ready /\ me.nodes = <<>>
    /\ \/ Fail(TRUE) /\ UNCHANGED disk
       \/ IF ~boot.valid \/ (~boot.mirrored /\ boot.active >= boot.fats) \/ ~valid_cluster(boot.root)
          THEN Fail(FALSE) /\ UNCHANGED disk
          ELSE \E got \in entry([me EXCEPT !.on = TRUE, !.reads = @ + 1], 0) :
                  /\ disk' = got.disk
                  /\ IF got.ok /\ got.link = boot.media /\ got.f.fat_cache[1] = END
                     THEN /\ heap' = (Fresh :> {}) @@ heap
                          /\ fs' = [fs EXCEPT ![who] = [got.f EXCEPT !.claimed = Fresh, !.nodes = <<RootNode>>]]
                          /\ calls' = <<Directory(boot.root, 0, <<>>, 0)>>
                          /\ UNCHANGED <<at, test, panicked>>
                     ELSE Fail(FALSE)
    /\ UNCHANGED boot

-----------------------------------------------------------------------------
(* storage.c                                                               *)

\* At boot, once; there may be no disk.
storage_init ==
    \/ at = "start" /\ ~Importing /\ at' = "off" /\ UNCHANGED <<boot, disk, fs, heap, calls, test, panicked>>
    \/ at = "start" /\ fat32_import

\* vfs_mount_subtree takes the tree or not.
storage_mount ==
    /\ at = "mounting"
    /\ \/ at' = "ready" /\ UNCHANGED <<fs, heap, panicked>>
       \/ at' = "off" /\ fat32_discard("mount")
    /\ UNCHANGED <<boot, disk, calls, test>>

\* The self test imports the disk again, into one struct it uses over and over.
storage_selftest ==
    /\ at = "ready"
    /\ at' = "testing"
    /\ heap' = (Fresh :> <<>>) @@ heap
    /\ test' = [NoTest EXCEPT !.copy = Fresh]
    /\ UNCHANGED <<boot, disk, fs, calls, panicked>>

Contents(w) == [i \in DOMAIN fs[w].nodes |->
    LET n == fs[w].nodes[i]
    IN  [path |-> n.path, type |-> n.type, size |-> n.size, bytes |-> IF n.data = 0 THEN <<>> ELSE heap[n.data]]]

compare_snapshot ==
    \/ at = "testing" /\ fat32_import
    \/ /\ at = "comparing"
       /\ fat32_discard("copy")
       /\ LET good == Contents("copy") = Contents("mount") /\ fs["copy"].cached_bytes = fs["mount"].cached_bytes
              live == Cardinality(DOMAIN heap')
          IN  /\ test' = [test EXCEPT !.rounds = @ + 1, !.good = good,
                                      !.before = IF test.rounds = 0 THEN live ELSE @]
              /\ at' = IF good /\ test.rounds + 1 < Rounds THEN "testing" ELSE "tested"
       /\ UNCHANGED <<boot, disk, calls>>

selftest_end ==
    /\ at = "tested"
    /\ Free(Owned(fs["copy"]) \o <<test.copy>>)
    /\ fs' = [fs EXCEPT !["copy"] = Zero]
    /\ test' = [test EXCEPT !.copy = 0, !.good = @ /\ Cardinality(DOMAIN heap) = test.before]
    /\ at' = "ready"
    /\ UNCHANGED <<boot, disk, calls>>

Init ==
    /\ boot \in Boots
    /\ disk = <<>>
    /\ fs = [w \in {"mount", "copy"} |-> Zero]
    /\ heap = <<>>
    /\ at = "start"
    /\ calls = <<>>
    /\ test = NoTest
    /\ panicked = FALSE

Next ==
    \/ directory_claim \/ directory_entry \/ directory_next \/ read_file \/ Fault
    \/ storage_init \/ storage_mount \/ storage_selftest \/ compare_snapshot \/ selftest_end

Spec == Init /\ [][Next]_vars

-----------------------------------------------------------------------------
(* The tree a volume stands for, by the layout of FAT32 alone.             *)

Link(c) == disk[<<fat_lba(IF boot.mirrored THEN 0 ELSE boot.active, c \div FatPerSector), 0>>][c % FatPerSector]

RECURSIVE ChainFrom(_, _)
ChainFrom(c, most) == IF most = 0 \/ Link(c) = END THEN <<c>> ELSE <<c>> \o ChainFrom(Link(c), most - 1)
Chain(c) == ChainFrom(c, boot.clusters)

\* The sectors of a chain, in order.
SectorsOf(c) == FlattenSeq([k \in DOMAIN Chain(c) |-> [s \in 1 .. boot.spc |-> cluster_lba(Chain(c)[k]) + s - 1]])

\* The entries of a directory, up to the first that says there are no more.
EntriesOf(c) ==
    LET sectors == SectorsOf(c)
        place(k) == <<sectors[(k - 1) \div DirPerSector + 1], (k - 1) % DirPerSector>>
        all == 1 .. Len(sectors) * DirPerSector
        last == Min({k \in all : place(k) \in DOMAIN disk /\ disk[place(k)].mark = "end"}
                      \cup {Len(sectors) * DirPerSector + 1})
    IN  [k \in 1 .. last - 1 |-> disk[place(k)]]

BytesOf(c, size) == [i \in 1 .. size |-> <<SectorsOf(c)[(i - 1) \div SectorBytes + 1], (i - 1) % SectorBytes>>]

RECURSIVE TreeBelow(_, _)
TreeBelow(c, path) ==
    LET named == SelectSeq(EntriesOf(c), LAMBDA e : e.mark = "name")
        under(e) == Append(path, ShortName[e.name])
        chain(e) == IF e.child = 0 THEN <<>> ELSE Chain(e.child)
        below(e) == <<[path |-> under(e), type |-> IF e.dir THEN "dir" ELSE "file", size |-> e.size,
                       bytes |-> IF e.dir THEN <<>> ELSE BytesOf(e.child, e.size), chain |-> chain(e)]>>
                    \o IF e.dir /\ Len(path) <= DepthLimit THEN TreeBelow(e.child, under(e)) ELSE <<>>
    IN  FlattenSeq([k \in DOMAIN named |-> below(named[k])])

\* A tree that is published is the one on the disk: every file and directory once, in
\* order, under its normalized name, with the bytes its chain holds; and no cluster is in
\* two chains, or in one twice, or behind the end of its file (directory, read_file,
\* entry, claim).
ImportExact == \A w \in DOMAIN fs : fs[w].ready =>
    LET tree == TreeBelow(boot.root, <<>>)
        plain == [i \in DOMAIN tree |-> [path |-> tree[i].path, type |-> tree[i].type, size |-> tree[i].size,
                                         bytes |-> tree[i].bytes]]
    IN  /\ Tail(Contents(w)) = plain
        /\ IsInjective([i \in DOMAIN tree |-> tree[i].path])
        /\ IsInjective(Chain(boot.root) \o FlattenSeq([i \in DOMAIN tree |-> tree[i].chain]))
        /\ \A i \in DOMAIN tree : tree[i].type = "file" =>
              Len(tree[i].chain) = (tree[i].size + boot.spc * SectorBytes - 1) \div (boot.spc * SectorBytes)

\* An import that fails, at whatever point, or is discarded leaves nothing behind: no
\* block without an owner, none freed twice, and a struct as good as new, so that the self
\* test can fail only when the disk or the heap does (fat32_discard, storage_selftest).
ImportsClean ==
    LET owned == SelectSeq(Owned(fs["mount"]) \o Owned(fs["copy"]) \o <<test.copy>>, LAMBDA b : b # 0)
    IN  /\ ~panicked
        /\ IsInjective(owned) /\ Range(owned) = DOMAIN heap
        /\ ~test.good => test.faulted

\* What is imported is what is on the disk, and what is not imported is gone
\* (fat32_import, fat32_discard).
ImportRight == ImportExact /\ ImportsClean
=============================================================================
