------------------------------ MODULE MCDevices -----------------------------
(***************************************************************************)
(* The disk driver, the card driver, the interrupt controllers, the import *)
(* of a FAT32 volume at boot, and the file tree it is mounted in.  They    *)
(* share no state: a behaviour is of one of them.                          *)
(*                                                                         *)
(* The disk has three sectors, two to a command: a read takes up to two,   *)
(* the last one perhaps not full.  The card has rings of three             *)
(* descriptors, so that a few frames wrap them.  Five interrupt lines: the *)
(* two driven ones, both spurious ones and one more of the slave.  A       *)
(* volume has three clusters of one sector, with a FAT of either copy;     *)
(* what is in it is chosen as it is read.  Every tree of up to three nodes *)
(* over a handful of paths may be mounted: duplicates, orphans, files as   *)
(* directories, names that are taken.                                      *)
(***************************************************************************)
EXTENDS Ahci, E1000, Pic, TLC

CONSTANTS
    Proc, Fd, Archives, NodeLimit, Images, Bad, MountLimit, ReadLimit   \* of Files

VARIABLES
    part,   \* what this behaviour is of
    volume, sectors, fs, heap, at, calls, test, panicked,
    mounts, booted, files, due

fat_vars == <<volume, sectors, fs, heap, at, calls, test, panicked>>
file_vars == <<mounts, booted, files, due>>

\* A directory entry of the volume: its mark, its raw name, what it says.
Name(raw, dir, child, size) ==
    [mark |-> "name", name |-> raw, dir |-> dir, child |-> child, size |-> size]
Mark(mark) == [Name("", FALSE, 0, 0) EXCEPT !.mark = mark]
Dot(name, child) == [Name(name, TRUE, child, 0) EXCEPT !.mark = "dot"]

MCDirents ==
    {Mark("end"), Mark("skip"), Mark("reject"),
     Name("?", FALSE, 0, 0), Name("b", FALSE, 0, 0), Name("b", TRUE, 4, 1),
     Name("a", FALSE, 3, 3), Name("a", FALSE, 4, 1), Name("b", FALSE, 3, 1),
     Name("b", FALSE, 4, 1), Name("b", FALSE, 4, 3), Name("b", FALSE, 5, 2),
     Name("A", TRUE, 2, 0), Name("A", TRUE, 3, 0),
     Dot(".", 3), Dot("..", 0), Dot("..", 3), Dot(".x", 3)}

MCShortName == [a |-> "A", A |-> "A", b |-> "B"] @@ ("?" :> "!")

Volume(fats, mirrored, active, root) ==
    [valid |-> TRUE, reserved |-> 1, fats |-> fats, fat_size |-> 3, spc |-> 1, clusters |-> 3,
     mirrored |-> mirrored, active |-> active, root |-> root, media |-> 99]

FirstVolume == Volume(2, TRUE, 0, 2)
MCBoots == {FirstVolume, Volume(2, FALSE, 1, 2), Volume(1, TRUE, 0, 7), Volume(1, FALSE, 1, 2),
            [FirstVolume EXCEPT !.valid = FALSE]}
MCLinks == {0, 2, 3, 4, 99}

Fat == INSTANCE Fat32 WITH
    boot <- volume, disk <- sectors,
    Boots <- MCBoots, Links <- MCLinks, Dirents <- MCDirents, ShortName <- MCShortName,
    Invalid <- "!", FatPerSector <- 2, DirPerSector <- 2, SectorBytes <- 2, ReadLimit <- 9,
    VisitLimit <- 3, DepthLimit <- 1, NodeLimit <- 3, FileMax <- 3, CacheMax <- 4, Rounds <- 2
Tree == INSTANCE Files

-----------------------------------------------------------------------------

Entry(path, type) == [path |-> path, type |-> type, size |-> IF type = "dir" THEN 0 ELSE 2]

\* Entries of an archive: sound ones, and one for each reason to refuse it.
Sound(path, type) == Entry(path, type) @@ [links |-> 1, whole |-> TRUE]
Trailer == [Sound(<<>>, "dir") EXCEPT !.type = "trailer"]
A == Sound(<<"a">>, "dir")
F == Sound(<<"a", "f">>, "file")

MCEntries ==
    {A, F, Trailer, Sound(<<"a">>, "file"), Sound(<<"a", ".">>, "file"),
     [F EXCEPT !.links = 2], [A EXCEPT !.size = 1], [A EXCEPT !.links = 0], [F EXCEPT !.type = "link"],
     [F EXCEPT !.whole = FALSE], [Trailer EXCEPT !.size = 1]}

\* All short ones, and one that is too long.
MCArchives == UNION {[1 .. n -> MCEntries] : n \in 0 .. 4}
                 \cup {<<A, F, Sound(<<"b">>, "file"), Sound(<<"c">>, "file"), Trailer>>}

MCPaths == {<<"a">>, <<"m">>, <<"m", "f">>, <<"m", "f", "f">>, <<"m", ".">>, <<"n">>}

MCImages == UNION {[1 .. n -> {Entry(path, type) : path \in MCPaths, type \in {"dir", "file"}}] :
                      n \in 1 .. 3}

MCBad == {"."}

-----------------------------------------------------------------------------

MCInit == /\ part \in {"disk", "card", "lines", "volume", "files"}
          /\ DiskInit /\ (part # "disk" => ~port.st)
          /\ CardInit
          /\ PicInit /\ (part # "lines" => irr = {} /\ isr = {})
          /\ Fat!Init /\ (part # "volume" => volume = FirstVolume)
          /\ Tree!Init

MCNext ==
    /\ \/ part = "disk" /\ DiskNext /\ UNCHANGED <<card_vars, pic_vars, fat_vars, file_vars>>
       \/ part = "card" /\ CardNext /\ UNCHANGED <<disk_vars, pic_vars, fat_vars, file_vars>>
       \/ part = "lines" /\ PicNext /\ UNCHANGED <<disk_vars, card_vars, fat_vars, file_vars>>
       \/ part = "volume" /\ Fat!Next /\ UNCHANGED <<disk_vars, card_vars, pic_vars, file_vars>>
       \/ part = "files" /\ Tree!Next /\ UNCHANGED <<disk_vars, card_vars, pic_vars, fat_vars>>
    /\ UNCHANGED part

MCSpec == MCInit /\ [][MCNext]_<<part, disk_vars, card_vars, pic_vars, fat_vars, file_vars>>

-----------------------------------------------------------------------------

\* A volume that is mounted is the tree that is on it, whatever else is on the disk,
\* and a refused one leaves nothing behind (fat32_import, fat32_discard, storage_init,
\* storage_selftest).
ImportRight == part = "volume" => Fat!ImportRight

\* The mounted trees make one tree in which lookup and listing agree
\* (vfs_mount_subtree, vfs_lookup, vfs_child).
NamespaceExact == part = "files" => Tree!NamespaceExact

\* Reads of a descriptor deliver the bytes of its file in order, none twice and
\* none skipped when a read fails (process_file_syscall, vfs_read).
ReadsInOrder == part = "files" => Tree!ReadsInOrder

=============================================================================
