------------------------------- MODULE Files --------------------------------
(***************************************************************************)
(* The file tree (fs/vfs.c), its root from the archive the boot loader     *)
(* brings (fs/initramfs.c), and the file system calls of a process         *)
(* (core/process_files.c): OPEN, READ, SEEK, CLOSE.  Trees are mounted at  *)
(* boot and never change; each is an array of nodes, as the importer       *)
(* leaves it.  A node pointer is a pair: mount, index.  A path is the      *)
(* sequence of its names, the root the empty one, so that the prefix tests *)
(* on strings (which end at a slash) are prefixes of sequences.  A file's  *)
(* content is told by the position of each byte in it.                     *)
(***************************************************************************)
EXTENDS Integers, FiniteSets, SequencesExt

CONSTANTS
    Proc,       \* processes
    Fd,         \* descriptors a process can hold (3 .. 15)
    Archives,   \* archives the boot loader may bring: sequences of entries
    NodeLimit,  \* nodes of a tree (UTAMO_VFS_NODE_LIMIT)
    Images,     \* trees a disk may hold, fit to be mounted or not
    Bad,        \* names no path may hold: empty, "." and ".."
    MountLimit, \* trees that can be mounted (4)
    ReadLimit   \* bytes one READ may ask for (1024)

VARIABLES
    mounts,   \* the mounted trees, in order
    booted,   \* processes may run
    files,    \* files[p][fd]: an open file, or Closed
    due       \* due[p][fd]: the position of the byte the next READ should deliver
vars == <<mounts, booted, files, due>>

NoNode == <<0, 0>>
Closed == [node |-> NoNode, offset |-> 0]

-----------------------------------------------------------------------------
(* The tree.                                                               *)

vfs_path_valid(path) == \A i \in DOMAIN path : path[i] \notin Bad

\* The first node of a tree with this path.
ramfs_lookup(fs, path) ==
    LET found == {i \in DOMAIN fs : fs[i].path = path}
    IN  IF vfs_path_valid(path) /\ found # {} THEN Min(found) ELSE 0

Node(n) == mounts[n[1]][n[2]]
Nodes == {n \in (1 .. Len(mounts)) \X (1 .. Max({0} \cup {Len(mounts[m]) : m \in DOMAIN mounts})) :
             n[2] <= Len(mounts[n[1]])}

vfs_lookup(path) ==
    LET found == {m \in DOMAIN mounts : ramfs_lookup(mounts[m], path) # 0}
    IN  IF found = {} THEN NoNode
        ELSE <<Min(found), ramfs_lookup(mounts[Min(found)], path)>>

Before(a, b) == a[1] < b[1] \/ (a[1] = b[1] /\ a[2] < b[2])

\* The index-th node right below a directory, counting through all mounts.
vfs_child(directory, index) ==
    LET parent == vfs_lookup(directory)
        below == {n \in Nodes : Node(n).path # <<>> /\ Front(Node(n).path) = directory}
        nth == {n \in below : Cardinality({b \in below : Before(b, n)}) = index}
    IN  IF parent = NoNode \/ nth = {} THEN NoNode
        ELSE IF Node(parent).type # "dir" THEN NoNode
        ELSE CHOOSE n \in nth : TRUE

\* Mutant: any node is taken for a parent.
HasParent_Any(fs, path) == ramfs_lookup(fs, Front(path)) # 0

\* The parent of a node is a directory of the same tree, wherever it stands.
HasParent(fs, path) ==
    LET dir == ramfs_lookup(fs, Front(path)) IN dir # 0 /\ fs[dir].type = "dir"

Mountable(fs) ==
    LET base == fs[1].path IN
    /\ mounts # <<>> /\ Len(mounts) < MountLimit /\ Len(fs) <= NodeLimit
    /\ fs[1].type = "dir"
    /\ Len(base) = 1
    /\ \A i \in DOMAIN fs :
          /\ vfs_path_valid(fs[i].path)
          /\ vfs_lookup(fs[i].path) = NoNode
          /\ IsPrefix(base, fs[i].path)
          /\ \A j \in 1 .. i - 1 : fs[j].path # fs[i].path
          /\ i # 1 => fs[i].path # base /\ HasParent(fs, fs[i].path)

vfs_mount_subtree(fs) ==
    /\ ~booted
    /\ Mountable(fs)
    /\ mounts' = Append(mounts, fs)
    /\ UNCHANGED <<booted, files, due>>

-----------------------------------------------------------------------------
(* The archive.  An entry is "whole" if its header is well formed and its  *)
(* name and data lie inside the image; the alignment of both is not told.  *)

Importable(fs, e) ==
    /\ e.type \in {"file", "dir"}
    /\ e.type = "dir" => e.size = 0 /\ e.links # 0
    /\ e.type = "file" => e.links = 1
    /\ Len(fs) < NodeLimit
    /\ vfs_path_valid(e.path) /\ ramfs_lookup(fs, e.path) = 0
    /\ HasParent(fs, e.path)

\* What is left of the tree after each entry; nothing but zeroes may follow the trailer.
parse(archive) ==
    LET refused == [nodes |-> <<>>, end |-> "refused"]
        step(s, e) ==
            IF s.end # "open" \/ ~e.whole THEN refused
            ELSE IF e.type = "trailer" THEN IF e.size = 0 THEN [s EXCEPT !.end = "trailer"] ELSE refused
            ELSE IF Importable(s.nodes, e)
            THEN [s EXCEPT !.nodes = Append(@, [path |-> e.path, type |-> e.type, size |-> e.size])]
            ELSE refused
        top == [path |-> <<>>, type |-> "dir", size |-> 0]
    IN  FoldLeft(step, [nodes |-> <<top>>, end |-> "open"], archive)

\* There is one root; a tree that was imported has its top.
vfs_mount_root(nodes) == mounts = <<>> /\ mounts' = <<nodes>>

\* Without a trailer, or after a refusal, the kernel panics.
filesystem_init(archive) ==
    /\ vfs_mount_root(parse(archive).nodes)
    /\ parse(archive).end = "trailer"
    /\ UNCHANGED <<booted, files, due>>

-----------------------------------------------------------------------------
(* The system calls.  Each runs in its process's own context, on its own   *)
(* descriptors; a call that is refused changes nothing.                    *)

Set(p, fd, file) == files' = [files EXCEPT ![p][fd] = file]
Expect(p, fd, position) == due' = [due EXCEPT ![p][fd] = position]

\* The first free descriptor, if the path names a file.
Open(p, path) ==
    LET free == {fd \in Fd : files[p][fd] = Closed}
        node == vfs_lookup(path)
    IN  /\ booted
        /\ vfs_path_valid(path)
        /\ free # {}
        /\ node # NoNode
        /\ Node(node).type = "file"
        /\ Set(p, Min(free), [node |-> node, offset |-> 0])
        /\ Expect(p, Min(free), 0)
        /\ UNCHANGED <<mounts, booted>>

\* vfs_read on a copy of the descriptor.
vfs_read(file, bytes) ==
    LET left == Node(file.node).size - file.offset
        count == IF bytes < left THEN bytes ELSE left
    IN  [file EXCEPT !.offset = @ + count]

\* Mutant: the offset moves before the copy.
Read_CommitsFirst(p, fd, bytes, copied) ==
    LET file == files[p][fd]
        tentative == vfs_read(file, bytes)
    IN  /\ booted
        /\ file # Closed
        /\ bytes <= ReadLimit
        /\ Set(p, fd, tentative)
        /\ Expect(p, fd, IF copied THEN due[p][fd] + (tentative.offset - file.offset)
                                   ELSE due[p][fd])
        /\ UNCHANGED <<mounts, booted>>

\* The descriptor is replaced only after the whole copy to the process, which
\* may fail on its buffer.  The process is owed the bytes in order: one it got
\* out of turn is an error it can see.
Read(p, fd, bytes, copied) ==
    LET file == files[p][fd]
        tentative == vfs_read(file, bytes)
    IN  /\ booted
        /\ file # Closed
        /\ bytes <= ReadLimit
        /\ Set(p, fd, IF copied THEN tentative ELSE file)
        /\ Expect(p, fd, IF copied THEN due[p][fd] + (tentative.offset - file.offset)
                                   ELSE due[p][fd])
        /\ UNCHANGED <<mounts, booted>>

Seek(p, fd, offset) ==
    /\ booted
    /\ files[p][fd] # Closed
    /\ offset <= Node(files[p][fd].node).size
    /\ Set(p, fd, [files[p][fd] EXCEPT !.offset = offset])
    /\ Expect(p, fd, offset)
    /\ UNCHANGED <<mounts, booted>>

Close(p, fd) ==
    /\ booted
    /\ files[p][fd] # Closed
    /\ Set(p, fd, Closed)
    /\ Expect(p, fd, 0)
    /\ UNCHANGED <<mounts, booted>>

\* The descriptors are part of the process object, which is freed.
Exit(p) ==
    /\ booted
    /\ files' = [files EXCEPT ![p] = [fd \in Fd |-> Closed]]
    /\ due' = [due EXCEPT ![p] = [fd \in Fd |-> 0]]
    /\ UNCHANGED <<mounts, booted>>

-----------------------------------------------------------------------------

Init ==
    /\ mounts = <<>>
    /\ booted = FALSE
    /\ files = [p \in Proc |-> [fd \in Fd |-> Closed]]
    /\ due = [p \in Proc |-> [fd \in Fd |-> 0]]

Boot == ~booted /\ mounts # <<>> /\ booted' = TRUE /\ UNCHANGED <<mounts, files, due>>

Paths == {Node(n).path : n \in Nodes}
Sizes == 0 .. Max({Node(n).size : n \in Nodes}) + 1

Next ==
    \/ \E archive \in Archives : filesystem_init(archive)
    \/ \E fs \in Images : vfs_mount_subtree(fs)
    \/ Boot
    \/ booted /\ \E p \in Proc :
          \/ \E path \in Paths : Open(p, path)
          \/ \E fd \in Fd :
                \/ \E bytes \in 0 .. ReadLimit, copied \in BOOLEAN : Read(p, fd, bytes, copied)
                \/ \E offset \in Sizes : Seek(p, fd, offset)
                \/ Close(p, fd)
          \/ Exit(p)

Spec == Init /\ [][Next]_vars

-----------------------------------------------------------------------------

\* Whatever the archive, and however many trees are mounted, they make one tree: no
\* path names two nodes, everything but the root lies in a directory of the tree, and
\* asking for the children of a directory one by one (vfs_child) meets each of them
\* once, in whichever mount it is, and then ends (ramfs_import, vfs_mount_subtree,
\* vfs_lookup, vfs_child).
NamespaceExact ==
    /\ Len(mounts) <= MountLimit
    /\ \A n \in Nodes :
          /\ vfs_lookup(Node(n).path) = n
          /\ Node(n).path # <<>> =>
                LET dir == vfs_lookup(Front(Node(n).path))
                IN  dir # NoNode /\ Node(dir).type = "dir"
    /\ mounts # <<>> => vfs_lookup(<<>>) = <<1, 1>>
    /\ \A d \in {n \in Nodes : Node(n).type = "dir"} :
          LET children == {n \in Nodes : /\ Len(Node(n).path) = Len(Node(d).path) + 1
                                         /\ IsPrefix(Node(d).path, Node(n).path)}
          IN  /\ {vfs_child(Node(d).path, k) : k \in 0 .. Cardinality(children) - 1} = children
              /\ vfs_child(Node(d).path, Cardinality(children)) = NoNode

\* A process reads every byte of a file in order, none twice and none left out,
\* whatever reads failed on its buffer in between; a descriptor in use is a file
\* of the tree, at an offset inside it (process_file_syscall).
ReadsInOrder ==
    \A p \in Proc, fd \in Fd :
        /\ files[p][fd].offset = due[p][fd]
        /\ files[p][fd] # Closed =>
              /\ files[p][fd].node \in Nodes
              /\ Node(files[p][fd].node).type = "file"
              /\ files[p][fd].offset <= Node(files[p][fd].node).size

=============================================================================
