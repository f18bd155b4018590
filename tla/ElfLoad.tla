------------------------------ MODULE ElfLoad -------------------------------
(***************************************************************************)
(* Programs: which files are taken for one (core/elf.c) and how one        *)
(* becomes an address space (core/elf_load.c), page by page, with any call *)
(* of user_vm failing.  A byte of the file is told by its offset, counted  *)
(* from 1; a byte of the argument by its place, negative; zero is zero.    *)
(* An image is what the headers say: "header" stands for the identification*)
(* and for the program headers lying inside the file.                      *)
(***************************************************************************)
EXTENDS Integers, Sequences, FiniteSets

CONSTANTS
    Images,          \* files that may be run
    Page,            \* bytes of a page (4096)
    UserMin, UserEnd,        \* USER_VM_MIN, USER_VM_END
    StackTop, StackPages,    \* UTAMO_EXEC_STACK_TOP, _PAGES
    ArgMax,          \* UTAMO_EXEC_ARG_MAX
    RspGap,          \* bytes between the stack pointer and the argument (16)
    PageLimit,       \* USER_VM_PAGE_LIMIT
    CopyLimit,       \* USER_VM_COPY_LIMIT
    SegmentLimit,    \* UTAMO_ELF_SEGMENT_LIMIT
    FileLimit        \* UTAMO_ELF_FILE_LIMIT

VARIABLES
    image, argument,   \* what is run; the argument by its length
    pc,        \* "idle", "alloc", "copy", "protect", "stack", "arg"; "loaded" or "failed"
    segment,   \* the segment at hand
    done,      \* its pages or bytes done with, or the pages of the stack
    page,      \* page[p]: a mapped page: access and bytes; or Unmapped
    result     \* entry, rsp and argument, for the new process
vars == <<image, argument, pc, segment, done, page, result>>

Unmapped == [access |-> "none", bytes |-> <<>>]
AllPages == 0 .. (UserEnd \div Page) - 1
StackGuard == StackTop - (StackPages + 1) * Page

-----------------------------------------------------------------------------
(* elf_validate                                                            *)

page_start(s) == (s.address \div Page) * Page

\* Mutant: the last page counts only if it is full.
page_end_Exact(s) == ((s.address + s.memory_size) \div Page) * Page

page_end(s) == ((s.address + s.memory_size + Page - 1) \div Page) * Page
PageCount(s) == (page_end(s) - page_start(s)) \div Page

Skipped(s) == s.type \in {"null", "note", "phdr", "stack"} /\ (s.type = "stack" => ~s.x)
Loads(i) == SelectSeq(i.segments, LAMBDA s : s.type = "load")

SegmentValid(s, size) ==
    /\ s.memory_size # 0 /\ s.file_size <= s.memory_size
    /\ s.offset <= size /\ s.file_size <= size - s.offset
    /\ s.address >= UserMin /\ s.address < UserEnd /\ s.memory_size <= UserEnd - s.address
    /\ s.r /\ ~(s.w /\ s.x)
    /\ s.address % Page = s.offset % Page
    /\ s.alignment > 1 => /\ \E k \in 1 .. s.alignment : 2 ^ k = s.alignment
                          /\ s.address % s.alignment = s.offset % s.alignment
    /\ ~(page_start(s) < StackTop /\ page_end(s) > StackGuard)

Apart(s, t) == page_start(s) >= page_end(t) \/ page_end(s) <= page_start(t)

PagesOf(segments) ==
    LET sum[k \in 0 .. Len(segments)] == IF k = 0 THEN 0 ELSE sum[k - 1] + PageCount(segments[k])
    IN  sum[Len(segments)]

elf_validate(i) ==
    LET loads == Loads(i)
    IN  /\ i.header /\ i.size <= FileLimit /\ Len(i.segments) \in 1 .. SegmentLimit
        /\ \A k \in DOMAIN i.segments : i.segments[k].type = "load" \/ Skipped(i.segments[k])
        /\ \A k \in DOMAIN loads :
              SegmentValid(loads[k], i.size) /\ \A j \in 1 .. k - 1 : Apart(loads[k], loads[j])
        /\ PagesOf(loads) <= PageLimit - StackPages
        /\ \E k \in DOMAIN loads :
              loads[k].x /\ i.entry >= loads[k].address /\ i.entry - loads[k].address < loads[k].file_size

access(s) == IF s.w THEN "w" ELSE IF s.x THEN "x" ELSE "r"

-----------------------------------------------------------------------------
(* user_vm, as far as a program being loaded can tell.                     *)

Fresh == [access |-> "w", bytes |-> [k \in 0 .. Page - 1 |-> 0]]

CanAlloc(p) == page[p] = Unmapped /\ Cardinality({q \in AllPages : page[q] # Unmapped}) < PageLimit

CanCopy(va, bytes) == \A a \in va .. va + bytes - 1 : page[a \div Page].access = "w"

\* Stores value[a] at each address a it is given for.
Stored(value) ==
    [p \in AllPages |->
        IF page[p] = Unmapped THEN Unmapped
        ELSE [page[p] EXCEPT !.bytes = [k \in 0 .. Page - 1 |->
                 IF p * Page + k \in DOMAIN value THEN value[p * Page + k] ELSE @[k]]]]

-----------------------------------------------------------------------------
(* elf_load: one step per call of user_vm.                                 *)

Load == Loads(image)[segment]

\* user_vm_destroy gives everything back.
Fail ==
    /\ page' = [p \in AllPages |-> Unmapped] /\ pc' = "failed"
    /\ UNCHANGED <<image, argument, segment, done, result>>

Go(where, at, n) == pc' = where /\ segment' = at /\ done' = n /\ UNCHANGED <<image, argument, result>>

AllocPage ==
    LET p == (page_start(Load) \div Page) + done
    IN  /\ pc = "alloc" /\ CanAlloc(p)
        /\ page' = [page EXCEPT ![p] = Fresh]
        /\ IF done + 1 < PageCount(Load) THEN Go("alloc", segment, done + 1)
           ELSE Go(IF Load.file_size = 0 THEN "protect" ELSE "copy", segment, 0)

Copy ==
    LET left == Load.file_size - done
        bytes == IF left < CopyLimit THEN left ELSE CopyLimit
        va == Load.address + done
    IN  /\ pc = "copy" /\ CanCopy(va, bytes)
        /\ page' = Stored([a \in va .. va + bytes - 1 |-> Load.offset + (a - Load.address) + 1])
        /\ IF done + bytes < Load.file_size THEN Go("copy", segment, done + bytes) ELSE Go("protect", segment, 0)

Protect ==
    LET p == (page_start(Load) \div Page) + done
    IN  /\ pc = "protect"
        /\ page' = [page EXCEPT ![p].access = access(Load)]
        /\ IF done + 1 < PageCount(Load) THEN Go("protect", segment, done + 1)
           ELSE IF segment < Len(Loads(image)) THEN Go("alloc", segment + 1, 0) ELSE Go("stack", segment, 0)

AllocStack ==
    LET p == (StackTop \div Page) - (done + 1)
    IN  /\ pc = "stack" /\ CanAlloc(p)
        /\ page' = [page EXCEPT ![p] = Fresh]
        /\ Go(IF done + 1 < StackPages THEN "stack" ELSE "arg", segment, done + 1)

CopyArgument ==
    LET arg == StackTop - ArgMax
    IN  /\ pc = "arg" /\ CanCopy(arg, argument + 1)
        /\ page' = Stored([a \in arg .. arg + argument |-> IF a - arg < argument THEN -(a - arg + 1) ELSE 0])
        /\ pc' = "loaded"
        /\ result' = [entry |-> image.entry, rsp |-> arg - RspGap, user_argument |-> arg]
        /\ UNCHANGED <<image, argument, segment, done>>

\* The call at hand fails, for want of memory or because it may not be done.
CallFails == pc \in {"alloc", "copy", "protect", "stack", "arg"} /\ Fail

\* The checks before the first call; user_vm_create is the first that may fail.
elf_load(i, length) ==
    /\ pc = "idle"
    /\ image' = i /\ argument' = length
    /\ pc' = IF elf_validate(i) /\ length < ArgMax THEN "alloc" ELSE "failed"
    /\ UNCHANGED <<segment, done, page, result>>

Init ==
    /\ image = [header |-> FALSE, size |-> 0, segments |-> <<>>, entry |-> 0] /\ argument = 0
    /\ pc = "idle" /\ segment = 1 /\ done = 0
    /\ page = [p \in AllPages |-> Unmapped]
    /\ result = [entry |-> 0, rsp |-> 0, user_argument |-> 0]

Next ==
    \/ pc = "idle" /\ \E i \in Images, length \in 0 .. ArgMax : elf_load(i, length)
    \/ AllocPage \/ Copy \/ Protect \/ AllocStack \/ CopyArgument \/ CallFails

Spec == Init /\ [][Next]_vars

-----------------------------------------------------------------------------
(* What a program looks like in memory, byte by byte.                      *)

Owner(p) == {k \in DOMAIN Loads(image) : LET s == Loads(image)[k] IN
                \E a \in p * Page .. (p + 1) * Page - 1 : a >= s.address /\ a < s.address + s.memory_size}
Stack == {p \in AllPages : p * Page >= StackTop - StackPages * Page /\ p * Page < StackTop}

ByteAt(a) ==
    LET in == {k \in DOMAIN Loads(image) : LET s == Loads(image)[k] IN a >= s.address /\ a < s.address + s.file_size}
    IN  IF a >= StackTop - ArgMax /\ a < StackTop - ArgMax + argument THEN -(a - (StackTop - ArgMax) + 1)
        ELSE IF in = {} THEN 0
        ELSE LET s == Loads(image)[CHOOSE k \in in : TRUE] IN s.offset + (a - s.address) + 1

\* A program that is loaded has in memory what its file says, byte for byte, zero where
\* the file says nothing, each page with the access of the one segment it belongs to, a
\* stack with a hole below it, and starts at an instruction of the file; one that is
\* refused, or whose loading fails at any call, leaves nothing (elf_validate, elf_load).
ProgramExact ==
    /\ pc = "failed" => \A p \in AllPages : page[p] = Unmapped
    /\ pc = "loaded" =>
          /\ \A p \in AllPages :
                /\ Cardinality(Owner(p)) <= 1 /\ (p \in Stack => Owner(p) = {})
                /\ page[p].access = CASE Owner(p) # {} -> access(Loads(image)[CHOOSE k \in Owner(p) : TRUE])
                                      [] p \in Stack -> "w" [] OTHER -> "none"
                /\ page[p] # Unmapped => \A k \in 0 .. Page - 1 : page[p].bytes[k] = ByteAt(p * Page + k)
          /\ page[StackGuard \div Page] = Unmapped
          /\ page[result.entry \div Page].access = "x" /\ ByteAt(result.entry) # 0
          /\ result.rsp \div Page \in Stack
    /\ \A p \in AllPages : page[p] # Unmapped => p * Page >= UserMin
=============================================================================
