------------------------------ MODULE HeapCore ------------------------------
(* The kernel heap of kernel/memory/heap_core.c: boundary-tagged blocks, a  *)
(* free list in address order, first fit, and growth at the end.  kmalloc,  *)
(* kcalloc, krealloc and kfree run with IF=0, so a call is one step.        *)
(* Offsets are relative to heap->base.  Left out: cookies, which no call    *)
(* of this interface can damage, and the saturating event counters.         *)
EXTENDS Integers, FiniteSets, FiniteSetsExt

(* All sizes are multiples of Align, and None is no number.                 *)
CONSTANTS
  Align,       \* UTAMO_HEAP_ALIGNMENT
  Header,      \* sizeof(struct heap_block)
  MinBlock,    \* UTAMO_HEAP_MIN_BLOCK
  InitialSize, MaxSize, GrowthSize,
  SizeMax,     \* SIZE_MAX
  Caller,      \* the holders of allocations, one each
  Request,     \* the sizes they ask for
  Count,       \* the numbers of elements they ask kcalloc for
  None         \* UTAMO_HEAP_NONE, NULL

VARIABLES
  heap,    \* [blocks, mapped_size, free_head, used_bytes, live_allocations, peak_usage, mem]
  held,    \* ghost: what each caller holds: [ptr, size, data], or None
  lost     \* ghost: a realloc returned without the caller's data

heap_vars == <<heap, held, lost>>

(* What a byte may hold: part of a header, one of the two poisons, zero, a  *)
(* caller's data, or nothing as it is not mapped.                           *)
Byte == {"header", "CD", "DD", "0", "unmapped"} \cup Caller

Interval(first, end) == first..(end - 1)

memset(h, first, end, v) ==
  [h EXCEPT !.mem = [x \in DOMAIN h.mem |-> IF x \in Interval(first, end) THEN v ELSE h.mem[x]]]

-----------------------------------------------------------------------------
(* Blocks.                                                                  *)
Used(h, offset) == h.blocks[offset].used
Size(h, offset) == h.blocks[offset].size
FreeBlocks(h) == {o \in DOMAIN h.blocks : ~Used(h, o)}

write_block(h, offset, size, previous, requested, used) ==
  memset([h EXCEPT !.blocks = [o \in DOMAIN h.blocks \cup {offset} |->
            IF o = offset
            THEN [size |-> size, prev_size |-> previous, requested |-> requested, used |-> used,
                  free_prev |-> None, free_next |-> None]
            ELSE h.blocks[o]]],
         offset, offset + Header, "header")

(* A header inside a larger block is not a block any more.                 *)
Absorb(h, offset) == [h EXCEPT !.blocks = [o \in DOMAIN h.blocks \ {offset} |-> h.blocks[o]]]

remove_free(h, offset) ==
  LET b  == h.blocks[offset]
      h1 == IF b.free_prev = None THEN [h EXCEPT !.free_head = b.free_next]
            ELSE [h EXCEPT !.blocks[b.free_prev].free_next = b.free_next]
      h2 == IF b.free_next = None THEN h1
            ELSE [h1 EXCEPT !.blocks[b.free_next].free_prev = b.free_prev] IN
  [h2 EXCEPT !.blocks[offset].free_prev = None, !.blocks[offset].free_next = None]

LeastOf(S) == IF S = {} THEN None ELSE Min(S)
GreatestOf(S) == IF S = {} THEN None ELSE Max(S)

(* The list is in address order, so the walk stops between the free        *)
(* neighbours of offset.                                                   *)
insert_free(h, offset) ==
  LET prior   == GreatestOf({f \in FreeBlocks(h) : f < offset})
      current == LeastOf({f \in FreeBlocks(h) : f > offset})
      h1 == [h EXCEPT !.blocks[offset].free_prev = prior, !.blocks[offset].free_next = current]
      h2 == IF prior = None THEN [h1 EXCEPT !.free_head = offset]
            ELSE [h1 EXCEPT !.blocks[prior].free_next = offset] IN
  IF current = None THEN h2 ELSE [h2 EXCEPT !.blocks[current].free_prev = offset]

following_previous(h, offset, size) ==
  IF offset + size < h.mapped_size
  THEN [h EXCEPT !.blocks[offset + size].prev_size = size]
  ELSE h

poison_free(h, offset) == memset(h, offset + Header, offset + Size(h, offset), "DD")

(* A free block at offset joins the list.                                   *)
AddFree(h, offset) == poison_free(insert_free(h, offset), offset)

find_fit(h, needed) == LeastOf({f \in FreeBlocks(h) : Size(h, f) >= needed})

last_block(h) == GreatestOf(DOMAIN h.blocks)

-----------------------------------------------------------------------------
(* Growth.  pages: whether the page layer can supply the pages.             *)
Extra(h, required) ==
  LET available == MaxSize - h.mapped_size
      units     == (required + GrowthSize - 1) \div GrowthSize IN
  IF units <= available \div GrowthSize THEN units * GrowthSize ELSE available

Grown(h, extra) ==
  LET tail == last_block(h)
      h1   == memset([h EXCEPT !.mapped_size = h.mapped_size + extra],
                     h.mapped_size, h.mapped_size + extra, "0") IN
  IF Used(h, tail)
  THEN AddFree(write_block(h1, h.mapped_size, extra, Size(h, tail), 0, FALSE), h.mapped_size)
  ELSE AddFree(write_block(remove_free(h1, tail), tail, Size(h, tail) + extra,
                           h.blocks[tail].prev_size, 0, FALSE), tail)

(* The heap after grow_heap, or None when it returns false.                *)
grow_heap(h, wanted, pages) ==
  LET needed    == IF wanted < MinBlock THEN MinBlock ELSE wanted
      tail      == last_block(h)
      tail_free == IF Used(h, tail) THEN 0 ELSE Size(h, tail) IN
  IF h.mapped_size = MaxSize THEN None
  ELSE IF needed <= tail_free THEN h
  ELSE IF needed - tail_free > MaxSize - h.mapped_size \/ ~pages THEN None
  ELSE Grown(h, Extra(h, needed - tail_free))

-----------------------------------------------------------------------------
(* Allocation.                                                              *)
required_size(requested) ==
  IF requested = 0 \/ requested > SizeMax - (Header + Align - 1) THEN None
  ELSE ((requested + Header + Align - 1) \div Align) * Align

trim_block(h, offset, needed) ==
  LET size   == Size(h, offset)
      rest   == offset + needed
      next   == offset + size
      merges == next < h.mapped_size /\ ~Used(h, next)
      rest_size == size - needed + (IF merges THEN Size(h, next) ELSE 0)
      h1 == IF merges THEN Absorb(remove_free(h, next), next) ELSE h
      h2 == write_block([h1 EXCEPT !.blocks[offset].size = needed],
                        rest, rest_size, needed, 0, FALSE) IN
  IF size - needed < MinBlock THEN h
  ELSE AddFree(following_previous(h2, rest, rest_size), rest)

Peak(h) == [h EXCEPT !.peak_usage = IF h.used_bytes > @ THEN h.used_bytes ELSE @]

Taken(h, offset, requested, needed) ==
  LET h1 == [remove_free(h, offset) EXCEPT !.blocks[offset].used = TRUE,
                                           !.blocks[offset].requested = requested]
      h2 == [trim_block(h1, offset, needed) EXCEPT !.used_bytes = @ + requested,
                                                   !.live_allocations = @ + 1] IN
  memset(Peak(h2), offset + Header, offset + Size(h2, offset), "CD")

(* The heap and the block allocate returns; the block is None for NULL.     *)
allocate(h, requested, needed, allow_growth, pages) ==
  LET found == find_fit(h, needed)
      g     == IF found = None /\ allow_growth THEN grow_heap(h, needed, pages) ELSE None
      h1    == IF g = None THEN h ELSE g
      offset == IF g = None THEN found ELSE find_fit(g, needed) IN
  IF offset = None THEN [heap |-> h1, offset |-> None]
  ELSE [heap |-> Taken(h1, offset, requested, needed), offset |-> offset]

-----------------------------------------------------------------------------
(* Release and resizing.                                                    *)
(* The block whose payload starts at ptr, if it is in use.                 *)
pointer_offset(h, ptr) ==
  IF /\ ptr >= Header /\ ptr < h.mapped_size /\ ptr % Align = 0
     /\ ptr - Header \in DOMAIN h.blocks /\ Used(h, ptr - Header)
  THEN ptr - Header ELSE None

release(h, offset) ==
  LET b      == h.blocks[offset]
      before == offset - b.prev_size
      joins  == b.prev_size # 0 /\ ~Used(h, before)
      h1     == [h EXCEPT !.used_bytes = @ - b.requested, !.live_allocations = @ - 1]
      h2     == IF joins THEN Absorb(remove_free(h1, before), offset) ELSE h1
      start  == IF joins THEN before ELSE offset
      size   == IF joins THEN b.size + b.prev_size ELSE b.size
      prev   == IF joins THEN h.blocks[before].prev_size ELSE b.prev_size
      next   == start + size
      eats   == next < h.mapped_size /\ ~Used(h2, next)
      h3     == IF eats THEN Absorb(remove_free(h2, next), next) ELSE h2
      full   == IF eats THEN size + Size(h2, next) ELSE size
      h4     == write_block(h3, start, full, prev, 0, FALSE) IN
  AddFree(following_previous(h4, start, full), start)

resize_block(h, offset, size, needed) ==
  LET old     == h.blocks[offset].requested
      payload == offset + Header
      h1 == Peak(trim_block([h EXCEPT !.used_bytes = @ - old + size,
                                      !.blocks[offset].requested = size], offset, needed))
      h2 == memset(h1, payload + old, payload + size, "CD") IN
  memset(h2, payload + size, offset + Size(h1, offset), "DD")

(* The heap after consume_next, or None when it returns false.             *)
consume_next(h, offset, needed) ==
  LET current == Size(h, offset)
      next    == offset + current IN
  IF next = h.mapped_size THEN None
  ELSE IF Used(h, next) \/ Size(h, next) < needed - current THEN None
  ELSE LET combined == current + Size(h, next)
           h1 == Absorb(remove_free(h, next), next) IN
       following_previous([h1 EXCEPT !.blocks[offset].size = combined], offset, combined)

(* Mutant: the old block goes back before its data is copied.              *)
Moved_ReleasesFirst(h, offset, size, to) ==
  LET copy == IF h.blocks[offset].requested < size THEN h.blocks[offset].requested ELSE size
      h1   == release(h, offset) IN
  [h1 EXCEPT !.mem = [x \in DOMAIN h1.mem |->
     IF x \in Interval(to + Header, to + Header + copy)
     THEN h1.mem[offset + (x - to)] ELSE h1.mem[x]]]

(* memcpy to the replacement, then release of the old block.               *)
Moved(h, offset, size, to) ==
  LET copy == IF h.blocks[offset].requested < size THEN h.blocks[offset].requested ELSE size IN
  release([h EXCEPT !.mem = [x \in DOMAIN h.mem |->
     IF x \in Interval(to + Header, to + Header + copy)
     THEN h.mem[offset + (x - to)] ELSE h.mem[x]]], offset)

AtTail(h, offset) ==
  LET next == offset + Size(h, offset) IN
  \/ next = h.mapped_size
  \/ ~Used(h, next) /\ next + Size(h, next) = h.mapped_size

(* The heap and the block heap_core_realloc returns for a used block.       *)
Reallocate(h, offset, size, needed, pages) ==
  LET current  == Size(h, offset)
      joined   == consume_next(h, offset, needed)
      reuse    == allocate(h, size, needed, FALSE, pages)
      grown    == grow_heap(h, needed - current, pages)
      extended == IF grown = None THEN None ELSE consume_next(grown, offset, needed)
      fresh    == allocate(h, size, needed, TRUE, pages)
      inplace(g) == [heap |-> resize_block(g, offset, size, needed), offset |-> offset]
      moved(a)   == [heap |-> Moved(a.heap, offset, size, a.offset), offset |-> a.offset]
      failed(g)  == [heap |-> g, offset |-> None] IN
  IF needed <= current THEN inplace(h)
  ELSE IF joined # None THEN inplace(joined)
  ELSE IF reuse.offset # None THEN moved(reuse)
  ELSE IF AtTail(h, offset)
  THEN IF extended # None THEN inplace(extended)
       ELSE failed(IF grown = None THEN h ELSE grown)
  ELSE IF fresh.offset # None THEN moved(fresh) ELSE failed(fresh.heap)

-----------------------------------------------------------------------------
(* heap_core_validate, as what its walk over the blocks establishes: they   *)
(* tile the mapped bytes, every boundary tag is the size of the block       *)
(* before, no two free blocks touch, the free list holds the free blocks in *)
(* address order, and the totals agree.                                     *)
heap_core_validate(h) ==
  LET D == DOMAIN h.blocks
      F == FreeBlocks(h) IN
  /\ 0 \in D /\ h.blocks[0].prev_size = 0
  /\ \A o \in D :
       LET b == h.blocks[o]  next == o + h.blocks[o].size IN
       /\ b.size >= MinBlock /\ b.size % Align = 0
       /\ next \in D \cup {h.mapped_size}
       /\ Interval(o + 1, next) \cap D = {}
       /\ next \in D => h.blocks[next].prev_size = b.size
       /\ IF b.used
          THEN /\ b.requested \in 1..(b.size - Header)
               /\ b.free_prev = None /\ b.free_next = None
          ELSE /\ b.requested = 0
               /\ next \notin F
               /\ b.free_prev = GreatestOf({f \in F : f < o})
               /\ b.free_next = LeastOf({f \in F : f > o})
  /\ h.free_head = LeastOf(F)
  /\ h.used_bytes = MapThenSumSet(LAMBDA o : h.blocks[o].requested, D)
  /\ h.live_allocations = Cardinality(D \ F)
  /\ h.peak_usage >= h.used_bytes

-----------------------------------------------------------------------------
heap_core_init ==
  /\ heap = memset(write_block(
              [blocks |-> [o \in {} |-> {}], mapped_size |-> InitialSize, free_head |-> 0,
               used_bytes |-> 0, live_allocations |-> 0, peak_usage |-> 0,
               mem |-> [x \in Interval(0, MaxSize) |-> "unmapped"]],
              0, InitialSize, 0, 0, FALSE), Header, InitialSize, "DD")
  /\ held = [c \in Caller |-> None]
  /\ lost = FALSE

(* The caller writes its data into all of a new allocation.                 *)
Given(c, offset, size, data) ==
  held' = [held EXCEPT ![c] = [ptr |-> offset + Header, size |-> size, data |-> data]]

(* kmalloc and kcalloc share the way; content is what fills the payload.    *)
AllocWith(c, size, data, pages) ==
  /\ held[c] = None
  /\ required_size(size) # None
  /\ \E r \in {allocate(heap, size, required_size(size), TRUE, pages)} :
       IF r.offset = None THEN heap' = r.heap /\ UNCHANGED <<held, lost>>
       ELSE /\ heap' = memset(r.heap, r.offset + Header, r.offset + Header + size, data)
            /\ Given(c, r.offset, size, data) /\ lost' = lost

heap_core_alloc(c, size, pages) == AllocWith(c, size, c, pages)

heap_core_calloc(c, count, size, pages) ==
  /\ count # 0 /\ size # 0
  /\ count <= SizeMax \div size
  /\ AllocWith(c, count * size, "0", pages)

heap_core_free(c) ==
  /\ held[c] # None
  /\ pointer_offset(heap, held[c].ptr) # None
  /\ heap' = release(heap, pointer_offset(heap, held[c].ptr))
  /\ held' = [held EXCEPT ![c] = None]
  /\ lost' = lost

Least(a, b) == IF a < b THEN a ELSE b

Holds(h, ptr, n, data) == \A i \in Interval(0, n) : h.mem[ptr + i] = data

(* The caller writes its data into all of the result.  A failure leaves it   *)
(* its old allocation.  Of no block, krealloc is kmalloc; to size zero it is *)
(* kfree.                                                                    *)
heap_core_realloc(c, size, pages) ==
  /\ held[c] # None
  /\ size # 0
  /\ required_size(size) # None
  /\ pointer_offset(heap, held[c].ptr) # None
  /\ \E r \in {Reallocate(heap, pointer_offset(heap, held[c].ptr), size, required_size(size), pages)} :
       IF r.offset = None THEN heap' = r.heap /\ UNCHANGED <<held, lost>>
       ELSE LET ptr == r.offset + Header IN
            /\ lost' = (lost \/ ~Holds(r.heap, ptr, Least(held[c].size, size), held[c].data))
            /\ heap' = memset(r.heap, ptr, ptr + size, held[c].data)
            /\ held' = [held EXCEPT ![c].ptr = ptr, ![c].size = size]

(* Every call validates the heap first and fails on a damaged one.          *)
HeapNext ==
  /\ heap_core_validate(heap)
  /\ \E c \in Caller :
       \/ \E size \in Request, pages \in BOOLEAN : heap_core_alloc(c, size, pages)
       \/ \E count \in Count, size \in Request, pages \in BOOLEAN : heap_core_calloc(c, count, size, pages)
       \/ \E size \in Request, pages \in BOOLEAN : heap_core_realloc(c, size, pages)
       \/ heap_core_free(c)

HeapSpec == heap_core_init /\ [][HeapNext]_heap_vars

-----------------------------------------------------------------------------
(* The types, with no block, total or mapping beyond the heap's range.       *)
HeapTypeOK ==
  /\ DOMAIN heap.blocks \subseteq Interval(0, MaxSize)
  /\ heap.mapped_size \in InitialSize..MaxSize
  /\ heap.free_head \in DOMAIN heap.blocks \cup {None}
  /\ heap.used_bytes \in 0..MaxSize /\ heap.peak_usage \in 0..MaxSize
  /\ heap.live_allocations \in 0..Cardinality(Caller)
  /\ heap.mem \in [Interval(0, MaxSize) -> Byte]

(* After any sequence of calls, growth included, the heap passes its own    *)
(* heap_core_validate, which every call makes first: no call is refused for *)
(* damage an earlier legal call did to tags, links or totals.               *)
HeapValid == HeapTypeOK /\ heap_core_validate(heap)

(* A live allocation keeps the bytes its caller wrote, through splitting,   *)
(* coalescing, growth, in-place and moving realloc of itself and of others: *)
(* no header, poison or other caller's data is ever written into it.        *)
DataKept ==
  /\ ~lost
  /\ \A c \in Caller : held[c] # None =>
       /\ held[c].ptr % Align = 0
       /\ held[c].ptr + held[c].size <= heap.mapped_size
       /\ Holds(heap, held[c].ptr, held[c].size, held[c].data)

(* pointer_offset accepts exactly the addresses of live allocations: no     *)
(* interior, foreign or already freed pointer (heap_core.h on free).        *)
PointersExact ==
  \A ptr \in 0..MaxSize :
    pointer_offset(heap, ptr) # None <=> \E c \in Caller : held[c] # None /\ held[c].ptr = ptr

(* Callers keep their data, and can free it, and only it.                   *)
HoldersServed == DataKept /\ PointersExact

(* Free space at the end of the heap, with what could still be mapped.      *)
TailRoom ==
  (MaxSize - heap.mapped_size)
    + (IF Used(heap, last_block(heap)) THEN 0 ELSE Size(heap, last_block(heap)))

(* With pages to be had, an allocation fails only when neither a free block *)
(* nor the end of the heap has the room, and a failed one leaves the heap   *)
(* as it was; a realloc fails only then and when its block cannot be        *)
(* extended where it is.                                                    *)
FailsOnlyWhenFull ==
  \A size \in {n \in Request : required_size(n) # None} :
    LET needed == required_size(size)
        room   == find_fit(heap, needed) # None \/ needed <= TailRoom
        a      == allocate(heap, size, needed, TRUE, TRUE) IN
    /\ a.offset # None <=> room
    /\ a.offset = None => a.heap = heap
    /\ \A c \in {d \in Caller : held[d] # None} :
         LET offset == held[c].ptr - Header
             next   == offset + Size(heap, offset)
             r      == Reallocate(heap, offset, size, needed, TRUE)
             behind == IF AtTail(heap, offset) THEN TailRoom
                       ELSE IF Used(heap, next) THEN 0 ELSE Size(heap, next) IN
         /\ r.offset # None <=> room \/ needed <= Size(heap, offset) + behind
         /\ r.offset = None => r.heap = heap

(* After any sequence of calls, growth and refused pages included, the heap *)
(* passes its own validation, callers keep their data and can free it, and  *)
(* a call fails only for want of room.                                      *)
HeapSound == HeapValid /\ HoldersServed /\ FailsOnlyWhenFull
=============================================================================
