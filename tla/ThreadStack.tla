---------------------------- MODULE ThreadStack -----------------------------
(***************************************************************************)
(* The kernel stacks of threads (core/thread_stack.c).  A slot is a fixed  *)
(* range of addresses: a guard page that is never mapped (page 0) and the  *)
(* stack's own pages.  Both calls run with interrupts off and are one step *)
(* each; the mapping of the pages, all of them or none, is HeapPages.  A   *)
(* descriptor lives in its holder, which may also keep a copy of one.      *)
(***************************************************************************)
EXTENDS Integers, FiniteSets, Functions

CONSTANTS
    Slots,          \* stack slots (0 .. 63)
    Pages,          \* pages of a stack, 1 .. Top (16)
    StackFrame,         \* physical frames
    Holder,         \* objects that hold a descriptor
    LastGeneration  \* the largest generation (2^64 - 1)

VARIABLES
    slots_occupied,     \* slots in use
    generations,  \* generations[slot]
    mapped,       \* mapped[slot][page]: the frame there, or Unmapped
    stack_free,         \* free frames
    content,      \* content[frame]: the first context written there, or Zero
    stack,        \* stack[h]: a holder's descriptor
    on,           \* the slot the CPU runs on, or Boot
    live          \* the stacks allocated and not freed
stack_vars == <<slots_occupied, generations, mapped, stack_free, content, stack, on, live>>

Unmapped == 0
BootStack == -1
Zero == [slot |-> BootStack, generation |-> 0]
Inactive == [slot |-> 0, generation |-> 0, active |-> FALSE]
Top == Cardinality(Pages)
NoPages == [p \in {0} \cup Pages |-> Unmapped]

\* Slots are numbered and so are the pages above a guard; 0 is no frame.
StackAssumption ==
    /\ Slots \subseteq Nat /\ IsFiniteSet(Slots)
    /\ Pages # {} /\ IsFiniteSet(Pages) /\ Pages = 1..Top
    /\ IsFiniteSet(StackFrame) /\ Unmapped \notin StackFrame
    /\ LastGeneration \in Nat

Id(d) == [slot |-> d.slot, generation |-> d.generation]

StackInit ==
    /\ slots_occupied = {}
    /\ generations = [s \in Slots |-> 0]
    /\ mapped = [s \in Slots |-> NoPages]
    /\ stack_free = StackFrame
    /\ content = [x \in StackFrame |-> Zero]
    /\ stack = [h \in Holder |-> Inactive]
    /\ on = BootStack
    /\ live = {}

\* Mutant: a descriptor is valid for whoever has its slot now.
descriptor_valid_AnyGeneration(d) ==
    /\ d.active
    /\ d.generation # 0
    /\ d.slot \in slots_occupied

descriptor_valid(d) ==
    /\ d.active
    /\ d.generation # 0
    /\ generations[d.slot] = d.generation
    /\ d.slot \in slots_occupied

\* The first free slot that has a generation left.
FreeSlots == {s \in Slots : s \notin slots_occupied /\ generations[s] # LastGeneration}

\* heap_pages_grow: zeroed frames in all pages of the stack.
thread_stack_alloc(h) ==
    /\ ~stack[h].active
    /\ FreeSlots # {}
    /\ LET slot == CHOOSE s \in FreeSlots : \A t \in FreeSlots : s <= t
           new == [slot |-> slot, generation |-> generations[slot] + 1, active |-> TRUE]
       IN  /\ mapped[slot][0] = Unmapped
           /\ \E f \in Injection(Pages, stack_free) :
                 /\ mapped' = [mapped EXCEPT ![slot] = [p \in {0} \cup Pages |->
                                  IF p = 0 THEN Unmapped ELSE f[p]]]
                 /\ stack_free' = stack_free \ Range(f)
                 /\ content' = [x \in StackFrame |-> IF x \in Range(f) THEN Zero ELSE content[x]]
           /\ slots_occupied' = slots_occupied \cup {slot}
           /\ generations' = [generations EXCEPT ![slot] = @ + 1]
           /\ stack' = [stack EXCEPT ![h] = new]
           /\ live' = live \cup {Id(new)}
    /\ UNCHANGED on

\* Refused for a descriptor that is not valid and for the stack in use.
thread_stack_free(h) ==
    LET d == stack[h] IN
    /\ descriptor_valid(d)
    /\ d.slot # on
    /\ stack_free' = stack_free \cup {mapped[d.slot][p] : p \in Pages}
    /\ mapped' = [mapped EXCEPT ![d.slot] = NoPages]
    /\ slots_occupied' = slots_occupied \ {d.slot}
    /\ stack' = [stack EXCEPT ![h] = Inactive]
    /\ live' = live \ {Id(d)}
    /\ UNCHANGED <<generations, content, on>>

\* The first context of a thread, in the last page of its stack.
thread_frame_init(h) ==
    LET d == stack[h] IN
    /\ descriptor_valid(d)
    /\ mapped[d.slot][Top] # Unmapped
    /\ content' = [content EXCEPT ![mapped[d.slot][Top]] = Id(d)]
    /\ UNCHANGED <<slots_occupied, generations, mapped, stack_free, stack, on, live>>

\* The holder's caller: a descriptor is copied, a stale copy is forgotten,
\* a thread is switched to.
Copy(h, g) ==
    /\ stack[h].active
    /\ ~stack[g].active
    /\ stack' = [stack EXCEPT ![g] = stack[h]]
    /\ UNCHANGED <<slots_occupied, generations, mapped, stack_free, content, on, live>>

Drop(h) ==
    /\ stack[h].active
    /\ Id(stack[h]) \notin live
    /\ stack' = [stack EXCEPT ![h] = Inactive]
    /\ UNCHANGED <<slots_occupied, generations, mapped, stack_free, content, on, live>>

SwitchTo(slot) ==
    /\ slot # on
    /\ slot = BootStack \/ \E id \in live : id.slot = slot
    /\ on' = slot
    /\ UNCHANGED <<slots_occupied, generations, mapped, stack_free, content, stack, live>>

StackNext ==
    \/ \E h \in Holder :
          thread_stack_alloc(h) \/ thread_stack_free(h) \/ thread_frame_init(h)
    \/ \E h, g \in Holder : Copy(h, g)
    \/ \E h \in Holder : Drop(h)
    \/ \E slot \in Slots \cup {BootStack} : SwitchTo(slot)

StackSpec == StackInit /\ [][StackNext]_stack_vars

-----------------------------------------------------------------------------

\* However slots are reused and whatever stale copies of descriptors are around:
\* every stack that was allocated and not freed by a descriptor of its own, the
\* one the CPU runs on included, keeps its slot and all its pages above an
\* unmapped guard; no frame is in two stacks, or free and in one; and a stack
\* holds no context but its own (thread_stack_alloc, thread_stack_free,
\* thread_frame_init).
StacksExclusive ==
    LET InUse == {s \in Slots : \E p \in Pages : mapped[s][p] # Unmapped}
        Places == slots_occupied \X Pages
    IN  /\ slots_occupied = InUse /\ slots_occupied = {id.slot : id \in live}
        /\ \A id \in live : generations[id.slot] = id.generation
        /\ Cardinality(live) = Cardinality(slots_occupied)
        /\ on # BootStack => on \in slots_occupied
        /\ \A s \in Slots : mapped[s][0] = Unmapped
        /\ \A a \in Places : mapped[a[1]][a[2]] \in StackFrame \ stack_free
        /\ \A a, b \in Places : mapped[a[1]][a[2]] = mapped[b[1]][b[2]] => a = b
        /\ Cardinality(stack_free) + Cardinality(Places) = Cardinality(StackFrame)
        /\ \A id \in live, p \in Pages :
              content[mapped[id.slot][p]] \in {Zero} \cup (IF p = Top THEN {id} ELSE {})

=============================================================================
