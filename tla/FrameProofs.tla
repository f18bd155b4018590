---------------------------- MODULE FrameProofs -----------------------------
(* Theorems about the page frames of the kernel.  The stacks of threads,    *)
(* for any number of slots, pages, frames, generations and copies of        *)
(* descriptors: they never overlap, leak or lose a page.  The page          *)
(* allocator, for every memory map: its counts, its bitmaps and its         *)
(* next-fit search are right.  The growth of a mapped range over such an    *)
(* allocator, for any range and any frames: it is a transaction, whatever   *)
(* operation fails and however often.                                       *)
EXTENDS Pmm, HeapPages, ThreadStack, FiniteSetTheorems, WellFoundedInduction, TLAPS

-----------------------------------------------------------------------------
(* The stacks of threads                                                 *)

Identity == [slot : Slots, generation : Nat \ {0}]

StackTypeOK ==
    /\ slots_occupied \subseteq Slots
    /\ generations \in [Slots -> Nat]
    /\ mapped \in [Slots -> [{0} \cup Pages -> StackFrame \cup {Unmapped}]]
    /\ stack_free \subseteq StackFrame
    /\ content \in [StackFrame -> Identity \cup {Zero}]
    /\ stack \in [Holder -> [slot : Nat, generation : Nat, active : BOOLEAN]]
    /\ on \in Slots \cup {BootStack}
    /\ live \subseteq Identity

\* The stacks that live are the slots that are occupied, each at the slot's own
\* generation; every active descriptor, stale or not, names a slot.
LiveExact ==
    /\ slots_occupied = {id.slot : id \in live}
    /\ \A id \in live : generations[id.slot] = id.generation
    /\ on # BootStack => on \in slots_occupied
    /\ \A h \in Holder : stack[h].active => stack[h].slot \in Slots

\* The frames that are not free are the pages of the occupied slots, each once.
FramesExact ==
    /\ \A s \in Slots : mapped[s][0] = Unmapped
    /\ \A s \in Slots \ slots_occupied : \A p \in Pages : mapped[s][p] = Unmapped
    /\ \A s \in slots_occupied, p \in Pages : mapped[s][p] \in StackFrame \ stack_free
    /\ \A s, t \in slots_occupied, p, q \in Pages :
          mapped[s][p] = mapped[t][q] => s = t /\ p = q
    /\ \A x \in StackFrame \ stack_free : \E s \in slots_occupied, p \in Pages : mapped[s][p] = x

ContentOwn ==
    \A id \in live, p \in Pages :
        content[mapped[id.slot][p]] \in {Zero} \cup (IF p = Top THEN {id} ELSE {})

StackInv == StackTypeOK /\ LiveExact /\ FramesExact /\ ContentOwn

\* A step that maps nothing and frees nothing keeps the account of the frames.
LEMMA FramesUntouched ==
    ASSUME FramesExact, slots_occupied' = slots_occupied, mapped' = mapped,
           stack_free' = stack_free
    PROVE  FramesExact'
    BY DEF FramesExact

\* The pages of a stack are 1 .. Top.
LEMMA TopIsLast ==
    ASSUME StackAssumption
    PROVE  Top \in Pages /\ 0 \notin Pages /\ Pages # {} /\ IsFiniteSet(Pages)
<1>1. Top \in Nat
  BY FS_CardinalityType DEF StackAssumption, Top
<1> QED BY <1>1 DEF StackAssumption

\* Before the first call no slot is occupied and every frame is free.
LEMMA StackInitInv ==
    ASSUME StackAssumption, StackInit
    PROVE  StackInv
<1> USE DEF StackInit
<1>1. StackTypeOK
  BY DEF StackTypeOK, NoPages, Zero, Inactive, Unmapped, BootStack
<1>2. LiveExact
  BY DEF LiveExact, Inactive
<1>3. FramesExact
  BY DEF FramesExact, NoPages
<1>4. ContentOwn
  BY DEF ContentOwn
<1> QED BY <1>1, <1>2, <1>3, <1>4 DEF StackInv

\* A descriptor that passes descriptor_valid is that of a stack that lives: its
\* slot is occupied, by one stack, and that has the slot's generation.
LEMMA ValidIsLive ==
    ASSUME StackAssumption, StackInv, NEW h \in Holder, descriptor_valid(stack[h])
    PROVE  Id(stack[h]) \in live /\ stack[h].slot \in slots_occupied
<1>1. stack[h].slot \in slots_occupied
  BY DEF descriptor_valid
<1>2. PICK id \in live : id.slot = stack[h].slot
  BY <1>1 DEF StackInv, LiveExact
<1>3. id \in Identity /\ id.generation = stack[h].generation
  BY <1>2 DEF StackInv, StackTypeOK, LiveExact, descriptor_valid
<1>4. id = Id(stack[h])
  BY <1>2, <1>3 DEF Identity, Id
<1> QED BY <1>1, <1>4

\* Two stacks that live are in two slots.
LEMMA OnePerSlot ==
    ASSUME StackInv, NEW a \in live, NEW b \in live, a.slot = b.slot
    PROVE  a = b
  BY DEF StackInv, StackTypeOK, LiveExact, Identity

\* Where a slot is usable, the first such slot is.
LEMMA FirstIsUsable ==
    ASSUME StackAssumption, FreeSlots # {}
    PROVE  (CHOOSE s \in FreeSlots : \A t \in FreeSlots : s <= t) \in FreeSlots
<1>1. FreeSlots \subseteq Nat
  BY DEF StackAssumption, FreeSlots
<1>2. PICK s \in FreeSlots : \A t \in FreeSlots : ~ (<<t, s>> \in OpToRel(<, Nat))
  BY Zenon, <1>1, NatLessThanWellFounded, WFMin
<1>3. \A t \in FreeSlots : s <= t
  <2> SUFFICES ASSUME NEW t \in FreeSlots PROVE s <= t
    OBVIOUS
  <2>1. ~ (<<t, s>> \in OpToRel(<, Nat))
    BY Zenon, <1>2
  <2> QED BY <1>1, <2>1 DEF OpToRel
<1> QED BY Zenon, <1>3

\* A new stack gets frames that were free, in a slot that had none.
LEMMA StackAllocKeeps ==
    ASSUME StackAssumption, StackInv, NEW h \in Holder, thread_stack_alloc(h)
    PROVE  StackInv'
<1> DEFINE slot == CHOOSE s \in FreeSlots : \A t \in FreeSlots : s <= t
           g == generations[slot] + 1
           fresh == [slot |-> slot, generation |-> g, active |-> TRUE]
<1>1. slot \in Slots /\ slot \notin slots_occupied /\ slot \in Nat
  <2>1. slot \in FreeSlots
    BY Zenon, FirstIsUsable DEF thread_stack_alloc
  <2> HIDE DEF slot
  <2> QED BY <2>1 DEF FreeSlots, StackAssumption
<1>2. PICK f \in Injection(Pages, stack_free) :
         /\ mapped' = [mapped EXCEPT ![slot] = [p \in {0} \cup Pages |->
                                  IF p = 0 THEN Unmapped ELSE f[p]]]
         /\ stack_free' = stack_free \ Range(f)
         /\ content' = [x \in StackFrame |-> IF x \in Range(f) THEN Zero ELSE content[x]]
  BY Zenon DEF thread_stack_alloc
<1>3. /\ slots_occupied' = slots_occupied \cup {slot}
      /\ generations' = [generations EXCEPT ![slot] = @ + 1]
      /\ stack' = [stack EXCEPT ![h] = fresh]
      /\ live' = live \cup {Id(fresh)}
      /\ on' = on
  BY Zenon DEF thread_stack_alloc
<1>4. /\ f \in [Pages -> stack_free] /\ Range(f) \subseteq stack_free
      /\ \A p, q \in Pages : f[p] = f[q] => p = q
      /\ \A p \in Pages : f[p] \in Range(f)
      /\ \A x \in Range(f) : \E p \in Pages : f[p] = x
  BY DEF Injection, IsInjective, Range
<1>5. StackTypeOK /\ LiveExact /\ FramesExact /\ ContentOwn
  BY DEF StackInv
<1>6. 0 \notin Pages /\ 0 \notin StackFrame
  BY TopIsLast DEF StackAssumption, Unmapped
<1> HIDE DEF slot
<1>7. g \in Nat \ {0} /\ Id(fresh) \in Identity /\ Id(fresh) = [slot |-> slot, generation |-> g]
  BY <1>1, <1>5 DEF StackTypeOK, Identity, Id
<1>8. \A s \in Slots, p \in Pages :
         mapped'[s][p] = IF s = slot THEN f[p] ELSE mapped[s][p]
  BY <1>1, <1>2, <1>5, <1>6 DEF StackTypeOK
<1>9. \A s \in Slots : mapped'[s][0] = Unmapped
  BY <1>1, <1>2, <1>5 DEF StackTypeOK, FramesExact
<1>10. StackTypeOK'
  <2>1. mapped' \in [Slots -> [{0} \cup Pages -> StackFrame \cup {Unmapped}]]
    BY <1>2, <1>4, <1>5 DEF StackTypeOK
  <2>2. content' \in [StackFrame -> Identity \cup {Zero}]
    BY <1>2, <1>5 DEF StackTypeOK
  <2>3. generations' \in [Slots -> Nat]
    BY <1>1, <1>3, <1>5 DEF StackTypeOK
  <2>6. stack_free' \subseteq StackFrame /\ on' \in Slots \cup {BootStack}
    BY <1>2, <1>3, <1>5 DEF StackTypeOK
  <2>4. stack' \in [Holder -> [slot : Nat, generation : Nat, active : BOOLEAN]]
    BY <1>1, <1>3, <1>5, <1>7 DEF StackTypeOK
  <2>5. slots_occupied' \subseteq Slots /\ live' \subseteq Identity
    BY <1>1, <1>3, <1>5, <1>7 DEF StackTypeOK
  <2> QED BY <2>1, <2>2, <2>3, <2>4, <2>5, <2>6 DEF StackTypeOK
<1>11. LiveExact'
  <2>1. slots_occupied' = {id.slot : id \in live'}
    BY <1>3, <1>5, <1>7 DEF LiveExact
  <2>2. \A id \in live : id.slot # slot /\ id.slot \in Slots
    BY <1>1, <1>5 DEF LiveExact, StackTypeOK
  <2>3. \A id \in live' : generations'[id.slot] = id.generation
    BY <1>1, <1>3, <1>5, <1>7, <2>2 DEF LiveExact, StackTypeOK
  <2>4. \A k \in Holder : stack'[k].active => stack'[k].slot \in Slots
    BY <1>1, <1>3, <1>5 DEF LiveExact, StackTypeOK
  <2> QED BY <1>3, <1>5, <2>1, <2>3, <2>4 DEF LiveExact
<1>12. FramesExact'
  <2>1. \A s \in Slots \ slots_occupied' : \A p \in Pages : mapped'[s][p] = Unmapped
    BY <1>3, <1>5, <1>8 DEF FramesExact
  <2>2. \A s \in slots_occupied', p \in Pages : mapped'[s][p] \in StackFrame \ stack_free'
    BY <1>1, <1>2, <1>3, <1>4, <1>5, <1>8 DEF FramesExact, StackTypeOK
  <2>3. ASSUME NEW s \in slots_occupied', NEW t \in slots_occupied', NEW p \in Pages, NEW q \in Pages,
               mapped'[s][p] = mapped'[t][q]
        PROVE  s = t /\ p = q
    <3>1. s \in Slots /\ t \in Slots
      BY <1>1, <1>3, <1>5 DEF StackTypeOK
    <3>2. \A u \in slots_occupied, r \in Pages : mapped[u][r] \notin Range(f)
      BY <1>4, <1>5 DEF FramesExact
    <3>3. CASE s = slot /\ t = slot
      BY <1>4, <1>8, <2>3, <3>1, <3>3
    <3>4. CASE s = slot /\ t # slot
      BY <1>3, <1>4, <1>8, <2>3, <3>1, <3>2, <3>4
    <3>5. CASE s # slot /\ t = slot
      BY <1>3, <1>4, <1>8, <2>3, <3>1, <3>2, <3>5
    <3>6. CASE s # slot /\ t # slot
      BY <1>3, <1>5, <1>8, <2>3, <3>1, <3>6 DEF FramesExact
    <3> QED BY <3>3, <3>4, <3>5, <3>6
  <2>4. ASSUME NEW x \in StackFrame \ stack_free'
        PROVE  \E s \in slots_occupied', p \in Pages : mapped'[s][p] = x
    <3>1. CASE x \in Range(f)
      BY <1>1, <1>3, <1>4, <1>8, <3>1
    <3>2. CASE x \notin stack_free
      <4>1. PICK s \in slots_occupied, p \in Pages : mapped[s][p] = x
        BY <1>5, <3>2 DEF FramesExact
      <4>2. s \in Slots /\ s # slot /\ s \in slots_occupied'
        BY <1>1, <1>3, <1>5, <4>1 DEF StackTypeOK
      <4> QED BY <1>8, <4>1, <4>2
    <3> QED BY <1>2, <3>1, <3>2
  <2> QED BY <1>9, <2>1, <2>2, <2>3, <2>4 DEF FramesExact
<1>13. ContentOwn'
  <2> SUFFICES ASSUME NEW id \in live', NEW p \in Pages
               PROVE  content'[mapped'[id.slot][p]]
                        \in {Zero} \cup (IF p = Top THEN {id} ELSE {})
    BY DEF ContentOwn, Top
  <2>1. CASE id = Id(fresh)
    BY <1>1, <1>2, <1>4, <1>5, <1>7, <1>8, <2>1 DEF StackTypeOK
  <2>2. CASE id \in live
    <3>1. id.slot \in slots_occupied /\ id.slot # slot /\ id.slot \in Slots
      BY <1>1, <1>5, <2>2 DEF LiveExact, StackTypeOK
    <3>2. mapped'[id.slot][p] = mapped[id.slot][p] /\ mapped[id.slot][p] \in StackFrame \ stack_free
      BY <1>5, <1>8, <3>1 DEF FramesExact
    <3>3. content'[mapped[id.slot][p]] = content[mapped[id.slot][p]]
      BY <1>2, <1>4, <3>2
    <3>4. content[mapped[id.slot][p]] \in {Zero} \cup (IF p = Top THEN {id} ELSE {})
      BY Zenon, <1>5, <2>2 DEF ContentOwn
    <3> QED BY Zenon, <3>2, <3>3, <3>4
  <2> QED BY Zenon, <1>3, <2>1, <2>2
<1> QED BY <1>10, <1>11, <1>12, <1>13 DEF StackInv

\* Freeing gives back the frames of one slot, and no stack that lives loses one.
LEMMA StackFreeKeeps ==
    ASSUME StackAssumption, StackInv, NEW h \in Holder, thread_stack_free(h)
    PROVE  StackInv'
<1> DEFINE d == stack[h]
           slot == d.slot
           gone == {mapped[slot][p] : p \in Pages}
<1>1. /\ descriptor_valid(d) /\ slot # on
      /\ stack_free' = stack_free \cup gone
      /\ mapped' = [mapped EXCEPT ![slot] = NoPages]
      /\ slots_occupied' = slots_occupied \ {slot}
      /\ stack' = [stack EXCEPT ![h] = Inactive]
      /\ live' = live \ {Id(d)}
      /\ generations' = generations /\ content' = content /\ on' = on
  BY DEF thread_stack_free
<1>2. Id(d) \in live /\ slot \in slots_occupied
  BY <1>1, ValidIsLive
<1>3. StackTypeOK /\ LiveExact /\ FramesExact /\ ContentOwn
  BY DEF StackInv
<1>4. slot \in Slots /\ Id(d).slot = slot
  BY <1>2, <1>3 DEF StackTypeOK, Id
<1>5. 0 \notin Pages
  BY TopIsLast
<1>6. gone \subseteq StackFrame
  BY <1>2, <1>3 DEF FramesExact
<1>7. \A id \in live' : id \in live /\ id.slot # slot
  BY <1>1, <1>2, <1>4, OnePerSlot
<1> HIDE DEF d, slot, gone
<1>8. \A s \in Slots, p \in Pages :
         mapped'[s][p] = IF s = slot THEN Unmapped ELSE mapped[s][p]
  BY <1>1, <1>3, <1>4, <1>5 DEF StackTypeOK, NoPages
<1>9. \A s \in Slots : mapped'[s][0] = Unmapped
  BY <1>1, <1>3, <1>4 DEF StackTypeOK, FramesExact, NoPages
<1>10. StackTypeOK'
  <2>1. mapped' \in [Slots -> [{0} \cup Pages -> StackFrame \cup {Unmapped}]]
    BY <1>1, <1>3 DEF StackTypeOK, NoPages
  <2>2. stack' \in [Holder -> [slot : Nat, generation : Nat, active : BOOLEAN]]
    BY <1>1, <1>3 DEF StackTypeOK, Inactive
  <2> QED BY <1>1, <1>3, <1>6, <2>1, <2>2 DEF StackTypeOK
<1>11. LiveExact'
  <2>1. slots_occupied' = {id.slot : id \in live'}
    <3>1. \A s \in slots_occupied' : \E id \in live' : id.slot = s
      BY <1>1, <1>3, <1>4 DEF LiveExact
    <3>2. \A id \in live' : id.slot \in slots_occupied'
      BY <1>1, <1>3, <1>7 DEF LiveExact
    <3> QED BY <3>1, <3>2
  <2>2. \A k \in Holder : stack'[k].active => stack'[k].slot \in Slots
    BY Zenon, <1>1, <1>3 DEF LiveExact, StackTypeOK, Inactive
  <2> QED BY Zenon, <1>1, <1>3, <1>7, <2>1, <2>2 DEF LiveExact
<1>12. FramesExact'
  <2>1. \A s \in Slots \ slots_occupied' : \A p \in Pages : mapped'[s][p] = Unmapped
    BY <1>1, <1>3, <1>8 DEF FramesExact
  <2>2. ASSUME NEW s \in slots_occupied', NEW p \in Pages
        PROVE  mapped'[s][p] = mapped[s][p] /\ mapped[s][p] \in StackFrame \ stack_free'
    <3>1. s \in Slots /\ s \in slots_occupied /\ s # slot
      BY <1>1, <1>3 DEF StackTypeOK
    <3>2. mapped[s][p] \notin gone
      BY <1>2, <1>3, <3>1 DEF FramesExact, gone
    <3> QED BY <1>1, <1>3, <1>8, <3>1, <3>2 DEF FramesExact
  <2>3. \A s, t \in slots_occupied', p, q \in Pages :
           mapped'[s][p] = mapped'[t][q] => s = t /\ p = q
    BY <1>1, <1>3, <2>2 DEF FramesExact
  <2>4. ASSUME NEW x \in StackFrame \ stack_free'
        PROVE  \E s \in slots_occupied', p \in Pages : mapped'[s][p] = x
    <3>1. PICK s \in slots_occupied, p \in Pages : mapped[s][p] = x
      BY <1>1, <1>3 DEF FramesExact
    <3>2. s # slot
      BY Zenon, <1>1, <3>1 DEF gone
    <3> QED BY <1>1, <2>2, <3>1, <3>2
  <2> QED BY <1>9, <2>1, <2>2, <2>3, <2>4 DEF FramesExact
<1>13. ContentOwn'
  <2> SUFFICES ASSUME NEW id \in live', NEW p \in Pages
               PROVE  content'[mapped'[id.slot][p]]
                        \in {Zero} \cup (IF p = Top THEN {id} ELSE {})
    BY DEF ContentOwn, Top
  <2>1. id \in live /\ id.slot # slot /\ id.slot \in Slots
    BY <1>3, <1>7 DEF StackTypeOK, Identity
  <2>2. mapped'[id.slot][p] = mapped[id.slot][p]
    BY <1>8, <2>1
  <2>3. content[mapped[id.slot][p]] \in {Zero} \cup (IF p = Top THEN {id} ELSE {})
    BY Zenon, <1>3, <2>1 DEF ContentOwn
  <2>4. content' = content
    BY Zenon, <1>1
  <2> QED BY Zenon, <2>2, <2>3, <2>4
<1> QED BY <1>10, <1>11, <1>12, <1>13 DEF StackInv

\* The first context goes to the last page of the stack whose descriptor it is.
LEMMA FrameInitKeeps ==
    ASSUME StackAssumption, StackInv, NEW h \in Holder, thread_frame_init(h)
    PROVE  StackInv'
<1> DEFINE d == stack[h]
           x == mapped[d.slot][Top]
<1>1. /\ descriptor_valid(d) /\ content' = [content EXCEPT ![x] = Id(d)]
      /\ UNCHANGED <<slots_occupied, generations, mapped, stack_free, stack, on, live>>
  BY Zenon DEF thread_frame_init
<1>2. Id(d) \in live /\ d.slot \in slots_occupied /\ Id(d).slot = d.slot
  BY Zenon, <1>1, ValidIsLive DEF Id
<1>3. StackTypeOK /\ LiveExact /\ FramesExact /\ ContentOwn
  BY DEF StackInv
<1>4. Top \in Pages
  BY TopIsLast
<1> HIDE DEF d
<1>5. content' \in [StackFrame -> Identity \cup {Zero}]
  BY Zenon, <1>1, <1>2, <1>3 DEF StackTypeOK
<1>6. StackTypeOK' /\ LiveExact' /\ FramesExact'
  <2>1. StackTypeOK'
    BY Zenon, <1>1, <1>3, <1>5 DEF StackTypeOK
  <2>2. LiveExact'
    BY Zenon, <1>1, <1>3 DEF LiveExact
  <2>3. FramesExact'
    BY Zenon, <1>1, <1>3, FramesUntouched
  <2> QED BY <2>1, <2>2, <2>3
<1>7. ContentOwn'
  <2> SUFFICES ASSUME NEW id \in live, NEW p \in Pages
               PROVE  content'[mapped[id.slot][p]]
                        \in {Zero} \cup (IF p = Top THEN {id} ELSE {})
    BY Zenon, <1>1 DEF ContentOwn, Top
  <2>1. id.slot \in slots_occupied /\ mapped[id.slot][p] \in StackFrame /\ x \in StackFrame
    BY Zenon, <1>2, <1>3, <1>4 DEF LiveExact, FramesExact
  <2>2. CASE mapped[id.slot][p] = x
    <3>1. id.slot = d.slot /\ p = Top
      BY <1>2, <1>3, <1>4, <2>1, <2>2 DEF FramesExact
    <3>2. id = Id(d)
      BY <1>2, <3>1, OnePerSlot
    <3> QED BY Zenon, <1>1, <1>3, <2>1, <2>2, <3>1, <3>2 DEF StackTypeOK
  <2>3. CASE mapped[id.slot][p] # x
    <3>1. content'[mapped[id.slot][p]] = content[mapped[id.slot][p]]
      BY Zenon, <1>1, <1>3, <2>1, <2>3 DEF StackTypeOK
    <3>2. content[mapped[id.slot][p]] \in {Zero} \cup (IF p = Top THEN {id} ELSE {})
      BY Zenon, <1>3 DEF ContentOwn
    <3> QED BY Zenon, <3>1, <3>2
  <2> QED BY Zenon, <2>2, <2>3
<1> QED BY <1>6, <1>7 DEF StackInv

\* Copying a descriptor, forgetting a stale one and switching stacks map nothing.
LEMMA CallerKeeps ==
    ASSUME StackAssumption, StackInv,
           \/ \E h, g \in Holder : Copy(h, g)
           \/ \E h \in Holder : Drop(h)
           \/ \E slot \in Slots \cup {BootStack} : SwitchTo(slot)
    PROVE  StackInv'
<1>1. StackTypeOK /\ LiveExact /\ FramesExact /\ ContentOwn
  BY DEF StackInv
<1>2. UNCHANGED <<slots_occupied, generations, mapped, stack_free, content, live>>
  BY Zenon DEF Copy, Drop, SwitchTo
<1>3. FramesExact'
  BY Zenon, <1>1, <1>2, FramesUntouched
<1>4. ContentOwn'
  <2> SUFFICES ASSUME NEW id \in live', NEW p \in Pages
               PROVE  content'[mapped'[id.slot][p]]
                        \in {Zero} \cup (IF p = Top THEN {id} ELSE {})
    BY DEF ContentOwn, Top
  <2>1. id \in live /\ content' = content /\ mapped' = mapped
    BY Zenon, <1>2
  <2>2. content[mapped[id.slot][p]] \in {Zero} \cup (IF p = Top THEN {id} ELSE {})
    BY Zenon, <1>1, <2>1 DEF ContentOwn
  <2> QED BY Zenon, <2>1, <2>2
<1> DEFINE Named(st) ==
      /\ st \in [Holder -> [slot : Nat, generation : Nat, active : BOOLEAN]]
      /\ \A h \in Holder : st[h].active => st[h].slot \in Slots
<1>5. Named(stack')
  <2>1. ASSUME NEW h \in Holder, NEW g \in Holder, Copy(h, g)
        PROVE  Named(stack')
    BY Zenon, <1>1, <2>1 DEF Copy, StackTypeOK, LiveExact
  <2>2. ASSUME NEW h \in Holder, Drop(h)
        PROVE  Named(stack')
    BY Zenon, <1>1, <2>2 DEF Drop, StackTypeOK, LiveExact, Inactive
  <2>3. ASSUME NEW slot \in Slots \cup {BootStack}, SwitchTo(slot)
        PROVE  Named(stack')
    BY Zenon, <1>1, <2>3 DEF SwitchTo, StackTypeOK, LiveExact
  <2> QED BY <2>1, <2>2, <2>3
<1>6. on' \in Slots \cup {BootStack} /\ (on' # BootStack => on' \in slots_occupied)
  BY Zenon, <1>1 DEF Copy, Drop, SwitchTo, StackTypeOK, LiveExact
<1>7. StackTypeOK'
  BY Zenon, <1>1, <1>2, <1>5, <1>6 DEF StackTypeOK
<1>8. LiveExact'
  BY Zenon, <1>1, <1>2, <1>5, <1>6 DEF LiveExact
<1> QED BY <1>3, <1>4, <1>7, <1>8 DEF StackInv

\* Every step keeps the invariant.
LEMMA StackStep ==
    ASSUME StackAssumption, StackInv, [StackNext]_stack_vars
    PROVE  StackInv'
<1>1. CASE UNCHANGED stack_vars
  <2>1. StackTypeOK /\ LiveExact /\ FramesExact /\ ContentOwn
    BY DEF StackInv
  <2>2. StackTypeOK' /\ LiveExact'
    BY Zenon, <1>1, <2>1 DEF stack_vars, StackTypeOK, LiveExact
  <2>3. FramesExact'
    BY Zenon, <1>1, <2>1, FramesUntouched DEF stack_vars
  <2>4. ContentOwn'
    <3> SUFFICES ASSUME NEW id \in live', NEW p \in Pages
                 PROVE  content'[mapped'[id.slot][p]]
                          \in {Zero} \cup (IF p = Top THEN {id} ELSE {})
      BY Zenon DEF ContentOwn, Top
    <3>1. id \in live /\ content' = content /\ mapped' = mapped
      BY Zenon, <1>1 DEF stack_vars
    <3>2. content[mapped[id.slot][p]] \in {Zero} \cup (IF p = Top THEN {id} ELSE {})
      BY Zenon, <2>1, <3>1 DEF ContentOwn
    <3> QED BY Zenon, <3>1, <3>2
  <2> QED BY <2>2, <2>3, <2>4 DEF StackInv
<1>2. CASE StackNext
  BY Zenon, <1>2, StackAllocKeeps, StackFreeKeeps, FrameInitKeeps, CallerKeeps DEF StackNext
<1> QED BY <1>1, <1>2

\* The two counts: one stack that lives for each occupied slot, and one frame
\* that is not free for each of its pages.
LEMMA StackCounts ==
    ASSUME StackAssumption, StackInv
    PROVE  /\ Cardinality(live) = Cardinality(slots_occupied)
           /\ Cardinality(stack_free) + Cardinality(slots_occupied \X Pages) = Cardinality(StackFrame)
<1>1. StackTypeOK /\ LiveExact /\ FramesExact
  BY DEF StackInv
<1>2. IsFiniteSet(slots_occupied) /\ IsFiniteSet(Pages) /\ IsFiniteSet(StackFrame)
  BY <1>1, TopIsLast, FS_Subset DEF StackAssumption, StackTypeOK
<1>3. Cardinality(live) = Cardinality(slots_occupied)
  <2> DEFINE f == [id \in live |-> id.slot]
  <2>1. f \in Surjection(live, slots_occupied)
    BY <1>1 DEF LiveExact, Surjection
  <2>2. f \in Injection(live, slots_occupied)
    BY <1>1, OnePerSlot DEF LiveExact, Injection, IsInjective
  <2> HIDE DEF f
  <2>3. IsFiniteSet(live)
    BY <1>2, <2>2, FS_Injection
  <2> QED BY <2>1, <2>2, <2>3, FS_Surjection
<1>4. Cardinality(slots_occupied \X Pages) = Cardinality(StackFrame \ stack_free)
  <2> DEFINE f == [a \in slots_occupied \X Pages |-> mapped[a[1]][a[2]]]
  <2>1. f \in Surjection(slots_occupied \X Pages, StackFrame \ stack_free)
    <3>1. f \in [slots_occupied \X Pages -> StackFrame \ stack_free]
      BY <1>1 DEF FramesExact
    <3>2. ASSUME NEW x \in StackFrame \ stack_free
          PROVE  \E a \in slots_occupied \X Pages : f[a] = x
      <4>1. PICK s \in slots_occupied, p \in Pages : mapped[s][p] = x
        BY <1>1 DEF FramesExact
      <4>2. <<s, p>> \in slots_occupied \X Pages /\ f[<<s, p>>] = x
        BY <4>1
      <4> QED BY <4>2
    <3> HIDE DEF f
    <3> QED BY Zenon, <3>1, <3>2 DEF Surjection
  <2>2. f \in Injection(slots_occupied \X Pages, StackFrame \ stack_free)
    <3>1. f \in [slots_occupied \X Pages -> StackFrame \ stack_free]
      BY <1>1 DEF FramesExact
    <3>2. ASSUME NEW a \in slots_occupied \X Pages, NEW b \in slots_occupied \X Pages, f[a] = f[b]
          PROVE  a = b
      BY <1>1, <3>2 DEF FramesExact
    <3> QED BY <3>1, <3>2 DEF Injection, IsInjective
  <2> HIDE DEF f
  <2>3. IsFiniteSet(slots_occupied \X Pages)
    BY <1>2, FS_Product
  <2> QED BY <2>1, <2>2, <2>3, FS_Surjection
<1>5. Cardinality(StackFrame \ stack_free) = Cardinality(StackFrame) - Cardinality(stack_free)
  <2>1. StackFrame \cap stack_free = stack_free
    BY <1>1 DEF StackTypeOK
  <2>2. Cardinality(StackFrame \ stack_free) = Cardinality(StackFrame) - Cardinality(StackFrame \cap stack_free)
    BY Zenon, <1>2, FS_Difference
  <2> QED BY <2>1, <2>2
<1>6. Cardinality(StackFrame) \in Nat /\ Cardinality(stack_free) \in Nat
  BY <1>1, <1>2, FS_Subset, FS_CardinalityType DEF StackTypeOK
<1> QED BY <1>3, <1>4, <1>5, <1>6

\* However slots are reused and whatever stale copies of descriptors are around,
\* every stack allocated and not freed keeps its slot and its pages, no frame is
\* in two stacks or free and in one, and a stack holds no context but its own
\* (thread_stack_alloc, thread_stack_free, thread_frame_init).
THEOREM StacksAlwaysExclusive ==
    ASSUME StackAssumption
    PROVE  StackSpec => []StacksExclusive
<1>1. StackInit => StackInv
  BY StackInitInv
<1>2. StackInv /\ [StackNext]_stack_vars => StackInv'
  BY StackStep
<1>3. StackInv => StacksExclusive
  <2> SUFFICES ASSUME StackInv PROVE StacksExclusive
    OBVIOUS
  <2>1. StackTypeOK /\ LiveExact /\ FramesExact /\ ContentOwn
    BY DEF StackInv
  <2>2. slots_occupied = {s \in Slots : \E p \in Pages : mapped[s][p] # Unmapped}
    <3>1. Pages # {} /\ Unmapped \notin StackFrame
      BY TopIsLast DEF StackAssumption
    <3> QED BY <2>1, <3>1 DEF StackTypeOK, FramesExact
  <2>3. /\ \A a \in slots_occupied \X Pages : mapped[a[1]][a[2]] \in StackFrame \ stack_free
        /\ \A a, b \in slots_occupied \X Pages : mapped[a[1]][a[2]] = mapped[b[1]][b[2]] => a = b
    BY <2>1 DEF FramesExact
  <2> QED BY Zenon, <2>1, <2>2, <2>3, StackCounts
             DEF StacksExclusive, LiveExact, FramesExact, ContentOwn
<1> QED BY <1>1, <1>2, <1>3, PTL DEF StackSpec

-----------------------------------------------------------------------------
(* The page allocator                                                      *)

Free == Frames \ occupied

(* The inductive invariant.  The last two conjuncts carry the memory map:   *)
(* without them free_frames could not be bounded by total_frames.           *)
PmmInv ==
  /\ PmmTypeOK
  /\ CountExact
  /\ FramesAccounted
  /\ total_frames = Cardinality(Usable)
  /\ Frames \ Usable \subseteq withdrawn

(* The managed frames are finitely many.                                    *)
LEMMA FramesFinite == IsFiniteSet(Frames) /\ Cardinality(Frames) = Span
<1>1. /\ IsFiniteSet(0..(Span - 1))
      /\ Cardinality(0..(Span - 1)) = IF 0 > Span - 1 THEN 0 ELSE Span - 1 - 0 + 1
  BY FS_Interval, PmmAssumption
<1> QED BY <1>1, PmmAssumption DEF Frames

(* A run of count frames has count members.                                 *)
LEMMA ExtentSize ==
  ASSUME NEW first \in Nat, NEW count \in Nat
  PROVE  IsFiniteSet(Extent(first, first + count)) /\ Cardinality(Extent(first, first + count)) = count
<1> DEFINE last == first + count - 1
<1>0. last \in Int OBVIOUS
<1>1. /\ IsFiniteSet(first..last)
      /\ Cardinality(first..last) = IF first > last THEN 0 ELSE last - first + 1
  BY FS_Interval, <1>0
<1> QED BY <1>1 DEF Extent

(* A non-empty set of natural numbers has a least member.                   *)
LEMMA LeastMember ==
  ASSUME NEW R \in SUBSET Nat, R # {}
  PROVE  \E f \in R : \A g \in R : f <= g
<1>1. \E f \in R : \A g \in R : ~(<<g, f>> \in OpToRel(<, Nat))
  BY Zenon, WFMin, NatLessThanWellFounded
<1>2. PICK f \in R : \A g \in R : ~(<<g, f>> \in OpToRel(<, Nat)) BY Zenon, <1>1
<1>3. \A g \in R : ~(g < f) BY Zenon, <1>2 DEF OpToRel
<1>4. \A g \in R : f <= g BY <1>3
<1> QED BY <1>4

(* One scan of find_run returns a free run at or after its start, and fails *)
(* only when there is none.                                                 *)
LEMMA ScanRight ==
  ASSUME NEW start \in Nat, NEW count \in Nat \ {0}
  PROVE  IF find_run(start, count) = None
         THEN Runs(start, count) = {}
         ELSE find_run(start, count) \in Runs(start, count)
<1> DEFINE R == Runs(start, count)
<1>1. R \in SUBSET Nat BY PmmAssumption DEF Runs
<1>2. CASE R = {} BY <1>2 DEF find_run
<1>3. CASE R # {}
  <2>1. \E f \in R : \A g \in R : f <= g BY <1>1, <1>3, LeastMember
  <2>2. find_run(start, count) \in R BY <1>3, <2>1 DEF find_run
  <2>3. find_run(start, count) # None BY <2>2, <1>1, PmmAssumption
  <2> QED BY <2>2, <2>3
<1> QED BY <1>2, <1>3

(* Both scans together search every run, whatever the cursor is.            *)
LEMMA SearchRight ==
  ASSUME cursor \in Frames, NEW count \in Nat \ {0}
  PROVE  IF Chosen(count) = None
         THEN Runs(0, count) = {}
         ELSE Chosen(count) \in Runs(0, count)
<1>1. cursor \in Nat BY DEF Frames
<1>2. Runs(cursor, count) \subseteq Runs(0, count) BY <1>1, PmmAssumption DEF Runs
<1>3. /\ find_run(cursor, count) = None => Runs(cursor, count) = {}
      /\ find_run(cursor, count) # None => find_run(cursor, count) \in Runs(cursor, count)
  BY <1>1, ScanRight
<1>4. /\ find_run(0, count) = None => Runs(0, count) = {}
      /\ find_run(0, count) # None => find_run(0, count) \in Runs(0, count)
  BY ScanRight
<1> QED BY <1>2, <1>3, <1>4 DEF Chosen

(* Giving frames to a caller or taking them out of circulation subtracts    *)
(* exactly their number from the free ones.                                 *)
LEMMA Fewer ==
  ASSUME NEW o \in SUBSET Frames, NEW r \in SUBSET (Frames \ o)
  PROVE  /\ Frames \ (o \cup r) = (Frames \ o) \ r
         /\ Cardinality(Frames \ (o \cup r)) = Cardinality(Frames \ o) - Cardinality(r)
         /\ Cardinality(Frames \ o) \in Nat
         /\ Cardinality(r) \in Nat
         /\ Cardinality(r) <= Cardinality(Frames \ o)
<1>1. IsFiniteSet(Frames \ o) BY Zenon, FramesFinite, FS_Difference
<1>2. IsFiniteSet(r) /\ Cardinality(r) <= Cardinality(Frames \ o) BY <1>1, FS_Subset
<1>3. Cardinality((Frames \ o) \ r) = Cardinality(Frames \ o) - Cardinality((Frames \ o) \cap r)
  BY Zenon, <1>1, FS_Difference
<1>4. (Frames \ o) \cap r = r OBVIOUS
<1>5. Frames \ (o \cup r) = (Frames \ o) \ r OBVIOUS
<1>6. Cardinality(Frames \ o) \in Nat /\ Cardinality(r) \in Nat BY <1>1, <1>2, FS_CardinalityType
<1> QED BY Zenon, <1>2, <1>3, <1>4, <1>5, <1>6

(* Giving frames back adds exactly their number to the free ones.           *)
LEMMA More ==
  ASSUME NEW o \in SUBSET Frames, NEW r \in SUBSET o
  PROVE  /\ Cardinality(Frames \ (o \ r)) = Cardinality(Frames \ o) + Cardinality(r)
         /\ Cardinality(Frames \ o) \in Nat
         /\ Cardinality(r) \in Nat
<1> DEFINE p == o \ r
<1>1. p \in SUBSET Frames /\ r \in SUBSET (Frames \ p) /\ p \cup r = o OBVIOUS
<1>2. /\ Cardinality(Frames \ (p \cup r)) = Cardinality(Frames \ p) - Cardinality(r)
      /\ Cardinality(Frames \ p) \in Nat /\ Cardinality(r) \in Nat
      /\ Cardinality(r) <= Cardinality(Frames \ p)
  BY Zenon, <1>1, Fewer
<1>3. Cardinality(Frames \ o) = Cardinality(Frames \ p) - Cardinality(r) BY Zenon, <1>1, <1>2
<1> QED BY <1>2, <1>3

(* The free frames are usable ones, so there are at most total_frames.      *)
LEMMA FreeBound ==
  ASSUME NEW w, NEW o \in SUBSET Frames, w \subseteq o, Frames \ Usable \subseteq w
  PROVE  /\ Cardinality(Frames \ o) \in 0..Cardinality(Usable)
         /\ Cardinality(Usable) \in 0..Span
<1>1. IsFiniteSet(Usable) /\ Cardinality(Usable) <= Span
  BY FramesFinite, FS_Subset, PmmAssumption
<1>2. Frames \ o \in SUBSET Usable OBVIOUS
<1>3. IsFiniteSet(Frames \ o) /\ Cardinality(Frames \ o) <= Cardinality(Usable)
  BY <1>1, <1>2, FS_Subset
<1>4. Cardinality(Frames \ o) \in Nat /\ Cardinality(Usable) \in Nat
  BY <1>1, <1>3, FS_CardinalityType
<1> QED BY <1>1, <1>3, <1>4, PmmAssumption

-----------------------------------------------------------------------------
(* pmm_core_init establishes the invariant for any memory map and any       *)
(* place of the bitmaps.                                                    *)
LEMMA PmmInitInv == pmm_core_init => PmmInv
<1> SUFFICES ASSUME pmm_core_init PROVE PmmInv OBVIOUS
<1>1. /\ eligible \in SUBSET Frames /\ occupied \in SUBSET Frames
      /\ held \in SUBSET Frames /\ withdrawn \in SUBSET Frames
      /\ cursor \in Frames
  BY PmmAssumption DEF pmm_core_init, Frames, Permanent
<1>2. FramesAccounted /\ Frames \ Usable \subseteq withdrawn
  <2>1. withdrawn \subseteq occupied BY PmmAssumption DEF pmm_core_init, Permanent, Frames
  <2>2. eligible = Frames \ withdrawn BY PmmAssumption DEF pmm_core_init, Permanent
  <2>3. held = Allocated BY DEF pmm_core_init, Allocated
  <2> QED BY <2>1, <2>2, <2>3 DEF FramesAccounted, pmm_core_init
<1>3. Frames \ occupied = Usable \ Permanent
  BY Zenon, PmmAssumption DEF pmm_core_init, Frames
<1>4. IsFiniteSet(Usable) BY FramesFinite, FS_Subset, PmmAssumption
<1>5. Cardinality(Usable \ Permanent) = Cardinality(Usable) - Cardinality(Usable \cap Permanent)
  BY Zenon, <1>4, FS_Difference
<1>6. CountExact BY Zenon, <1>3, <1>5 DEF CountExact, pmm_core_init
<1>7. total_frames = Cardinality(Usable) BY DEF pmm_core_init
<1>8. Cardinality(Frames \ occupied) \in 0..Cardinality(Usable) /\ Cardinality(Usable) \in 0..Span
  BY <1>1, <1>2, FreeBound DEF FramesAccounted
<1> QED BY <1>1, <1>2, <1>6, <1>7, <1>8 DEF PmmInv, PmmTypeOK, CountExact

(* An allocation hands out free frames only and counts them.                *)
LEMMA AllocStep ==
  ASSUME PmmInv, NEW count \in 0..Span, pmm_core_alloc_pages(count)
  PROVE  PmmInv'
<1> DEFINE first == Chosen(count)
           end   == first + count
           r     == Extent(first, end)
<1>0. count \in Nat \ {0} /\ cursor \in Frames
  BY PmmAssumption DEF pmm_core_alloc_pages, PmmInv, PmmTypeOK
<1>1. first \in Runs(0, count) BY <1>0, SearchRight DEF pmm_core_alloc_pages
<1>2. first \in Nat /\ end \in Nat /\ end <= Span /\ r \cap occupied = {}
  BY <1>0, <1>1, PmmAssumption DEF Runs
<1>3. r \in SUBSET (Frames \ occupied) BY <1>2, PmmAssumption DEF Extent, Frames
<1>4. Cardinality(r) = count BY <1>0, <1>2, ExtentSize
<1>5. /\ occupied' = occupied \cup r
      /\ held' = held \cup r
      /\ free_frames' = free_frames - count
      /\ cursor' = IF end = Span THEN 0 ELSE end
      /\ eligible' = eligible /\ total_frames' = total_frames /\ withdrawn' = withdrawn
  BY DEF pmm_core_alloc_pages
<1> HIDE DEF first, end, r
<1>6. cursor' \in Frames BY <1>2, <1>5, PmmAssumption DEF Frames
<1>7. occupied \in SUBSET Frames /\ free_frames = Cardinality(Frames \ occupied)
  BY DEF PmmInv, PmmTypeOK, CountExact
<1>8. Cardinality(Frames \ (occupied \cup r)) = Cardinality(Frames \ occupied) - Cardinality(r)
  BY Zenon, <1>3, <1>7, Fewer
<1>9. CountExact' BY <1>4, <1>5, <1>7, <1>8 DEF CountExact, Frames
<1>10. FramesAccounted'
  BY Zenon, <1>3, <1>5 DEF PmmInv, FramesAccounted, Allocated, Frames
<1>11. /\ eligible' \in SUBSET Frames /\ occupied' \in SUBSET Frames
       /\ held' \in SUBSET Frames /\ withdrawn' \in SUBSET Frames
       /\ total_frames' = Cardinality(Usable) /\ Frames \ Usable \subseteq withdrawn'
  BY <1>3, <1>5 DEF PmmInv, PmmTypeOK
<1>12. Cardinality(Frames \ occupied') \in 0..Cardinality(Usable) /\ Cardinality(Usable) \in 0..Span
  BY Zenon, <1>10, <1>11, FreeBound DEF FramesAccounted, Frames
<1> QED BY Zenon, <1>6, <1>9, <1>10, <1>11, <1>12 DEF PmmInv, PmmTypeOK, CountExact, Frames

(* A free takes back frames their caller holds, and counts them.            *)
LEMMA FreeStep ==
  ASSUME PmmInv, NEW first \in 0..Span, NEW count \in 0..Span, pmm_core_free_pages(first, count)
  PROVE  PmmInv'
<1> DEFINE r == Extent(first, first + count)
<1>1. /\ r \subseteq Allocated
      /\ occupied' = occupied \ r /\ held' = held \ r
      /\ free_frames' = free_frames + count
      /\ eligible' = eligible /\ total_frames' = total_frames
      /\ cursor' = cursor /\ withdrawn' = withdrawn
  BY DEF pmm_core_free_pages
<1>2. Cardinality(r) = count BY ExtentSize, PmmAssumption
<1> HIDE DEF r
<1>3. r \in SUBSET occupied BY <1>1 DEF Allocated
<1>4. occupied \in SUBSET Frames /\ free_frames = Cardinality(Frames \ occupied)
  BY DEF PmmInv, PmmTypeOK, CountExact
<1>5. Cardinality(Frames \ (occupied \ r)) = Cardinality(Frames \ occupied) + Cardinality(r)
  BY Zenon, <1>3, <1>4, More
<1>6. CountExact' BY <1>1, <1>2, <1>4, <1>5 DEF CountExact, Frames
<1>7. FramesAccounted'
  BY Zenon, <1>1 DEF PmmInv, FramesAccounted, Allocated, Frames
<1>8. /\ eligible' \in SUBSET Frames /\ occupied' \in SUBSET Frames
      /\ held' \in SUBSET Frames /\ withdrawn' \in SUBSET Frames /\ cursor' \in Frames
      /\ total_frames' = Cardinality(Usable) /\ Frames \ Usable \subseteq withdrawn'
  BY <1>1 DEF PmmInv, PmmTypeOK
<1>9. Cardinality(Frames \ occupied') \in 0..Cardinality(Usable) /\ Cardinality(Usable) \in 0..Span
  BY Zenon, <1>7, <1>8, FreeBound DEF FramesAccounted, Frames
<1> QED BY Zenon, <1>6, <1>7, <1>8, <1>9 DEF PmmInv, PmmTypeOK, CountExact, Frames

(* A reservation withdraws frames nobody holds; it subtracts only those     *)
(* that were free.                                                          *)
LEMMA ReserveStep ==
  ASSUME PmmInv, NEW first \in 0..Span, NEW end \in 0..(Span + 1), pmm_core_reserve_range(first, end)
  PROVE  PmmInv'
<1> DEFINE range == Extent(first, Least(end, Span))
           r     == range \cap eligible
<1>1. /\ range \cap Allocated = {}
      /\ free_frames' = free_frames - Cardinality(r)
      /\ eligible' = eligible \ range
      /\ occupied' = occupied \cup r
      /\ withdrawn' = withdrawn \cup range
      /\ total_frames' = total_frames /\ cursor' = cursor /\ held' = held
  BY DEF pmm_core_reserve_range
<1>2. range \in SUBSET Frames BY PmmAssumption DEF Extent, Least, Frames
<1> HIDE DEF range
<1>3. r \in SUBSET (Frames \ occupied) BY <1>1, <1>2 DEF Allocated
<1>4. occupied \in SUBSET Frames /\ free_frames = Cardinality(Frames \ occupied)
  BY DEF PmmInv, PmmTypeOK, CountExact
<1>5. Cardinality(Frames \ (occupied \cup r)) = Cardinality(Frames \ occupied) - Cardinality(r)
  BY Zenon, <1>3, <1>4, Fewer
<1>6. CountExact' BY <1>1, <1>4, <1>5 DEF CountExact, Frames
<1>7. FramesAccounted'
  <2>1. /\ withdrawn \subseteq occupied /\ eligible = Frames \ withdrawn
        /\ held = eligible \cap occupied
    BY DEF PmmInv, FramesAccounted, Allocated
  <2>2. (withdrawn \subseteq occupied)' BY <1>1, <1>2, <2>1
  <2>3. eligible' = Frames \ withdrawn' BY <1>1, <2>1
  <2>4. held' = eligible' \cap occupied' BY <1>1, <2>1 DEF Allocated
  <2> QED BY <2>2, <2>3, <2>4 DEF FramesAccounted, Allocated, Frames
<1>8. /\ eligible' \in SUBSET Frames /\ occupied' \in SUBSET Frames
      /\ held' \in SUBSET Frames /\ withdrawn' \in SUBSET Frames /\ cursor' \in Frames
      /\ total_frames' = Cardinality(Usable) /\ Frames \ Usable \subseteq withdrawn'
  BY <1>1, <1>2, <1>3 DEF PmmInv, PmmTypeOK
<1>9. Cardinality(Frames \ occupied') \in 0..Cardinality(Usable) /\ Cardinality(Usable) \in 0..Span
  BY Zenon, <1>7, <1>8, FreeBound DEF FramesAccounted, Frames
<1> QED BY Zenon, <1>6, <1>7, <1>8, <1>9 DEF PmmInv, PmmTypeOK, CountExact, Frames

(* A pinned frame is withdrawn from its holder and stays occupied.          *)
LEMMA PinStep ==
  ASSUME PmmInv, NEW first \in 0..Span, pmm_core_pin_page(first)
  PROVE  PmmInv'
<1>1. /\ first \in Allocated
      /\ eligible' = eligible \ {first} /\ held' = held \ {first}
      /\ withdrawn' = withdrawn \cup {first}
      /\ occupied' = occupied /\ total_frames' = total_frames
      /\ free_frames' = free_frames /\ cursor' = cursor
  BY DEF pmm_core_pin_page
<1>2. FramesAccounted'
  BY <1>1 DEF PmmInv, FramesAccounted, Allocated, Frames
<1>3. PmmTypeOK' BY <1>1 DEF PmmInv, PmmTypeOK, Allocated, Frames
<1>4. CountExact' BY <1>1 DEF PmmInv, CountExact, Frames
<1> QED BY <1>1, <1>2, <1>3, <1>4 DEF PmmInv, Frames

(* The allocator's bookkeeping is right after any sequence of calls, for    *)
(* every memory map and every place of the bitmaps.                         *)
THEOREM PmmInvariant == PmmSpec => []PmmInv
<1>1. PmmInv /\ [PmmNext]_pmm_vars => PmmInv'
  <2> SUFFICES ASSUME PmmInv, [PmmNext]_pmm_vars PROVE PmmInv' OBVIOUS
  <2>1. CASE \E count \in 0..Span : pmm_core_alloc_pages(count) BY <2>1, AllocStep
  <2>2. CASE \E first \in 0..Span, count \in 0..Span : pmm_core_free_pages(first, count)
    BY <2>2, FreeStep
  <2>3. CASE \E first \in 0..Span, end \in 0..(Span + 1) : pmm_core_reserve_range(first, end)
    BY <2>3, ReserveStep
  <2>4. CASE \E first \in 0..Span : pmm_core_pin_page(first) BY <2>4, PinStep
  <2>5. CASE UNCHANGED pmm_vars
    BY Zenon, <2>5 DEF pmm_vars, PmmInv, PmmTypeOK, CountExact, FramesAccounted, Allocated, Frames
  <2> QED BY <2>1, <2>2, <2>3, <2>4, <2>5 DEF PmmNext
<1> QED BY <1>1, PmmInitInv, PTL DEF PmmSpec

(* The variables keep their types: the bitmaps never leave the managed span *)
(* and free_frames never wraps below zero nor exceeds total_frames.         *)
THEOREM PmmTypeCorrect == PmmSpec => []PmmTypeOK
<1>1. PmmInv => PmmTypeOK BY DEF PmmInv
<1> QED BY <1>1, PmmInvariant, PTL

(* free_frames is the number of free frames.                                *)
THEOREM PmmCountAlwaysExact == PmmSpec => []CountExact
<1>1. PmmInv => CountExact BY DEF PmmInv
<1> QED BY <1>1, PmmInvariant, PTL

(* The bitmaps always tell held, free and permanently unavailable frames    *)
(* apart.                                                                   *)
THEOREM PmmFramesAlwaysAccounted == PmmSpec => []FramesAccounted
<1>1. PmmInv => FramesAccounted BY DEF PmmInv
<1> QED BY <1>1, PmmInvariant, PTL

(* Types, count and bitmaps are right after any sequence of calls.          *)
THEOREM PmmAlwaysSound == PmmSpec => []PmmSound
<1>1. PmmInv => PmmSound BY DEF PmmInv, PmmSound
<1> QED BY <1>1, PmmInvariant, PTL

(* The next-fit search hands out nobody's frames, and fails only when no    *)
(* free run is long enough.                                                 *)
THEOREM PmmAllocAlwaysRight == PmmSpec => []AllocRight
<1>1. PmmInv => AllocRight
  <2> SUFFICES ASSUME PmmInv, NEW count \in 1..Span
               PROVE  IF Chosen(count) = None
                      THEN \A f \in 0..(Span - count) :
                             Extent(f, f + count) \cap (held \cup withdrawn) # {}
                      ELSE /\ Extent(Chosen(count), Chosen(count) + count) \subseteq Frames
                           /\ Extent(Chosen(count), Chosen(count) + count)
                                \cap (held \cup withdrawn) = {}
    BY DEF AllocRight
  <2>1. cursor \in Frames /\ count \in Nat \ {0} BY PmmAssumption DEF PmmInv, PmmTypeOK
  <2>2. held \cup withdrawn = occupied
    BY DEF PmmInv, PmmTypeOK, FramesAccounted, Allocated
  <2>3. CASE Chosen(count) = None
    <3>1. Runs(0, count) = {} BY <2>1, <2>3, SearchRight
    <3> QED BY <2>2, <2>3, <3>1 DEF Runs
  <2>4. CASE Chosen(count) # None
    <3>1. Chosen(count) \in Runs(0, count) BY <2>1, <2>4, SearchRight
    <3>2. /\ Chosen(count) \in 0..(Span - count)
          /\ Extent(Chosen(count), Chosen(count) + count) \cap occupied = {}
      BY <3>1 DEF Runs
    <3>3. Extent(Chosen(count), Chosen(count) + count) \subseteq Frames
      BY <2>1, <3>2, PmmAssumption DEF Extent, Frames
    <3> QED BY <2>2, <2>4, <3>2, <3>3
  <2> QED BY Zenon, <2>3, <2>4
<1> QED BY <1>1, PmmInvariant, PTL

-----------------------------------------------------------------------------
(* Growing a mapped range                                                  *)

InFlight == {"map", "release", "unmap", "free"}

(* The first page that, as long as nothing failed, has no frame.            *)
Reach ==
  IF pc \in {"idle", "preflight"} THEN mapped_bytes
  ELSE IF pc = "unmap" THEN offset + 1 ELSE offset

(* The inductive invariant.  The loop's own progress is what GrowthSafe     *)
(* does not mention: the pages below offset are this growth's, the ones     *)
(* from Reach on are not, and the frame in phys is in nobody else's hands.  *)
LoopOK ==
  /\ corrupted <=> fault
  /\ pc \in {"preflight", "alloc", "map"} => ~fault
  /\ pc # "idle" => mapped_bytes <= offset /\ offset <= new
  /\ pc \in InFlight => offset < new
  /\ phys # NoFrame <=> pc \in InFlight

HandsOK ==
  /\ phys # Foreign /\ phys \notin free
  /\ pc \in {"map", "release", "free"} => \A p \in Page : map[p] # phys
  /\ pc = "unmap" => map[offset] = phys
  /\ \A p, q \in Page : map[p] \in Frame /\ map[p] = map[q] => p = q
  /\ \A p \in Page : map[p] \notin free

ExtentOK ==
  /\ \A p \in Page : p < mapped_bytes => map[p] \in Frame
  /\ pc \notin {"idle", "preflight"} => \A p \in Page : p < offset => map[p] \in Frame
  /\ ~fault => \A p \in Page : p >= Reach => map[p] \notin Frame
  /\ ~fault => \A f \in Frame : f \in free \/ f = phys \/ \E p \in Page : map[p] = f

PagesInv == PagesTypeOK /\ LoopOK /\ HandsOK /\ ExtentOK

(* A range that is not in use satisfies it.                                 *)
LEMMA PagesInitInv ==
  ASSUME PagesAssumption, heap_pages_init
  PROVE  PagesInv
<1>1. PagesTypeOK
  <2>1. corrupted \in BOOLEAN /\ fault \in BOOLEAN
    BY Zenon DEF heap_pages_init
  <2>2. map \in [Page -> Frame \cup {Foreign, NoFrame}]
    BY DEF heap_pages_init
  <2> QED BY <2>1, <2>2 DEF PagesAssumption, heap_pages_init, PagesTypeOK
<1>2. \A p \in Page : map[p] \notin Frame
  BY DEF heap_pages_init, PagesAssumption
<1>L. LoopOK
  <2>1. corrupted <=> fault
    BY Zenon DEF heap_pages_init
  <2>2. pc = "idle" /\ phys = NoFrame
    BY DEF heap_pages_init
  <2> QED BY <2>1, <2>2 DEF LoopOK, InFlight
<1>H. HandsOK
  BY <1>2 DEF HandsOK, heap_pages_init, PagesAssumption
<1>E. ExtentOK
  <2>1. mapped_bytes = 0 /\ pc = "idle" /\ free = Frame
    BY DEF heap_pages_init
  <2>2. \A p \in Page : ~(p < mapped_bytes)
    BY <2>1 DEF PagesAssumption, Page
  <2> QED BY <1>2, <2>1, <2>2 DEF ExtentOK
<1> QED BY <1>1, <1>L, <1>H, <1>E DEF PagesInv

(* The steps before anything is mapped.                                     *)
LEMMA EnterKeeps ==
  ASSUME PagesAssumption, PagesInv, NEW n \in 0..(Capacity + 1), Enter(n)
  PROVE  PagesInv'
<1>1. PagesTypeOK'
  BY DEF PagesAssumption, PagesInv, PagesTypeOK, Enter
<1>2. /\ mapped_bytes \in Int /\ n \in Int /\ mapped_bytes <= n
      /\ pc = "idle" /\ pc' = "preflight" /\ new' = n /\ offset' = mapped_bytes
      /\ UNCHANGED <<mapped_bytes, phys, map, free>>
  BY DEF PagesInv, PagesTypeOK, Enter
<1>3. ~corrupted /\ UNCHANGED <<corrupted, fault>>
  BY Zenon DEF Enter
<1>4. ~fault /\ phys = NoFrame
  BY <1>2, <1>3 DEF PagesInv, LoopOK, InFlight
<1>L. LoopOK'
  BY <1>2, <1>3, <1>4 DEF PagesInv, LoopOK, InFlight
<1>H. HandsOK'
  BY Zenon, <1>2 DEF PagesInv, HandsOK
<1>E. ExtentOK'
  BY Zenon, <1>2, <1>3 DEF PagesInv, ExtentOK, Reach
<1> QED BY <1>1, <1>L, <1>H, <1>E DEF PagesInv

(* The walk over the target range only reads the page tables.              *)
LEMMA PreflightKeeps ==
  ASSUME PagesAssumption, PagesInv, NEW answered \in BOOLEAN, Preflight(answered)
  PROVE  PagesInv'
<1>1. /\ Capacity \in Nat
      /\ mapped_bytes \in 0..Capacity /\ new \in 0..Capacity /\ offset \in 0..Capacity
      /\ pc = "preflight" /\ mapped_bytes <= offset /\ offset <= new /\ phys = NoFrame
      /\ UNCHANGED <<mapped_bytes, map, free>>
  BY Zenon DEF PagesAssumption, PagesInv, PagesTypeOK, LoopOK, InFlight, Preflight
<1>2. UNCHANGED <<corrupted, fault>>
  BY Zenon DEF Preflight
<1>3. /\ ~fault /\ (corrupted <=> fault)
  BY <1>1 DEF PagesInv, LoopOK
<1>4. ASSUME pc' \in {"idle", "preflight", "alloc"},
             new' \in 0..Capacity, offset' \in 0..Capacity, phys' = NoFrame,
             pc' # "idle" => mapped_bytes <= offset' /\ offset' <= new',
             pc' = "alloc" => offset' = mapped_bytes
      PROVE  PagesInv'
  <2>T. PagesTypeOK'
    BY Zenon, <1>1, <1>2, <1>4 DEF PagesInv, PagesTypeOK
  <2>L. LoopOK'
    BY <1>1, <1>2, <1>3, <1>4 DEF LoopOK, InFlight
  <2>H. HandsOK'
    BY Zenon, <1>1, <1>4 DEF PagesInv, HandsOK
  <2>1. Reach = mapped_bytes
    BY <1>1 DEF Reach
  <2>2. Reach' = mapped_bytes
    <3>1. CASE pc' = "alloc"
      BY <1>1, <1>4, <3>1 DEF Reach
    <3>2. CASE pc' # "alloc"
      <4>1. pc' \in {"idle", "preflight"} /\ mapped_bytes' = mapped_bytes
        BY <1>1, <1>4, <3>2
      <4> QED BY Zenon, <4>1 DEF Reach
    <3> QED BY <3>1, <3>2
  <2>E. ExtentOK'
    BY Zenon, <1>1, <1>2, <1>4, <2>1, <2>2 DEF PagesInv, ExtentOK
  <2> QED BY <2>T, <2>L, <2>H, <2>E DEF PagesInv
<1>5. CASE offset = new
  <2>1. pc' = "alloc" /\ offset' = mapped_bytes /\ new' = new /\ phys' = phys
    BY Zenon, <1>5 DEF Preflight
  <2> QED BY <1>1, <1>4, <2>1
<1>6. CASE offset # new /\ answered /\ map[offset] = NoFrame
  <2>1. offset' = offset + 1 /\ pc' = pc /\ new' = new /\ phys' = phys
    BY Zenon, <1>6 DEF Preflight
  <2>2. offset' \in 0..Capacity /\ mapped_bytes <= offset' /\ offset' <= new
    BY <1>1, <1>6, <2>1
  <2> QED BY <1>1, <1>4, <2>1, <2>2
<1>7. CASE offset # new /\ ~(answered /\ map[offset] = NoFrame)
  <2>1. pc' = "idle" /\ new' = 0 /\ offset' = 0 /\ phys' = NoFrame
    BY Zenon, <1>7 DEF Preflight, Return
  <2> QED BY <1>1, <1>4, <2>1
<1> QED BY Zenon, <1>5, <1>6, <1>7

(* Publishing the new end hands the mapped pages over to the heap.         *)
LEMMA PublishKeeps ==
  ASSUME PagesAssumption, PagesInv, Publish
  PROVE  PagesInv'
<1>1. /\ pc = "alloc" /\ pc' = "idle" /\ new' = 0 /\ offset' = 0 /\ phys' = NoFrame
      /\ mapped_bytes' = new /\ offset = new
      /\ UNCHANGED <<map, free>>
  BY DEF Publish, Return
<1>2. UNCHANGED <<corrupted, fault>>
  BY Zenon DEF Publish
<1>3. phys = NoFrame
  BY <1>1 DEF PagesInv, LoopOK, InFlight
<1>T. PagesTypeOK'
  BY <1>1, <1>2 DEF PagesAssumption, PagesInv, PagesTypeOK
<1>L. LoopOK'
  BY <1>1, <1>2 DEF PagesInv, LoopOK, InFlight
<1>H. HandsOK'
  BY <1>1, <1>3 DEF PagesInv, HandsOK
<1>4. Reach = new /\ Reach' = new
  BY <1>1 DEF Reach
<1>E. ExtentOK'
  BY Zenon, <1>1, <1>2, <1>3, <1>4 DEF PagesInv, ExtentOK
<1> QED BY <1>T, <1>L, <1>H, <1>E DEF PagesInv

(* Allocating and mapping.                                                  *)
LEMMA AllocKeeps ==
  ASSUME PagesAssumption, PagesInv, NEW f \in Frame, Alloc(f)
  PROVE  PagesInv'
<1>1. /\ pc = "alloc" /\ offset < new /\ f \in free /\ free' = free \ {f} /\ phys' = f
      /\ pc' \in {"map", "release"}
      /\ UNCHANGED <<mapped_bytes, new, offset, map>>
  BY DEF Alloc
<1>2. /\ corrupted' \in BOOLEAN /\ fault' \in BOOLEAN
      /\ (corrupted' <=> fault')
      /\ pc' = "map" => ~fault'
      /\ fault => fault'
  <2>1. (corrupted <=> fault) /\ ~fault
    BY <1>1 DEF PagesInv, LoopOK
  <2>2. corrupted \in BOOLEAN /\ fault \in BOOLEAN
    BY DEF PagesInv, PagesTypeOK
  <2>3. CASE f \in Bad
    <3>1. pc' = "release" /\ corrupted' = TRUE /\ fault' = TRUE
      BY Zenon, <2>3 DEF Alloc
    <3>2. pc' # "map"
      BY <3>1
    <3> QED BY Zenon, <3>1, <3>2
  <2>4. CASE f \notin Bad
    <3>1. corrupted' = corrupted /\ fault' = fault
      BY Zenon, <2>4 DEF Alloc
    <3> QED BY Zenon, <2>1, <2>2, <3>1
  <2> QED BY Zenon, <2>3, <2>4
<1>3. phys = NoFrame /\ f # NoFrame /\ f # Foreign
  BY <1>1 DEF PagesInv, LoopOK, InFlight, PagesAssumption
<1>T. PagesTypeOK'
  BY Zenon, <1>1, <1>2 DEF PagesInv, PagesTypeOK
<1>L. LoopOK'
  BY Zenon, <1>1, <1>2, <1>3 DEF PagesInv, LoopOK, InFlight
<1>H. HandsOK'
  BY Zenon, <1>1, <1>3 DEF PagesInv, HandsOK
<1>4. Reach = offset /\ Reach' = offset
  BY <1>1 DEF Reach
<1>E. ExtentOK'
  BY Zenon, <1>1, <1>2, <1>3, <1>4 DEF PagesInv, ExtentOK, PagesAssumption
<1> QED BY <1>T, <1>L, <1>H, <1>E DEF PagesInv

(* A failed allocation or mapping turns to the rollback.                   *)
LEMMA FailureKeeps ==
  ASSUME PagesAssumption, PagesInv, AllocFails \/ MapFails
  PROVE  PagesInv'
<1>1. /\ \/ pc = "alloc" /\ pc' = "rollback"
         \/ pc = "map" /\ pc' = "release"
      /\ UNCHANGED <<mapped_bytes, new, offset, phys, map, free>>
  BY DEF AllocFails, MapFails
<1>2. UNCHANGED <<corrupted, fault>>
  BY Zenon DEF AllocFails, MapFails
<1>T. PagesTypeOK'
  BY <1>1, <1>2 DEF PagesInv, PagesTypeOK
<1>L. LoopOK'
  BY <1>1, <1>2 DEF PagesInv, LoopOK, InFlight
<1>H. HandsOK'
  BY Zenon, <1>1 DEF PagesInv, HandsOK
<1>3. Reach = offset /\ Reach' = offset
  BY <1>1 DEF Reach
<1>E. ExtentOK'
  BY Zenon, <1>1, <1>2, <1>3 DEF PagesInv, ExtentOK
<1> QED BY <1>T, <1>L, <1>H, <1>E DEF PagesInv

(* Mapping moves the frame just allocated into the page tables.            *)
LEMMA MapKeeps ==
  ASSUME PagesAssumption, PagesInv, Map
  PROVE  PagesInv'
<1>1. /\ pc = "map" /\ pc' = "alloc" /\ phys' = NoFrame /\ offset' = offset + 1
      /\ map[offset] = NoFrame /\ map' = [map EXCEPT ![offset] = phys]
      /\ UNCHANGED <<mapped_bytes, new, free>>
  BY DEF Map
<1>2. UNCHANGED <<corrupted, fault>>
  BY Zenon DEF Map
<1>3. /\ ~fault /\ (corrupted <=> fault) /\ mapped_bytes <= offset /\ offset < new
      /\ phys # NoFrame
  BY Zenon, <1>1 DEF PagesInv, LoopOK, InFlight
<1>4. /\ Capacity \in Nat /\ mapped_bytes \in 0..Capacity /\ new \in 0..Capacity
      /\ offset \in 0..Capacity /\ offset \in Page
      /\ map \in [Page -> Frame \cup {Foreign, NoFrame}] /\ free \subseteq Frame
  BY DEF PagesAssumption, PagesInv, PagesTypeOK, Page
<1>5. /\ phys \in Frame /\ phys \notin free
      /\ \A p \in Page : map[p] # phys /\ map[p] \notin free
      /\ \A p, q \in Page : map[p] \in Frame /\ map[p] = map[q] => p = q
  BY Zenon, <1>1, <1>3 DEF PagesInv, PagesTypeOK, HandsOK
<1>6. \A p \in Page : map'[p] = IF p = offset THEN phys ELSE map[p]
  BY <1>1, <1>4
<1>T. PagesTypeOK'
  <2>1. map' \in [Page -> Frame \cup {Foreign, NoFrame}]
    BY <1>1, <1>4, <1>5
  <2>2. offset' \in 0..Capacity
    BY <1>1, <1>3, <1>4
  <2> QED BY Zenon, <1>1, <1>2, <2>1, <2>2 DEF PagesInv, PagesTypeOK
<1>L. LoopOK'
  <2>1. mapped_bytes <= offset' /\ offset' <= new
    BY <1>1, <1>3, <1>4
  <2> QED BY Zenon, <1>1, <1>2, <1>3, <2>1 DEF LoopOK, InFlight
<1>H. HandsOK'
  <2>1. \A p \in Page : map'[p] \notin free'
    BY <1>1, <1>5, <1>6
  <2>2. \A p, q \in Page : map'[p] \in Frame /\ map'[p] = map'[q] => p = q
    BY Zenon, <1>5, <1>6
  <2>3. NoFrame # Foreign /\ NoFrame \notin free
    BY <1>4 DEF PagesAssumption
  <2> QED BY <1>1, <2>1, <2>2, <2>3 DEF HandsOK
<1>E. ExtentOK'
  <2>1. \A g \in Frame : g \in free' \/ g = phys' \/ \E p \in Page : map'[p] = g
    <3> SUFFICES ASSUME NEW g \in Frame, g \notin free
                 PROVE  \E p \in Page : map'[p] = g
      BY <1>1
    <3>1. CASE g = phys
      BY <1>4, <1>6, <3>1
    <3>2. CASE g # phys
      <4>1. PICK p \in Page : map[p] = g
        BY <1>3, <3>2 DEF PagesInv, ExtentOK
      <4>2. p # offset
        BY <1>1, <4>1 DEF PagesAssumption
      <4> QED BY <1>6, <4>1, <4>2
    <3> QED BY <3>1, <3>2
  <2>2. \A p \in Page : p < offset => map[p] \in Frame
    BY <1>1 DEF PagesInv, ExtentOK
  <2>3. \A p \in Page : p >= offset => map[p] \notin Frame
    BY Zenon, <1>1, <1>3 DEF PagesInv, ExtentOK, Reach
  <2>4. \A p \in Page : p < offset' => map'[p] \in Frame
    <3> SUFFICES ASSUME NEW p \in Page, p < offset'
                 PROVE  map'[p] \in Frame
      OBVIOUS
    <3>1. p = offset \/ p < offset
      BY <1>1, <1>4 DEF Page
    <3> QED BY Zenon, <1>5, <1>6, <2>2, <3>1
  <2>5. \A p \in Page : p >= offset' => map'[p] \notin Frame
    <3> SUFFICES ASSUME NEW p \in Page, p >= offset'
                 PROVE  map'[p] \notin Frame
      OBVIOUS
    <3>1. p # offset /\ p >= offset
      BY <1>1, <1>4 DEF Page
    <3> QED BY Zenon, <1>6, <2>3, <3>1
  <2>6. \A p \in Page : p < mapped_bytes => p < offset'
    BY <1>1, <1>3, <1>4 DEF Page
  <2>7. Reach' = offset'
    BY <1>1 DEF Reach
  <2> QED BY Zenon, <1>1, <2>1, <2>4, <2>5, <2>6, <2>7 DEF ExtentOK
<1> QED BY <1>T, <1>L, <1>H, <1>E DEF PagesInv

(* Cleaning up: the frame in phys goes back to the allocator or is lost.    *)
LEMMA ReleaseKeeps ==
  ASSUME PagesAssumption, PagesInv, NEW ok \in BOOLEAN, Release(ok) \/ RollbackFree(ok)
  PROVE  PagesInv'
<1>1. /\ pc \in {"release", "free"} /\ pc' = "rollback" /\ phys' = NoFrame
      /\ free' = IF ok THEN free \cup {phys} ELSE free
      /\ UNCHANGED <<mapped_bytes, new, offset, map>>
  BY Zenon DEF Release, RollbackFree, release_frame
<1>2. /\ corrupted' \in BOOLEAN /\ fault' \in BOOLEAN
      /\ corrupted' <=> corrupted \/ ~ok
      /\ fault' <=> fault \/ ~ok
  BY Zenon DEF Release, RollbackFree, release_frame
<1>3. /\ phys \in Frame /\ free \subseteq Frame
      /\ (corrupted <=> fault) /\ mapped_bytes <= offset /\ offset <= new
  BY Zenon, <1>1 DEF PagesInv, PagesTypeOK, LoopOK, HandsOK, InFlight
<1>4. corrupted' <=> fault'
  BY Zenon, <1>2, <1>3
<1>5. NoFrame # Foreign /\ NoFrame \notin Frame
  BY DEF PagesAssumption
<1>T. PagesTypeOK'
  <2>1. free' \subseteq Frame
    BY <1>1, <1>3
  <2> QED BY Zenon, <1>1, <1>2, <2>1 DEF PagesInv, PagesTypeOK
<1>L. LoopOK'
  BY <1>1, <1>3, <1>4 DEF LoopOK, InFlight
<1>H. HandsOK'
  <2>1. \A p \in Page : map[p] # phys /\ map[p] \notin free
    BY <1>1 DEF PagesInv, HandsOK
  <2>2. \A p \in Page : map'[p] \notin free'
    BY <1>1, <2>1
  <2>3. NoFrame \notin free'
    BY <1>1, <1>3, <1>5
  <2>4. \A p, q \in Page : map'[p] \in Frame /\ map'[p] = map'[q] => p = q
    BY Zenon, <1>1 DEF PagesInv, HandsOK
  <2> QED BY Zenon, <1>1, <1>5, <2>2, <2>3, <2>4 DEF HandsOK
<1>E. ExtentOK'
  <2>1. Reach = offset /\ Reach' = offset
    BY <1>1 DEF Reach
  <2>2. /\ \A p \in Page : p < mapped_bytes => map[p] \in Frame
        /\ \A p \in Page : p < offset => map[p] \in Frame
    BY <1>1 DEF PagesInv, ExtentOK
  <2>3. ASSUME ~fault'
        PROVE  /\ \A p \in Page : p >= offset => map[p] \notin Frame
               /\ \A f \in Frame : f \in free' \/ \E p \in Page : map[p] = f
    <3>1. ok /\ ~fault
      BY Zenon, <1>2, <2>3
    <3>2. /\ \A p \in Page : p >= offset => map[p] \notin Frame
          /\ \A f \in Frame : f \in free \/ f = phys \/ \E p \in Page : map[p] = f
      BY <2>1, <3>1 DEF PagesInv, ExtentOK
    <3>3. free' = free \cup {phys}
      BY <1>1, <3>1
    <3> QED BY <3>2, <3>3
  <2> QED BY <1>1, <2>1, <2>2, <2>3 DEF ExtentOK
<1> QED BY <1>T, <1>L, <1>H, <1>E DEF PagesInv

(* The rollback ends when no page of this growth is left.                  *)
LEMMA RollbackDoneKeeps ==
  ASSUME PagesAssumption, PagesInv, RollbackDone
  PROVE  PagesInv'
<1>1. /\ pc = "rollback" /\ offset = mapped_bytes
      /\ pc' = "idle" /\ new' = 0 /\ offset' = 0 /\ phys' = NoFrame
      /\ UNCHANGED <<mapped_bytes, map, free>>
  BY DEF RollbackDone, AtOld, Return
<1>2. UNCHANGED <<corrupted, fault>>
  BY Zenon DEF RollbackDone
<1>3. phys = NoFrame
  BY <1>1 DEF PagesInv, LoopOK, InFlight
<1>T. PagesTypeOK'
  BY <1>1, <1>2 DEF PagesAssumption, PagesInv, PagesTypeOK
<1>L. LoopOK'
  BY <1>1, <1>2 DEF PagesInv, LoopOK, InFlight
<1>H. HandsOK'
  BY Zenon, <1>1, <1>3 DEF PagesInv, HandsOK
<1>4. Reach = mapped_bytes /\ Reach' = mapped_bytes
  BY <1>1 DEF Reach
<1>E. ExtentOK'
  BY Zenon, <1>1, <1>2, <1>3, <1>4 DEF PagesInv, ExtentOK
<1> QED BY <1>T, <1>L, <1>H, <1>E DEF PagesInv

(* The page asked for is always one of this growth's own.                   *)
LEMMA RollbackQueryKeeps ==
  ASSUME PagesAssumption, PagesInv, NEW answered \in BOOLEAN, RollbackQuery(answered)
  PROVE  PagesInv'
<1>1. /\ pc = "rollback" /\ offset # mapped_bytes /\ offset' = offset - 1
      /\ UNCHANGED <<mapped_bytes, new, map, free>>
  BY DEF RollbackQuery, AtOld
<1>2. /\ Capacity \in Nat /\ mapped_bytes \in 0..Capacity /\ new \in 0..Capacity
      /\ offset \in 0..Capacity /\ mapped_bytes <= offset /\ offset <= new
      /\ phys = NoFrame
  BY Zenon, <1>1 DEF PagesAssumption, PagesInv, PagesTypeOK, LoopOK, InFlight
<1>3. /\ offset' \in 0..Capacity /\ offset' \in Page
      /\ mapped_bytes <= offset' /\ offset' < new /\ offset' < offset
  BY <1>1, <1>2 DEF Page
<1>4. map[offset'] \in Frame
  BY <1>1, <1>3 DEF PagesInv, ExtentOK
<1>5. \A p \in Page : (p < offset' => p < offset) /\ (p >= offset => p >= offset')
  BY <1>1, <1>2 DEF Page
<1>6. /\ corrupted' \in BOOLEAN /\ fault' \in BOOLEAN
      /\ (corrupted' <=> fault')
      /\ fault' <=> fault \/ ~answered
  <2>1. map[offset - 1] # NoFrame
    BY <1>1, <1>4 DEF PagesAssumption
  <2>2. /\ corrupted' = (corrupted \/ ~(answered /\ map[offset - 1] # NoFrame))
        /\ fault' = (fault \/ ~answered)
    BY Zenon DEF RollbackQuery
  <2>3. corrupted <=> fault
    BY DEF PagesInv, LoopOK
  <2> QED BY Zenon, <2>1, <2>2, <2>3
<1>7. \/ answered /\ pc' = "unmap" /\ phys' = map[offset']
      \/ ~answered /\ pc' = "rollback" /\ phys' = NoFrame
  <2>1. map[offset - 1] # NoFrame /\ map[offset - 1] = map[offset']
    BY <1>1, <1>4 DEF PagesAssumption
  <2> QED BY Zenon, <2>1 DEF RollbackQuery
<1>8. phys' \in Frame \/ phys' = NoFrame
  BY Zenon, <1>4, <1>7
<1>T. PagesTypeOK'
  BY Zenon, <1>1, <1>3, <1>6, <1>7, <1>8 DEF PagesInv, PagesTypeOK
<1>L. LoopOK'
  <2>1. phys' # NoFrame <=> pc' = "unmap"
    BY <1>4, <1>7 DEF PagesAssumption
  <2>2. mapped_bytes <= offset' /\ offset' <= new /\ offset' < new
    BY <1>2, <1>3
  <2> QED BY <1>1, <1>6, <1>7, <2>1, <2>2 DEF LoopOK, InFlight
<1>H. HandsOK'
  <2>1. /\ \A p \in Page : map[p] \notin free
        /\ \A p, q \in Page : map[p] \in Frame /\ map[p] = map[q] => p = q
    BY DEF PagesInv, HandsOK
  <2>2. NoFrame # Foreign /\ NoFrame \notin free /\ map[offset'] # Foreign
    BY <1>4 DEF PagesAssumption, PagesInv, PagesTypeOK
  <2>3. phys' # Foreign /\ phys' \notin free
    BY Zenon, <1>3, <1>7, <2>1, <2>2
  <2> QED BY <1>1, <1>7, <2>1, <2>3 DEF HandsOK
<1>E. ExtentOK'
  <2>1. /\ \A p \in Page : p < mapped_bytes => map[p] \in Frame
        /\ \A p \in Page : p < offset' => map[p] \in Frame
    BY <1>1, <1>5 DEF PagesInv, ExtentOK
  <2>2. ASSUME ~fault'
        PROVE  /\ \A p \in Page : p >= Reach' => map[p] \notin Frame
               /\ \A f \in Frame : f \in free \/ f = phys' \/ \E p \in Page : map[p] = f
    <3>1. ~fault /\ pc' = "unmap"
      BY Zenon, <1>6, <1>7, <2>2
    <3>2. Reach = offset /\ Reach' = offset
      BY <1>1, <1>2, <3>1 DEF Reach
    <3> QED BY Zenon, <1>2, <3>1, <3>2 DEF PagesInv, ExtentOK, PagesAssumption
  <2> QED BY <1>1, <2>1, <2>2 DEF ExtentOK
<1> QED BY <1>T, <1>L, <1>H, <1>E DEF PagesInv

(* Only a page that is gone gives its frame back; otherwise the range is    *)
(* corrupted and the frame stays out of the allocator.                      *)
LEMMA RollbackUnmapKeeps ==
  ASSUME PagesAssumption, PagesInv,
         NEW ok \in BOOLEAN, NEW works \in BOOLEAN, NEW answered \in BOOLEAN,
         RollbackUnmap(ok, works, answered)
  PROVE  PagesInv'
<1>1. /\ pc = "unmap" /\ UNCHANGED <<mapped_bytes, new, offset, free>>
      /\ map' = IF works THEN [map EXCEPT ![offset] = NoFrame] ELSE map
  BY DEF RollbackUnmap
<1>2. /\ offset \in Page /\ phys \in Frame /\ map[offset] = phys /\ phys \notin free
      /\ (corrupted <=> fault) /\ mapped_bytes <= offset /\ offset <= new /\ offset < new
      /\ map \in [Page -> Frame \cup {Foreign, NoFrame}] /\ free \subseteq Frame
      /\ corrupted \in BOOLEAN /\ fault \in BOOLEAN
  BY Zenon, <1>1 DEF PagesInv, PagesTypeOK, LoopOK, HandsOK, InFlight, Page
<1>3. NoFrame \notin Frame /\ NoFrame # Foreign /\ Foreign \notin Frame
  BY DEF PagesAssumption
<1>4. /\ map' \in [Page -> Frame \cup {Foreign, NoFrame}]
      /\ \A p \in Page : map'[p] = IF works /\ p = offset THEN NoFrame ELSE map[p]
  BY <1>1, <1>2
<1>5. map'[offset] = NoFrame <=> works
  BY <1>2, <1>3, <1>4
<1>6. /\ fault' \in BOOLEAN
      /\ fault' <=> fault \/ ~(ok /\ works /\ answered)
  BY Zenon DEF RollbackUnmap
<1>7. /\ corrupted' \in BOOLEAN /\ (corrupted' <=> fault')
      /\ \/ ok /\ works /\ answered /\ pc' = "free" /\ phys' = phys
         \/ fault' /\ pc' = "rollback" /\ phys' = NoFrame
  <2>1. CASE ok /\ works /\ answered
    <3>1. Gone(ok, answered)
      BY Zenon, <1>5, <2>1 DEF Gone
    <3>2. pc' = "free" /\ phys' = phys /\ corrupted' = corrupted
      BY Zenon, <3>1 DEF RollbackUnmap
    <3> QED BY Zenon, <1>2, <1>6, <2>1, <3>2
  <2>2. CASE ~(ok /\ works /\ answered)
    <3>1. ~Gone(ok, answered)
      BY Zenon, <1>5, <2>2 DEF Gone
    <3>2. pc' = "rollback" /\ phys' = NoFrame /\ corrupted' = TRUE
      BY Zenon, <3>1 DEF RollbackUnmap
    <3> QED BY Zenon, <1>6, <2>2, <3>2
  <2> QED BY Zenon, <2>1, <2>2
<1>T. PagesTypeOK'
  BY Zenon, <1>1, <1>2, <1>4, <1>6, <1>7 DEF PagesInv, PagesTypeOK
<1>L. LoopOK'
  BY Zenon, <1>1, <1>2, <1>3, <1>7 DEF LoopOK, InFlight
<1>H. HandsOK'
  <2>1. /\ \A p \in Page : map[p] \notin free
        /\ \A p, q \in Page : map[p] \in Frame /\ map[p] = map[q] => p = q
    BY DEF PagesInv, HandsOK
  <2>2. NoFrame \notin free
    BY <1>2, <1>3
  <2>3. \A p \in Page : map'[p] \notin free
    BY <1>4, <2>1, <2>2
  <2>4. \A p, q \in Page : map'[p] \in Frame /\ map'[p] = map'[q] => p = q
    BY Zenon, <1>3, <1>4, <2>1
  <2>5. phys' # Foreign /\ phys' \notin free
    BY <1>2, <1>3, <1>7, <2>2
  <2>6. pc' = "free" => \A p \in Page : map'[p] # phys'
    <3> SUFFICES ASSUME pc' = "free", NEW p \in Page
                 PROVE  map'[p] # phys'
      OBVIOUS
    <3>1. works /\ phys' = phys
      BY <1>7
    <3>2. CASE p = offset
      BY <1>2, <1>3, <1>4, <3>1, <3>2
    <3>3. CASE p # offset
      BY Zenon, <1>2, <1>4, <2>1, <3>1, <3>3
    <3> QED BY <3>2, <3>3
  <2> QED BY Zenon, <1>1, <1>7, <2>3, <2>4, <2>5, <2>6 DEF HandsOK
<1>E. ExtentOK'
  <2>1. /\ \A p \in Page : p < mapped_bytes => map[p] \in Frame
        /\ \A p \in Page : p < offset => map[p] \in Frame
    BY <1>1 DEF PagesInv, ExtentOK
  <2>2. \A p \in Page : p < offset \/ p < mapped_bytes => map'[p] = map[p]
    <3>1. \A p \in Page : p < offset \/ p < mapped_bytes => p # offset
      BY <1>2 DEF Page, PagesInv, PagesTypeOK, PagesAssumption
    <3> QED BY Zenon, <1>4, <3>1
  <2>3. ASSUME ~fault'
        PROVE  /\ \A p \in Page : p >= offset => map'[p] \notin Frame
               /\ \A f \in Frame : f \in free \/ f = phys' \/ \E p \in Page : map'[p] = f
    <3>1. ~fault /\ works /\ phys' = phys
      BY Zenon, <1>6, <1>7, <2>3
    <3>2. /\ \A p \in Page : p >= offset + 1 => map[p] \notin Frame
          /\ \A f \in Frame : f \in free \/ f = phys \/ \E p \in Page : map[p] = f
      BY Zenon, <1>1, <3>1 DEF PagesInv, ExtentOK, Reach
    <3>3. \A p \in Page : p >= offset => p = offset \/ p >= offset + 1
      BY <1>2 DEF Page, PagesAssumption
    <3>4. \A p \in Page : p >= offset => map'[p] \notin Frame
      BY Zenon, <1>3, <1>4, <3>1, <3>2, <3>3
    <3>5. ASSUME NEW f \in Frame, f \notin free, f # phys
          PROVE  \E p \in Page : map'[p] = f
      <4>1. PICK p \in Page : map[p] = f
        BY <3>2, <3>5
      <4>2. p # offset
        BY <1>2, <3>5, <4>1
      <4> QED BY <1>4, <4>1, <4>2
    <3> QED BY <3>1, <3>4, <3>5
  <2>4. Reach' = offset
    BY <1>1, <1>7 DEF Reach
  <2> QED BY Zenon, <1>1, <2>1, <2>2, <2>3, <2>4 DEF ExtentOK
<1> QED BY <1>T, <1>L, <1>H, <1>E DEF PagesInv

(* Every step keeps the invariant.                                         *)
LEMMA PagesStep ==
  ASSUME PagesAssumption, PagesInv, [PagesNext]_hp_vars
  PROVE  PagesInv'
<1>1. CASE PagesNext
  BY Zenon, <1>1, EnterKeeps, PreflightKeeps, AllocKeeps, FailureKeeps, MapKeeps, PublishKeeps,
     ReleaseKeeps, RollbackDoneKeeps, RollbackQueryKeeps, RollbackUnmapKeeps DEF PagesNext
<1>2. CASE UNCHANGED hp_vars
  BY Zenon, <1>2 DEF hp_vars, PagesInv, LoopOK, HandsOK, ExtentOK, PagesTypeOK, Reach
<1> QED BY <1>1, <1>2

(* The pages below mapped_bytes and the frames they hold are as many.       *)
LEMMA HeldCounted ==
  ASSUME PagesAssumption, PagesInv, pc = "idle", ~corrupted
  PROVE  Cardinality(Held) = mapped_bytes
<1> DEFINE P == 0..(mapped_bytes - 1)
           f == [p \in P |-> map[p]]
<1>1. mapped_bytes \in 0..Capacity /\ Capacity \in Nat /\ Held = {map[p] : p \in P}
  <2>1. mapped_bytes \in 0..Capacity /\ Capacity \in Nat
    BY DEF PagesAssumption, PagesInv, PagesTypeOK
  <2>2. \A p \in Page : map[p] \in Frame <=> p \in P
    BY <2>1 DEF PagesInv, LoopOK, ExtentOK, Reach, Page
  <2>3. P \subseteq Page
    BY <2>1 DEF Page
  <2>4. {q \in Page : map[q] \in Frame} = P
    BY <2>2, <2>3
  <2> QED BY Zenon, <2>1, <2>4 DEF Held
<1>2. \A p, q \in P : map[p] = map[q] => p = q
  <2>1. P \subseteq Page
    BY <1>1 DEF Page
  <2>2. \A p \in P : map[p] \in Frame
    BY <1>1, <2>1 DEF PagesInv, ExtentOK
  <2> QED BY Zenon, <2>1, <2>2 DEF PagesInv, HandsOK
<1>3. f \in Bijection(P, Held)
  <2> HIDE DEF P
  <2>1. f \in [P -> Held] /\ \A t \in Held : \E s \in P : f[s] = t
    BY Zenon, <1>1
  <2>2. IsInjective(f)
    BY <1>2 DEF IsInjective
  <2> QED BY <2>1, <2>2 DEF Bijection, Injection, Surjection
<1>4. IsFiniteSet(P) /\ Cardinality(P) = mapped_bytes
  <2>1. 0 \in Int /\ mapped_bytes - 1 \in Int
    BY <1>1
  <2>2. /\ IsFiniteSet(0..(mapped_bytes - 1))
        /\ Cardinality(0..(mapped_bytes - 1))
             = IF 0 > mapped_bytes - 1 THEN 0 ELSE mapped_bytes - 1 - 0 + 1
    BY <2>1, FS_Interval
  <2> QED BY <1>1, <2>2
<1>5. ExistsBijection(P, Held)
  BY <1>3 DEF ExistsBijection
<1> HIDE DEF P
<1> QED BY <1>4, <1>5, FS_Bijection

(* A growth maps all of its pages or none, loses no frame, counts as        *)
(* corrupted exactly when cleaning up failed, and never frees a frame that  *)
(* may still be mapped (heap_pages_grow, rollback), for every capacity and  *)
(* every set of frames.                                                     *)
THEOREM GrowthAlwaysSafe ==
  ASSUME PagesAssumption
  PROVE  PagesSpec => []GrowthSafe
<1>1. heap_pages_init => PagesInv
  BY PagesInitInv
<1>2. PagesInv /\ [PagesNext]_hp_vars => PagesInv'
  BY PagesStep
<1>3. PagesInv => GrowthSafe
  <2> SUFFICES ASSUME PagesInv PROVE GrowthSafe
    OBVIOUS
  <2>1. NeverFreedWhileMapped
    BY Zenon DEF PagesInv, HandsOK, NeverFreedWhileMapped, Held
  <2>2. ASSUME pc = "idle", ~corrupted
        PROVE  /\ \A p \in Page : map[p] \in Frame <=> p < mapped_bytes
               /\ free = Frame \ Held
    <3>1. /\ ~fault /\ phys = NoFrame /\ free \subseteq Frame
          /\ \A p \in Page : p \in Int /\ mapped_bytes \in Int
      BY <2>2 DEF PagesInv, LoopOK, PagesTypeOK, InFlight, PagesAssumption, Page
    <3>2. \A p \in Page : map[p] \in Frame <=> p < mapped_bytes
      BY <2>2, <3>1 DEF PagesInv, ExtentOK, Reach
    <3>3. \A f \in Frame : f \in free \/ f \in Held
      BY Zenon, <3>1 DEF PagesInv, ExtentOK, Held, PagesAssumption
    <3> QED BY <2>1, <3>1, <3>2, <3>3 DEF NeverFreedWhileMapped
  <2>3. PagesTypeOK /\ (corrupted <=> fault)
    BY DEF PagesInv, LoopOK
  <2> QED BY <2>1, <2>2, <2>3, HeldCounted DEF GrowthSafe, GrowthAllOrNothing
<1> QED BY <1>1, <1>2, <1>3, PTL DEF PagesSpec

=============================================================================
