# A verification project for the UtamoOS kernel

UtamoOS is an experimental x86_64 kernel (C17 and NASM) for one CPU.  It boots
with Limine, manages physical and virtual memory, runs kernel threads and ring-3
ELF processes preemptively, reads a PS/2 keyboard, and has a small VFS, an AHCI
disk reader, a FAT32 importer and an IPv4 stack over an e1000.

This directory holds TLA+ modules that model the kernel's components from their
source, TLC configurations that check them on small instances, and TLAPS proofs
that establish the most important results for every value of the constants.

    tlc -workers 2 -config MCMemory.cfg MCMemory    model-check one run
    tlapm FrameProofs.tla                           check the proofs of a module

`PROJECT.json` lists the components, the runs, the lines of source every
definition translates, the hazards the properties are aimed at, a mutant of the
code for every property, and the theorems.

## How concurrency looks in this kernel

There is one CPU.  Code with interrupts disabled (IF=0) runs to its end; other
code can be interrupted between any two instructions by IRQ0 (the PIT tick) or
IRQ1 (the keyboard), and a thread can lose the CPU at a tick, at a yield (INT 240)
or in a system call (INT 128).  `preempt_disable` keeps the current thread on the
CPU but not the handlers away; it nests, and a reschedule requested meanwhile is
remembered.  The models therefore make an IF=0 region one step, and let a tick or a
key arrive between any two steps of the rest.

## Inventory

| part | state | operations | what is hard about it | modules |
|---|---|---|---|---|
| scheduling policy `sched_core.c` | tasks, ready FIFO, sleep list, current, need_resched, preempt depth, clock | add, wake, block, sleep, tick, select, preempt_enable/disable, exit, remove | list surgery under any order of calls; quantum and preemption races; saturating clock | SchedCore |
| scheduler and threads `scheduler.c` | thread objects, stacks, address spaces, interrupt frames | spawn, exit, yield, sleep, wait for input, reap, IRQ0, IRQ1 | lost wake-ups, freeing the stack in use, zombies nobody reaps | Scheduler |
| processes `process.c` | registry, pids, result ring | spawn, exit, fault, reap, collect, wait | a result overwritten before it is read; two callers in one slot; deadline against late exit | Process |
| keyboard `input.c`, `keyboard.c` | ring, decoder | push, pop, discard, decode | overflow in the middle of a scan sequence, stuck modifiers | InputQueue, InputRing, Input |
| physical memory `pmm_core.c`, `memory_map.c` | memory map, two bitmaps, count, cursor | add, plan, init, alloc, free, reserve, pin | next-fit across the cursor, partial and double frees, overlapping maps | MemoryMap, Pmm |
| kernel heap `heap_core.c`, `heap_pages.c` | block list, free list, pages | alloc, calloc, free, realloc, grow | coalescing, splitting, failed growth and failed rollback | HeapCore, HeapPages |
| virtual memory `vmm_core.c`, `user_vm.c`, `vmm.c` | page tables, owned pages, TLB, the kernel's root, the MMIO window | create, map, unmap, copy, destroy, map MMIO, make a process root | rollback of intermediate tables, leaks, stale translations, a slot shared by all roots | AddressSpaces, UserVm, KernelVm |
| memory at boot `hhdm.c`, `mmio_policy.c`, `vmm_core.c`, `vmm.c` | boot tables, region types, direct map, section rights | check, build, protect | a table the check does not visit; a bound in the middle of a region | BootMemory |
| thread stacks `thread_stack.c` | slots, guards, generations | alloc, free, first context | stale descriptors of a reused slot, freeing the stack in use | ThreadStack |
| files `initramfs.c`, `vfs.c`, `process_files.c` | nodes, mounts, descriptors, offsets | parse an archive, mount, lookup, list, open, read, seek, close | offset committed only after the copy; overlapping trees; parents that are missing or files | Files |
| network stack `stack.c` | lease, ARP cache, pending exchange | dhcp, ping, udp, resolve, poll | late, duplicated and lost answers; a lease that ends inside an operation | NetStack |
| network card `e1000.c` | descriptor rings, DMA pages | init, receive, transmit | the card works concurrently; timeouts are ambiguous | E1000 |
| disk `ahci.c`, `block.c` | port, command table, transfer buffer | init, read | the controller works concurrently; timeouts are ambiguous | Ahci |
| FAT32 `fat32.c`, `storage.c` | cached table sector, cluster claims, heap blocks, imported tree | import, discard, self test | cluster loops, shared chains, partial imports | Fat32 |
| ELF `elf.c`, `elf_load.c` | image, address space | check, load | a failure at any of many calls; pages two segments share | ElfLoad |
| interrupts `pic.c`, `irq.c` | masks, in-service and request bits of two chips | remap, mask, unmask, dispatch, EOI | spurious IRQ7 and IRQ15, and the EOI the master is owed | Pic |
| shell `shell_line.c`, `shell.c` | line buffer, history | insert, delete, commands | - | not modelled (its waiting: Scheduler, Process) |
| console, serial, log, formatting, PCI, boot | - | output, boot | - | not modelled |


## The modules

Each component has a module with its state, one action for each operation or
step, its specification and its properties; an `MC` module instantiates it for TLC.
Four MC modules (`MCInput`, `MCAllocators`, `MCMemory`, `MCDevices`) put components
side by side that share no state.  Their variable `part` says which of them a
behaviour is about; the others stay as they were initialised.  The properties of
each part are checked as if it were alone.  They extend the modules whose properties
are proved, so that a run and a theorem are about the same definition, and take the
others with `INSTANCE`.
Definitions keep the names of the source where they stand for a function.

**Scheduling policy: `SchedCore`.**  `core` is `struct sched_core` with the fields
of all its tasks; the two linked lists are sequences.  Every function of
`sched_core.c` is an operator from a core to a core, with a `Can...` operator for
the cases in which it succeeds, and an action that calls it in any order.  A
refused call changes nothing and is no step.

**Scheduler: `Scheduler`** extends `SchedCore` with what `scheduler.c` adds: the PIT
count, the raw keyboard ring, which stacks and address spaces exist, what each saved
frame returns to, CR3, RSP0, and where the loops of the shell and of idle stand.
`select_frame` is the common end of every interrupt, trap and system call.  The
policy's operations are reused, so the composition is of the code's own layers, and
an unchecked call that the policy would refuse sets `panicked`.

**Processes: `Process`.**  The heap objects, the registry, the ring of results, pids,
and the two loops that poll for a result (`wait_process` of the shell, `user_wait` of
a program).  `process_spawn_probe` builds its process with interrupts on and is two
steps.  Scheduling is abstracted to "any live process, the shell or idle steps
next"; `Scheduler` justifies it.

**Input: `InputQueue`, `InputRing`, `Input`.**  `InputQueue` is the abstract promise:
a bounded FIFO that, when it overflows, forgets everything and reports a reset.
`InputRing` is the circular buffer of `input.c`, shown to implement it.  `Input`
uses the abstract queue between a keyboard that sends the byte sequences of set 1,
IRQ1, and the decoder with the shell reading from it.

**Physical memory: `MemoryMap`, `Pmm`.**  `MemoryMap` builds the map from the boot
loader's regions and plans the bitmaps; `Pmm` is the allocator with its two bitmaps
as sets, its next-fit search and its partial frees, reservations and pins.

**Heap: `HeapCore`, `HeapPages`.**  `HeapCore` has the blocks with their boundary
tags, the free list and every byte's meaning (header, poison, zero, a caller's data),
so that data written over is seen.  `HeapPages` is the page-by-page growth with
each call of a page operation a step that may fail, and the rollback, whose own calls
may fail too.

**Address spaces: `AddressSpaces`, `UserVm`.**  `AddressSpaces` says what a process
is promised: private pages, zero when new, changed by its own stores only, and calls
that are all or nothing.  Its variable `call` is the call a step answers: the operation,
the space, the pages it is about, and whether it succeeds.  A call that fails leaves the
memory as it was, one that succeeds changes all its pages and no other, and a copy fails
exactly when one of its pages is missing or does not allow it.  `UserVm` has multi-level
tables in frames, the ledger of `user_vm.c`, the allocator's free frames, the TLB and
CR3.  Its `call` records what `user_vm.c` was asked and what it returned, and it is shown
to implement `AddressSpaces`.

**The kernel's own space: `KernelVm`** is `vmm.c` after boot: pages mapped and
unmapped for the heap and the stacks, the bump allocator of the MMIO window with its
checks and its rollback, and the upper half that a new process root copies.  The copy
is refused while the root's dynamic slot has no table; from then on the table stays,
which is why a page mapped later is seen in every root.

**Memory at boot: `BootMemory`.**  The checks on the boot loader's regions, the walk
over its page tables, the direct map and the rights of the kernel's sections, up to
the end of `memory_init`.  It starts from tables and region types that are sound but
for up to two changed entries or types, takes `memory_init` as one step (nothing
else runs yet), and compares what was accepted with what the CPU's own walk then
sees.  Whether the CPU has NX is part of the boot state; what else the boot loader and
the CPU answer is one bit.

**Programs: `ElfLoad`.**  Which images are accepted, and the loading of one: each call
of `user_vm` is a step that may fail, and a failure destroys the space.

**Thread stacks: `ThreadStack`.**  Slots, guard pages, generations, descriptors that
are copied and become stale, and the stack the CPU runs on.  The mapping of a
stack's pages, all or none, is `HeapPages`.

**Files: `Files`.**  The tree built from the boot archive, mounted trees with lookup
and listing, and a process's descriptors.  A path is a sequence of names; a byte is
told by its position.

**FAT32: `Fat32`.**  The import as the stack of its calls, one step for each cluster
or directory entry.  The content of a sector is chosen when it is first read and kept,
so every disk within the bounds is tried without building it beforehand.  Reads and
allocations may fail at each step.  `storage_init` and the self test, which imports a
second time and discards, are the callers.

**Interrupts: `Pic`.**  The two 8259s are external and modelled from what the driver
writes and reads.  Lines rise and fall at any moment.  Any line may be masked and
unmasked at any time; that is more than `main.c` does, which opens lines 0 and 1.
`pic_remap` and the enabling of interrupts are one step.

**Network: `NetStack`, `E1000`.**  `NetStack` is `stack.c`: one operation at a time,
which polls, sleeps and times out.  The network is the set of requests ever sent;
any answer to any of them may arrive at any poll, again, late or never.  Random
numbers are the code's congruential generator, at a smaller width.  `out` is the packet
a step sends; an echo reply goes to the card its request came from, whichever that is, as
in `handle_ip`.  `E1000` is the driver and the card, two actors on shared rings: the card
may store between the clearing of a descriptor and the write of the tail register that
gives it back.

**Disk: `Ahci`.**  The driver and the controller, two actors on a shared command
table and buffer.  The controller may have been left running by the firmware, end a
command early, fail, hang, and move sectors after the port was told to stop.

## The runs

Deadlock is checked except where the system may really stop: nobody has to press
another key (`input`, `input_split`), a map is full or a program loaded once (`memory`), the
generations of all stacks are used up (`allocators`), drivers have used up their
bounded reads and frames (`devices`), or the kernel panics (`allocators`, `memory`,
`devices`).

| run | checks | bounds, and why they are enough |
|---|---|---|
| sched_core | `CoreValid`, `SwitchRequested`, `NoOvertaking`, `NonPreemptible` | idle, the shell and two workers: both lists reach two entries, a worker is removed and comes back with a new id; quantum 2, clock 0..2, depth 1. All four are also proved without bounds. |
| scheduler | `NoPanic`, `NoSwitchLeftPending`, `NoLostInput`, `ResourcesExact`, `SleepsLongEnough` | the same registry, each worker a kernel or a user thread, nested preemption depth 2, a ring of one byte so that it overflows; all five are also proved without bounds |
| scheduler_liveness | `EveryThreadRuns`, `InputIsHandled`, `ZombiesAreReaped` | one worker: it already competes with the shell and with idle. The clock stops counting at MaxTick as the code's does at its maximum, and the interrupts go on. |
| process | `BookkeepingExact`, `AnswersTrue` | three slots, four pids, a ring of two results, so that a third result pushes the first out; both are also proved without bounds |
| process_liveness | `PollingEnds` | a ring of one result: a waiting parent may find it gone |
| input | `KeyboardFollowed`, `LossRecovered`, `RingImplementsQueue` | three presses, repeats or releases of seven keys with sequences of one to six bytes, five bytes of queue: it overflows between and inside sequences; line errors at any byte. The ring, with three bytes, takes every position of both indices. |
| input_split | `NoStuckModifier` is **violated** | see Findings |
| allocators | `PmmSound`, `AllocRight`, `GrowthSafe`, `StacksExclusive`, `HeapSound` | nine frames with page zero, a hole and the bitmaps: the search wraps, straddles and skips. Growth: four pages, each operation of growth and rollback fails or not. Stacks: two slots, two generations, two holders, so that a slot is reused under a stale copy, and retired. The first four are also proved without bounds. A heap with the code's sizes divided by eight and three holders: both neighbours free, split, merge, growth and refusal all occur. |
| user_vm | `FramesOwnedOnce`, `TlbCoherent`, `ImplementsSpaces` | three levels of two entries, six frames for two spaces: they run out in the middle of a walk; copies of one or two pages, the second of which may be missing or read-only |
| memory | `MapAndPlanRight`, `BootMemorySafe`, `KernelMapsExact`, `ProgramExact` | map: pages of two bytes, up to four regions that touch, overlap and start inside a page. Boot: three levels of four entries with a table of every kind, two changes at once. Kernel: four levels of two entries and six frames, which run out inside a mapping of several pages; one process; six pages of window, two apertures. Programs: up to two segments that share, touch or leave pages. |
| net | `LeaseHonoured`, `AnswersAreOurs`, `OperationEnds` | three operations, two servers and subnets, an offer that must be refused; waits of one sleep, leases of two or three, so that they end at every point of an operation; all but the second are also proved without bounds |
| devices | `DiskReadsExact`, `DmaUndisturbed`, `CardSound`, `PicSound`, `ImportRight`, `NamespaceExact`, `ReadsInOrder` | disk: three sectors, two to a command, three reads: a read takes one or two commands, the second not full. Card: rings of three descriptors, four frames in, three out: both wrap. The four properties of the disk, the card and the interrupt controllers are also proved without bounds. Volume: three clusters, so that chains loop, join and end early, and directories nest. Files: archives of up to four entries, trees of up to three nodes, mounted up to twice; files of two bytes, two descriptors. |

`call` of `UserVm` and `out` of `NetStack` record what a step did.  No step reads them,
and only `ImplementsSpaces` and `LeaseHonoured` speak of them, both of their new value
in a step.  The two runs therefore leave them out when they compare states (`VIEW`):
TLC still evaluates both properties on every step from every state, and the state space
is the smaller one.  The one step that is not looked at is a call that is the same as the
one recorded and leaves the memory as it was, which is a stuttering step; the same call
is looked at in the other states that have this memory, reached by other calls.

Each property is stated, with the code it is about, in the comment above its
definition.  For each one `PROJECT.json` names a mutant: a definition changed the way
a plausible bug would change the code, with which TLC finds the property violated.

### Fairness

* `Scheduler`: the PIT keeps interrupting (weak fairness of `TimerInterrupt`: IF=0
  regions end); preempt-disabled regions, of which the kernel's are all finite, end
  (strong fairness of `preempt_enable`, since the thread may lose the CPU in
  between); the loops of the shell and of idle go on whenever they keep getting the
  CPU.  Nothing is assumed of programs, which may compute for ever.
* `ZombiesAreReaped` says in its own hypothesis that the shell or idle gets the CPU
  again and again: `thread_reap` is called in no other thread.  With a thread that
  never blocks, idle never runs, and if the shell is blocked on input no zombie is
  reaped.
* `Process`: the threads that poll, and the reaper, go on, by `EveryThreadRuns` and
  the hypothesis just named.
* `Input` (in `input_split` only): bytes on the wire raise IRQ1 and the shell reads what
  is queued; nobody has to press a key.
* `NetStack` assumes none.  `OperationEnds` says that each step of an operation returns
  or uses up something nothing refills; that it returns follows as long as its thread
  runs, which is `EveryThreadRuns`.

## The proofs

`tlapm` checks these for every value of the constants that satisfies the named
assumptions of the modules.

* **`SchedCoreProofs`**, the policy: `CoreAlwaysValid` (and `CoreTypeCorrect`),
  `SwitchAlwaysRequested`, `PinnedKeepsCPU` and `NobodyOvertakes`.  It begins with the
  linked lists: appending, taking a part, unlinking and inserting by deadline, in terms
  of the set a list enumerates and its order.  The invariant is `CoreInv`: the core has
  its type, its registry is finite and `sched_core_validate` holds.
  `sched_core_validate` is inductive together with the types, which says that the code's
  own check is complete enough to be kept by every operation.  One lemma for each
  operation; `TickGood` and `TakeNextGood` carry most of the work, as a tick moves a
  whole prefix of the sleepers to the FIFO.  `Prompt` strengthens it for the two
  theorems about switches: a nonzero depth of the current task means it is RUNNING,
  without which a tick could not be shown to keep it on the CPU.  `NobodyOvertakes`
  reduces the order of the FIFO to one fact about each operation (`FifoStep`): it takes
  at most the head, and puts what it adds behind the rest.  That sleepers woken together
  keep their order comes from the deadline order of the sleep list.  Assumptions: idle and
  the bootstrap thread are two tasks, at least two tasks and two ids are allowed,
  quantum and depth limit are not zero.
* **`SchedulerLemmas`**, **`SchedulerProofs`**, the scheduler as the kernel runs it:
  `NeverPanics`, `NoSwitchEverPending`, `NoInputLost` and `ResourcesAlwaysExact`, from
  one invariant, `SchedulerInv`.  None of the four is inductive alone.  That no
  unchecked policy call is refused needs the policy's own invariants (`Good`, `Prompt`)
  and the PIT and the core to have one clock.  That every selected frame can be
  returned to needs all suspended threads, zombies apart, to have a frame of their own
  kind (`Framed`; the running thread's is stale, and completed by the entry).  That the
  reaper owns what it frees, and that the address space switched to exists, needs
  registry, stacks, processes and spaces to agree (`Owned`), which in turn needs that the
  shell never becomes a zombie and a user thread never runs with preemption disabled.
  `Follows` says what the policy calls inside one handler may have done so far; each
  handler is then such calls followed by `select_frame` or by an exit.  `thread_reap` is
  given in closed form, `RemoveZombies`; the lemma `RemoveOneMore` shows that it is
  `sched_core_remove_zombie` applied to one zombie after the other.  Assumptions: those
  of the policy; the kernel's root is no task's, the ring has a slot, some sleep is
  allowed.
* **`SchedSleepProofs`**: `SleepersSleepLongEnough`, the action property that only a tick,
  and only from the deadline on, ends a sleep.  It uses `SchedulerInv` for the one clock,
  and for each entry that it wakes no sleeper.
* **`ProcessProofs`**: `BookkeepingAlwaysExact` and `AnswersAlwaysTrue`, for any number of
  slots, results, pids and objects.  `ProcInv` says that published objects and occupied
  slots correspond one to one (`SlotsExact`), that a pid belongs to one process, live or
  reaped (`PidsExact`), that the object under construction is still there when preemption
  comes back on (`ConstructionSafe`), and that the ring holds the last results, the k-th of
  all in slot ((k - 1) mod History) + 1, with those marked that were delivered
  (`RingExact`).  The last is what makes the properties inductive: without the place of
  every result one could not tell which one a reaping pushes out.  The lemmas about
  remainders (`SlotsDiffer`) show that fewer than History results in a row never share a
  slot.  The reaper takes several zombies in one step; `Left` gives what it leaves in each
  slot in closed form.
* **`DriverProofs`**, three drivers.
  * `PicAlwaysSound`, for every set of lines.  `PicInv` says for each stage of an interrupt
    on its way (`InService`) which lines the controllers hold in service, also for the
    vectors 7 and 15 of a line that dropped too late, and that the cascade is masked exactly
    when every line behind it is.
  * `CardAlwaysSound`, for rings of every size.  `CardInv` cuts the receive ring in two at
    the driver's and the card's index (`RingOK`): what is stored and not read, the rest of a
    long frame only behind its first part, and what the card may still fill.  `TailOK` says
    where the card's part ends, also while the driver has cleared a descriptor and not yet
    given it back.  `ArrivedOK`
    relates the stored part to the frames that arrived and were not yet handed up, in both
    directions and in order; `LifeOK` and `SendOK` say where a transmission is and that the
    pages stay held while the card has the bus.  `Puts` is what the card's two ways of
    storing have in common.
  * `RingRefinesQueue`, for every capacity and set of bytes.  The map takes the bytes from
    tail to head around the end of the array; each ring step is the queue's step.
* **`IoProofs`**, the disk driver and the network stack.
  * `DiskReadsAlwaysExact` and the action property `DmaNeverDisturbed`, for disks and
    transfer buffers of every size.  `DiskInv` says when the controller may be at work
    (`PortOK`: only with its engine on, and for a command the driver is not watching only
    after the disk was given up), what it has moved (`DataOK`: the table is the part of the
    read in progress, and the buffer holds that part up to what was moved), and how far the
    read is (`ReadOK`).  `PortOK` is needed because a command that timed out may go on
    writing: the driver is right to give up the disk instead of trying again.
  * `LeaseAlwaysHonoured` and `OperationsAlwaysEnd`, for every set of hosts and offers,
    cache size and time limit. `NetInv` adds to `LeaseHonoured` what the owner relies on
    at each place where it waits (`Agree`): the lease it sees has time left as long as
    it polls, `dhcp_state` follows the stage of `net_dhcp`, an offer that is requested
    was valid and is the one the confirmation must match, and the neighbour `route`
    waits for is the next hop of the lease in force. The last is why a lease that ends
    during the wait does no harm to what is sent after it. What `LeaseHonoured` says of
    packets, and `OperationsAlwaysEnd`, are about steps, with one case for each action.
    Nothing is said of the card an echo reply goes to: the code sends it to the source
    of the request's frame.
* **`FrameProofs`**, page frames.
  * `PmmAlwaysSound` and `PmmAllocAlwaysRight`, for every memory map.  The invariant adds to
    `PmmSound` that `total_frames` counts the usable frames and that the others are
    withdrawn, without which the count of free frames would have no bound.  The assumption
    is that the bitmaps lie in usable memory outside page zero, which `MapAndPlanRight`
    checks of the plan.
  * `GrowthAlwaysSafe`, for every range and set of frames, with any call failing.
    `GrowthSafe` speaks of the range between two growths; `PagesInv` adds where the loop
    and its rollback stand: the pages below the loop's offset are this growth's, those from
    `Reach` on have no frame unless cleaning up failed, and the frame in hand is nobody
    else's.
  * `StacksAlwaysExclusive`, for every number of slots, pages, frames, generations and
    holders.  `StackInv` ties the stacks that live to the slots' generations, so that a
    descriptor that passes the code's check is of a live stack (`ValidIsLive`), and says
    that the frames in use are exactly the pages of occupied slots, each once; without
    that a freed stack's frames could be somebody else's.

The assumptions on the constants, each in the module that declares them:

| assumption | says |
|---|---|
| `TaskAssumption` and the others of `SchedCore`, `Scheduler` | as listed above |
| `ProcessAssumption` | there are slots, results, pids and polls; exit code 0 exists; no object is at NULL |
| `RingAssumption` | the ring has room, and 0 is a byte |
| `PicAssumption` | lines are numbered 0 to 15, and no device is on the cascade line 2 |
| `CardAssumption` | a ring has at least two descriptors; the bounds on frames are natural numbers |
| `DiskAssumption` | the disk has a sector and the buffer holds one |
| `NetAssumption` | times and budgets are natural numbers, there is at least one attempt |
| `PmmAssumption` | the bitmaps lie in usable memory outside page zero |
| `PagesAssumption` | the range is finite; a frame, a foreign mapping and no mapping differ |
| `StackAssumption` | slots, pages and frames are finitely many, pages are numbered from one above the guard |

Every module that names an assumption is extended by the module of a run, and TLC
evaluates it there for the constants of that run.  `PagesAssumption` and
`StackAssumption` are hypotheses of their theorems, and `MCAllocators` assumes them.

Only model-checked, and why:

* Liveness (`EveryThreadRuns`, `InputIsHandled`, `ZombiesAreReaped`, `PollingEnds`) is out
  of the prover's reach.
* What a recursion or a fold over data computes: the table walk of `BootMemory`
  (`BootMemorySafe`), the archive and the mounts of `Files` (`NamespaceExact`,
  `ReadsInOrder`), the tree `Fat32` is compared with (`ImportRight`).
* `AnswersAreOurs` rests on the numbers of the congruential generator being different
  from one exchange to the next, that is on its period modulo a power of two: an
  induction over its iterations.  It also holds only for as many operations as the
  generator's low bits tell apart.
* `FramesOwnedOnce`, `TlbCoherent`, `ImplementsSpaces` and `KernelMapsExact` speak of page
  tables of several levels through walks that are recursive in the level: that a walk meets
  each table once, or is unchanged by a store elsewhere, is an induction over levels.
* `HeapSound` says that `used_bytes` is the sum over all blocks, and the check of a program
  adds up the pages of its segments (`ProgramExact`): facts about such sums are inductions
  over the data.
* `KeyboardFollowed` and `LossRecovered` need what the decoder makes of the bytes still in
  the queue, which is its own repetition over a sequence of any length.
* `MapAndPlanRight` has not been attempted: the properties above it say more about the
  running system.

## Findings

* `input_split`.  `input.h` says of the ring that "overflow drops the whole damaged
  sequence; the next pop reports reset=true so held modifiers cannot remain stuck
  indefinitely."  The code drops what is queued and the byte that did not fit, and
  not the rest of the sequence that byte belongs to.  When it is the E0 of Print
  Screen's first E0 2A, the 2A arrives alone and is decoded as Left Shift; the release
  comes as E0 AA, which is filtered as a fake shift.  Shift stays on with no key held
  until the key is pressed and released.  `LossRecovered` in the run `input` shows
  that the sentence holds when only whole sequences are lost.

An observation that contradicts no document: when a lease ends while `route` waits
for an ARP answer, the second request is still sent from the old address.  For this
reason `LeaseHonoured` speaks of every packet but ARP requests.

## What is left out, and why

* Bytes: the formats of packets, the digits of a cpio header, the ELF header, the layout
  of a FAT boot sector, the characters of 8.3 names (a table of cases), scan code
  tables beyond the keys of the model, cookies of heap blocks.  Unit tests of the
  repository serve them.
* Statistics that no code decides on, logging and messages.
* Hardware below the level of the drivers: the i8042 dialogue at boot, PIT
  programming, GDT and IDT contents, context-switch assembly (its effects are in
  `Scheduler`).
* Failing allocations in `Scheduler`'s thread creation: they undo themselves with
  preemption off and leave no trace; the undoing itself is not modelled yet.
* The shell's line editor and commands: sequential editing of one string, which unit
  tests reach as well as a model would, and formatting of values other parts compute.
* Console, video, serial, log, formatting and PCI enumeration: output, or one pass at
  boot.

`PROJECT.json` lists every component with its status.

## Plan

1. Done: scheduling policy, scheduler, processes, input, physical memory, memory at
   boot, heap, the spaces of processes and of the kernel, thread stacks, programs,
   files, FAT32, network, disk, interrupt controllers; the proofs above.
2. Next: the undoing of a thread creation that fails half-way.
3. Compositions: the FAT32 importer over `Ahci`'s reads and under `Files`' mounts;
   `ElfLoad` over `UserVm`.
4. Proofs: `FramesOwnedOnce` and `KernelMapsExact` for tables of a fixed number of levels,
   where the walk can be unfolded instead of induced over.
