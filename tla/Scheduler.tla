------------------------------ MODULE Scheduler ------------------------------
(* The scheduler as the kernel runs it (kernel/core/scheduler.c): the policy *)
(* of SchedCore driven by the timer, the keyboard, the yield trap, system    *)
(* calls and the threads themselves.                                         *)
(*                                                                           *)
(* There is one CPU.  Interrupt handlers, system calls and the regions       *)
(* between cpu_irq_save and cpu_irq_restore run with IF=0 and are one step   *)
(* each.  Between two steps the current thread runs with IF=1, so any        *)
(* interrupt may come between any two steps of a thread.                     *)
(*                                                                           *)
(* One user thread per process: the process is named by its task.  Failing   *)
(* allocations leave the state as it was and are not separate steps.         *)
EXTENDS SchedCore

CONSTANTS
  Kernel,      \* the kernel address space (kernel_cr3)
  RingSlots,   \* usable slots of the raw keyboard ring
  MaxSleep     \* the longest sleep requested, in ticks

ASSUME SchedulerAssumption ==
  /\ Kernel \notin Task
  /\ RingSlots \in Nat \ {0}
  /\ MaxSleep \in Nat \ {0}

VARIABLES
  pit,        \* the tick counter of pit.c
  raw,        \* raw_input of keyboard.c: bytes waiting, reset_pending
  stack,      \* tasks that own an allocated kernel stack and TCB
  frame,      \* the frame thread->frame points at: what it returns to
  proc,       \* state of the process of a user thread, "none" for a kernel one
  vm,         \* processes whose address space exists
  cr3,        \* the address space in CR3
  rsp0,       \* whose kernel stack an entry from user mode switches to
  pc,         \* where the loops of the shell and of idle are
  panicked    \* PANIC was reached

vars == <<core, pit, raw, stack, frame, proc, vm, cr3, rsp0, pc, panicked>>

KernelTypeOK ==
  /\ CoreTypeOK
  /\ pit \in 0..MaxTick
  /\ raw \in [count : 0..RingSlots, reset_pending : BOOLEAN]
  /\ stack \subseteq Task
  /\ frame \in [Task -> {"none", "kernel", "user", "bad"}]
  /\ proc \in [Task -> {"none", "READY", "EXITED"}]
  /\ vm \subseteq Task
  /\ cr3 \in Task \cup {Kernel}
  /\ rsp0 \in Task
  /\ pc \in [{Boot, Idle} -> {"reap", "input", "command", "wait", "cli", "hlt"}]
  /\ panicked \in BOOLEAN

-----------------------------------------------------------------------------
(* Frames and the switch                                                   *)

IsUser(t) == proc[t] # "none"

(* frame_owned: an entry pushes its frame on the current stack in kernel   *)
(* mode and on the stack rsp0 names in user mode.                          *)
frame_owned == IsUser(core.current) => rsp0 = core.current

(* valid_frame: the saved frame lies in the live stack of t and returns to *)
(* the mode t runs in.                                                     *)
valid_frame(t, f) ==
  /\ t \in stack \cup {Boot}
  /\ f[t] = IF IsUser(t) THEN "user" ELSE "kernel"

(* The end of every kernel entry, select_frame: c is the core after the    *)
(* policy calls of the handler, ok says they all succeeded, f are the      *)
(* frames once the interrupted thread's own is saved.  The singletons are  *)
(* LETs whose values TLC computes once.                                    *)
select_frame(c, ok, force, f) ==
  \E b \in {c} : \E d \in {sched_core_select(b, force)} :
    LET next == d.current
    IN  /\ core' = d
        /\ frame' = f
        /\ cr3' = IF IsUser(next) THEN next ELSE Kernel
        /\ rsp0' = next
        /\ panicked' = ~ (ok /\ CanSelect(b) /\ valid_frame(next, f))

Saved(kind) == [frame EXCEPT ![core.current] = kind]

(* process_mark_exit and scheduler_exit_user for the current process.      *)
exit_user(c, ok, f) ==
  /\ proc' = [proc EXCEPT ![c.current] = "EXITED"]
  /\ select_frame(sched_core_exit_current(c),
                  ok /\ frame_owned /\ proc[c.current] = "READY" /\ CanExit(c),
                  TRUE, f)

(* An interrupt during hlt lets idle's loop go on.                         *)
Resumed == [pc EXCEPT ![Idle] = IF core.current = Idle /\ @ = "hlt" THEN "reap" ELSE @]

(* scheduler_on_interrupt after the policy's share: a user frame the CPU   *)
(* may not return to ends the process, any other goes on to the selection. *)
on_interrupt(c, ok, force, kind) ==
  IF IsUser(c.current) /\ kind = "bad"
  THEN exit_user(c, ok, Saved(kind))
  ELSE select_frame(c, ok /\ frame_owned, force, Saved(kind)) /\ UNCHANGED proc

(* The INT 240 trap of a kernel thread.                                    *)
yield_trap(c, ok) == on_interrupt(c, ok, TRUE, "kernel")

-----------------------------------------------------------------------------
(* Interrupts                                                              *)

SchedulerInit ==
  /\ CoreInit
  /\ pit = 0
  /\ raw = [count |-> 0, reset_pending |-> FALSE]
  /\ stack = {Idle}
  /\ frame = [t \in Task |-> IF t = Idle THEN "kernel" ELSE "none"]
  /\ proc = [t \in Task |-> "none"]
  /\ vm = {}
  /\ cr3 = Kernel
  /\ rsp0 = Boot
  /\ pc = [t \in {Boot, Idle} |-> IF t = Boot THEN "command" ELSE "reap"]
  /\ panicked = FALSE

(* The kinds of frame an interrupt can save for the current thread.        *)
FrameKinds == IF IsUser(core.current) THEN {"user", "bad"} ELSE {"kernel"}

(* Mutant: the counter wraps.                                              *)
pit_on_irq_Wraps(ticks) == (ticks + 1) % (MaxTick + 1)
pit_on_irq(ticks) == IF ticks # MaxTick THEN ticks + 1 ELSE ticks

(* IRQ0.                                                                   *)
TimerInterrupt ==
  LET now == pit_on_irq(pit)
  IN  /\ pit' = now
      /\ \E kind \in FrameKinds :
           on_interrupt(sched_core_tick(core, now), CanTick(core, now), FALSE, kind)
      /\ pc' = Resumed
      /\ UNCHANGED <<raw, stack, vm>>

(* The ring after keyboard_on_irq: no data or a mouse byte, a byte in      *)
(* error, a byte.                                                          *)
keyboard_on_irq(r) ==
  LET discarded == [count |-> 0, reset_pending |-> TRUE]
  IN  {r, discarded,
       IF r.count = RingSlots THEN discarded ELSE [r EXCEPT !.count = @ + 1]}

keyboard_has_pending(r) == r.count # 0 \/ r.reset_pending

(* Mutant: input does not wake the shell.                                  *)
KeyboardInterrupt_NoWake ==
  \E r \in keyboard_on_irq(raw), kind \in FrameKinds :
    /\ raw' = r
    /\ on_interrupt(core, TRUE, FALSE, kind)
    /\ pc' = Resumed
    /\ UNCHANGED <<pit, stack, vm>>

(* IRQ1.                                                                   *)
KeyboardInterrupt ==
  \E r \in keyboard_on_irq(raw), kind \in FrameKinds :
    LET wakes == core.state[Boot] = "BLOCKED" /\ keyboard_has_pending(r)
    IN  /\ raw' = r
        /\ on_interrupt(IF wakes THEN sched_core_wake(core, Boot) ELSE core,
                        wakes => CanWake(core, Boot), FALSE, kind)
        /\ pc' = Resumed
        /\ UNCHANGED <<pit, stack, vm>>

-----------------------------------------------------------------------------
(* Kernel threads: the shell while it boots or runs a command, and the     *)
(* workers                                                                 *)

InCommand ==
  /\ ~IsUser(core.current)
  /\ core.current # Idle
  /\ core.current = Boot => pc[Boot] = "command"

can_block == core.current # Idle /\ core.preempt_depth[core.current] = 0

thread_yield ==
  /\ InCommand /\ can_block
  /\ yield_trap(core, TRUE)
  /\ UNCHANGED <<pit, raw, stack, vm, pc>>

thread_sleep_ms(delay) ==
  /\ InCommand /\ can_block /\ CanSleep(core, delay)
  /\ yield_trap(sched_core_sleep_current(core, delay), TRUE)
  /\ UNCHANGED <<pit, raw, stack, vm, pc>>

(* A thread function returns with its preempt regions closed.              *)
thread_exit ==
  /\ InCommand /\ core.current # Boot /\ core.preempt_depth[core.current] = 0
  /\ yield_trap(sched_core_exit_current(core), can_block /\ CanExit(core))
  /\ UNCHANGED <<pit, raw, stack, vm, pc>>

preempt_disable ==
  /\ InCommand
  /\ core.preempt_depth[core.current] < MaxDepth
  /\ core' = sched_core_preempt_disable(core)
  /\ panicked' = ~CanDisable(core)
  /\ UNCHANGED <<pit, raw, stack, frame, proc, vm, cr3, rsp0, pc>>

(* Mutant: the deferred switch is forgotten.                               *)
preempt_enable_NoTrap ==
  /\ InCommand
  /\ core.preempt_depth[core.current] # 0
  /\ core' = sched_core_preempt_enable(core)
  /\ panicked' = ~CanEnable(core)
  /\ UNCHANGED <<pit, raw, stack, frame, proc, vm, cr3, rsp0, pc>>

(* Every caller disabled preemption before.                                *)
preempt_enable ==
  LET c == sched_core_preempt_enable(core)
  IN  /\ InCommand
      /\ core.preempt_depth[core.current] # 0
      /\ IF sched_core_reschedule_pending(c)
         THEN yield_trap(c, CanEnable(core))
         ELSE /\ core' = c
              /\ panicked' = ~CanEnable(core)
              /\ UNCHANGED <<frame, proc, cr3, rsp0>>
      /\ UNCHANGED <<pit, raw, stack, vm, pc>>

(* A stack, a TCB and a first frame for the new task t.                    *)
NewThread(t, kind) ==
  /\ t \notin stack
  /\ stack' = stack \cup {t}
  /\ frame' = [frame EXCEPT ![t] = kind]

thread_create(t) ==
  /\ InCommand /\ core.current = Boot
  /\ CanAdd(core, t)
  /\ NewThread(t, "kernel")
  /\ core' = sched_core_add(core, t)
  /\ UNCHANGED <<pit, raw, proc, vm, cr3, rsp0, pc, panicked>>

(* scheduler_create_user, called by the process constructors with          *)
(* preemption disabled.                                                    *)
scheduler_create_user(t) ==
  /\ InCommand /\ core.current = Boot /\ core.preempt_depth[Boot] # 0
  /\ CanAdd(core, t)
  /\ NewThread(t, "user")
  /\ core' = sched_core_add(core, t)
  /\ proc' = [proc EXCEPT ![t] = "READY"]
  /\ vm' = vm \cup {t}
  /\ UNCHANGED <<pit, raw, cr3, rsp0, pc, panicked>>

(* Mutant: the reaper passes over processes.                               *)
Zombies_KernelOnly ==
  {t \in core.tasks \ {core.current} : core.state[t] = "ZOMBIE" /\ ~IsUser(t)}

(* What the reaper takes: exited threads, never the one it runs in.        *)
Zombies == {t \in core.tasks \ {core.current} : core.state[t] = "ZOMBIE"}

(* Idle goes on to halt, the shell to its input or on with its command.    *)
AfterReap ==
  [pc EXCEPT ![core.current] = IF core.current = Idle THEN "cli"
                               ELSE IF @ = "reap" THEN "input" ELSE @]

(* The core once sched_core_remove_zombie took every task of Z, one after  *)
(* the other and in whatever order: no removal touches another's fields.   *)
RemoveZombies(c, Z) ==
  [c EXCEPT
     !.tasks = @ \ Z,
     !.id = [t \in Task |-> IF t \in Z THEN 0 ELSE @[t]],
     !.state = [t \in Task |-> IF t \in Z THEN "RUNNING" ELSE @[t]],
     !.wake_tick = [t \in Task |-> IF t \in Z THEN 0 ELSE @[t]],
     !.quantum_left = [t \in Task |-> IF t \in Z THEN 0 ELSE @[t]],
     !.preempt_depth = [t \in Task |-> IF t \in Z THEN 0 ELSE @[t]]]

(* Mutant: the address space is not destroyed.                             *)
thread_reap_KeepsVm ==
  /\ \/ core.current = Boot /\ pc[Boot] \in {"reap", "command"}
     \/ core.current = Idle /\ pc[Idle] = "reap"
  /\ core' = RemoveZombies(core, Zombies)
  /\ stack' = stack \ Zombies
  /\ proc' = [t \in Task |-> IF t \in Zombies THEN "none" ELSE proc[t]]
  /\ frame' = [t \in Task |-> IF t \in Zombies THEN "none" ELSE frame[t]]
  /\ pc' = AfterReap
  /\ UNCHANGED <<pit, raw, vm, cr3, rsp0, panicked>>

(* One IF=0 region over the whole registry.                                *)
thread_reap ==
  /\ \/ core.current = Boot /\ pc[Boot] \in {"reap", "command"}
     \/ core.current = Idle /\ pc[Idle] = "reap"
  /\ core' = RemoveZombies(core, Zombies)
  /\ stack' = stack \ Zombies
  /\ vm' = vm \ Zombies
  /\ proc' = [t \in Task |-> IF t \in Zombies THEN "none" ELSE proc[t]]
  /\ frame' = [t \in Task |-> IF t \in Zombies THEN "none" ELSE frame[t]]
  /\ pc' = AfterReap
  /\ panicked' = ~ \A t \in Zombies :
                     /\ t # Boot /\ CanRemoveZombie(core, t) /\ t \in stack
                     /\ IsUser(t) => proc[t] = "EXITED" /\ t \in vm /\ cr3 # t
  /\ UNCHANGED <<pit, raw, cr3, rsp0>>

-----------------------------------------------------------------------------
(* The loops of the shell and of idle                                      *)

(* One input_ring_pop of shell_process_input.  A byte may complete a line, *)
(* whose command then runs; an empty ring ends the batch.                  *)
ReadByte ==
  /\ core.current = Boot /\ pc[Boot] \in {"input", "command"}
  /\ core.preempt_depth[Boot] = 0
  /\ raw' = [count |-> IF raw.count = 0 THEN 0 ELSE raw.count - 1,
             reset_pending |-> FALSE]
  /\ pc' = [pc EXCEPT ![Boot] = IF raw.count = 0 THEN "wait" ELSE "command"]
  /\ UNCHANGED <<core, pit, stack, frame, proc, vm, cr3, rsp0, panicked>>

(* A batch is bounded: it ends even when input is left.                    *)
LeaveBatch ==
  /\ core.current = Boot /\ pc[Boot] = "command" /\ core.preempt_depth[Boot] = 0
  /\ pc' = [pc EXCEPT ![Boot] = "wait"]
  /\ UNCHANGED <<core, pit, raw, stack, frame, proc, vm, cr3, rsp0, panicked>>

(* Mutant: the shell blocks without looking at the ring in the same region.*)
scheduler_wait_input_Unchecked ==
  /\ core.current = Boot /\ pc[Boot] = "wait"
  /\ pc' = [pc EXCEPT ![Boot] = "reap"]
  /\ IF can_block
     THEN yield_trap(sched_core_block_current(core), CanBlock(core))
     ELSE UNCHANGED <<core, frame, proc, cr3, rsp0, panicked>>
  /\ UNCHANGED <<pit, raw, stack, vm>>

scheduler_wait_input ==
  /\ core.current = Boot /\ pc[Boot] = "wait"
  /\ pc' = [pc EXCEPT ![Boot] = "reap"]
  /\ IF can_block /\ ~keyboard_has_pending(raw)
     THEN yield_trap(sched_core_block_current(core), CanBlock(core))
     ELSE UNCHANGED <<core, frame, proc, cr3, rsp0, panicked>>
  /\ UNCHANGED <<pit, raw, stack, vm>>

(* idle_main: cli, then sti and hlt as one.                                *)
IdleHalts ==
  /\ core.current = Idle /\ pc[Idle] = "cli"
  /\ pc' = [pc EXCEPT ![Idle] = "hlt"]
  /\ UNCHANGED <<core, pit, raw, stack, frame, proc, vm, cr3, rsp0, panicked>>

-----------------------------------------------------------------------------
(* User threads                                                            *)

(* EXIT, a fault, or a system call from a frame that cannot be returned to.*)
UserExits ==
  /\ IsUser(core.current)
  /\ exit_user(core, TRUE, Saved("user"))
  /\ UNCHANGED <<pit, raw, stack, vm, pc>>

(* YIELD, and SLEEP with a time that rounds up to delay ticks.             *)
SysYield ==
  /\ IsUser(core.current)
  /\ select_frame(core, frame_owned, TRUE, Saved("user"))
  /\ UNCHANGED <<pit, raw, stack, proc, vm, pc>>

SysSleep(delay) ==
  /\ IsUser(core.current)
  /\ IF CanSleep(core, delay)
     THEN select_frame(sched_core_sleep_current(core, delay), frame_owned, TRUE,
                       Saved("user"))
     ELSE select_frame(core, frame_owned, FALSE, Saved("user"))
  /\ UNCHANGED <<pit, raw, stack, proc, vm, pc>>

(* SPAWN: disable, create, enable and resume, all with IF=0.               *)
SysSpawn(t) ==
  LET c == sched_core_preempt_disable(core)
      d == sched_core_add(c, t)
      f == [Saved("user") EXCEPT ![t] = "user"]
  IN  /\ IsUser(core.current)
      /\ CanAdd(c, t)
      /\ t \notin stack
      /\ stack' = stack \cup {t}
      /\ proc' = [proc EXCEPT ![t] = "READY"]
      /\ vm' = vm \cup {t}
      /\ select_frame(sched_core_preempt_enable(d),
                      frame_owned /\ CanDisable(core) /\ CanEnable(d), FALSE, f)
      /\ UNCHANGED <<pit, raw, pc>>

(* Every other system call returns to its caller.                          *)
SysReturn ==
  /\ IsUser(core.current)
  /\ select_frame(core, frame_owned, FALSE, Saved("user"))
  /\ UNCHANGED <<pit, raw, stack, proc, vm, pc>>

-----------------------------------------------------------------------------
(* The system                                                              *)

Interrupt == TimerInterrupt \/ KeyboardInterrupt

KernelThread ==
  \/ thread_yield \/ thread_exit \/ preempt_disable \/ preempt_enable
  \/ \E delay \in 1..MaxSleep : thread_sleep_ms(delay)
  \/ \E t \in Task : thread_create(t) \/ scheduler_create_user(t)

Loops == thread_reap \/ ReadByte \/ LeaveBatch \/ scheduler_wait_input \/ IdleHalts

UserThread ==
  \/ UserExits \/ SysYield \/ SysReturn
  \/ \E delay \in 1..MaxSleep : SysSleep(delay)
  \/ \E t \in Task : SysSpawn(t)

SchedulerNext ==
  ~panicked /\ (Interrupt \/ KernelThread \/ Loops \/ UserThread)

SchedulerSpec == SchedulerInit /\ [][SchedulerNext]_vars

(* The shell's loop ends its finite batches and commands.                  *)
ShellGoesOn ==
  /\ core.current = Boot
  /\ \/ pc[Boot] = "reap" /\ thread_reap
     \/ pc[Boot] = "input" /\ ReadByte
     \/ LeaveBatch
     \/ scheduler_wait_input

IdleGoesOn == core.current = Idle /\ (thread_reap \/ IdleHalts)

(* The PIT keeps interrupting, regions with preemption disabled end, and   *)
(* the loops of the shell and of idle go on when they have the CPU.        *)
SchedulerFairness ==
  /\ WF_vars(~panicked /\ TimerInterrupt)
  /\ SF_vars(~panicked /\ preempt_enable)
  /\ SF_vars(~panicked /\ ShellGoesOn)
  /\ SF_vars(~panicked /\ IdleGoesOn)

FairSchedulerSpec == SchedulerSpec /\ SchedulerFairness

-----------------------------------------------------------------------------
(* Properties                                                              *)

(* No interleaving of interrupts, traps, system calls and thread code      *)
(* reaches a PANIC of scheduler.c or process.c: the policy accepts every   *)
(* call the kernel makes without checking first, every selected frame can  *)
(* be returned to and the reaper owns what it frees.                       *)
NoPanic == ~panicked

(* Interrupts never see a switch left pending: outside preempt-disabled    *)
(* regions every request for a switch was already served when control      *)
(* returned to the thread (select_frame, preempt_enable).                  *)
NoSwitchLeftPending ==
  core.preempt_depth[core.current] = 0
    => ~core.reschedule /\ core.state[core.current] = "RUNNING"

(* The shell never sleeps on input it could read: it is BLOCKED only while *)
(* the raw ring is empty and no reset is pending (scheduler_wait_input     *)
(* against IRQ1).                                                          *)
NoLostInput == core.state[Boot] = "BLOCKED" => ~keyboard_has_pending(raw)

(* The stack the CPU runs on, the address space in CR3 and the stack an    *)
(* entry from user mode would use all exist and belong to the current      *)
(* thread, whatever was reaped meanwhile (select_frame, thread_reap).      *)
RunsOnOwnResources ==
  /\ core.current \in stack \cup {Boot}
  /\ cr3 = (IF IsUser(core.current) THEN core.current ELSE Kernel)
  /\ cr3 # Kernel => cr3 \in vm
  /\ IsUser(core.current) => rsp0 = core.current

(* Nothing leaks and nothing is freed early: stacks and address spaces     *)
(* exist exactly for the registered threads and processes, zombies         *)
(* included (thread_create, scheduler_create_user, thread_reap).           *)
OwnershipExact ==
  /\ KernelTypeOK
  /\ stack = core.tasks \ {Boot}
  /\ vm = {t \in core.tasks : IsUser(t)}
  /\ \A t \in core.tasks : proc[t] = "EXITED" <=> IsUser(t) /\ core.state[t] = "ZOMBIE"

(* The CPU runs on what belongs to the current thread, and stacks and      *)
(* address spaces are kept exactly as long as their thread is registered   *)
(* (select_frame, scheduler_create_user, thread_reap).                     *)
ResourcesExact == RunsOnOwnResources /\ OwnershipExact

(* No sleeper runs before its deadline, and the scheduler's clock is the   *)
(* PIT's: a task leaves SLEEPING only once the PIT reached its wake_tick.  *)
SleepsLongEnough ==
  [][\A t \in core.tasks :
       core.state[t] = "SLEEPING" /\ core'.state[t] # "SLEEPING"
         => pit' >= core.wake_tick[t]]_vars

(* Every ready thread gets the CPU, and every sleeper too: round robin     *)
(* with a quantum starves nobody.                                          *)
EveryThreadRuns ==
  \A t \in Task \ {Idle} :
    t \in core.tasks /\ core.state[t] \in {"READY", "SLEEPING"}
      ~> core.state[t] = "RUNNING" /\ core.current = t

(* Pending input is never stranded: the shell pops the ring, whatever else *)
(* competes for the CPU (IRQ1, scheduler_wait_input, shell_process_input). *)
InputIsHandled ==
  keyboard_has_pending(raw)
    ~> \/ ~keyboard_has_pending(raw)
       \/ core.current = Boot /\ pc[Boot] = "command"

(* Exited threads are freed, as long as the shell or idle keeps getting    *)
(* the CPU: the reaper runs in no other thread.                            *)
ZombiesAreReaped ==
  []<>(core.current \in {Boot, Idle})
    => \A t \in Task : core.state[t] = "ZOMBIE" ~> core.state[t] # "ZOMBIE"

=============================================================================
