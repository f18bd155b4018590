------------------------------ MODULE SchedCore ------------------------------
(***************************************************************************)
(* The scheduling policy of kernel/core/sched_core.c: a registry of tasks, *)
(* a FIFO of ready tasks, a list of sleepers ordered by deadline, a round- *)
(* robin quantum and a nesting count that disables preemption.             *)
(*                                                                         *)
(* struct sched_core and the nodes it links are one record, core.  The two *)
(* linked lists are sequences of tasks; a node's fields are functions over *)
(* Task.  Every C operation that returns false leaves core alone, so it is *)
(* an operator for the condition under which it acts (Can...) and an       *)
(* operator of the source's name for the core it produces.  The operators  *)
(* take the core as an argument because Scheduler chains several of them   *)
(* inside one interrupt handler.                                           *)
(*                                                                         *)
(* Left out: the counters ticks, switches and run_ticks, which no          *)
(* condition of the code reads.                                            *)
(***************************************************************************)
EXTENDS Integers, FiniteSets, Sequences, Functions

CONSTANTS
  Task,      \* the addresses at which a struct sched_task can live
  Idle,      \* idle_thread.task
  Boot,      \* bootstrap_thread.task
  MaxTasks,  \* UTAMO_SCHED_MAX_TASKS
  Quantum,   \* quantum_ticks
  MaxId,     \* UINT64_MAX, as the largest task id
  MaxTick,   \* UINT64_MAX, as the largest tick
  MaxDepth   \* UINT32_MAX, as the largest preempt_depth

ASSUME TaskAssumption == Idle \in Task /\ Boot \in Task /\ Idle # Boot
ASSUME BoundAssumption ==
  /\ MaxTasks \in Nat /\ MaxTasks >= 2
  /\ Quantum \in Nat \ {0}
  /\ MaxId \in Nat /\ MaxId >= 2
  /\ MaxTick \in Nat
  /\ MaxDepth \in Nat \ {0}

VARIABLE core

-----------------------------------------------------------------------------
(* struct sched_task and struct sched_core                                 *)

SchedState == {"RUNNING", "READY", "BLOCKED", "SLEEPING", "ZOMBIE"}

SchedCoreType ==
  [tasks         : SUBSET Task,             \* non-NULL entries of tasks[]
   current       : Task,
   ready         : Seq(Task),               \* ready_head .. ready_tail
   sleepers      : Seq(Task),               \* sleep_head ..
   now           : Nat,
   next_id       : Nat,
   reschedule    : BOOLEAN,
   id            : [Task -> Nat],
   state         : [Task -> SchedState],
   wake_tick     : [Task -> Nat],
   quantum_left  : [Task -> Nat],
   preempt_depth : [Task -> Nat]]

(* The tasks validate counts as ready: the standby idle task is excluded.  *)
ReadyTasks(c) == {t \in c.tasks : t # Idle /\ c.state[t] = "READY"}
SleepingTasks(c) == {t \in c.tasks : c.state[t] = "SLEEPING"}

(* A sequence that lists every element of S once.                          *)
Enumerates(q, S) == IsInjective(q) /\ Range(q) = S

(* A sequence of tasks with nondecreasing deadlines.                       *)
Ordered(q, wake_tick) ==
  \A i, j \in 1..Len(q) : i < j => wake_tick[q[i]] <= wake_tick[q[j]]

-----------------------------------------------------------------------------
(* sched_core_validate, the check every operation starts with              *)

RegistryValid(c) ==
  /\ c.tasks # {}
  /\ Cardinality(c.tasks) <= MaxTasks
  /\ Idle \in c.tasks
  /\ c.current \in c.tasks
  /\ c.next_id >= 2
  /\ \A t \in c.tasks : c.id[t] < c.next_id
  /\ \A t, u \in c.tasks : c.id[t] = c.id[u] => t = u
  /\ \A t \in c.tasks : c.id[t] = 0 <=> t = Idle

NodesValid(c) ==
  \A t \in c.tasks :
    /\ c.quantum_left[t] <= Quantum
    /\ t # c.current => c.preempt_depth[t] = 0
    /\ t = Idle => c.state[t] = (IF t = c.current THEN "RUNNING" ELSE "READY")
    /\ c.state[t] = "RUNNING" => t = c.current
    /\ c.state[t] = "SLEEPING" => c.wake_tick[t] > c.now
    /\ c.state[t] # "SLEEPING" => c.wake_tick[t] = 0
    /\ c.state[t] \in {"SLEEPING", "BLOCKED", "ZOMBIE"} => c.preempt_depth[t] = 0

QueuesValid(c) ==
  /\ Enumerates(c.ready, ReadyTasks(c))
  /\ Enumerates(c.sleepers, SleepingTasks(c))
  /\ Ordered(c.sleepers, c.wake_tick)

sched_core_validate(c) ==
  /\ RegistryValid(c)
  /\ NodesValid(c)
  /\ c.state[c.current] # "RUNNING" => c.reschedule
  /\ QueuesValid(c)

-----------------------------------------------------------------------------
(* Initialisation and the ready FIFO                                       *)

sched_core_init(now) ==
  [tasks |-> {Idle, Boot}, current |-> Boot, ready |-> <<>>, sleepers |-> <<>>,
   now |-> now, next_id |-> 2, reschedule |-> FALSE,
   id |-> [t \in Task |-> IF t = Boot THEN 1 ELSE 0],
   state |-> [t \in Task |-> IF t = Idle THEN "READY" ELSE "RUNNING"],
   wake_tick |-> [t \in Task |-> 0],
   quantum_left |-> [t \in Task |-> IF t \in {Idle, Boot} THEN Quantum ELSE 0],
   preempt_depth |-> [t \in Task |-> 0]]

(* Mutant: pushes at the head of the FIFO.                                 *)
ready_push_AtHead(c, q) ==
  [c EXCEPT
     !.ready = q \o @,
     !.state = [t \in Task |-> IF t \in Range(q) THEN "READY" ELSE @[t]],
     !.wake_tick = [t \in Task |-> IF t \in Range(q) THEN 0 ELSE @[t]],
     !.reschedule = @ \/ /\ q # <<>>
                         /\ c.current = Idle \/ c.state[c.current] # "RUNNING"]

(* Appends the tasks of the sequence q in order.  The reschedule request   *)
(* depends on core->current only, which no push changes to RUNNING.        *)
ready_push(c, q) ==
  [c EXCEPT
     !.ready = @ \o q,
     !.state = [t \in Task |-> IF t \in Range(q) THEN "READY" ELSE @[t]],
     !.wake_tick = [t \in Task |-> IF t \in Range(q) THEN 0 ELSE @[t]],
     !.reschedule = @ \/ /\ q # <<>>
                         /\ c.current = Idle \/ c.state[c.current] # "RUNNING"]

CanAdd(c, t) ==
  /\ t \notin c.tasks
  /\ Cardinality(c.tasks) < MaxTasks
  /\ c.next_id # MaxId
  /\ sched_core_validate(c)

sched_core_add(c, t) ==
  ready_push([c EXCEPT !.tasks = @ \cup {t},
                       !.id[t] = c.next_id,
                       !.next_id = @ + 1,
                       !.quantum_left[t] = Quantum,
                       !.preempt_depth[t] = 0],
             <<t>>)

-----------------------------------------------------------------------------
(* The timer tick and the choice of the next task                          *)

(* How many leading tasks of the sleep list q have a deadline of at most w: *)
(* where a walk that continues while wake_tick <= w stops.                 *)
LeadingDue(q, wake_tick, w) ==
  CHOOSE k \in 0..Len(q) :
    /\ \A i \in 1..k : wake_tick[q[i]] <= w
    /\ k < Len(q) => wake_tick[q[k + 1]] > w

(* Mutant: the end of the quantum does not ask for a switch.               *)
ChargeTick_NoRequest(c) ==
  LET left == IF c.quantum_left[c.current] # 0
              THEN c.quantum_left[c.current] - 1 ELSE 0
  IN  IF c.state[c.current] = "RUNNING" /\ c.current # Idle
      THEN [c EXCEPT !.quantum_left[c.current] = left]
      ELSE c

(* Charges the tick to the running task's quantum.                         *)
ChargeTick(c) ==
  LET left == IF c.quantum_left[c.current] # 0
              THEN c.quantum_left[c.current] - 1 ELSE 0
  IN  IF c.state[c.current] = "RUNNING" /\ c.current # Idle
      THEN [c EXCEPT !.quantum_left[c.current] = left,
                     !.reschedule = @ \/ left = 0]
      ELSE c

CanTick(c, now) == sched_core_validate(c) /\ now >= c.now

(* Mutant: sleepers are woken one tick early.                              *)
sched_core_tick_Early(c, now) ==
  LET k == LeadingDue(c.sleepers, c.wake_tick, now + 1)
      d == [ChargeTick(c) EXCEPT !.now = now,
                                 !.sleepers = SubSeq(@, k + 1, Len(@))]
  IN  ready_push(d, SubSeq(c.sleepers, 1, k))

sched_core_tick(c, now) ==
  LET k == LeadingDue(c.sleepers, c.wake_tick, now)
      d == [ChargeTick(c) EXCEPT !.now = now,
                                 !.sleepers = SubSeq(@, k + 1, Len(@))]
  IN  ready_push(d, SubSeq(c.sleepers, 1, k))

(* Mutant: forced switches ignore the preemption depth.                    *)
KeepsCurrent_ForceWins(c, force) ==
  /\ ~force
  /\ \/ c.preempt_depth[c.current] # 0
     \/ ~c.reschedule /\ c.state[c.current] = "RUNNING"

(* The early return: preemption disabled, or nothing asks for a switch.    *)
KeepsCurrent(c, force) ==
  \/ c.preempt_depth[c.current] # 0
  \/ ~force /\ ~c.reschedule /\ c.state[c.current] = "RUNNING"

(* The old task goes back to READY; idle is READY outside the FIFO.        *)
PutBack(c) ==
  IF c.state[c.current] # "RUNNING" THEN c
  ELSE IF c.current = Idle THEN [c EXCEPT !.state[Idle] = "READY"]
  ELSE ready_push(c, <<c.current>>)

TakeNext(c) ==
  LET next == IF c.ready = <<>> THEN Idle ELSE Head(c.ready)
  IN  [c EXCEPT !.ready = IF @ = <<>> THEN @ ELSE Tail(@),
                !.state[next] = "RUNNING",
                !.wake_tick[next] = 0,
                !.quantum_left[next] = Quantum,
                !.current = next,
                !.reschedule = FALSE]

CanSelect(c) == sched_core_validate(c)

sched_core_select(c, force) ==
  IF KeepsCurrent(c, force) THEN c ELSE TakeNext(PutBack(c))

-----------------------------------------------------------------------------
(* Waiting, waking and leaving                                             *)

current_can_wait(c) ==
  /\ c.current # Idle
  /\ c.state[c.current] = "RUNNING"
  /\ c.preempt_depth[c.current] = 0
  /\ sched_core_validate(c)

CanSleep(c, delay) ==
  /\ current_can_wait(c)
  /\ delay # 0
  /\ delay <= MaxTick - c.now

(* The list q with t linked in behind its first k nodes.                   *)
LinkAfter(q, k, t) == SubSeq(q, 1, k) \o <<t>> \o SubSeq(q, k + 1, Len(q))

sched_core_sleep_current(c, delay) ==
  LET deadline == c.now + delay
      k == LeadingDue(c.sleepers, c.wake_tick, deadline)
  IN  [c EXCEPT !.wake_tick[c.current] = deadline,
                !.state[c.current] = "SLEEPING",
                !.sleepers = LinkAfter(@, k, c.current),
                !.reschedule = TRUE]

CanBlock(c) == current_can_wait(c)

sched_core_block_current(c) ==
  [c EXCEPT !.state[c.current] = "BLOCKED", !.reschedule = TRUE]

CanWake(c, t) ==
  /\ t \in c.tasks
  /\ c.state[t] \in {"BLOCKED", "SLEEPING"}
  /\ sched_core_validate(c)

(* The list q without its k-th node.                                       *)
Without(q, k) == SubSeq(q, 1, k - 1) \o SubSeq(q, k + 1, Len(q))

Unlink(c, t) ==
  LET k == CHOOSE i \in 1..Len(c.sleepers) : c.sleepers[i] = t
  IN  IF c.state[t] = "SLEEPING"
      THEN [c EXCEPT !.sleepers = Without(@, k)]
      ELSE c

(* Mutant: the woken sleeper stays in the sleep list.                      *)
sched_core_wake_StaysListed(c, t) == ready_push(c, <<t>>)

sched_core_wake(c, t) == ready_push(Unlink(c, t), <<t>>)

CanExit(c) == current_can_wait(c)

sched_core_exit_current(c) ==
  [c EXCEPT !.state[c.current] = "ZOMBIE", !.reschedule = TRUE]

CanRemoveZombie(c, t) ==
  /\ t \in c.tasks \ {c.current, Idle}
  /\ c.state[t] = "ZOMBIE"
  /\ sched_core_validate(c)

(* The node is zeroed, and the zero of enum sched_state is RUNNING.        *)
sched_core_remove_zombie(c, t) ==
  [c EXCEPT !.tasks = @ \ {t},
            !.id[t] = 0,
            !.state[t] = "RUNNING",
            !.wake_tick[t] = 0,
            !.quantum_left[t] = 0,
            !.preempt_depth[t] = 0]

CanDisable(c) ==
  /\ c.state[c.current] = "RUNNING"
  /\ c.preempt_depth[c.current] # MaxDepth
  /\ sched_core_validate(c)

sched_core_preempt_disable(c) == [c EXCEPT !.preempt_depth[c.current] = @ + 1]

CanEnable(c) ==
  /\ c.state[c.current] = "RUNNING"
  /\ c.preempt_depth[c.current] # 0
  /\ sched_core_validate(c)

sched_core_preempt_enable(c) == [c EXCEPT !.preempt_depth[c.current] = @ - 1]

sched_core_reschedule_pending(c) ==
  sched_core_validate(c) /\ c.reschedule /\ c.preempt_depth[c.current] = 0

-----------------------------------------------------------------------------
(* The policy on its own: a caller that serialises the operations but may  *)
(* issue them in any order, as sched_core.h allows.                        *)

CoreInit == core = sched_core_init(0)

Add(t) == CanAdd(core, t) /\ core' = sched_core_add(core, t)
Tick(now) == CanTick(core, now) /\ core' = sched_core_tick(core, now)
Select(force) == CanSelect(core) /\ core' = sched_core_select(core, force)
Sleep(delay) ==
  CanSleep(core, delay) /\ core' = sched_core_sleep_current(core, delay)
Block == CanBlock(core) /\ core' = sched_core_block_current(core)
Wake(t) == CanWake(core, t) /\ core' = sched_core_wake(core, t)
Exit == CanExit(core) /\ core' = sched_core_exit_current(core)
RemoveZombie(t) ==
  CanRemoveZombie(core, t) /\ core' = sched_core_remove_zombie(core, t)
PreemptDisable == CanDisable(core) /\ core' = sched_core_preempt_disable(core)
PreemptEnable == CanEnable(core) /\ core' = sched_core_preempt_enable(core)

CoreNext ==
  \/ \E t \in Task : Add(t) \/ Wake(t) \/ RemoveZombie(t)
  \/ \E now \in core.now..MaxTick : Tick(now)
  \/ \E force \in BOOLEAN : Select(force)
  \/ \E delay \in 1..MaxTick : Sleep(delay)
  \/ Block \/ Exit \/ PreemptDisable \/ PreemptEnable

CoreSpec == CoreInit /\ [][CoreNext]_core

-----------------------------------------------------------------------------
(* Properties                                                              *)

(* The fields of struct sched_core and of its nodes hold values of their   *)
(* C types.                                                                *)
CoreTypeOK == core \in SchedCoreType

(* No order of calls makes the core fail its own check or leave its types: *)
(* after any sequence of them sched_core_validate succeeds, so no later one *)
(* is refused (and the kernel does not panic) for a corruption the policy  *)
(* inflicted on itself.                                                    *)
CoreValid == CoreTypeOK /\ sched_core_validate(core)

(* The idle task never holds the CPU against a ready task: while idle is   *)
(* current and the FIFO is not empty, a reschedule is pending (ready_push  *)
(* and sched_core_select).                                                 *)
IdleYields == core.current = Idle /\ core.ready # <<>> => core.reschedule

(* A running task that used up its quantum has a reschedule pending, so    *)
(* the next interrupt takes the CPU from it (sched_core_tick).             *)
QuantumEnforced ==
  /\ core.current # Idle
  /\ core.state[core.current] = "RUNNING"
  /\ core.quantum_left[core.current] = 0
  => core.reschedule

(* Whenever the CPU is due to another task, the switch is pending: over an *)
(* idle task and over an exhausted quantum.                                *)
SwitchRequested == IdleYields /\ QuantumEnforced

(* Position of t in q, or 0.                                               *)
Position(q, t) ==
  IF t \in Range(q) THEN CHOOSE i \in 1..Len(q) : q[i] = t ELSE 0

(* Round robin is fair step by step, whichever operation happens: a task   *)
(* leaves the FIFO only from its head and to run, every task that enters   *)
(* it does so behind those already there, and sleepers that become ready   *)
(* together keep the order of their deadlines (ready_push,                 *)
(* sched_core_tick, sched_core_select).                                    *)
NoOvertaking ==
  [][/\ \E k \in 0..1 :
          /\ k <= Len(core.ready)
          /\ Len(core.ready) - k <= Len(core'.ready)
          /\ SubSeq(core'.ready, 1, Len(core.ready) - k)
               = SubSeq(core.ready, k + 1, Len(core.ready))
          /\ k = 1 => core'.current = Head(core.ready)
     /\ \A i, j \in 1..Len(core.sleepers) :
          LET t == core.sleepers[i]
              u == core.sleepers[j]
          IN  i < j /\ t \in Range(core'.ready) /\ u \in Range(core'.ready)
                => Position(core'.ready, t) < Position(core'.ready, u)]_core

(* Once preempt_disable returned, the task stays RUNNING on the CPU until  *)
(* the matching preempt_enable, whatever interrupts ask for.               *)
NonPreemptible ==
  [][core.preempt_depth[core.current] # 0
       => /\ core'.current = core.current
          /\ core'.state[core.current] = "RUNNING"]_core

=============================================================================
