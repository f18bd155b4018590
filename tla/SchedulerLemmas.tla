--------------------------- MODULE SchedulerLemmas ---------------------------
(* The inductive invariant of the scheduler as the kernel runs it, what the *)
(* entry and the return of an interrupt do to it, and the steps of the      *)
(* timer, the keyboard, the threads that give up the CPU and the two kernel *)
(* loops, each of which keeps it.                                           *)
EXTENDS Scheduler, SchedCoreProofs

-----------------------------------------------------------------------------
(* The inductive invariant                                                 *)

ProcState == {"none", "READY", "EXITED"}
FrameKind == {"none", "kernel", "user", "bad"}
PcType == [{Boot, Idle} -> {"reap", "input", "command", "wait", "cli", "hlt"}]
RawType == [count : 0..RingSlots, reset_pending : BOOLEAN]

(* What the registry c, the stacks st, the processes p and the address     *)
(* spaces v have to do with each other.  The shell is never a zombie, and  *)
(* a user thread never runs with preemption disabled.                      *)
Owned(c, st, p, v) ==
  /\ Boot \in c.tasks /\ c.state[Boot] # "ZOMBIE"
  /\ p \in [Task -> ProcState]
  /\ p[Boot] = "none" /\ p[Idle] = "none"
  /\ \A t \in Task \ c.tasks : p[t] = "none"
  /\ st = c.tasks \ {Boot}
  /\ v = {t \in c.tasks : p[t] # "none"}
  /\ \A t \in c.tasks : p[t] = "EXITED" <=> p[t] # "none" /\ c.state[t] = "ZOMBIE"
  /\ p[c.current] # "none" => c.preempt_depth[c.current] = 0

(* Every thread of T that is not a zombie has a frame f it can return to.  *)
Framed(c, f, p, T) ==
  /\ f \in [Task -> FrameKind]
  /\ \A t \in T : c.state[t] # "ZOMBIE" => f[t] = IF p[t] # "none" THEN "user" ELSE "kernel"

(* The frame of the current thread is stale while it runs.                 *)
SchedulerInv ==
  /\ ~panicked
  /\ KernelTypeOK
  /\ Good(core) /\ Prompt(core)
  /\ core.now = pit
  /\ Owned(core, stack, proc, vm)
  /\ Framed(core, frame, proc, core.tasks \ {core.current})
  /\ NoSwitchLeftPending
  /\ NoLostInput
  /\ RunsOnOwnResources

-----------------------------------------------------------------------------
(* What the policy's operations leave alone                                *)

Waiting == {"BLOCKED", "SLEEPING", "ZOMBIE"}

(* sched_core_select: whoever waits goes on waiting, and unless preemption *)
(* is disabled the task it leaves current runs with no switch pending.     *)
LEMMA SelectFacts ==
  ASSUME NEW c, Good(c), Prompt(c), NEW force \in BOOLEAN,
         NEW d, d = sched_core_select(c, force)
  PROVE  /\ Good(d) /\ Prompt(d)
         /\ d.tasks = c.tasks /\ d.now = c.now /\ d.preempt_depth = c.preempt_depth
         /\ d.state[d.current] = "RUNNING"
         /\ d.preempt_depth[d.current] = 0 => ~d.reschedule
         /\ \A t \in Task, s \in Waiting : d.state[t] = s <=> c.state[t] = s
<1>1. Good(d) /\ Prompt(d)
  BY SelectGood, SelectPrompt
<1>2. /\ c \in SchedCoreType /\ c.current \in Task /\ c.state \in [Task -> SchedState]
      /\ c.reschedule \in BOOLEAN
  BY GoodFacts
<1>3. CASE KeepsCurrent(c, force)
  <2>1. d = c
    BY <1>3 DEF sched_core_select
  <2>2. /\ c.preempt_depth[c.current] = 0 => ~c.reschedule
        /\ c.state[c.current] = "RUNNING"
    BY <1>2, <1>3 DEF KeepsCurrent, Prompt
  <2> QED BY Zenon, <1>1, <2>1, <2>2
<1>4. CASE ~KeepsCurrent(c, force)
  <2> DEFINE b == PutBack(c)
             n == NextTask(b)
             r == RestReady(b)
  <2>1. Vacated(c, b)
    BY PutBackVacates
  <2>2. /\ b \in SchedCoreType /\ b.tasks = c.tasks /\ b.now = c.now
        /\ b.preempt_depth = c.preempt_depth
    BY <2>1 DEF Vacated
  <2>3. n \in Task /\ b.state[n] = "READY"
    BY <2>1, NextIsReady
  <2>4. d = [b EXCEPT !.ready = r, !.state[n] = "RUNNING", !.wake_tick[n] = 0,
                      !.quantum_left[n] = Quantum, !.current = n, !.reschedule = FALSE]
    BY <1>4 DEF sched_core_select, TakeNext, NextTask, RestReady
  <2>5. \A t \in Task, s \in Waiting : b.state[t] = s <=> c.state[t] = s
    <3>1. CASE c.state[c.current] # "RUNNING"
      BY <3>1 DEF PutBack
    <3>2. CASE c.state[c.current] = "RUNNING" /\ c.current = Idle
      BY <1>2, <3>2 DEF PutBack, SchedCoreType, Waiting
    <3>3. CASE c.state[c.current] = "RUNNING" /\ c.current # Idle
      <4>1. b.state = [t \in Task |-> IF t = c.current THEN "READY" ELSE c.state[t]]
        BY <1>2, <3>3 DEF PutBack, ready_push, SchedCoreType, Range
      <4> HIDE DEF b
      <4> QED BY <1>2, <3>3, <4>1 DEF Waiting
    <3> QED BY <3>1, <3>2, <3>3
  <2> HIDE DEF b, n, r
  <2>6. /\ d.tasks = c.tasks /\ d.now = c.now /\ d.preempt_depth = c.preempt_depth
        /\ d.current = n /\ d.reschedule = FALSE
        /\ d.state = [b.state EXCEPT ![n] = "RUNNING"]
    BY <2>2, <2>4 DEF SchedCoreType
  <2>7. b.state \in [Task -> SchedState]
    BY <2>2 DEF SchedCoreType
  <2>8. \A t \in Task, s \in Waiting : d.state[t] = s <=> b.state[t] = s
    BY <2>3, <2>6, <2>7 DEF Waiting
  <2>9. d.state[d.current] = "RUNNING"
    BY <2>3, <2>6, <2>7
  <2> QED BY <1>1, <2>5, <2>6, <2>8, <2>9
<1> QED BY <1>3, <1>4

(* sched_core_tick: only sleepers whose deadline came become ready.        *)
LEMMA TickFacts ==
  ASSUME NEW c, Good(c), NEW now \in Nat, CanTick(c, now),
         NEW d, d = sched_core_tick(c, now)
  PROVE  /\ d.tasks = c.tasks /\ d.current = c.current /\ d.now = now
         /\ d.preempt_depth = c.preempt_depth
         /\ \A t \in Task :
              \/ d.state[t] = c.state[t]
              \/ c.state[t] = "SLEEPING" /\ d.state[t] = "READY" /\ c.wake_tick[t] <= now
<1> DEFINE e == ChargeTick(c)
           s == c.sleepers
           k == LeadingDue(s, c.wake_tick, now)
           b == [e EXCEPT !.now = now, !.sleepers = SubSeq(@, k + 1, Len(@))]
           q == SubSeq(s, 1, k)
           Q == {s[i] : i \in 1..k}
<1>1. /\ c \in SchedCoreType /\ s \in Seq(Task) /\ c.wake_tick \in [Task -> Nat]
      /\ Enumerates(s, SleepingTasks(c))
  BY GoodFacts DEF QueuesValid
<1>2. /\ e \in SchedCoreType
      /\ e.tasks = c.tasks /\ e.current = c.current /\ e.sleepers = c.sleepers
      /\ e.state = c.state /\ e.preempt_depth = c.preempt_depth
  BY ChargeFacts
<1>3. d = ready_push(b, q)
  BY <1>2 DEF sched_core_tick
<1> HIDE DEF e, k
<1>4. /\ Len(s) \in Nat /\ k \in 0..Len(s) /\ 1 \in 1..Len(s)+1
      /\ \A i \in 1..k : c.wake_tick[s[i]] <= now
  <2>1. Len(s) \in Nat /\ k \in 0..Len(s) /\ \A i \in 1..k : c.wake_tick[s[i]] <= now
    BY Zenon, <1>1, LeadingDueStops DEF k
  <2> QED BY <2>1
<1>5. q \in Seq(Task) /\ Enumerates(q, Q)
  BY Zenon, <1>1, <1>4, EnumeratesSubSeq
<1>6. Q \subseteq SleepingTasks(c)
  BY SMTT(30), <1>1, <1>4, EnumeratesSplit
<1> HIDE DEF s, q
<1>7. /\ b.tasks = c.tasks /\ b.current = c.current /\ b.now = now
      /\ b.state = c.state /\ b.preempt_depth = c.preempt_depth /\ DOMAIN b = DOMAIN e
  BY <1>2 DEF SchedCoreType
<1> HIDE DEF b
<1>8. /\ d.tasks = c.tasks /\ d.current = c.current /\ d.now = now
      /\ d.preempt_depth = c.preempt_depth
      /\ d.state = [t \in Task |-> IF t \in Range(q) THEN "READY" ELSE c.state[t]]
  BY SMTT(30), <1>2, <1>3, <1>7 DEF ready_push, SchedCoreType
<1>9. Range(q) = Q
  BY <1>5 DEF Enumerates
<1>10. \A t \in Q : c.state[t] = "SLEEPING" /\ c.wake_tick[t] <= now
  BY <1>4, <1>6 DEF SleepingTasks
<1> HIDE DEF Q
<1> QED BY <1>8, <1>9, <1>10

(* sched_core_wake makes its task ready and touches no other.              *)
LEMMA WakeFacts ==
  ASSUME NEW c, Good(c), NEW t \in Task, CanWake(c, t),
         NEW d, d = sched_core_wake(c, t)
  PROVE  /\ d.tasks = c.tasks /\ d.current = c.current /\ d.now = c.now
         /\ d.preempt_depth = c.preempt_depth
         /\ d.state = [u \in Task |-> IF u = t THEN "READY" ELSE c.state[u]]
<1> DEFINE b == Unlink(c, t)
<1>1. c \in SchedCoreType
  BY GoodFacts
<1>2. /\ b.tasks = c.tasks /\ b.current = c.current /\ b.now = c.now
      /\ b.preempt_depth = c.preempt_depth /\ b.state = c.state
      /\ DOMAIN b = DOMAIN c
  BY <1>1 DEF Unlink, SchedCoreType
<1>3. d = ready_push(b, <<t>>)
  BY DEF sched_core_wake
<1>4. Range(<<t>>) = {t}
  BY DEF Range
<1> HIDE DEF b
<1>5. /\ d.tasks = c.tasks /\ d.current = c.current /\ d.now = c.now
      /\ d.preempt_depth = c.preempt_depth
      /\ d.state = [u \in Task |-> IF u \in Range(<<t>>) THEN "READY" ELSE c.state[u]]
  BY <1>1, <1>2, <1>3 DEF ready_push, SchedCoreType
<1> QED BY <1>4, <1>5

(* sched_core_add registers a ready task and touches no other; it asks for *)
(* a switch only if the current task is idle or does not run.              *)
LEMMA AddFacts ==
  ASSUME NEW c, Good(c), NEW t \in Task, CanAdd(c, t),
         NEW d, d = sched_core_add(c, t)
  PROVE  /\ d.tasks = c.tasks \cup {t} /\ d.current = c.current /\ d.now = c.now
         /\ d.preempt_depth = [c.preempt_depth EXCEPT ![t] = 0]
         /\ d.state = [u \in Task |-> IF u = t THEN "READY" ELSE c.state[u]]
         /\ d.reschedule = (c.reschedule \/ c.current = Idle \/ c.state[c.current] # "RUNNING")
<1> DEFINE b == [c EXCEPT !.tasks = @ \cup {t}, !.id[t] = c.next_id, !.next_id = @ + 1,
                          !.quantum_left[t] = Quantum, !.preempt_depth[t] = 0]
<1>1. c \in SchedCoreType
  BY Zenon, GoodFacts
<1>2. /\ b.tasks = c.tasks \cup {t} /\ b.current = c.current /\ b.now = c.now
      /\ b.preempt_depth = [c.preempt_depth EXCEPT ![t] = 0] /\ b.state = c.state
      /\ b.reschedule = c.reschedule /\ DOMAIN b = DOMAIN c
  BY <1>1 DEF SchedCoreType
<1>3. d = ready_push(b, <<t>>)
  BY DEF sched_core_add
<1>4. Range(<<t>>) = {t} /\ <<t>> # <<>>
  BY DEF Range
<1> HIDE DEF b
<1>5. /\ d.tasks = c.tasks \cup {t} /\ d.current = c.current /\ d.now = c.now
      /\ d.preempt_depth = [c.preempt_depth EXCEPT ![t] = 0]
      /\ d.state = [u \in Task |-> IF u \in Range(<<t>>) THEN "READY" ELSE c.state[u]]
      /\ d.reschedule = (c.reschedule \/ (<<t>> # <<>> /\ (c.current = Idle \/ c.state[c.current] # "RUNNING")))
  BY <1>1, <1>2, <1>3 DEF ready_push, SchedCoreType
<1>6. d.state = [u \in Task |-> IF u = t THEN "READY" ELSE c.state[u]]
  BY <1>4, <1>5
<1> QED BY Zenon, <1>4, <1>5, <1>6

(* The fields of a core without the tasks of Z.                            *)
LEMMA RemoveFacts ==
  ASSUME NEW c \in SchedCoreType, NEW Z, NEW d, d = RemoveZombies(c, Z)
  PROVE  /\ d \in SchedCoreType
         /\ d.tasks = c.tasks \ Z /\ d.current = c.current /\ d.ready = c.ready
         /\ d.sleepers = c.sleepers /\ d.now = c.now /\ d.next_id = c.next_id
         /\ d.reschedule = c.reschedule
         /\ d.id = [u \in Task |-> IF u \in Z THEN 0 ELSE c.id[u]]
         /\ d.state = [u \in Task |-> IF u \in Z THEN "RUNNING" ELSE c.state[u]]
         /\ d.wake_tick = [u \in Task |-> IF u \in Z THEN 0 ELSE c.wake_tick[u]]
         /\ d.quantum_left = [u \in Task |-> IF u \in Z THEN 0 ELSE c.quantum_left[u]]
         /\ d.preempt_depth = [u \in Task |-> IF u \in Z THEN 0 ELSE c.preempt_depth[u]]
<1>1. /\ d.tasks = c.tasks \ Z /\ d.current = c.current /\ d.ready = c.ready
      /\ d.sleepers = c.sleepers /\ d.now = c.now /\ d.next_id = c.next_id
      /\ d.reschedule = c.reschedule
      /\ d.id = [u \in Task |-> IF u \in Z THEN 0 ELSE c.id[u]]
      /\ d.state = [u \in Task |-> IF u \in Z THEN "RUNNING" ELSE c.state[u]]
      /\ d.wake_tick = [u \in Task |-> IF u \in Z THEN 0 ELSE c.wake_tick[u]]
      /\ d.quantum_left = [u \in Task |-> IF u \in Z THEN 0 ELSE c.quantum_left[u]]
      /\ d.preempt_depth = [u \in Task |-> IF u \in Z THEN 0 ELSE c.preempt_depth[u]]
  BY DEF RemoveZombies, SchedCoreType
<1>2. /\ c.tasks \in SUBSET Task /\ c.id \in [Task -> Nat] /\ c.state \in [Task -> SchedState]
      /\ c.wake_tick \in [Task -> Nat] /\ c.quantum_left \in [Task -> Nat]
      /\ c.preempt_depth \in [Task -> Nat]
  BY DEF SchedCoreType
<1>3. /\ c.tasks \ Z \in SUBSET Task
      /\ [u \in Task |-> IF u \in Z THEN 0 ELSE c.id[u]] \in [Task -> Nat]
      /\ [u \in Task |-> IF u \in Z THEN "RUNNING" ELSE c.state[u]] \in [Task -> SchedState]
      /\ [u \in Task |-> IF u \in Z THEN 0 ELSE c.wake_tick[u]] \in [Task -> Nat]
      /\ [u \in Task |-> IF u \in Z THEN 0 ELSE c.quantum_left[u]] \in [Task -> Nat]
      /\ [u \in Task |-> IF u \in Z THEN 0 ELSE c.preempt_depth[u]] \in [Task -> Nat]
  BY <1>2 DEF SchedState
<1>4. d \in SchedCoreType
  BY Zenon, <1>3 DEF SchedCoreType, RemoveZombies
<1> QED BY <1>1, <1>4

(* A core is what its fields are.                                          *)
LEMMA CoreIsItsFields ==
  ASSUME NEW c \in SchedCoreType
  PROVE  c = [tasks |-> c.tasks, current |-> c.current, ready |-> c.ready,
              sleepers |-> c.sleepers, now |-> c.now, next_id |-> c.next_id,
              reschedule |-> c.reschedule, id |-> c.id, state |-> c.state,
              wake_tick |-> c.wake_tick, quantum_left |-> c.quantum_left,
              preempt_depth |-> c.preempt_depth]
  BY DEF SchedCoreType

(* Zeroing the node of one more task.                                      *)
LEMMA ZeroOneMore ==
  ASSUME NEW f, NEW Z, NEW t \in Task, NEW z,
         NEW g, g = [u \in Task |-> IF u \in Z THEN z ELSE f[u]],
         NEW h, h = [u \in Task |-> IF u \in Z \cup {t} THEN z ELSE f[u]]
  PROVE  [g EXCEPT ![t] = z] = h
  BY Zenon

(* The reaper's removals, one after the other, come to RemoveZombies.      *)
LEMMA RemoveOneMore ==
  ASSUME NEW c \in SchedCoreType, NEW Z, NEW t \in Task
  PROVE  sched_core_remove_zombie(RemoveZombies(c, Z), t) = RemoveZombies(c, Z \cup {t})
<1> DEFINE a == RemoveZombies(c, Z)
           d == sched_core_remove_zombie(a, t)
           e == RemoveZombies(c, Z \cup {t})
<1>1. /\ a \in SchedCoreType
      /\ a.tasks = c.tasks \ Z /\ a.current = c.current /\ a.ready = c.ready
      /\ a.sleepers = c.sleepers /\ a.now = c.now /\ a.next_id = c.next_id
      /\ a.reschedule = c.reschedule
      /\ a.id = [u \in Task |-> IF u \in Z THEN 0 ELSE c.id[u]]
      /\ a.state = [u \in Task |-> IF u \in Z THEN "RUNNING" ELSE c.state[u]]
      /\ a.wake_tick = [u \in Task |-> IF u \in Z THEN 0 ELSE c.wake_tick[u]]
      /\ a.quantum_left = [u \in Task |-> IF u \in Z THEN 0 ELSE c.quantum_left[u]]
      /\ a.preempt_depth = [u \in Task |-> IF u \in Z THEN 0 ELSE c.preempt_depth[u]]
  BY RemoveFacts
<1>2. /\ e \in SchedCoreType
      /\ e.tasks = c.tasks \ (Z \cup {t}) /\ e.current = c.current /\ e.ready = c.ready
      /\ e.sleepers = c.sleepers /\ e.now = c.now /\ e.next_id = c.next_id
      /\ e.reschedule = c.reschedule
      /\ e.id = [u \in Task |-> IF u \in Z \cup {t} THEN 0 ELSE c.id[u]]
      /\ e.state = [u \in Task |-> IF u \in Z \cup {t} THEN "RUNNING" ELSE c.state[u]]
      /\ e.wake_tick = [u \in Task |-> IF u \in Z \cup {t} THEN 0 ELSE c.wake_tick[u]]
      /\ e.quantum_left = [u \in Task |-> IF u \in Z \cup {t} THEN 0 ELSE c.quantum_left[u]]
      /\ e.preempt_depth = [u \in Task |-> IF u \in Z \cup {t} THEN 0 ELSE c.preempt_depth[u]]
  BY RemoveFacts
<1> HIDE DEF a, e
<1>3. /\ [a.id EXCEPT ![t] = 0] = e.id
      /\ [a.state EXCEPT ![t] = "RUNNING"] = e.state
      /\ [a.wake_tick EXCEPT ![t] = 0] = e.wake_tick
      /\ [a.quantum_left EXCEPT ![t] = 0] = e.quantum_left
      /\ [a.preempt_depth EXCEPT ![t] = 0] = e.preempt_depth
  <2>1. [a.id EXCEPT ![t] = 0] = e.id
    <3>1. a.id = [u \in Task |-> IF u \in Z THEN 0 ELSE c.id[u]]
      BY Zenon, <1>1
    <3>2. e.id = [u \in Task |-> IF u \in Z \cup {t} THEN 0 ELSE c.id[u]]
      BY Zenon, <1>2
    <3> QED BY Zenon, <3>1, <3>2, ZeroOneMore
  <2>2. [a.state EXCEPT ![t] = "RUNNING"] = e.state
    <3>1. a.state = [u \in Task |-> IF u \in Z THEN "RUNNING" ELSE c.state[u]]
      BY Zenon, <1>1
    <3>2. e.state = [u \in Task |-> IF u \in Z \cup {t} THEN "RUNNING" ELSE c.state[u]]
      BY Zenon, <1>2
    <3> QED BY Zenon, <3>1, <3>2, ZeroOneMore
  <2>3. [a.wake_tick EXCEPT ![t] = 0] = e.wake_tick
    <3>1. a.wake_tick = [u \in Task |-> IF u \in Z THEN 0 ELSE c.wake_tick[u]]
      BY Zenon, <1>1
    <3>2. e.wake_tick = [u \in Task |-> IF u \in Z \cup {t} THEN 0 ELSE c.wake_tick[u]]
      BY Zenon, <1>2
    <3> QED BY Zenon, <3>1, <3>2, ZeroOneMore
  <2>4. [a.quantum_left EXCEPT ![t] = 0] = e.quantum_left
    <3>1. a.quantum_left = [u \in Task |-> IF u \in Z THEN 0 ELSE c.quantum_left[u]]
      BY Zenon, <1>1
    <3>2. e.quantum_left = [u \in Task |-> IF u \in Z \cup {t} THEN 0 ELSE c.quantum_left[u]]
      BY Zenon, <1>2
    <3> QED BY Zenon, <3>1, <3>2, ZeroOneMore
  <2>5. [a.preempt_depth EXCEPT ![t] = 0] = e.preempt_depth
    <3>1. a.preempt_depth = [u \in Task |-> IF u \in Z THEN 0 ELSE c.preempt_depth[u]]
      BY Zenon, <1>1
    <3>2. e.preempt_depth = [u \in Task |-> IF u \in Z \cup {t} THEN 0 ELSE c.preempt_depth[u]]
      BY Zenon, <1>2
    <3> QED BY Zenon, <3>1, <3>2, ZeroOneMore
  <2> QED BY Zenon, <2>1, <2>2, <2>3, <2>4, <2>5
<1>4. /\ d \in SchedCoreType
      /\ d.tasks = a.tasks \ {t} /\ d.current = a.current /\ d.ready = a.ready
      /\ d.sleepers = a.sleepers /\ d.now = a.now /\ d.next_id = a.next_id
      /\ d.reschedule = a.reschedule
      /\ d.id = [a.id EXCEPT ![t] = 0]
      /\ d.state = [a.state EXCEPT ![t] = "RUNNING"]
      /\ d.wake_tick = [a.wake_tick EXCEPT ![t] = 0]
      /\ d.quantum_left = [a.quantum_left EXCEPT ![t] = 0]
      /\ d.preempt_depth = [a.preempt_depth EXCEPT ![t] = 0]
  <2>1. /\ d.tasks = a.tasks \ {t} /\ d.current = a.current /\ d.ready = a.ready
        /\ d.sleepers = a.sleepers /\ d.now = a.now /\ d.next_id = a.next_id
        /\ d.reschedule = a.reschedule
        /\ d.id = [a.id EXCEPT ![t] = 0]
        /\ d.state = [a.state EXCEPT ![t] = "RUNNING"]
        /\ d.wake_tick = [a.wake_tick EXCEPT ![t] = 0]
        /\ d.quantum_left = [a.quantum_left EXCEPT ![t] = 0]
        /\ d.preempt_depth = [a.preempt_depth EXCEPT ![t] = 0]
    BY Zenon, <1>1 DEF sched_core_remove_zombie, SchedCoreType
  <2>2. /\ a.tasks \ {t} \in SUBSET Task /\ [a.id EXCEPT ![t] = 0] \in [Task -> Nat]
        /\ [a.state EXCEPT ![t] = "RUNNING"] \in [Task -> SchedState]
        /\ [a.wake_tick EXCEPT ![t] = 0] \in [Task -> Nat]
        /\ [a.quantum_left EXCEPT ![t] = 0] \in [Task -> Nat]
        /\ [a.preempt_depth EXCEPT ![t] = 0] \in [Task -> Nat]
    <3>1. /\ a.tasks \in SUBSET Task /\ a.id \in [Task -> Nat]
          /\ a.state \in [Task -> SchedState] /\ a.wake_tick \in [Task -> Nat]
          /\ a.quantum_left \in [Task -> Nat] /\ a.preempt_depth \in [Task -> Nat]
      BY Zenon, <1>1 DEF SchedCoreType
    <3>2. "RUNNING" \in SchedState
      BY DEF SchedState
    <3> QED BY <3>1, <3>2
  <2>3. d \in SchedCoreType
    BY Zenon, <1>1, <2>2 DEF sched_core_remove_zombie, SchedCoreType
  <2> QED BY Zenon, <2>1, <2>3
<1>5. a.tasks \ {t} = e.tasks
  BY <1>1, <1>2
<1> HIDE DEF d
<1>6. d = [tasks |-> d.tasks, current |-> d.current, ready |-> d.ready,
           sleepers |-> d.sleepers, now |-> d.now, next_id |-> d.next_id,
           reschedule |-> d.reschedule, id |-> d.id, state |-> d.state,
           wake_tick |-> d.wake_tick, quantum_left |-> d.quantum_left,
           preempt_depth |-> d.preempt_depth]
  BY Zenon, <1>4, CoreIsItsFields
<1>7. e = [tasks |-> e.tasks, current |-> e.current, ready |-> e.ready,
           sleepers |-> e.sleepers, now |-> e.now, next_id |-> e.next_id,
           reschedule |-> e.reschedule, id |-> e.id, state |-> e.state,
           wake_tick |-> e.wake_tick, quantum_left |-> e.quantum_left,
           preempt_depth |-> e.preempt_depth]
  BY Zenon, <1>2, CoreIsItsFields
<1>8. d = e
  BY Zenon, <1>1, <1>2, <1>3, <1>4, <1>5, <1>6, <1>7
<1> QED BY Zenon, <1>8 DEF a, d, e

(* Zombies that are neither current nor idle can all be removed at once.   *)
LEMMA RemoveZombiesGood ==
  ASSUME NEW c, Good(c), Prompt(c), NEW Z, Z \subseteq c.tasks \ {c.current, Idle},
         \A t \in Z : c.state[t] = "ZOMBIE"
  PROVE  Good(RemoveZombies(c, Z)) /\ Prompt(RemoveZombies(c, Z))
<1> DEFINE d == RemoveZombies(c, Z)
<1>1. /\ c \in SchedCoreType
      /\ c.tasks \in SUBSET Task /\ c.current \in c.tasks /\ Idle \in c.tasks
      /\ c.id \in [Task -> Nat] /\ c.state \in [Task -> SchedState]
      /\ c.wake_tick \in [Task -> Nat]
      /\ IsFiniteSet(c.tasks)
      /\ RegistryValid(c) /\ NodesValid(c) /\ QueuesValid(c)
      /\ c.state[c.current] # "RUNNING" => c.reschedule
  BY GoodFacts
<1>2. /\ d \in SchedCoreType
      /\ d.tasks = c.tasks \ Z /\ d.current = c.current /\ d.ready = c.ready
      /\ d.sleepers = c.sleepers /\ d.now = c.now /\ d.next_id = c.next_id
      /\ d.reschedule = c.reschedule
      /\ \A t \in Task \ Z :
           /\ d.id[t] = c.id[t] /\ d.state[t] = c.state[t] /\ d.wake_tick[t] = c.wake_tick[t]
           /\ d.quantum_left[t] = c.quantum_left[t] /\ d.preempt_depth[t] = c.preempt_depth[t]
  <2>a. c \in SchedCoreType
    BY <1>1
  <2>1. /\ d \in SchedCoreType
        /\ d.tasks = c.tasks \ Z /\ d.current = c.current /\ d.ready = c.ready
        /\ d.sleepers = c.sleepers /\ d.now = c.now /\ d.next_id = c.next_id
        /\ d.reschedule = c.reschedule
        /\ d.id = [u \in Task |-> IF u \in Z THEN 0 ELSE c.id[u]]
        /\ d.state = [u \in Task |-> IF u \in Z THEN "RUNNING" ELSE c.state[u]]
        /\ d.wake_tick = [u \in Task |-> IF u \in Z THEN 0 ELSE c.wake_tick[u]]
        /\ d.quantum_left = [u \in Task |-> IF u \in Z THEN 0 ELSE c.quantum_left[u]]
        /\ d.preempt_depth = [u \in Task |-> IF u \in Z THEN 0 ELSE c.preempt_depth[u]]
    BY <2>a, RemoveFacts
  <2> HIDE DEF d
  <2> QED BY <2>1
<1> HIDE DEF d
<1>3. /\ IsFiniteSet(d.tasks) /\ Cardinality(d.tasks) \in Nat /\ Cardinality(c.tasks) \in Nat
      /\ Cardinality(d.tasks) <= Cardinality(c.tasks)
  <2>1. d.tasks \subseteq c.tasks
    BY <1>2
  <2> QED BY <1>1, <2>1, FS_Subset, FS_CardinalityType
<1>4. c.current \notin Z /\ Idle \notin Z /\ c.current \in Task
  BY <1>1
<1>5. RegistryValid(d)
  BY <1>1, <1>2, <1>3, <1>4, BoundAssumption DEF RegistryValid
<1>6. NodesValid(d)
  BY SMTT(30), <1>1, <1>2, <1>4 DEF NodesValid
<1>7. ReadyTasks(d) = ReadyTasks(c) /\ SleepingTasks(d) = SleepingTasks(c)
  BY <1>1, <1>2 DEF ReadyTasks, SleepingTasks
<1>8. Ordered(d.sleepers, d.wake_tick)
  <2>1. \A x \in SleepingTasks(c) : d.wake_tick[x] = c.wake_tick[x]
    BY Zenon, <1>1, <1>2 DEF SleepingTasks
  <2>2. /\ c.sleepers \in Seq(Task) /\ Enumerates(c.sleepers, SleepingTasks(c))
        /\ Ordered(c.sleepers, c.wake_tick)
    BY Zenon, <1>1, GoodFacts DEF QueuesValid
  <2>3. Ordered(c.sleepers, d.wake_tick)
    BY SMTT(30), <2>1, <2>2, OrderedSame
  <2> QED BY <1>2, <2>3
<1>9. QueuesValid(d)
  BY Zenon, <1>1, <1>2, <1>7, <1>8 DEF QueuesValid
<1>10. d.state[d.current] # "RUNNING" => d.reschedule
  BY <1>1, <1>2, <1>4
<1>11. Good(d)
  BY Zenon, <1>2, <1>3, <1>5, <1>6, <1>9, <1>10 DEF Good, sched_core_validate
<1>12. Prompt(d)
  BY <1>2, <1>4 DEF Prompt
<1> QED BY <1>11, <1>12 DEF d

-----------------------------------------------------------------------------
(* The end of a kernel entry                                               *)

(* What the variables of SchedulerInv are, where a proof needs no more.    *)
LEMMA InvFacts ==
  ASSUME SchedulerInv
  PROVE  /\ Good(core) /\ Prompt(core) /\ core.now = pit /\ pit \in 0..MaxTick
         /\ core \in SchedCoreType /\ core.tasks \in SUBSET Task
         /\ core.current \in core.tasks /\ core.current \in Task
         /\ core.state \in [Task -> SchedState] /\ core.preempt_depth \in [Task -> Nat]
         /\ Idle \in core.tasks /\ NodesValid(core) /\ sched_core_validate(core)
         /\ Owned(core, stack, proc, vm)
         /\ Framed(core, frame, proc, core.tasks \ {core.current})
         /\ NoSwitchLeftPending /\ NoLostInput /\ RunsOnOwnResources
         /\ raw \in RawType /\ pc \in PcType /\ ~panicked
<1>1. Good(core) /\ pit \in 0..MaxTick /\ raw \in RawType /\ pc \in PcType
  BY Zenon DEF SchedulerInv, KernelTypeOK, RawType, PcType
<1>2. /\ core \in SchedCoreType /\ core.tasks \in SUBSET Task
      /\ core.current \in core.tasks /\ Idle \in core.tasks /\ NodesValid(core)
      /\ core.state \in [Task -> SchedState] /\ core.preempt_depth \in [Task -> Nat]
  BY <1>1, GoodFacts
<1>3. core.current \in Task
  BY <1>2
<1> QED BY <1>1, <1>2, <1>3 DEF SchedulerInv, Good

(* select_frame after policy calls that all succeeded: it panics nowhere   *)
(* and leaves the CPU to a thread with everything it needs.                *)
LEMMA EntryEnds ==
  ASSUME SchedulerInv,
         NEW c, Good(c), Prompt(c), NEW f, NEW force \in BOOLEAN, NEW ok, ok,
         select_frame(c, ok, force, f),
         Owned(c, stack, proc', vm), Framed(c, f, proc', c.tasks),
         \A t \in Task : proc'[t] # "none" <=> proc[t] # "none",
         stack' = stack, vm' = vm,
         c.now = pit', pit' \in 0..MaxTick, raw' \in RawType, pc' \in PcType,
         c.state[Boot] = "BLOCKED" => ~keyboard_has_pending(raw')
  PROVE  SchedulerInv'
<1> DEFINE d == sched_core_select(c, force)
           n == d.current
<1>1. /\ core' = d /\ frame' = f /\ rsp0' = n
      /\ cr3' = (IF IsUser(n) THEN n ELSE Kernel)
      /\ panicked' = ~(ok /\ CanSelect(c) /\ valid_frame(n, f))
  BY Zenon DEF select_frame
<1>2. /\ Good(d) /\ Prompt(d)
      /\ d.tasks = c.tasks /\ d.now = c.now /\ d.preempt_depth = c.preempt_depth
      /\ d.state[d.current] = "RUNNING"
      /\ d.preempt_depth[d.current] = 0 => ~d.reschedule
      /\ \A t \in Task, s \in Waiting : d.state[t] = s <=> c.state[t] = s
  BY SelectFacts
<1> HIDE DEF d
<1>3. /\ d \in SchedCoreType /\ n \in c.tasks /\ n \in Task /\ c.tasks \in SUBSET Task
      /\ NodesValid(c)
  <2>1. d \in SchedCoreType /\ n \in d.tasks /\ d.tasks \in SUBSET Task
    BY Zenon, <1>2, GoodFacts
  <2> QED BY Zenon, <1>2, <2>1, GoodFacts
<1>4. \A t \in Task : /\ d.state[t] = "ZOMBIE" <=> c.state[t] = "ZOMBIE"
                      /\ d.state[t] = "BLOCKED" <=> c.state[t] = "BLOCKED"
  BY Zenon, <1>2 DEF Waiting
<1>5. c.state[n] # "ZOMBIE"
  BY Zenon, <1>2, <1>3, <1>4
<1>6. panicked' = FALSE
  <2>1. n \in stack \cup {Boot}
    BY Zenon, <1>3 DEF Owned
  <2>2. f[n] = IF IsUser(n) THEN "user" ELSE "kernel"
    BY <1>3, <1>5 DEF Framed, IsUser
  <2>3. valid_frame(n, f)
    BY <2>1, <2>2 DEF valid_frame
  <2>4. CanSelect(c)
    BY DEF CanSelect, Good
  <2> QED BY Zenon, <1>1, <2>3, <2>4
<1>7. Owned(d, stack', proc', vm')
  <2>1. d.preempt_depth[n] = 0 \/ n = c.current
    BY Zenon, <1>2, <1>3 DEF NodesValid
  <2>2. proc'[n] # "none" => d.preempt_depth[n] = 0
    BY Zenon, <1>2, <2>1 DEF Owned
  <2> QED BY <1>2, <1>3, <1>4, <2>2, TaskAssumption DEF Owned
<1>8. Framed(d, f, proc', d.tasks \ {n})
  BY Zenon, <1>2, <1>3, <1>4 DEF Framed
<1>9. NoSwitchLeftPending'
  BY Zenon, <1>1, <1>2 DEF NoSwitchLeftPending
<1>10. NoLostInput'
  BY Zenon, <1>1, <1>4, TaskAssumption DEF NoLostInput
<1>11. RunsOnOwnResources'
  <2>1. n \in stack' \cup {Boot}
    BY Zenon, <1>3 DEF Owned
  <2>2. cr3' = (IF proc'[n] # "none" THEN n ELSE Kernel)
    BY Zenon, <1>1, <1>3 DEF IsUser
  <2>3. cr3' # Kernel => cr3' \in vm'
    BY Zenon, <1>3, <2>2 DEF Owned
  <2> QED BY Zenon, <1>1, <2>1, <2>2, <2>3 DEF RunsOnOwnResources, IsUser
<1>12. KernelTypeOK'
  <2>1. /\ stack' \subseteq Task /\ vm' \subseteq Task /\ proc' \in [Task -> ProcState]
    BY Zenon, <1>3 DEF Owned
  <2>2. frame' \in [Task -> FrameKind]
    BY Zenon, <1>1 DEF Framed
  <2>3. cr3' \in Task \cup {Kernel} /\ rsp0' \in Task
    BY Zenon, <1>1, <1>3
  <2> QED BY Zenon, <1>1, <1>3, <1>6, <2>1, <2>2, <2>3
          DEF KernelTypeOK, CoreTypeOK, ProcState, FrameKind, RawType, PcType
<1> QED BY Zenon, <1>1, <1>2, <1>6, <1>7, <1>8, <1>9, <1>10, <1>11, <1>12 DEF SchedulerInv

(* c is the core after policy calls of a handler that left the registry    *)
(* alone and ended no process.                                             *)
Follows(c) ==
  /\ Good(c) /\ Prompt(c)
  /\ c.tasks = core.tasks /\ c.current = core.current
  /\ \A t \in Task : core.state[t] = "ZOMBIE" => c.state[t] = "ZOMBIE"
  /\ \A t \in Task : IsUser(t) /\ c.state[t] = "ZOMBIE" => core.state[t] = "ZOMBIE"
  /\ c.state[Boot] # "ZOMBIE"
  /\ IsUser(core.current) => c.preempt_depth[core.current] = 0

(* Such calls do not disturb who owns what, and the frame the entry saved  *)
(* completes the others.                                                   *)
LEMMA FollowsOwned ==
  ASSUME SchedulerInv, NEW c, Follows(c)
  PROVE  /\ Owned(c, stack, proc, vm)
         /\ \A kind \in FrameKind :
              /\ kind = (IF IsUser(core.current) THEN "user" ELSE "kernel")
              => Framed(c, Saved(kind), proc, c.tasks)
<1>1. /\ core.tasks \in SUBSET Task /\ core.current \in core.tasks
      /\ Owned(core, stack, proc, vm)
      /\ Framed(core, frame, proc, core.tasks \ {core.current})
  BY InvFacts
<1>2. Owned(c, stack, proc, vm)
  BY Zenon, <1>1, TaskAssumption DEF Owned, Follows, IsUser
<1>3. ASSUME NEW kind \in FrameKind, kind = (IF IsUser(core.current) THEN "user" ELSE "kernel")
      PROVE  Framed(c, Saved(kind), proc, c.tasks)
  <2>1. Saved(kind) \in [Task -> FrameKind]
    BY <1>1 DEF Saved, Framed
  <2>2. Saved(kind)[core.current] = kind
    BY <1>1 DEF Saved, Framed
  <2>3. \A t \in core.tasks \ {core.current} : Saved(kind)[t] = frame[t]
    BY <1>1 DEF Saved, Framed
  <2> QED BY <1>1, <1>3, <2>1, <2>2, <2>3 DEF Framed, Follows, IsUser
<1> QED BY <1>2, <1>3

(* exit_user ends the process of the current thread, which must run.       *)
LEMMA ExitEnds ==
  ASSUME SchedulerInv, NEW c, Follows(c), IsUser(core.current),
         c.state[core.current] = "RUNNING", NEW kind \in FrameKind, NEW ok, ok,
         exit_user(c, ok, Saved(kind)),
         stack' = stack, vm' = vm,
         c.now = pit', pit' \in 0..MaxTick, raw' \in RawType, pc' \in PcType,
         c.state[Boot] = "BLOCKED" => ~keyboard_has_pending(raw')
  PROVE  SchedulerInv'
<1> DEFINE e == sched_core_exit_current(c)
           p == [proc EXCEPT ![c.current] = "EXITED"]
           f == Saved(kind)
           fine == ok /\ frame_owned /\ proc[c.current] = "READY" /\ CanExit(c)
<1>1. /\ core.tasks \in SUBSET Task /\ core.current \in core.tasks /\ core.current \in Task
      /\ core.state[core.current] = "RUNNING"
      /\ Owned(core, stack, proc, vm) /\ Owned(c, stack, proc, vm)
      /\ Framed(core, frame, proc, core.tasks \ {core.current})
      /\ RunsOnOwnResources
  <2>1. /\ core.preempt_depth[core.current] = 0
    BY Zenon, InvFacts DEF Owned, IsUser
  <2> QED BY Zenon, <2>1, InvFacts, FollowsOwned DEF NoSwitchLeftPending
<1>2. c.current = core.current /\ c.tasks = core.tasks /\ Good(c) /\ Prompt(c)
  BY Zenon DEF Follows
<1>3. current_can_wait(c)
  BY Zenon, <1>1, <1>2 DEF current_can_wait, Good, Follows, Owned, IsUser
<1>4. Good(e) /\ Prompt(e)
  <2>1. Good(e)
    BY Zenon, <1>2, <1>3, ParkGood DEF sched_core_exit_current
  <2>2. /\ e.current = c.current /\ e.reschedule = TRUE
        /\ e.preempt_depth = c.preempt_depth
    BY <1>2, GoodFacts DEF sched_core_exit_current, SchedCoreType
  <2> QED BY Zenon, <1>2, <1>3, <2>1, <2>2, ParkPrompt
<1>5. /\ e.tasks = c.tasks /\ e.current = c.current /\ e.now = c.now
      /\ e.preempt_depth = c.preempt_depth
      /\ e.state = [c.state EXCEPT ![c.current] = "ZOMBIE"]
      /\ c.state \in [Task -> SchedState]
  <2>1. c \in SchedCoreType
    BY Zenon, <1>2, GoodFacts
  <2> QED BY <2>1 DEF sched_core_exit_current, SchedCoreType
<1>6. proc' = p /\ select_frame(e, fine, TRUE, f)
  BY Zenon DEF exit_user
<1>7. fine
  <2>1. proc[core.current] = "READY"
    BY Zenon, <1>1 DEF Owned, IsUser, ProcState
  <2>2. frame_owned
    BY Zenon, <1>1 DEF RunsOnOwnResources, frame_owned
  <2> QED BY <1>2, <1>3, <2>1, <2>2 DEF CanExit
<1>8. core.current # Boot
  BY Zenon, <1>1 DEF Owned, IsUser
<1> HIDE DEF e, fine
<1>9. Owned(e, stack, p, vm)
  <2>1. /\ Boot \in c.tasks /\ c.state[Boot] # "ZOMBIE"
        /\ proc \in [Task -> ProcState] /\ proc[Boot] = "none" /\ proc[Idle] = "none"
        /\ \A t \in Task \ c.tasks : proc[t] = "none"
        /\ stack = c.tasks \ {Boot} /\ vm = {t \in c.tasks : proc[t] # "none"}
        /\ \A t \in c.tasks : proc[t] = "EXITED" <=> proc[t] # "none" /\ c.state[t] = "ZOMBIE"
        /\ c.preempt_depth[c.current] = 0
        /\ proc[c.current] # "none"
        /\ c.current \in c.tasks /\ c.tasks \in SUBSET Task /\ c.current # Boot
    BY Zenon, <1>1, <1>2, <1>8 DEF Owned, IsUser
  <2>2. /\ p \in [Task -> ProcState]
        /\ \A t \in Task : p[t] = IF t = c.current THEN "EXITED" ELSE proc[t]
    BY <2>1 DEF ProcState
  <2>3. \A t \in Task : e.state[t] = IF t = c.current THEN "ZOMBIE" ELSE c.state[t]
    BY Zenon, <1>5
  <2> HIDE DEF p
  <2>4. /\ p[Boot] = "none" /\ p[Idle] = "none" /\ e.state[Boot] # "ZOMBIE"
        /\ \A t \in Task \ c.tasks : p[t] = "none"
        /\ \A t \in c.tasks : p[t] # "none" <=> proc[t] # "none"
    BY <2>1, <2>2, <2>3, TaskAssumption
  <2>5. \A t \in c.tasks : p[t] = "EXITED" <=> p[t] # "none" /\ e.state[t] = "ZOMBIE"
    BY <2>1, <2>2, <2>3
  <2>6. vm = {t \in c.tasks : p[t] # "none"}
    BY Zenon, <2>1, <2>4
  <2> QED BY Zenon, <1>5, <2>1, <2>2, <2>4, <2>5, <2>6 DEF Owned
<1>10. Framed(e, f, p, e.tasks)
  <2>1. f \in [Task -> FrameKind] /\ \A t \in core.tasks \ {core.current} : f[t] = frame[t]
    BY Zenon, <1>1 DEF Saved, Framed
  <2>2. \A t \in core.tasks \ {core.current} :
           /\ p[t] = proc[t]
           /\ e.state[t] # "ZOMBIE" => core.state[t] # "ZOMBIE"
    <3> SUFFICES ASSUME NEW t \in core.tasks \ {core.current}
                 PROVE  p[t] = proc[t] /\ (e.state[t] # "ZOMBIE" => core.state[t] # "ZOMBIE")
      BY Zenon
    <3>1. proc \in [Task -> ProcState] /\ t \in Task
      BY Zenon, <1>1 DEF Owned
    <3>2. p[t] = proc[t] /\ e.state[t] = c.state[t]
      BY Zenon, <1>2, <1>5, <3>1
    <3>3. c.state[t] # "ZOMBIE" => core.state[t] # "ZOMBIE"
      BY Zenon, <3>1 DEF Follows
    <3> QED BY Zenon, <3>2, <3>3
  <2>3. e.state[core.current] = "ZOMBIE"
    BY Zenon, <1>1, <1>2, <1>5
  <2> HIDE DEF f, p
  <2>4. \A t \in core.tasks \ {core.current} : core.state[t] # "ZOMBIE" =>
           frame[t] = IF proc[t] # "none" THEN "user" ELSE "kernel"
    BY Zenon, <1>1 DEF Framed
  <2>5. \A t \in e.tasks : e.state[t] # "ZOMBIE" => t \in core.tasks \ {core.current}
    BY Zenon, <1>2, <1>5, <2>3
  <2>6. \A t \in e.tasks : e.state[t] # "ZOMBIE" =>
           f[t] = IF p[t] # "none" THEN "user" ELSE "kernel"
    BY Zenon, <2>1, <2>2, <2>4, <2>5
  <2> QED BY Zenon, <2>1, <2>6 DEF Framed
<1>11. \A t \in Task : p[t] # "none" <=> proc[t] # "none"
  BY Zenon, <1>1, <1>2 DEF Owned, IsUser
<1>12. e.state[Boot] = "BLOCKED" => ~keyboard_has_pending(raw')
  BY Zenon, <1>2, <1>5, <1>8, TaskAssumption
<1> HIDE DEF p, f
<1> QED BY Zenon, <1>4, <1>5, <1>6, <1>7, <1>9, <1>10, <1>11, <1>12, EntryEnds

(* scheduler_on_interrupt, whatever the interrupted thread was.            *)
LEMMA InterruptEnds ==
  ASSUME SchedulerInv, NEW c, Follows(c), NEW kind \in FrameKinds,
         IsUser(core.current) => c.state[core.current] = "RUNNING",
         NEW force \in BOOLEAN, NEW ok, ok,
         on_interrupt(c, ok, force, kind),
         stack' = stack, vm' = vm,
         c.now = pit', pit' \in 0..MaxTick, raw' \in RawType, pc' \in PcType,
         c.state[Boot] = "BLOCKED" => ~keyboard_has_pending(raw')
  PROVE  SchedulerInv'
<1>1. kind \in FrameKind /\ c.current = core.current /\ Good(c) /\ Prompt(c)
  BY DEF FrameKinds, FrameKind, Follows
<1>2. CASE IsUser(c.current) /\ kind = "bad"
  <2>1. exit_user(c, ok, Saved(kind))
    BY Zenon, <1>2 DEF on_interrupt
  <2> QED BY Zenon, <1>1, <1>2, <2>1, ExitEnds
<1>3. CASE ~(IsUser(c.current) /\ kind = "bad")
  <2>1. select_frame(c, ok /\ frame_owned, force, Saved(kind)) /\ proc' = proc
    BY Zenon, <1>3 DEF on_interrupt
  <2>2. kind = IF IsUser(core.current) THEN "user" ELSE "kernel"
    BY Zenon, <1>1, <1>3 DEF FrameKinds
  <2>3. Owned(c, stack, proc', vm) /\ Framed(c, Saved(kind), proc', c.tasks)
    BY Zenon, <1>1, <2>1, <2>2, FollowsOwned
  <2>4. ok /\ frame_owned
    BY Zenon, InvFacts DEF RunsOnOwnResources, frame_owned
  <2>5. \A t \in Task : proc'[t] # "none" <=> proc[t] # "none"
    BY <2>1
  <2> DEFINE fine == ok /\ frame_owned
  <2>6. select_frame(c, fine, force, Saved(kind)) /\ fine
    BY Zenon, <2>1, <2>4
  <2> HIDE DEF fine
  <2> QED BY Zenon, <1>1, <2>3, <2>5, <2>6, EntryEnds
<1> QED BY Zenon, <1>2, <1>3

-----------------------------------------------------------------------------
(* Interrupts                                                              *)

(* The loop counter of idle after an interrupt.                            *)
LEMMA ResumedType ==
  ASSUME SchedulerInv
  PROVE  Resumed \in PcType
<1>1. pc \in PcType
  BY Zenon, InvFacts
<1> QED BY <1>1 DEF Resumed, PcType

(* The core itself follows, with no call at all.                           *)
LEMMA SelfFollows ==
  ASSUME SchedulerInv
  PROVE  /\ Follows(core)
         /\ IsUser(core.current) => core.state[core.current] = "RUNNING"
<1>1. IsUser(core.current) => core.preempt_depth[core.current] = 0
  BY Zenon, InvFacts DEF Owned, IsUser
<1>2. core.state[Boot] # "ZOMBIE" /\ Good(core) /\ Prompt(core) /\ NoSwitchLeftPending
  BY Zenon, InvFacts DEF Owned
<1> QED BY <1>1, <1>2 DEF Follows, NoSwitchLeftPending

(* IRQ0: the clock of the policy stays the PIT's, and no tick is refused.  *)
LEMMA TimerKeeps ==
  ASSUME SchedulerInv, TimerInterrupt
  PROVE  SchedulerInv'
<1> DEFINE now == pit_on_irq(pit)
           c == sched_core_tick(core, now)
<1>1. /\ Good(core) /\ Prompt(core) /\ core.now = pit /\ pit \in 0..MaxTick
      /\ sched_core_validate(core) /\ NoLostInput /\ raw \in RawType
      /\ core.current \in Task
  BY Zenon, InvFacts
<1>2. now \in 0..MaxTick /\ now \in Nat /\ now >= pit
  BY <1>1, BoundAssumption DEF pit_on_irq
<1> HIDE DEF now
<1>3. CanTick(core, now)
  BY <1>1, <1>2 DEF CanTick
<1>4. Good(c) /\ Prompt(c)
  BY <1>1, <1>2, <1>3, TickGood, TickPrompt
<1>5. /\ c.tasks = core.tasks /\ c.current = core.current /\ c.now = now
      /\ c.preempt_depth = core.preempt_depth
      /\ \A t \in Task :
           \/ c.state[t] = core.state[t]
           \/ /\ core.state[t] = "SLEEPING" /\ c.state[t] = "READY"
              /\ core.wake_tick[t] <= now
  BY <1>1, <1>2, <1>3, TickFacts
<1>6. Follows(core) /\ (IsUser(core.current) => core.state[core.current] = "RUNNING")
  BY SelfFollows
<1>7. PICK kind \in FrameKinds : on_interrupt(c, CanTick(core, now), FALSE, kind)
  BY Zenon DEF TimerInterrupt, now
<1>8. /\ pit' = now /\ raw' = raw /\ stack' = stack /\ vm' = vm /\ pc' = Resumed
  BY DEF TimerInterrupt, now
<1> HIDE DEF c
<1>9. Follows(c) /\ (IsUser(core.current) => c.state[core.current] = "RUNNING")
  BY Zenon, <1>1, <1>4, <1>5, <1>6, TaskAssumption DEF Follows
<1>10. c.state[Boot] = "BLOCKED" => ~keyboard_has_pending(raw')
  BY Zenon, <1>1, <1>5, <1>8, TaskAssumption DEF NoLostInput
<1>11. c.now = pit' /\ pit' \in 0..MaxTick /\ raw' \in RawType /\ pc' \in PcType
  BY Zenon, <1>1, <1>2, <1>5, <1>8, ResumedType
<1> QED BY Zenon, <1>3, <1>7, <1>8, <1>9, <1>10, <1>11, InterruptEnds

(* IRQ1: whoever waits for the byte that came is woken in the same step.   *)
LEMMA KeyboardKeeps ==
  ASSUME SchedulerInv, KeyboardInterrupt
  PROVE  SchedulerInv'
<1>1. /\ Good(core) /\ Prompt(core) /\ core.now = pit /\ pit \in 0..MaxTick
      /\ sched_core_validate(core) /\ NoLostInput /\ raw \in RawType
      /\ core.current \in Task /\ Boot \in core.tasks
      /\ core.state \in [Task -> SchedState]
  BY Zenon, InvFacts DEF Owned
<1>2. PICK r \in keyboard_on_irq(raw), kind \in FrameKinds :
        LET wakes == core.state[Boot] = "BLOCKED" /\ keyboard_has_pending(r)
        IN  /\ raw' = r
            /\ on_interrupt(IF wakes THEN sched_core_wake(core, Boot) ELSE core,
                            wakes => CanWake(core, Boot), FALSE, kind)
            /\ pc' = Resumed
            /\ UNCHANGED <<pit, stack, vm>>
  BY Zenon DEF KeyboardInterrupt
<1> DEFINE wakes == core.state[Boot] = "BLOCKED" /\ keyboard_has_pending(r)
           c == IF wakes THEN sched_core_wake(core, Boot) ELSE core
           ok == wakes => CanWake(core, Boot)
<1>3. /\ raw' = r /\ on_interrupt(c, ok, FALSE, kind) /\ pc' = Resumed
      /\ pit' = pit /\ stack' = stack /\ vm' = vm
  BY Zenon, <1>2
<1>4. r \in RawType
  <2>1. raw.count \in 0..RingSlots /\ raw.reset_pending \in BOOLEAN /\ RingSlots \in Nat
    BY <1>1, SchedulerAssumption DEF RawType
  <2>2. CASE r = raw
    BY <1>1, <2>2
  <2>3. CASE r = [count |-> 0, reset_pending |-> TRUE]
    BY <2>1, <2>3 DEF RawType
  <2>4. CASE raw.count # RingSlots /\ r = [raw EXCEPT !.count = @ + 1]
    <3>1. raw.count + 1 \in 0..RingSlots
      BY <2>1, <2>4
    <3>2. r = [count |-> raw.count + 1, reset_pending |-> raw.reset_pending]
      BY <1>1, <2>4 DEF RawType
    <3> QED BY <2>1, <3>1, <3>2 DEF RawType
  <2> QED BY <1>2, <2>2, <2>3, <2>4 DEF keyboard_on_irq
<1>5. ok
  BY <1>1 DEF CanWake
<1>6. Follows(core) /\ (IsUser(core.current) => core.state[core.current] = "RUNNING")
  BY SelfFollows
<1> HIDE DEF ok
<1>7. /\ Follows(c) /\ (IsUser(core.current) => c.state[core.current] = "RUNNING")
      /\ c.now = pit /\ (c.state[Boot] = "BLOCKED" => ~keyboard_has_pending(r))
  <2>1. CASE wakes
    <3> DEFINE d == sched_core_wake(core, Boot)
    <3>1. c = d /\ CanWake(core, Boot)
      BY Zenon, <2>1, <1>5 DEF ok
    <3>2. Good(d) /\ Prompt(d)
      BY Zenon, <1>1, <3>1, WakeGood, WakePrompt, TaskAssumption
    <3>3. /\ d.tasks = core.tasks /\ d.current = core.current /\ d.now = core.now
          /\ d.preempt_depth = core.preempt_depth
          /\ d.state = [u \in Task |-> IF u = Boot THEN "READY" ELSE core.state[u]]
      <4>1. Good(core) /\ Boot \in Task /\ CanWake(core, Boot)
        BY Zenon, <1>1, <3>1, TaskAssumption
      <4>2. d = sched_core_wake(core, Boot)
        BY Zenon
      <4> HIDE DEF d
      <4> QED BY <4>1, <4>2, WakeFacts
    <3> HIDE DEF d
    <3>4. Follows(d)
      BY Zenon, <1>1, <1>6, <2>1, <3>2, <3>3, TaskAssumption DEF Follows
    <3>5. IsUser(core.current) => d.state[core.current] = "RUNNING"
      BY Zenon, <1>1, <1>6, <2>1, <3>3
    <3>6. d.state[Boot] = "READY" /\ d.now = pit
      BY Zenon, <1>1, <3>3, TaskAssumption
    <3> QED BY Zenon, <3>1, <3>4, <3>5, <3>6
  <2>2. CASE ~wakes
    <3>1. c = core
      BY Zenon, <2>2
    <3> QED BY Zenon, <1>1, <1>6, <2>2, <3>1
  <2> QED BY Zenon, <2>1, <2>2
<1> HIDE DEF c
<1>8. /\ c.now = pit' /\ pit' \in 0..MaxTick /\ raw' \in RawType /\ pc' \in PcType
      /\ (c.state[Boot] = "BLOCKED" => ~keyboard_has_pending(raw'))
  BY Zenon, <1>1, <1>3, <1>4, <1>7, ResumedType
<1> QED BY Zenon, <1>2, <1>3, <1>5, <1>7, <1>8, InterruptEnds

-----------------------------------------------------------------------------
(* Kernel threads                                                          *)

(* The INT 240 trap of a kernel thread, after policy calls it follows.     *)
LEMMA TrapEnds ==
  ASSUME SchedulerInv, ~IsUser(core.current), NEW c, Follows(c), NEW ok, ok,
         yield_trap(c, ok), stack' = stack, vm' = vm, pit' = pit, raw' = raw,
         c.now = core.now, pc' \in PcType,
         c.state[Boot] = "BLOCKED" => ~keyboard_has_pending(raw)
  PROVE  SchedulerInv'
<1>1. "kernel" \in FrameKinds
  BY Zenon DEF FrameKinds
<1>2. on_interrupt(c, ok, TRUE, "kernel")
  BY Zenon DEF yield_trap
<1>3. pit \in 0..MaxTick /\ core.now = pit /\ raw \in RawType
  BY Zenon, InvFacts
<1>4. /\ c.now = pit' /\ pit' \in 0..MaxTick /\ raw' \in RawType
      /\ (c.state[Boot] = "BLOCKED" => ~keyboard_has_pending(raw'))
  BY <1>3
<1> QED BY Zenon, <1>1, <1>2, <1>4, InterruptEnds

(* scheduler_yield traps into the scheduler and nothing else.              *)
LEMMA YieldKeeps ==
  ASSUME SchedulerInv, thread_yield
  PROVE  SchedulerInv'
<1>1. ~IsUser(core.current) /\ yield_trap(core, TRUE)
      /\ stack' = stack /\ vm' = vm /\ pit' = pit /\ raw' = raw /\ pc' = pc
  BY Zenon DEF thread_yield, InCommand
<1>2. pc' \in PcType /\ NoLostInput
  BY Zenon, <1>1, InvFacts
<1> QED BY Zenon, <1>1, <1>2, SelfFollows, TrapEnds DEF NoLostInput

(* A kernel thread that parks itself: only the current state, its deadline *)
(* and the sleep list change.                                              *)
LEMMA ParkFollows ==
  ASSUME SchedulerInv, ~IsUser(core.current), NEW c, Good(c), Prompt(c),
         NEW s \in Waiting, s = "ZOMBIE" => core.current # Boot,
         c.tasks = core.tasks, c.current = core.current,
         core.state[core.current] = "RUNNING",
         c.state = [core.state EXCEPT ![core.current] = s]
  PROVE  Follows(c)
<1>1. core.current \in Task /\ core.state \in [Task -> SchedState]
  BY Zenon, InvFacts
<1>2. core.state[Boot] # "ZOMBIE"
  BY Zenon, InvFacts DEF Owned
<1> QED BY Zenon, <1>1, <1>2, TaskAssumption DEF Follows, Waiting

(* A parked kernel thread is switched away from in the same trap.          *)
LEMMA SleepKeeps ==
  ASSUME SchedulerInv, NEW delay \in 1..MaxSleep, thread_sleep_ms(delay)
  PROVE  SchedulerInv'
<1> DEFINE c == sched_core_sleep_current(core, delay)
<1>1. /\ ~IsUser(core.current) /\ CanSleep(core, delay) /\ yield_trap(c, TRUE)
      /\ stack' = stack /\ vm' = vm /\ pit' = pit /\ raw' = raw /\ pc' = pc
  BY Zenon DEF thread_sleep_ms, InCommand
<1>2. /\ Good(core) /\ Prompt(core) /\ core \in SchedCoreType /\ core.current \in Task
      /\ NoLostInput /\ pc \in PcType /\ core.state \in [Task -> SchedState]
  BY Zenon, InvFacts
<1>3. delay \in Nat
  BY SchedulerAssumption
<1>4. current_can_wait(core) /\ core.state[core.current] = "RUNNING"
  BY Zenon, <1>1 DEF CanSleep, current_can_wait
<1>5. /\ c.tasks = core.tasks /\ c.current = core.current /\ c.now = core.now
      /\ c.preempt_depth = core.preempt_depth /\ c.reschedule = TRUE
      /\ c.state = [core.state EXCEPT ![core.current] = "SLEEPING"]
  BY <1>2 DEF sched_core_sleep_current, SchedCoreType
<1>6. Good(c)
  BY Zenon, <1>1, <1>2, <1>3, SleepGood
<1> HIDE DEF c
<1>7. Prompt(c)
  BY Zenon, <1>2, <1>4, <1>5, ParkPrompt
<1>8. Follows(c)
  BY Zenon, <1>1, <1>4, <1>5, <1>6, <1>7, ParkFollows DEF Waiting
<1>9. c.state[Boot] = "BLOCKED" => ~keyboard_has_pending(raw)
  BY Zenon, <1>2, <1>5, TaskAssumption DEF NoLostInput
<1>10. c.now = core.now /\ pc' \in PcType
  BY Zenon, <1>1, <1>2, <1>5
<1> QED BY Zenon, <1>1, <1>8, <1>9, <1>10, TrapEnds

(* What parking the current thread of the core c in state s leaves.        *)
LEMMA ParkFacts ==
  ASSUME NEW c, Good(c), Prompt(c), current_can_wait(c), NEW s \in {"BLOCKED", "ZOMBIE"},
         NEW d, d = [c EXCEPT !.state[c.current] = s, !.reschedule = TRUE]
  PROVE  /\ Good(d) /\ Prompt(d) /\ d.tasks = c.tasks /\ d.current = c.current
         /\ d.now = c.now /\ d.preempt_depth = c.preempt_depth
         /\ d.state = [c.state EXCEPT ![c.current] = s]
<1>1. c \in SchedCoreType
  BY GoodFacts
<1>2. Good(d)
  BY Zenon, ParkGood
<1>3. /\ d.tasks = c.tasks /\ d.current = c.current /\ d.reschedule = TRUE
      /\ d.now = c.now /\ d.preempt_depth = c.preempt_depth
      /\ d.state = [c.state EXCEPT ![c.current] = s]
  BY <1>1 DEF SchedCoreType
<1>4. Prompt(d)
  BY Zenon, <1>3, ParkPrompt
<1> QED BY <1>2, <1>3, <1>4

(* thread_exit: the shell and idle never exit.                             *)
LEMMA ThreadExitKeeps ==
  ASSUME SchedulerInv, thread_exit
  PROVE  SchedulerInv'
<1> DEFINE c == sched_core_exit_current(core)
           ok == can_block /\ CanExit(core)
<1>1. /\ ~IsUser(core.current) /\ core.current # Idle /\ core.current # Boot
      /\ core.preempt_depth[core.current] = 0 /\ yield_trap(c, ok)
      /\ stack' = stack /\ vm' = vm /\ pit' = pit /\ raw' = raw /\ pc' = pc
  BY Zenon DEF thread_exit, InCommand
<1>2. /\ Good(core) /\ Prompt(core) /\ core.current \in Task /\ NoLostInput
      /\ pc \in PcType /\ core.state \in [Task -> SchedState]
      /\ NoSwitchLeftPending /\ sched_core_validate(core)
  BY Zenon, InvFacts
<1>3. current_can_wait(core) /\ ok /\ core.state[core.current] = "RUNNING"
  BY Zenon, <1>1, <1>2 DEF NoSwitchLeftPending, current_can_wait, CanExit, can_block
<1>4. /\ Good(c) /\ Prompt(c) /\ c.tasks = core.tasks /\ c.current = core.current
      /\ c.now = core.now /\ c.state = [core.state EXCEPT ![core.current] = "ZOMBIE"]
  <2>1. c = [core EXCEPT !.state[core.current] = "ZOMBIE", !.reschedule = TRUE]
    BY DEF sched_core_exit_current
  <2> HIDE DEF c
  <2> QED BY ZenonT(30), <1>2, <1>3, <2>1, ParkFacts
<1> HIDE DEF c, ok
<1>5. Follows(c)
  BY Zenon, <1>1, <1>3, <1>4, ParkFollows DEF Waiting
<1>6. (c.state[Boot] = "BLOCKED" => ~keyboard_has_pending(raw)) /\ pc' \in PcType
  BY Zenon, <1>1, <1>2, <1>4, TaskAssumption DEF NoLostInput
<1> QED BY Zenon, <1>1, <1>3, <1>4, <1>5, <1>6, TrapEnds

(* scheduler_wait_input blocks only after it looked at the ring with IF=0. *)
LEMMA WaitInputBlocks ==
  ASSUME SchedulerInv, core.current = Boot, can_block, ~keyboard_has_pending(raw),
         yield_trap(sched_core_block_current(core), CanBlock(core)),
         stack' = stack, vm' = vm, pit' = pit, raw' = raw, pc' \in PcType
  PROVE  SchedulerInv'
<1> DEFINE c == sched_core_block_current(core)
           ok == CanBlock(core)
<1>1. yield_trap(c, ok)
  OBVIOUS
<1>2. /\ Good(core) /\ Prompt(core) /\ NoSwitchLeftPending /\ sched_core_validate(core)
  BY Zenon, InvFacts
<1>3. current_can_wait(core) /\ ok /\ core.state[core.current] = "RUNNING"
  BY Zenon, <1>2 DEF NoSwitchLeftPending, current_can_wait, CanBlock, can_block
<1>4. /\ Good(c) /\ Prompt(c) /\ c.tasks = core.tasks /\ c.current = core.current
      /\ c.now = core.now /\ c.state = [core.state EXCEPT ![core.current] = "BLOCKED"]
  <2>1. c = [core EXCEPT !.state[core.current] = "BLOCKED", !.reschedule = TRUE]
    BY DEF sched_core_block_current
  <2> HIDE DEF c
  <2> QED BY ZenonT(30), <1>2, <1>3, <2>1, ParkFacts
<1>5. ~IsUser(core.current)
  BY Zenon, InvFacts DEF Owned, IsUser
<1> HIDE DEF c, ok
<1>6. Follows(c)
  BY Zenon, <1>3, <1>4, <1>5, ParkFollows DEF Waiting
<1> QED BY Zenon, <1>1, <1>3, <1>4, <1>5, <1>6, TrapEnds

(* Steps that touch the loops and the ring only.                           *)
LEMMA LoopEnds ==
  ASSUME SchedulerInv, UNCHANGED <<core, pit, stack, frame, proc, vm, cr3, rsp0, panicked>>,
         raw' \in RawType, pc' \in PcType,
         core.state[Boot] = "BLOCKED" => ~keyboard_has_pending(raw')
  PROVE  SchedulerInv'
<1>1. Good(core)' /\ Prompt(core)' /\ ~panicked' /\ core'.now = pit' /\ NoLostInput'
      /\ NoSwitchLeftPending' /\ RunsOnOwnResources'
      /\ Owned(core, stack, proc, vm)'
      /\ Framed(core, frame, proc, core.tasks \ {core.current})'
  BY Zenon, InvFacts DEF NoLostInput, NoSwitchLeftPending, RunsOnOwnResources, IsUser
<1>2. KernelTypeOK'
  BY Zenon DEF SchedulerInv, KernelTypeOK, CoreTypeOK, RawType, PcType
<1> QED BY Zenon, <1>1, <1>2 DEF SchedulerInv

(* Taking a byte out of the keyboard ring leaves the threads alone.        *)
LEMMA ReadByteKeeps ==
  ASSUME SchedulerInv, ReadByte
  PROVE  SchedulerInv'
<1>1. /\ raw \in RawType /\ pc \in PcType /\ NoSwitchLeftPending
  BY Zenon, InvFacts
<1>2. raw' \in RawType
  <2>1. raw.count \in 0..RingSlots /\ RingSlots \in Nat
    BY <1>1, SchedulerAssumption DEF RawType
  <2>2. (IF raw.count = 0 THEN 0 ELSE raw.count - 1) \in 0..RingSlots
    BY <2>1
  <2> QED BY Zenon, <2>2 DEF ReadByte, RawType
<1>3. pc' \in PcType
  BY Zenon, <1>1 DEF ReadByte, PcType
<1>4. core.state[Boot] # "BLOCKED"
  BY Zenon, <1>1 DEF ReadByte, NoSwitchLeftPending
<1> QED BY Zenon, <1>2, <1>3, <1>4, LoopEnds DEF ReadByte

(* The shell leaving its batch of input leaves the threads alone.          *)
LEMMA LeaveBatchKeeps ==
  ASSUME SchedulerInv, LeaveBatch
  PROVE  SchedulerInv'
<1>1. raw \in RawType /\ pc \in PcType /\ NoLostInput
  BY Zenon, InvFacts
<1>2. pc' \in PcType
  BY <1>1 DEF LeaveBatch, PcType
<1> QED BY <1>1, <1>2, LoopEnds DEF LeaveBatch, NoLostInput

(* The idle thread halting leaves every thread as it was.                  *)
LEMMA IdleHaltsKeeps ==
  ASSUME SchedulerInv, IdleHalts
  PROVE  SchedulerInv'
<1>1. raw \in RawType /\ pc \in PcType /\ NoLostInput
  BY Zenon, InvFacts
<1>2. pc' \in PcType
  BY <1>1 DEF IdleHalts, PcType
<1> QED BY <1>1, <1>2, LoopEnds DEF IdleHalts, NoLostInput

(* scheduler_wait_input blocks the shell only while the ring is empty.     *)
LEMMA WaitInputKeeps ==
  ASSUME SchedulerInv, scheduler_wait_input
  PROVE  SchedulerInv'
<1>1. raw \in RawType /\ pc \in PcType /\ NoLostInput
  BY Zenon, InvFacts
<1>2. /\ core.current = Boot /\ stack' = stack /\ vm' = vm /\ pit' = pit /\ raw' = raw
      /\ pc' = [pc EXCEPT ![Boot] = "reap"]
  BY DEF scheduler_wait_input
<1>3. pc' \in PcType
  BY <1>1, <1>2 DEF PcType
<1>4. CASE can_block /\ ~keyboard_has_pending(raw)
  <2>1. yield_trap(sched_core_block_current(core), CanBlock(core))
    BY Zenon, <1>4 DEF scheduler_wait_input
  <2> QED BY Zenon, <1>2, <1>3, <1>4, <2>1, WaitInputBlocks
<1>5. CASE ~(can_block /\ ~keyboard_has_pending(raw))
  <2>1. UNCHANGED <<core, frame, proc, cr3, rsp0, panicked>>
    BY Zenon, <1>5 DEF scheduler_wait_input
  <2> QED BY Zenon, <1>1, <1>2, <1>3, <2>1, LoopEnds DEF NoLostInput
<1> QED BY <1>4, <1>5

(* A change of the nesting depth that leaves no switch pending behind it.  *)
LEMMA DepthEnds ==
  ASSUME SchedulerInv, ~IsUser(core.current), NEW c, Good(c), Prompt(c),
         NEW n \in Nat, c = [core EXCEPT !.preempt_depth[core.current] = n],
         core.state[core.current] = "RUNNING", n = 0 => ~core.reschedule,
         core' = c, panicked' = FALSE,
         UNCHANGED <<pit, raw, stack, frame, proc, vm, cr3, rsp0, pc>>
  PROVE  SchedulerInv'
<1>1. core \in SchedCoreType /\ core.current \in Task
  BY InvFacts
<1>2. /\ c.tasks = core.tasks /\ c.current = core.current /\ c.now = core.now
      /\ c.state = core.state /\ c.reschedule = core.reschedule
      /\ c.preempt_depth[core.current] = n
  BY <1>1 DEF SchedCoreType
<1>3. ~panicked' /\ Good(core') /\ Prompt(core') /\ core'.now = pit'
  BY <1>2, InvFacts
<1>4. /\ NoLostInput' /\ NoSwitchLeftPending' /\ RunsOnOwnResources'
  BY Zenon, <1>2, InvFacts DEF NoLostInput, NoSwitchLeftPending, RunsOnOwnResources, IsUser
<1>5. Owned(core', stack', proc', vm')
  BY <1>2, InvFacts DEF Owned, IsUser
<1>6. Framed(core', frame', proc', core'.tasks \ {core'.current})
  BY <1>2, InvFacts DEF Framed
<1>7. KernelTypeOK'
  <2>1. core' \in SchedCoreType
    BY <1>3, GoodFacts
  <2>2. CoreTypeOK'
    BY <2>1 DEF CoreTypeOK
  <2>3. KernelTypeOK
    BY DEF SchedulerInv
  <2> QED BY Zenon, <2>2, <2>3 DEF KernelTypeOK
<1> QED BY <1>3, <1>4, <1>5, <1>6, <1>7 DEF SchedulerInv

=============================================================================
