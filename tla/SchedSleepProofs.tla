-------------------------- MODULE SchedSleepProofs --------------------------
(* Sleep in the scheduler as the kernel runs it: only the timer, and only   *)
(* from the deadline on, makes a sleeping thread ready again.               *)
EXTENDS SchedulerProofs

-----------------------------------------------------------------------------
(* Sleepers                                                                *)

(* The selection that ends an entry wakes nobody.                          *)
LEMMA SelectWakesNobody ==
  ASSUME NEW c, Good(c), Prompt(c), NEW force \in BOOLEAN, NEW ok, NEW f,
         select_frame(c, ok, force, f), NEW t \in Task, c.state[t] = "SLEEPING"
  PROVE  core'.state[t] = "SLEEPING"
<1> DEFINE d == sched_core_select(c, force)
<1>1. core' = d
  BY DEF select_frame
<1>2. \A u \in Task, s \in Waiting : d.state[u] = s <=> c.state[u] = s
  BY SelectFacts
<1> HIDE DEF d
<1> QED BY <1>1, <1>2 DEF Waiting

(* Neither does the end of an interrupt, nor the exit of a user thread.    *)
LEMMA ExitWakesNobody ==
  ASSUME SchedulerInv, IsUser(core.current), NEW c, Follows(c),
         c.state[core.current] = "RUNNING", NEW ok, NEW f, exit_user(c, ok, f),
         NEW t \in Task, c.state[t] = "SLEEPING"
  PROVE  core'.state[t] = "SLEEPING"
<1> DEFINE d == sched_core_exit_current(c)
           fine == ok /\ frame_owned /\ proc[c.current] = "READY" /\ CanExit(c)
<1>1. select_frame(d, fine, TRUE, f)
  BY Zenon DEF exit_user
<1>2. /\ Good(c) /\ Prompt(c) /\ c.current = core.current
      /\ c.preempt_depth[core.current] = 0
  BY DEF Follows
<1>3. core.current # Idle /\ core.current \in Task
  BY InvFacts DEF Owned, IsUser
<1>4. current_can_wait(c)
  BY <1>2, <1>3 DEF current_can_wait, Good
<1>5. d = [c EXCEPT !.state[c.current] = "ZOMBIE", !.reschedule = TRUE]
  BY DEF sched_core_exit_current
<1> HIDE DEF d, fine
<1>6. Good(d) /\ Prompt(d) /\ d.state = [c.state EXCEPT ![c.current] = "ZOMBIE"]
  BY Zenon, <1>2, <1>4, <1>5, ParkFacts
<1>7. c.state \in [Task -> SchedState]
  BY <1>2, GoodFacts
<1>8. d.state[t] = "SLEEPING"
  BY <1>2, <1>3, <1>6, <1>7
<1> QED BY Zenon, <1>1, <1>6, <1>8, SelectWakesNobody

(* The way into and out of an interrupt wakes nobody: only its handler     *)
(* could (on_interrupt).                                                   *)
LEMMA InterruptWakesNobody ==
  ASSUME SchedulerInv, NEW c, Follows(c),
         IsUser(core.current) => c.state[core.current] = "RUNNING",
         NEW ok, NEW force \in BOOLEAN, NEW kind, on_interrupt(c, ok, force, kind),
         NEW t \in Task, c.state[t] = "SLEEPING"
  PROVE  core'.state[t] = "SLEEPING"
<1>1. Good(c) /\ Prompt(c) /\ c.current = core.current
  BY DEF Follows
<1> DEFINE fine == ok /\ frame_owned
           f == Saved(kind)
<1>2. CASE IsUser(c.current) /\ kind = "bad"
  <2>1. exit_user(c, ok, f)
    BY Zenon, <1>2 DEF on_interrupt
  <2>2. IsUser(core.current)
    BY Zenon, <1>1, <1>2
  <2> HIDE DEF f
  <2> QED BY Zenon, <2>1, <2>2, ExitWakesNobody
<1>3. CASE ~(IsUser(c.current) /\ kind = "bad")
  <2>1. select_frame(c, fine, force, f)
    BY Zenon, <1>3 DEF on_interrupt
  <2> HIDE DEF f, fine
  <2> QED BY Zenon, <1>1, <2>1, SelectWakesNobody
<1> QED BY <1>2, <1>3

(* IRQ0 wakes the sleepers whose deadline the PIT reached, and no other.   *)
LEMMA TimerWakes ==
  ASSUME SchedulerInv, TimerInterrupt, NEW t \in core.tasks, core.state[t] = "SLEEPING"
  PROVE  core'.state[t] = "SLEEPING" \/ pit' >= core.wake_tick[t]
<1> DEFINE now == pit_on_irq(pit)
           c == sched_core_tick(core, now)
           ok == CanTick(core, now)
<1>1. /\ Good(core) /\ Prompt(core) /\ core.now = pit /\ pit \in 0..MaxTick
      /\ sched_core_validate(core) /\ core.current \in Task /\ t \in Task
      /\ core.wake_tick \in [Task -> Nat]
  BY InvFacts, GoodFacts
<1>2. now \in Nat /\ now >= pit
  BY <1>1, BoundAssumption DEF pit_on_irq
<1>3. pit' = now
  BY DEF TimerInterrupt
<1>4. PICK kind \in FrameKinds : on_interrupt(c, ok, FALSE, kind)
  BY Zenon DEF TimerInterrupt
<1> HIDE DEF now
<1>5. CanTick(core, now)
  BY <1>1, <1>2 DEF CanTick
<1>6. Good(c) /\ Prompt(c)
  BY <1>1, <1>2, <1>5, TickGood, TickPrompt
<1>7. /\ c.tasks = core.tasks /\ c.current = core.current
      /\ c.preempt_depth = core.preempt_depth
      /\ \A u \in Task :
           \/ c.state[u] = core.state[u]
           \/ /\ core.state[u] = "SLEEPING" /\ c.state[u] = "READY"
              /\ core.wake_tick[u] <= now
  BY <1>1, <1>2, <1>5, TickFacts
<1>8. Follows(core) /\ (IsUser(core.current) => core.state[core.current] = "RUNNING")
  BY SelfFollows
<1> HIDE DEF c, ok
<1>9. Follows(c) /\ (IsUser(core.current) => c.state[core.current] = "RUNNING")
  BY <1>1, <1>6, <1>7, <1>8, TaskAssumption DEF Follows
<1>10. CASE c.state[t] = "SLEEPING"
  BY Zenon, <1>1, <1>4, <1>9, <1>10, InterruptWakesNobody
<1>11. CASE c.state[t] # "SLEEPING"
  BY <1>1, <1>2, <1>3, <1>7, <1>11
<1> QED BY <1>10, <1>11

(* IRQ1 wakes the shell, and only out of BLOCKED.                          *)
LEMMA KeyboardWakes ==
  ASSUME SchedulerInv, KeyboardInterrupt, NEW t \in core.tasks, core.state[t] = "SLEEPING"
  PROVE  core'.state[t] = "SLEEPING"
<1>1. /\ Good(core) /\ Prompt(core) /\ sched_core_validate(core) /\ t \in Task
      /\ core.current \in Task /\ Boot \in core.tasks /\ core.state \in [Task -> SchedState]
  BY InvFacts DEF Owned
<1>2. PICK r \in keyboard_on_irq(raw), kind \in FrameKinds :
        LET wakes == core.state[Boot] = "BLOCKED" /\ keyboard_has_pending(r)
        IN  on_interrupt(IF wakes THEN sched_core_wake(core, Boot) ELSE core,
                         wakes => CanWake(core, Boot), FALSE, kind)
  BY Zenon DEF KeyboardInterrupt
<1> DEFINE wakes == core.state[Boot] = "BLOCKED" /\ keyboard_has_pending(r)
           c == IF wakes THEN sched_core_wake(core, Boot) ELSE core
           ok == wakes => CanWake(core, Boot)
<1>3. on_interrupt(c, ok, FALSE, kind)
  BY Zenon, <1>2
<1>4. Follows(core) /\ (IsUser(core.current) => core.state[core.current] = "RUNNING")
  BY SelfFollows
<1> HIDE DEF ok
<1>5. /\ Follows(c) /\ (IsUser(core.current) => c.state[core.current] = "RUNNING")
      /\ c.state[t] = "SLEEPING"
  <2>1. CASE wakes
    <3> DEFINE d == sched_core_wake(core, Boot)
    <3>1. c = d
      BY Zenon, <2>1
    <3>2. CanWake(core, Boot)
      BY <1>1, <2>1 DEF CanWake
    <3>3. Good(d) /\ Prompt(d)
      BY Zenon, <1>1, <3>2, WakeGood, WakePrompt, TaskAssumption
    <3>4. /\ d.tasks = core.tasks /\ d.current = core.current
          /\ d.preempt_depth = core.preempt_depth
          /\ d.state = [u \in Task |-> IF u = Boot THEN "READY" ELSE core.state[u]]
      BY <1>1, <3>2, WakeFacts, TaskAssumption
    <3> HIDE DEF d
    <3>5. Follows(d)
      BY <1>1, <1>4, <2>1, <3>3, <3>4, TaskAssumption DEF Follows
    <3>6. IsUser(core.current) => d.state[core.current] = "RUNNING"
      BY <1>1, <1>4, <2>1, <3>4
    <3>7. d.state[t] = "SLEEPING"
      BY <1>1, <2>1, <3>4
    <3> QED BY <3>1, <3>5, <3>6, <3>7
  <2>2. CASE ~wakes
    <3>1. c = core
      BY Zenon, <2>2
    <3> QED BY <1>4, <3>1
  <2> QED BY Zenon, <2>1, <2>2
<1> HIDE DEF c
<1> QED BY Zenon, <1>1, <1>3, <1>5, InterruptWakesNobody

(* A thread that parks itself was running, so no sleeper is disturbed.     *)
LEMMA ParkWakesNobody ==
  ASSUME SchedulerInv, current_can_wait(core), NEW s \in Waiting, NEW c,
         c.state = [core.state EXCEPT ![core.current] = s],
         NEW t \in Task, core.state[t] = "SLEEPING"
  PROVE  c.state[t] = "SLEEPING"
<1>1. core.state \in [Task -> SchedState]
  BY InvFacts
<1> QED BY <1>1 DEF current_can_wait

(* A kernel thread that yields, sleeps, exits or waits for input.          *)
LEMMA TrapWakesNobody ==
  ASSUME SchedulerInv, NEW c, Follows(c), ~IsUser(core.current), NEW ok,
         yield_trap(c, ok), NEW t \in Task, c.state[t] = "SLEEPING"
  PROVE  core'.state[t] = "SLEEPING"
<1>1. on_interrupt(c, ok, TRUE, "kernel")
  BY Zenon DEF yield_trap
<1> QED BY Zenon, <1>1, InterruptWakesNobody

(* No step of a kernel thread wakes a sleeper: yielding, sleeping,         *)
(* exiting, the preempt regions and creating threads.                      *)
LEMMA KernelThreadWakesNobody ==
  ASSUME SchedulerInv, KernelThread, NEW t \in core.tasks, core.state[t] = "SLEEPING"
  PROVE  core'.state[t] = "SLEEPING"
<1>1. /\ Good(core) /\ Prompt(core) /\ sched_core_validate(core) /\ t \in Task
      /\ core.current \in Task /\ core \in SchedCoreType
      /\ core.state \in [Task -> SchedState] /\ NoSwitchLeftPending
      /\ core.preempt_depth \in [Task -> Nat]
  BY InvFacts
<1>2. Follows(core)
  BY SelfFollows
<1>3. CASE thread_yield
  <2>1. ~IsUser(core.current) /\ yield_trap(core, TRUE)
    BY Zenon, <1>3 DEF thread_yield, InCommand
  <2> QED BY ZenonT(30), <1>1, <1>2, <2>1, TrapWakesNobody
<1>4. CASE thread_exit
  <2> DEFINE c == sched_core_exit_current(core)
             ok == can_block /\ CanExit(core)
  <2>1. /\ ~IsUser(core.current) /\ core.current # Boot /\ core.current # Idle
        /\ core.preempt_depth[core.current] = 0 /\ yield_trap(c, ok)
    BY Zenon, <1>4 DEF thread_exit, InCommand
  <2>2. current_can_wait(core) /\ core.state[core.current] = "RUNNING"
    BY <1>1, <2>1 DEF NoSwitchLeftPending, current_can_wait
  <2>3. c = [core EXCEPT !.state[core.current] = "ZOMBIE", !.reschedule = TRUE]
    BY DEF sched_core_exit_current
  <2> HIDE DEF c, ok
  <2>4. /\ Good(c) /\ Prompt(c) /\ c.tasks = core.tasks /\ c.current = core.current
        /\ c.state = [core.state EXCEPT ![core.current] = "ZOMBIE"]
    BY ZenonT(30), <1>1, <2>2, <2>3, ParkFacts
  <2>5. Follows(c)
    BY <2>1, <2>2, <2>4, ParkFollows DEF Waiting
  <2>6. c.state[t] = "SLEEPING"
    BY <1>1, <2>2, <2>4, ParkWakesNobody DEF Waiting
  <2> QED BY ZenonT(30), <1>1, <2>1, <2>5, <2>6, TrapWakesNobody
<1>5. CASE preempt_disable
  <2>1. core' = sched_core_preempt_disable(core)
    BY <1>5 DEF preempt_disable
  <2> QED BY <1>1, <2>1 DEF sched_core_preempt_disable, SchedCoreType
<1>6. CASE preempt_enable
  <2> DEFINE n == core.preempt_depth[core.current] - 1
             c == sched_core_preempt_enable(core)
             ok == CanEnable(core)
  <2>1. ~IsUser(core.current) /\ core.preempt_depth[core.current] # 0
    BY Zenon, <1>6 DEF preempt_enable, InCommand
  <2>2. yield_trap(c, ok) \/ core' = c
    BY Zenon, <1>6 DEF preempt_enable
  <2>3. n \in Nat /\ core.state[core.current] = "RUNNING"
    BY <1>1, <2>1 DEF Prompt
  <2>4. c = [core EXCEPT !.preempt_depth[core.current] = n]
    BY DEF sched_core_preempt_enable
  <2> HIDE DEF n, c, ok
  <2>5. Good(c) /\ Prompt(c)
    BY Zenon, <1>1, <2>3, <2>4, DepthGood, DepthPrompt
  <2>6. c.tasks = core.tasks /\ c.current = core.current /\ c.state = core.state
    BY <1>1, <2>4 DEF SchedCoreType
  <2>7. Follows(c) /\ c.state[t] = "SLEEPING"
    BY Zenon, <1>2, <2>1, <2>5, <2>6 DEF Follows
  <2> QED BY Zenon, <1>1, <2>1, <2>2, <2>7, TrapWakesNobody
<1>7. ASSUME NEW delay \in 1..MaxSleep, thread_sleep_ms(delay)
      PROVE  core'.state[t] = "SLEEPING"
  <2> DEFINE c == sched_core_sleep_current(core, delay)
  <2>1. ~IsUser(core.current) /\ CanSleep(core, delay) /\ yield_trap(c, TRUE)
    BY Zenon, <1>7 DEF thread_sleep_ms, InCommand
  <2>2. current_can_wait(core) /\ core.state[core.current] = "RUNNING" /\ delay \in Nat
    BY <2>1, SchedulerAssumption DEF CanSleep, current_can_wait
  <2>3. /\ c.tasks = core.tasks /\ c.current = core.current /\ c.reschedule = TRUE
        /\ c.preempt_depth = core.preempt_depth
        /\ c.state = [core.state EXCEPT ![core.current] = "SLEEPING"]
    BY <1>1 DEF sched_core_sleep_current, SchedCoreType
  <2>4. Good(c)
    BY <1>1, <2>1, <2>2, SleepGood
  <2> HIDE DEF c
  <2>5. Prompt(c)
    BY Zenon, <1>1, <2>2, <2>3, ParkPrompt
  <2>6. Follows(c)
    BY <2>1, <2>2, <2>3, <2>4, <2>5, ParkFollows DEF Waiting
  <2>7. c.state[t] = "SLEEPING"
    BY Zenon, <1>1, <2>2, <2>3, ParkWakesNobody DEF Waiting
  <2> QED BY Zenon, <1>1, <2>1, <2>6, <2>7, TrapWakesNobody
<1>8. ASSUME NEW u \in Task, thread_create(u) \/ scheduler_create_user(u)
      PROVE  core'.state[t] = "SLEEPING"
  <2> DEFINE c == sched_core_add(core, u)
  <2>1. CanAdd(core, u) /\ core' = c
    BY Zenon, <1>8 DEF thread_create, scheduler_create_user
  <2>2. /\ c.current = core.current
        /\ c.preempt_depth = [core.preempt_depth EXCEPT ![u] = 0]
        /\ c.state = [w \in Task |-> IF w = u THEN "READY" ELSE core.state[w]]
    <3>1. Good(core) /\ CanAdd(core, u)
      BY <1>1, <2>1
    <3> QED BY <3>1, AddFacts
  <2>3. u # t
    BY <2>1 DEF CanAdd
  <2> HIDE DEF c
  <2> QED BY Zenon, <1>1, <2>1, <2>2, <2>3
<1> QED BY Zenon, <1>3, <1>4, <1>5, <1>6, <1>7, <1>8 DEF KernelThread

(* Neither does a step of the two kernel loops, the reaper included.       *)
LEMMA LoopsWakeNobody ==
  ASSUME SchedulerInv, Loops, NEW t \in core.tasks, core.state[t] = "SLEEPING"
  PROVE  core'.state[t] = "SLEEPING"
<1>1. /\ Good(core) /\ Prompt(core) /\ sched_core_validate(core) /\ t \in Task
      /\ core \in SchedCoreType /\ core.current \in Task /\ NoSwitchLeftPending
  BY InvFacts
<1>2. CASE thread_reap
  <2>1. core' = RemoveZombies(core, Zombies) /\ t \notin Zombies
    BY Zenon, <1>2 DEF thread_reap, Zombies
  <2>2. core'.state = [u \in Task |-> IF u \in Zombies THEN "RUNNING" ELSE core.state[u]]
    <3>1. core \in SchedCoreType
      BY Zenon, <1>1
    <3> QED BY <2>1, <3>1 DEF RemoveZombies, SchedCoreType
  <2> QED BY <1>1, <2>1, <2>2
<1>3. CASE scheduler_wait_input
  <2> DEFINE c == sched_core_block_current(core)
             ok == CanBlock(core)
  <2>1. core.current = Boot /\ (core' = core \/ (can_block /\ yield_trap(c, ok)))
    BY Zenon, <1>3 DEF scheduler_wait_input
  <2>2. c = [core EXCEPT !.state[core.current] = "BLOCKED", !.reschedule = TRUE]
    BY DEF sched_core_block_current
  <2>3. ~IsUser(core.current)
    BY Zenon, <2>1, InvFacts DEF Owned, IsUser
  <2> HIDE DEF c, ok
  <2>4. CASE can_block /\ yield_trap(c, ok)
    <3>1. current_can_wait(core) /\ core.state[core.current] = "RUNNING"
      BY <1>1, <2>4 DEF NoSwitchLeftPending, current_can_wait, can_block
    <3>2. /\ Good(c) /\ Prompt(c) /\ c.tasks = core.tasks /\ c.current = core.current
          /\ c.state = [core.state EXCEPT ![core.current] = "BLOCKED"]
      <4>1. Good(core) /\ Prompt(core) /\ "BLOCKED" \in {"BLOCKED", "ZOMBIE"}
        BY <1>1
      <4> QED BY ZenonT(30), <2>2, <3>1, <4>1, ParkFacts
    <3>3. Follows(c)
      BY <2>3, <3>1, <3>2, ParkFollows DEF Waiting
    <3>4. c.state[t] = "SLEEPING"
      BY <1>1, <3>1, <3>2, ParkWakesNobody DEF Waiting
    <3> QED BY ZenonT(30), <1>1, <2>3, <2>4, <3>3, <3>4, TrapWakesNobody
  <2> QED BY Zenon, <2>1, <2>4
<1>4. CASE ReadByte \/ LeaveBatch \/ IdleHalts
  BY <1>4 DEF ReadByte, LeaveBatch, IdleHalts
<1> QED BY Zenon, <1>2, <1>3, <1>4 DEF Loops

(* Nor does a step of a user thread or of its system calls.                *)
LEMMA UserThreadWakesNobody ==
  ASSUME SchedulerInv, UserThread, NEW t \in core.tasks, core.state[t] = "SLEEPING"
  PROVE  core'.state[t] = "SLEEPING"
<1>1. /\ Good(core) /\ Prompt(core) /\ sched_core_validate(core) /\ t \in Task
      /\ core \in SchedCoreType /\ core.current \in Task
      /\ core.preempt_depth \in [Task -> Nat]
  BY Zenon, InvFacts
<1>2. IsUser(core.current)
  BY Zenon DEF UserThread, UserExits, SysYield, SysReturn, SysSleep, SysSpawn
<1>3. Follows(core) /\ core.state[core.current] = "RUNNING"
  BY <1>2, SelfFollows
<1>4. CASE UserExits
  <2>1. exit_user(core, TRUE, Saved("user"))
    BY Zenon, <1>4 DEF UserExits
  <2> QED BY Zenon, <1>1, <1>2, <1>3, <2>1, ExitWakesNobody
<1>5. CASE SysYield \/ SysReturn
  <2>1. PICK force \in BOOLEAN : select_frame(core, frame_owned, force, Saved("user"))
    BY Zenon, <1>5 DEF SysYield, SysReturn
  <2> QED BY Zenon, <1>1, <2>1, SelectWakesNobody
<1>6. ASSUME NEW delay \in 1..MaxSleep, SysSleep(delay)
      PROVE  core'.state[t] = "SLEEPING"
  <2> DEFINE c == sched_core_sleep_current(core, delay)
  <2>1. CASE CanSleep(core, delay)
    <3>1. select_frame(c, frame_owned, TRUE, Saved("user"))
      BY Zenon, <1>6, <2>1 DEF SysSleep
    <3>2. current_can_wait(core) /\ delay \in Nat
      BY <2>1, SchedulerAssumption DEF CanSleep
    <3>3. /\ c.current = core.current /\ c.reschedule = TRUE
          /\ c.preempt_depth = core.preempt_depth
          /\ c.state = [core.state EXCEPT ![core.current] = "SLEEPING"]
      BY <1>1 DEF sched_core_sleep_current, SchedCoreType
    <3>4. Good(c)
      BY <1>1, <2>1, <3>2, SleepGood
    <3> HIDE DEF c
    <3>5. Prompt(c)
      BY Zenon, <1>1, <3>2, <3>3, ParkPrompt
    <3>6. c.state[t] = "SLEEPING"
      BY <1>1, <3>2, <3>3, ParkWakesNobody DEF Waiting
    <3> QED BY Zenon, <1>1, <3>1, <3>4, <3>5, <3>6, SelectWakesNobody
  <2>2. CASE ~CanSleep(core, delay)
    <3>1. select_frame(core, frame_owned, FALSE, Saved("user"))
      BY Zenon, <1>6, <2>2 DEF SysSleep
    <3> QED BY Zenon, <1>1, <3>1, SelectWakesNobody
  <2> QED BY <2>1, <2>2
<1>7. ASSUME NEW u \in Task, SysSpawn(u)
      PROVE  core'.state[t] = "SLEEPING"
  <2> DEFINE a == core.current
             b == sched_core_preempt_disable(core)
             d == sched_core_add(b, u)
             e == sched_core_preempt_enable(d)
             f == [Saved("user") EXCEPT ![u] = "user"]
             ok == frame_owned /\ CanDisable(core) /\ CanEnable(d)
  <2>1. CanAdd(b, u) /\ select_frame(e, ok, FALSE, f)
    BY Zenon, <1>7 DEF SysSpawn
  <2>2. core.preempt_depth[a] = 0
    BY Zenon, <1>2, InvFacts DEF Owned, IsUser
  <2>3. Good(b) /\ Prompt(b) /\ b = [core EXCEPT !.preempt_depth[a] = 1]
    <3>1. b = [core EXCEPT !.preempt_depth[a] = 1]
      BY <1>1, <2>2 DEF sched_core_preempt_disable
    <3>2. 1 \in Nat
      OBVIOUS
    <3> HIDE DEF b
    <3> QED BY Zenon, <1>1, <1>3, <3>1, <3>2, DepthGood, DepthPrompt
  <2> HIDE DEF b
  <2>4. /\ b.tasks = core.tasks /\ b.current = a /\ b.state = core.state
        /\ b.preempt_depth = [core.preempt_depth EXCEPT ![a] = 1]
    BY <1>1, <2>3 DEF SchedCoreType
  <2>5. u # t /\ u # a
    BY Zenon, <2>1, <2>4, InvFacts DEF CanAdd
  <2>6. Good(d) /\ Prompt(d)
    BY <2>1, <2>3, AddGood, AddPrompt
  <2>7. /\ d.current = b.current /\ d.preempt_depth = [b.preempt_depth EXCEPT ![u] = 0]
        /\ d.state = [w \in Task |-> IF w = u THEN "READY" ELSE b.state[w]]
    <3>1. Good(b) /\ CanAdd(b, u)
      BY <2>1, <2>3
    <3> QED BY <3>1, AddFacts
  <2> HIDE DEF d
  <2>8. /\ d.current = a /\ d.state[a] = "RUNNING" /\ d.state[t] = "SLEEPING"
        /\ d.preempt_depth[a] = 1
    BY <1>1, <1>3, <2>4, <2>5, <2>7
  <2>9. /\ Good(e) /\ Prompt(e) /\ e = [d EXCEPT !.preempt_depth[a] = 0]
    <3>1. d.preempt_depth \in [Task -> Nat]
      BY Zenon, <2>6, GoodFacts
    <3>2. e = [d EXCEPT !.preempt_depth[a] = 0]
      BY <1>1, <2>8, <3>1 DEF sched_core_preempt_enable
    <3>3. 0 \in Nat
      OBVIOUS
    <3> HIDE DEF e
    <3> QED BY Zenon, <2>6, <2>8, <3>2, <3>3, DepthGood, DepthPrompt
  <2>10. e.state[t] = "SLEEPING"
    <3>1. d \in SchedCoreType
      BY <2>6, GoodFacts
    <3> QED BY <2>8, <2>9, <3>1 DEF SchedCoreType
  <2> HIDE DEF e, f, ok
  <2> QED BY Zenon, <1>1, <2>1, <2>9, <2>10, SelectWakesNobody
<1> QED BY Zenon, <1>4, <1>5, <1>6, <1>7 DEF UserThread

(* A task leaves SLEEPING only once the PIT reached its deadline, whatever *)
(* interrupts, traps and system calls interleave (sched_core_tick, IRQ0).  *)
THEOREM SleepersSleepLongEnough == SchedulerSpec => SleepsLongEnough
<1> DEFINE Kept == \A t \in core.tasks :
                     core.state[t] = "SLEEPING" /\ core'.state[t] # "SLEEPING"
                       => pit' >= core.wake_tick[t]
<1>1. ASSUME SchedulerInv, [SchedulerNext]_vars
      PROVE  [Kept]_vars
  <2>1. SUFFICES ASSUME SchedulerNext, NEW t \in core.tasks, core.state[t] = "SLEEPING"
                 PROVE  core'.state[t] = "SLEEPING" \/ pit' >= core.wake_tick[t]
    BY <1>1
  <2>2. CASE Interrupt
    BY <1>1, <2>1, <2>2, TimerWakes, KeyboardWakes DEF Interrupt
  <2>3. CASE KernelThread \/ Loops \/ UserThread
    BY <1>1, <2>1, <2>3, KernelThreadWakesNobody, LoopsWakeNobody, UserThreadWakesNobody
  <2> QED BY <2>1, <2>2, <2>3 DEF SchedulerNext
<1> QED BY <1>1, SchedulerInvariant, PTL DEF SchedulerSpec, SleepsLongEnough

=============================================================================
