--------------------------- MODULE SchedulerProofs ---------------------------
(* The scheduler as the kernel runs it is safe, for any number of threads,  *)
(* ticks, ring slots and nested preempt regions: no entry panics, control   *)
(* never returns to a thread with a switch left pending, no input is lost   *)
(* to a sleeping shell, and stacks and address spaces live exactly as long  *)
(* as their threads.                                                        *)
EXTENDS SchedulerLemmas

-----------------------------------------------------------------------------
(* The steps that create, reap and run threads                             *)

(* preempt_disable nests one level deeper.                                 *)
LEMMA DisableKeeps ==
  ASSUME SchedulerInv, preempt_disable
  PROVE  SchedulerInv'
<1> DEFINE n == core.preempt_depth[core.current] + 1
           c == sched_core_preempt_disable(core)
<1>1. /\ Good(core) /\ Prompt(core) /\ core.current \in Task /\ NoSwitchLeftPending
      /\ core.preempt_depth \in [Task -> Nat] /\ sched_core_validate(core)
  BY InvFacts
<1>2. n \in Nat /\ n # 0
  BY <1>1
<1>3. core.state[core.current] = "RUNNING"
  BY <1>1 DEF NoSwitchLeftPending, Prompt
<1>4. c = [core EXCEPT !.preempt_depth[core.current] = n]
  BY DEF sched_core_preempt_disable
<1>5. CanDisable(core)
  BY <1>1, <1>3, BoundAssumption DEF CanDisable, preempt_disable
<1>6. /\ ~IsUser(core.current) /\ core' = c /\ panicked' = FALSE
      /\ UNCHANGED <<pit, raw, stack, frame, proc, vm, cr3, rsp0, pc>>
  BY Zenon, <1>5 DEF preempt_disable, InCommand
<1> HIDE DEF n, c
<1>7. Good(c) /\ Prompt(c)
  BY Zenon, <1>1, <1>2, <1>3, <1>4, DepthGood, DepthPrompt
<1> QED BY Zenon, <1>2, <1>3, <1>4, <1>6, <1>7, DepthEnds

(* preempt_enable: at depth zero the deferred switch happens at once.      *)
LEMMA EnableKeeps ==
  ASSUME SchedulerInv, preempt_enable
  PROVE  SchedulerInv'
<1> DEFINE n == core.preempt_depth[core.current] - 1
           c == sched_core_preempt_enable(core)
           ok == CanEnable(core)
<1>1. /\ Good(core) /\ Prompt(core) /\ core.current \in Task /\ NoLostInput
      /\ core \in SchedCoreType /\ core.preempt_depth \in [Task -> Nat]
      /\ sched_core_validate(core) /\ core.reschedule \in BOOLEAN /\ pc \in PcType
  BY InvFacts, GoodFacts
<1>2. /\ ~IsUser(core.current) /\ core.preempt_depth[core.current] # 0
      /\ pit' = pit /\ raw' = raw /\ stack' = stack /\ vm' = vm /\ pc' = pc
  BY DEF preempt_enable, InCommand
<1>3. n \in Nat
  BY <1>1, <1>2
<1>4. core.state[core.current] = "RUNNING"
  BY <1>1, <1>2 DEF Prompt
<1>5. c = [core EXCEPT !.preempt_depth[core.current] = n]
  BY DEF sched_core_preempt_enable
<1>6. ok
  BY <1>1, <1>2, <1>4 DEF CanEnable
<1>7. IF sched_core_reschedule_pending(c)
      THEN yield_trap(c, ok)
      ELSE core' = c /\ panicked' = ~ok /\ UNCHANGED <<frame, proc, cr3, rsp0>>
  BY Zenon DEF preempt_enable
<1> HIDE DEF n, c, ok
<1>8. Good(c) /\ Prompt(c)
  BY Zenon, <1>1, <1>3, <1>4, <1>5, DepthGood, DepthPrompt
<1>9. /\ c.tasks = core.tasks /\ c.current = core.current /\ c.now = core.now
      /\ c.state = core.state /\ c.reschedule = core.reschedule
      /\ c.preempt_depth[c.current] = n
  BY <1>1, <1>5 DEF SchedCoreType
<1>10. CASE sched_core_reschedule_pending(c)
  <2>1. yield_trap(c, ok)
    BY Zenon, <1>7, <1>10
  <2>2. Follows(core)
    BY SelfFollows
  <2>3. Follows(c)
    BY <1>2, <1>8, <1>9, <2>2 DEF Follows
  <2>4. c.now = core.now /\ pc' \in PcType
        /\ (c.state[Boot] = "BLOCKED" => ~keyboard_has_pending(raw))
    BY <1>1, <1>2, <1>9 DEF NoLostInput
  <2> QED BY Zenon, <1>2, <1>6, <2>1, <2>3, <2>4, TrapEnds
<1>11. CASE ~sched_core_reschedule_pending(c)
  <2>1. core' = c /\ panicked' = FALSE /\ UNCHANGED <<frame, proc, cr3, rsp0>>
    BY Zenon, <1>6, <1>7, <1>11
  <2>2. n = 0 => ~core.reschedule
    BY <1>8, <1>9, <1>11 DEF sched_core_reschedule_pending, Good
  <2>3. UNCHANGED <<pit, raw, stack, frame, proc, vm, cr3, rsp0, pc>>
    BY <1>2, <2>1
  <2> QED BY Zenon, <1>2, <1>3, <1>4, <1>5, <1>8, <2>1, <2>2, <2>3, DepthEnds
<1> QED BY <1>10, <1>11

-----------------------------------------------------------------------------
(* Threads that come and go                                                *)

(* A task that was not registered joins as READY, with a frame and, when p *)
(* says so, a process: the registry and what its members own stay exact.   *)
LEMMA JoinOwned ==
  ASSUME SchedulerInv, NEW t \in Task, t \notin core.tasks,
         NEW c, c.tasks = core.tasks \cup {t}, c.current = core.current,
         c.state = [u \in Task |-> IF u = t THEN "READY" ELSE core.state[u]],
         proc[core.current] # "none" => c.preempt_depth[core.current] = 0,
         NEW kind \in {"kernel", "user"},
         NEW p \in [Task -> ProcState], \A u \in Task \ {t} : p[u] = proc[u],
         NEW v, kind = "kernel" => p[t] = "none" /\ v = vm,
         kind = "user" => p[t] = "READY" /\ v = vm \cup {t}
  PROVE  /\ Owned(c, stack \cup {t}, p, v)
         /\ \A f, T : Framed(core, f, proc, T) /\ T \subseteq core.tasks
               => Framed(c, [f EXCEPT ![t] = kind], p, T \cup {t})
<1>1. /\ Owned(core, stack, proc, vm) /\ core.state \in [Task -> SchedState]
      /\ core.tasks \in SUBSET Task /\ core.current \in core.tasks /\ Idle \in core.tasks
  BY InvFacts
<1>2. /\ Boot \in core.tasks /\ core.state[Boot] # "ZOMBIE"
      /\ proc \in [Task -> ProcState] /\ proc[Boot] = "none" /\ proc[Idle] = "none"
      /\ \A u \in Task \ core.tasks : proc[u] = "none"
      /\ stack = core.tasks \ {Boot} /\ vm = {u \in core.tasks : proc[u] # "none"}
      /\ \A u \in core.tasks :
           proc[u] = "EXITED" <=> proc[u] # "none" /\ core.state[u] = "ZOMBIE"
  BY <1>1 DEF Owned
<1>3. p[t] # "EXITED" /\ (p[t] # "none" <=> kind = "user")
  OBVIOUS
<1>4. Boot # t /\ Idle # t /\ core.current # t /\ proc[t] = "none"
  BY <1>1, <1>2
<1>5. Owned(c, stack \cup {t}, p, v)
  <2>1. stack \cup {t} = c.tasks \ {Boot}
    BY <1>2, <1>4
  <2>2. v = {u \in c.tasks : p[u] # "none"}
    <3>1. \A u : u \in v <=> u \in c.tasks /\ p[u] # "none"
      BY <1>1, <1>2, <1>3, <1>4
    <3> QED BY <3>1
  <2>3. \A u \in c.tasks : p[u] = "EXITED" <=> p[u] # "none" /\ c.state[u] = "ZOMBIE"
    BY <1>1, <1>2, <1>3, <1>4
  <2>4. /\ Boot \in c.tasks /\ c.state[Boot] # "ZOMBIE" /\ p[Boot] = "none"
        /\ p[Idle] = "none" /\ \A u \in Task \ c.tasks : p[u] = "none"
        /\ p[c.current] # "none" => c.preempt_depth[c.current] = 0
    BY <1>1, <1>2, <1>3, <1>4, TaskAssumption
  <2> QED BY <2>1, <2>2, <2>3, <2>4 DEF Owned
<1>6. ASSUME NEW f, NEW T, Framed(core, f, proc, T), T \subseteq core.tasks
      PROVE  Framed(c, [f EXCEPT ![t] = kind], p, T \cup {t})
  <2>1. f \in [Task -> FrameKind]
    BY <1>6 DEF Framed
  <2>2. [f EXCEPT ![t] = kind] \in [Task -> FrameKind]
    BY <2>1 DEF FrameKind
  <2>3. ASSUME NEW u \in T \cup {t}, c.state[u] # "ZOMBIE"
        PROVE  [f EXCEPT ![t] = kind][u] = IF p[u] # "none" THEN "user" ELSE "kernel"
    BY <1>1, <1>3, <1>4, <1>6, <2>1, <2>3 DEF Framed
  <2> QED BY <2>2, <2>3 DEF Framed
<1> QED BY Zenon, <1>5, <1>6

(* The type invariant after a step, from what the step is shown to keep.   *)
LEMMA TypeKept ==
  ASSUME NEW T, Good(core'), Owned(core', stack', proc', vm'),
         Framed(core', frame', proc', T),
         pit' \in 0..MaxTick, raw' \in RawType, pc' \in PcType,
         cr3' \in Task \cup {Kernel}, rsp0' \in Task, panicked' \in BOOLEAN
  PROVE  KernelTypeOK'
<1>1. core' \in SchedCoreType /\ core'.tasks \in SUBSET Task
  BY GoodFacts
<1>2. stack' \subseteq Task /\ vm' \subseteq Task /\ proc' \in [Task -> ProcState]
  BY <1>1 DEF Owned
<1>3. frame' \in [Task -> FrameKind]
  BY DEF Framed
<1>4. CoreTypeOK'
  BY <1>1 DEF CoreTypeOK
<1> QED BY Zenon, <1>2, <1>3, <1>4 DEF KernelTypeOK, ProcState, FrameKind, RawType, PcType

(* A new thread does not disturb the one that created it.                  *)
LEMMA JoinEnds ==
  ASSUME SchedulerInv, NEW t \in Task, core.current = Boot, CanAdd(core, t),
         NEW kind \in {"kernel", "user"},
         core' = sched_core_add(core, t), stack' = stack \cup {t},
         frame' = [frame EXCEPT ![t] = kind],
         kind = "kernel" => proc' = proc /\ vm' = vm,
         kind = "user" => proc' = [proc EXCEPT ![t] = "READY"] /\ vm' = vm \cup {t},
         UNCHANGED <<pit, raw, cr3, rsp0, pc, panicked>>
  PROVE  SchedulerInv'
<1> DEFINE c == sched_core_add(core, t)
           f == [frame EXCEPT ![t] = kind]
           p == proc'
           v == vm'
           T == core.tasks \ {core.current}
<1>1. /\ Good(core) /\ Prompt(core) /\ core.now = pit /\ core.current \in Task
      /\ NoLostInput /\ NoSwitchLeftPending /\ RunsOnOwnResources
      /\ Framed(core, frame, proc, T) /\ core.preempt_depth \in [Task -> Nat]
      /\ core.current \in core.tasks /\ core.state \in [Task -> SchedState]
      /\ core.tasks \in SUBSET Task /\ core.reschedule \in BOOLEAN
  BY Zenon, InvFacts, GoodFacts
<1>2. t \notin core.tasks
  BY DEF CanAdd
<1>3. /\ c.tasks = core.tasks \cup {t} /\ c.current = core.current /\ c.now = core.now
      /\ c.preempt_depth = [core.preempt_depth EXCEPT ![t] = 0]
      /\ c.state = [u \in Task |-> IF u = t THEN "READY" ELSE core.state[u]]
      /\ c.reschedule = (core.reschedule \/ core.current = Idle
                           \/ core.state[core.current] # "RUNNING")
  BY <1>1, AddFacts
<1>4. Good(c) /\ Prompt(c)
  BY <1>1, AddGood, AddPrompt
<1>5. core' = c /\ stack' = stack \cup {t} /\ frame' = f /\ proc' = p /\ vm' = v
  OBVIOUS
<1> HIDE DEF c
<1>6. proc[core.current] = "none" /\ core.current # t /\ Boot # t
  BY <1>1, <1>2, InvFacts DEF Owned
<1>7. /\ Owned(c, stack \cup {t}, p, v)
      /\ Framed(core, frame, proc, T) /\ T \subseteq core.tasks
            => Framed(c, f, p, T \cup {t})
      /\ \A u \in Task \ {t} : p[u] = proc[u]
  <2>1. proc \in [Task -> ProcState] /\ proc[t] = "none"
    BY Zenon, <1>2, InvFacts DEF Owned
  <2>2. /\ p \in [Task -> ProcState] /\ \A u \in Task \ {t} : p[u] = proc[u]
        /\ kind = "kernel" => p[t] = "none" /\ v = vm
        /\ kind = "user" => p[t] = "READY" /\ v = vm \cup {t}
    BY <2>1 DEF ProcState
  <2> HIDE DEF p, v
  <2> QED BY Zenon, <1>2, <1>3, <1>6, <2>2, JoinOwned
<1> HIDE DEF f, p, v
<1>8. Framed(c, f, p, c.tasks \ {c.current})
  <2>1. c.tasks \ {c.current} = T \cup {t}
    BY <1>3, <1>6
  <2>2. T \subseteq core.tasks
    OBVIOUS
  <2> QED BY Zenon, <1>1, <1>7, <2>1, <2>2
<1>9. NoSwitchLeftPending' /\ NoLostInput'
  BY <1>1, <1>3, <1>5, <1>6, TaskAssumption DEF NoSwitchLeftPending, NoLostInput
<1>10. RunsOnOwnResources'
  BY ZenonT(30), <1>1, <1>3, <1>5, <1>6, <1>7 DEF RunsOnOwnResources, IsUser
<1>11. Owned(core', stack', proc', vm') /\ Framed(core', frame', proc', core'.tasks \ {core'.current})
  BY Zenon, <1>5, <1>7, <1>8
<1>12. KernelTypeOK'
  <2>1. /\ pit' \in 0..MaxTick /\ raw' \in RawType /\ pc' \in PcType
        /\ cr3' \in Task \cup {Kernel} /\ rsp0' \in Task /\ panicked' \in BOOLEAN
    BY Zenon, InvFacts DEF SchedulerInv, KernelTypeOK
  <2>2. Good(core')
    BY <1>4, <1>5
  <2> QED BY Zenon, <1>11, <2>1, <2>2, TypeKept
<1> QED BY ZenonT(30), <1>1, <1>3, <1>4, <1>5, <1>9, <1>10, <1>11, <1>12, InvFacts DEF SchedulerInv

(* thread_create registers a kernel thread with its stack and first frame. *)
LEMMA CreateKeeps ==
  ASSUME SchedulerInv, NEW t \in Task, thread_create(t) \/ scheduler_create_user(t)
  PROVE  SchedulerInv'
<1>1. CASE thread_create(t)
  <2>1. /\ core.current = Boot /\ CanAdd(core, t) /\ core' = sched_core_add(core, t)
        /\ stack' = stack \cup {t} /\ frame' = [frame EXCEPT ![t] = "kernel"]
        /\ proc' = proc /\ vm' = vm /\ UNCHANGED <<pit, raw, cr3, rsp0, pc, panicked>>
    BY <1>1 DEF thread_create, NewThread
  <2>2. "kernel" \in {"kernel", "user"} /\ "kernel" # "user"
    OBVIOUS
  <2> QED BY Zenon, <2>1, <2>2, JoinEnds
<1>2. CASE scheduler_create_user(t)
  <2>1. /\ core.current = Boot /\ CanAdd(core, t) /\ core' = sched_core_add(core, t)
        /\ stack' = stack \cup {t} /\ frame' = [frame EXCEPT ![t] = "user"]
        /\ proc' = [proc EXCEPT ![t] = "READY"] /\ vm' = vm \cup {t}
        /\ UNCHANGED <<pit, raw, cr3, rsp0, pc, panicked>>
    BY <1>2 DEF scheduler_create_user, NewThread
  <2>2. "user" \in {"kernel", "user"} /\ "kernel" # "user"
    OBVIOUS
  <2> QED BY Zenon, <2>1, <2>2, JoinEnds
<1> QED BY <1>1, <1>2

(* thread_reap: every zombie still owns what the reaper frees, and nobody  *)
(* else loses anything.                                                    *)
LEMMA ReapKeeps ==
  ASSUME SchedulerInv, thread_reap
  PROVE  SchedulerInv'
<1> DEFINE Z == Zombies
           c == RemoveZombies(core, Z)
<1>1. /\ Good(core) /\ Prompt(core) /\ core.now = pit /\ core \in SchedCoreType
      /\ core.current \in core.tasks /\ core.current \in Task /\ Idle \in core.tasks
      /\ core.tasks \in SUBSET Task /\ core.state \in [Task -> SchedState]
      /\ NodesValid(core) /\ sched_core_validate(core)
      /\ Framed(core, frame, proc, core.tasks \ {core.current})
      /\ NoSwitchLeftPending /\ NoLostInput /\ RunsOnOwnResources
      /\ raw \in RawType /\ pc \in PcType /\ pit \in 0..MaxTick
  BY Zenon, InvFacts
<1>2. /\ Boot \in core.tasks /\ core.state[Boot] # "ZOMBIE"
      /\ proc \in [Task -> ProcState] /\ proc[Boot] = "none" /\ proc[Idle] = "none"
      /\ \A u \in Task \ core.tasks : proc[u] = "none"
      /\ stack = core.tasks \ {Boot} /\ vm = {u \in core.tasks : proc[u] # "none"}
      /\ \A u \in core.tasks :
           proc[u] = "EXITED" <=> proc[u] # "none" /\ core.state[u] = "ZOMBIE"
      /\ proc[core.current] # "none" => core.preempt_depth[core.current] = 0
  BY Zenon, InvFacts DEF Owned
<1>3. \A t \in Z : t \in core.tasks /\ t # core.current /\ core.state[t] = "ZOMBIE"
  BY DEF Zombies
<1>4. \A t \in Z : t # Idle /\ t # Boot
  BY <1>1, <1>2, <1>3 DEF NodesValid
<1>5. /\ core' = c /\ stack' = stack \ Z /\ vm' = vm \ Z
      /\ proc' = [t \in Task |-> IF t \in Z THEN "none" ELSE proc[t]]
      /\ frame' = [t \in Task |-> IF t \in Z THEN "none" ELSE frame[t]]
      /\ pc' = AfterReap /\ pit' = pit /\ raw' = raw /\ cr3' = cr3 /\ rsp0' = rsp0
      /\ core.current \in {Boot, Idle}
      /\ panicked' = ~ \A t \in Z :
                         /\ t # Boot /\ CanRemoveZombie(core, t) /\ t \in stack
                         /\ IsUser(t) => proc[t] = "EXITED" /\ t \in vm /\ cr3 # t
  BY Zenon DEF thread_reap
<1> HIDE DEF Z
<1>6. Good(c) /\ Prompt(c)
  BY <1>1, <1>3, <1>4, RemoveZombiesGood
<1>7. /\ c.tasks = core.tasks \ Z /\ c.current = core.current /\ c.now = core.now
      /\ c.reschedule = core.reschedule
      /\ c.state = [u \in Task |-> IF u \in Z THEN "RUNNING" ELSE core.state[u]]
      /\ c.preempt_depth = [u \in Task |-> IF u \in Z THEN 0 ELSE core.preempt_depth[u]]
  <2>1. core \in SchedCoreType
    BY Zenon, <1>1
  <2> QED BY <2>1 DEF RemoveZombies, SchedCoreType
<1> HIDE DEF c
<1>8. core.current \notin Z /\ Boot \notin Z /\ Idle \notin Z
      /\ proc[core.current] = "none" /\ cr3 = Kernel
  BY Zenon, <1>1, <1>2, <1>3, <1>4, <1>5 DEF RunsOnOwnResources, IsUser
<1>9. panicked' = FALSE
  <2>1. ASSUME NEW t \in Z
        PROVE  /\ t # Boot /\ CanRemoveZombie(core, t) /\ t \in stack
               /\ IsUser(t) => proc[t] = "EXITED" /\ t \in vm /\ cr3 # t
    BY ZenonT(30), <1>1, <1>2, <1>3, <1>4, <1>8, SchedulerAssumption DEF CanRemoveZombie, IsUser
  <2> QED BY Zenon, <1>5, <2>1
<1>10. proc' \in [Task -> ProcState] /\ \A u \in Task : proc'[u] = IF u \in Z THEN "none" ELSE proc[u]
  BY Zenon, <1>2, <1>5 DEF ProcState
<1>11. Owned(core', stack', proc', vm')
  <2>1. stack' = core'.tasks \ {Boot}
    BY Zenon, <1>2, <1>5, <1>7
  <2>2. vm' = {u \in core'.tasks : proc'[u] # "none"}
    <3>1. \A u : u \in vm' <=> u \in core'.tasks /\ proc'[u] # "none"
      BY Zenon, <1>1, <1>2, <1>5, <1>7, <1>10
    <3> QED BY <3>1
  <2>3. \A u \in core'.tasks :
          proc'[u] = "EXITED" <=> proc'[u] # "none" /\ core'.state[u] = "ZOMBIE"
    <3>1. \A u \in core'.tasks : /\ u \in core.tasks /\ u \in Task
                                  /\ proc'[u] = proc[u] /\ core'.state[u] = core.state[u]
      BY <1>1, <1>5, <1>7, <1>10
    <3>2. \A u \in core.tasks : proc[u] = "EXITED" <=> proc[u] # "none" /\ core.state[u] = "ZOMBIE"
      BY Zenon, <1>2
    <3> QED BY Zenon, <3>1, <3>2
  <2>4. /\ Boot \in core'.tasks /\ core'.state[Boot] # "ZOMBIE" /\ proc'[Boot] = "none"
        /\ proc'[Idle] = "none" /\ \A u \in Task \ core'.tasks : proc'[u] = "none"
        /\ proc'[core'.current] # "none" => core'.preempt_depth[core'.current] = 0
    BY ZenonT(30), <1>1, <1>2, <1>5, <1>7, <1>8, <1>10, TaskAssumption
  <2> QED BY <1>10, <2>1, <2>2, <2>3, <2>4 DEF Owned
<1>12. Framed(core', frame', proc', core'.tasks \ {core'.current})
  <2>1. frame \in [Task -> FrameKind] /\ frame' \in [Task -> FrameKind]
    BY Zenon, <1>1, <1>5 DEF Framed, FrameKind
  <2> QED BY ZenonT(30), <1>1, <1>5, <1>7, <1>10, <2>1 DEF Framed
<1>13. NoSwitchLeftPending' /\ NoLostInput'
  <2>1. /\ core'.current = core.current /\ core'.reschedule = core.reschedule /\ raw' = raw
        /\ core.current \in Task /\ Boot \in Task
    BY Zenon, <1>1, <1>5, <1>7, TaskAssumption
  <2>2. /\ core'.state[core.current] = core.state[core.current]
        /\ core'.state[Boot] = core.state[Boot]
        /\ core'.preempt_depth[core.current] = core.preempt_depth[core.current]
    BY <1>5, <1>7, <1>8, <2>1
  <2>3. NoSwitchLeftPending /\ NoLostInput
    BY Zenon, <1>1
  <2> QED BY Zenon, <2>1, <2>2, <2>3 DEF NoSwitchLeftPending, NoLostInput
<1>14. RunsOnOwnResources'
  BY ZenonT(30), <1>1, <1>5, <1>7, <1>8, <1>10 DEF RunsOnOwnResources, IsUser
<1>15. KernelTypeOK'
  <2>1. AfterReap \in PcType
    BY Zenon, <1>1, <1>5 DEF AfterReap, PcType
  <2>2. rsp0' \in Task /\ cr3' \in Task \cup {Kernel}
    BY Zenon, <1>5, <1>8 DEF SchedulerInv, KernelTypeOK
  <2>3. Good(core') /\ pit' \in 0..MaxTick /\ raw' \in RawType /\ pc' \in PcType
        /\ panicked' \in BOOLEAN
    BY Zenon, <1>1, <1>5, <1>6, <1>9, <2>1
  <2> QED BY Zenon, <1>11, <1>12, <2>2, <2>3, TypeKept
<1> QED BY Zenon, <1>1, <1>5, <1>6, <1>7, <1>9, <1>11, <1>12, <1>13, <1>14, <1>15 DEF SchedulerInv

-----------------------------------------------------------------------------
(* User threads                                                            *)

(* An entry of the current user thread that ends in select_frame.          *)
LEMMA UserEntryEnds ==
  ASSUME SchedulerInv, IsUser(core.current), NEW c, Follows(c),
         NEW force \in BOOLEAN, select_frame(c, frame_owned, force, Saved("user")),
         UNCHANGED <<pit, raw, stack, proc, vm, pc>>, c.now = core.now,
         c.state[Boot] = "BLOCKED" => core.state[Boot] = "BLOCKED"
  PROVE  SchedulerInv'
<1> DEFINE ok == frame_owned
           f == Saved("user")
<1>1. ok
  BY Zenon, InvFacts DEF frame_owned, RunsOnOwnResources
<1>2. Owned(c, stack, proc, vm) /\ Framed(c, f, proc, c.tasks)
  <2>1. "user" \in FrameKind
    BY Zenon DEF FrameKind
  <2>2. "user" = IF IsUser(core.current) THEN "user" ELSE "kernel"
    OBVIOUS
  <2> QED BY Zenon, <2>1, <2>2, FollowsOwned
<1>3. Good(c) /\ Prompt(c)
  BY DEF Follows
<1>4. /\ proc' = proc /\ stack' = stack /\ vm' = vm /\ pit' = pit /\ raw' = raw /\ pc' = pc
  OBVIOUS
<1>5. /\ Owned(c, stack, proc', vm) /\ Framed(c, f, proc', c.tasks)
      /\ \A t \in Task : proc'[t] # "none" <=> proc[t] # "none"
  BY Zenon, <1>2, <1>4
<1>6. /\ c.now = pit' /\ pit' \in 0..MaxTick /\ raw' \in RawType /\ pc' \in PcType
      /\ (c.state[Boot] = "BLOCKED" => ~keyboard_has_pending(raw'))
  BY Zenon, <1>4, InvFacts DEF NoLostInput
<1>7. select_frame(c, ok, force, f)
  BY Zenon
<1> HIDE DEF ok, f
<1> QED BY Zenon, <1>1, <1>3, <1>4, <1>5, <1>6, <1>7, EntryEnds

(* sys_exit turns the current user thread into a zombie and leaves it.     *)
LEMMA UserExitKeeps ==
  ASSUME SchedulerInv, UserExits
  PROVE  SchedulerInv'
<1>1. /\ IsUser(core.current) /\ exit_user(core, TRUE, Saved("user"))
      /\ pit' = pit /\ raw' = raw /\ stack' = stack /\ vm' = vm /\ pc' = pc
  BY Zenon DEF UserExits
<1>2. "user" \in FrameKind
  BY DEF FrameKind
<1>3. /\ core.now = pit' /\ pit' \in 0..MaxTick /\ raw' \in RawType /\ pc' \in PcType
      /\ (core.state[Boot] = "BLOCKED" => ~keyboard_has_pending(raw'))
  BY Zenon, <1>1, InvFacts DEF NoLostInput
<1> QED BY Zenon, <1>1, <1>2, <1>3, SelfFollows, ExitEnds

(* YIELD and the system calls that only return go through the scheduler.   *)
LEMMA SysReturnKeeps ==
  ASSUME SchedulerInv, SysYield \/ SysReturn
  PROVE  SchedulerInv'
<1>1. PICK force \in BOOLEAN : select_frame(core, frame_owned, force, Saved("user"))
  BY Zenon DEF SysYield, SysReturn
<1>2. IsUser(core.current) /\ UNCHANGED <<pit, raw, stack, proc, vm, pc>>
  BY Zenon DEF SysYield, SysReturn
<1>3. Follows(core)
  BY SelfFollows
<1> QED BY Zenon, <1>1, <1>2, <1>3, UserEntryEnds

(* sys_sleep parks the user thread, or fails and returns to it.            *)
LEMMA SysSleepKeeps ==
  ASSUME SchedulerInv, NEW delay \in 1..MaxSleep, SysSleep(delay)
  PROVE  SchedulerInv'
<1> DEFINE c == sched_core_sleep_current(core, delay)
<1>1. IsUser(core.current) /\ UNCHANGED <<pit, raw, stack, proc, vm, pc>>
  BY Zenon DEF SysSleep
<1>2. CASE CanSleep(core, delay)
  <2>1. select_frame(c, frame_owned, TRUE, Saved("user"))
    BY Zenon, <1>2 DEF SysSleep
  <2>2. /\ Good(core) /\ Prompt(core) /\ core \in SchedCoreType /\ core.current \in Task
        /\ core.state \in [Task -> SchedState] /\ delay \in Nat
    <3>1. delay \in Nat
      BY SchedulerAssumption
    <3> QED BY Zenon, <3>1, InvFacts
  <2>3. current_can_wait(core)
    BY <1>2 DEF CanSleep
  <2>4. /\ c.tasks = core.tasks /\ c.current = core.current /\ c.now = core.now
        /\ c.preempt_depth = core.preempt_depth /\ c.reschedule = TRUE
        /\ c.state = [core.state EXCEPT ![core.current] = "SLEEPING"]
    BY <2>2 DEF sched_core_sleep_current, SchedCoreType
  <2>5. Good(c)
    BY <1>2, <2>2, SleepGood
  <2> HIDE DEF c
  <2>6. Prompt(c)
    BY Zenon, <2>2, <2>3, <2>4, ParkPrompt
  <2>7. Follows(core) /\ core.state[core.current] = "RUNNING"
    BY <1>1, SelfFollows
  <2>8. Follows(c)
    BY <2>2, <2>4, <2>5, <2>6, <2>7, TaskAssumption DEF Follows
  <2>9. c.state[Boot] = "BLOCKED" => core.state[Boot] = "BLOCKED"
    BY <2>2, <2>4, TaskAssumption
  <2> QED BY Zenon, <1>1, <2>1, <2>4, <2>8, <2>9, UserEntryEnds
<1>3. CASE ~CanSleep(core, delay)
  <2>1. select_frame(core, frame_owned, FALSE, Saved("user"))
    BY Zenon, <1>3 DEF SysSleep
  <2>2. Follows(core)
    BY SelfFollows
  <2> QED BY Zenon, <1>1, <2>1, <2>2, UserEntryEnds
<1> QED BY <1>2, <1>3

(* SPAWN: the new process joins inside a preempt region that closes before *)
(* the caller goes on, and the caller keeps the CPU.                       *)
LEMMA SysSpawnKeeps ==
  ASSUME SchedulerInv, NEW t \in Task, SysSpawn(t)
  PROVE  SchedulerInv'
<1> DEFINE u == core.current
           b == sched_core_preempt_disable(core)
           d == sched_core_add(b, t)
           e == sched_core_preempt_enable(d)
           f == [Saved("user") EXCEPT ![t] = "user"]
           ok == frame_owned /\ CanDisable(core) /\ CanEnable(d)
<1>1. /\ Good(core) /\ Prompt(core) /\ core \in SchedCoreType /\ u \in Task
      /\ core.state \in [Task -> SchedState] /\ core.preempt_depth \in [Task -> Nat]
      /\ core.tasks \in SUBSET Task /\ u \in core.tasks /\ core.now = pit
      /\ NoSwitchLeftPending /\ NoLostInput /\ RunsOnOwnResources
      /\ sched_core_validate(core) /\ raw \in RawType /\ pc \in PcType /\ pit \in 0..MaxTick
      /\ core.reschedule \in BOOLEAN
  BY Zenon, InvFacts, GoodFacts
<1>2. /\ IsUser(u) /\ CanAdd(b, t) /\ stack' = stack \cup {t}
      /\ proc' = [proc EXCEPT ![t] = "READY"] /\ vm' = vm \cup {t}
      /\ select_frame(e, ok, FALSE, f) /\ pit' = pit /\ raw' = raw /\ pc' = pc
  BY Zenon DEF SysSpawn
<1>3. /\ core.preempt_depth[u] = 0 /\ ~core.reschedule /\ core.state[u] = "RUNNING"
      /\ u # Idle /\ u # Boot
  BY Zenon, <1>1, <1>2, InvFacts DEF Owned, IsUser, NoSwitchLeftPending
<1>4. Good(b) /\ Prompt(b) /\ b = [core EXCEPT !.preempt_depth[u] = 1]
  <2>1. b = [core EXCEPT !.preempt_depth[u] = 1]
    BY <1>1, <1>3 DEF sched_core_preempt_disable
  <2>2. 1 \in Nat
    OBVIOUS
  <2> HIDE DEF b
  <2> QED BY Zenon, <1>1, <1>3, <2>1, <2>2, DepthGood, DepthPrompt
<1> HIDE DEF b
<1>5. /\ b.tasks = core.tasks /\ b.current = u /\ b.now = core.now
      /\ b.state = core.state /\ b.reschedule = core.reschedule
      /\ b.preempt_depth = [core.preempt_depth EXCEPT ![u] = 1]
  BY <1>1, <1>4 DEF SchedCoreType
<1>6. t \notin core.tasks /\ t # u
  BY Zenon, <1>1, <1>2, <1>5 DEF CanAdd
<1>7. Good(d) /\ Prompt(d)
  BY <1>2, <1>4, AddGood, AddPrompt
<1>8. /\ d.tasks = core.tasks \cup {t} /\ d.current = u /\ d.now = core.now
      /\ d.preempt_depth = [b.preempt_depth EXCEPT ![t] = 0]
      /\ d.state = [w \in Task |-> IF w = t THEN "READY" ELSE core.state[w]]
      /\ d.reschedule = (b.reschedule \/ b.current = Idle \/ b.state[b.current] # "RUNNING")
  <2>1. /\ d.tasks = b.tasks \cup {t} /\ d.current = b.current /\ d.now = b.now
        /\ d.preempt_depth = [b.preempt_depth EXCEPT ![t] = 0]
        /\ d.state = [w \in Task |-> IF w = t THEN "READY" ELSE b.state[w]]
        /\ d.reschedule = (b.reschedule \/ b.current = Idle \/ b.state[b.current] # "RUNNING")
    <3>1. Good(b) /\ CanAdd(b, t)
      BY <1>2, <1>4
    <3>2. d = sched_core_add(b, t) /\ t \in Task
      BY Zenon, <3>1 DEF CanAdd
    <3> HIDE DEF b, d
    <3> QED BY <3>1, <3>2, AddFacts
  <2> HIDE DEF d
  <2> QED BY Zenon, <1>5, <2>1
<1> HIDE DEF d
<1>9. /\ ~d.reschedule /\ d.state[u] = "RUNNING" /\ d.preempt_depth[u] = 1
  BY <1>1, <1>3, <1>5, <1>6, <1>8
<1>10. Good(e) /\ Prompt(e) /\ e = [d EXCEPT !.preempt_depth[u] = 0]
  <2>1. d.preempt_depth \in [Task -> Nat]
    BY Zenon, <1>7, GoodFacts
  <2>2. e = [d EXCEPT !.preempt_depth[u] = 0]
    BY <1>1, <1>8, <1>9, <2>1 DEF sched_core_preempt_enable
  <2>3. 0 \in Nat
    OBVIOUS
  <2> HIDE DEF e
  <2> QED BY Zenon, <1>7, <1>8, <1>9, <2>2, <2>3, DepthGood, DepthPrompt
<1> HIDE DEF e
<1>11. /\ e.tasks = core.tasks \cup {t} /\ e.current = u /\ e.now = core.now
       /\ e.state = [w \in Task |-> IF w = t THEN "READY" ELSE core.state[w]]
       /\ ~e.reschedule /\ e.state[u] = "RUNNING" /\ e.preempt_depth[u] = 0
  <2>1. d \in SchedCoreType
    BY Zenon, <1>7, GoodFacts
  <2>2. /\ e.tasks = d.tasks /\ e.current = d.current /\ e.now = d.now
        /\ e.state = d.state /\ e.reschedule = d.reschedule
        /\ e.preempt_depth = [d.preempt_depth EXCEPT ![u] = 0]
        /\ d.preempt_depth \in [Task -> Nat]
    BY <1>10, <2>1 DEF SchedCoreType
  <2> QED BY Zenon, <1>1, <1>8, <1>9, <2>2
<1>12. ok
  <2>1. frame_owned
    BY Zenon, <1>1 DEF frame_owned, RunsOnOwnResources
  <2>2. CanDisable(core)
    BY <1>1, <1>3, BoundAssumption DEF CanDisable
  <2>3. CanEnable(d)
    BY <1>7, <1>8, <1>9 DEF CanEnable, Good
  <2> QED BY Zenon, <2>1, <2>2, <2>3
<1>13. sched_core_select(e, FALSE) = e /\ CanSelect(e)
  BY <1>10, <1>11 DEF sched_core_select, KeepsCurrent, CanSelect, Good
<1> HIDE DEF f, ok
<1>14. /\ core' = e /\ frame' = f /\ rsp0' = u
       /\ cr3' = (IF IsUser(u) THEN u ELSE Kernel)
       /\ panicked' = ~(ok /\ CanSelect(e) /\ valid_frame(u, f))
  <2> DEFINE a == sched_core_select(e, FALSE)
  <2>1. /\ core' = a /\ frame' = f /\ rsp0' = a.current
        /\ cr3' = (IF IsUser(a.current) THEN a.current ELSE Kernel)
        /\ panicked' = ~(ok /\ CanSelect(e) /\ valid_frame(a.current, f))
    BY <1>2 DEF select_frame
  <2> HIDE DEF a
  <2>2. a = e
    BY Zenon, <1>13 DEF a
  <2> QED BY Zenon, <1>11, <2>1, <2>2
<1>15. Follows(core)
  BY SelfFollows
<1>16. Framed(core, Saved("user"), proc, core.tasks)
  <2>1. "user" \in FrameKind
    BY DEF FrameKind
  <2>2. "user" = IF IsUser(core.current) THEN "user" ELSE "kernel"
    BY <1>2
  <2> QED BY Zenon, <1>15, <2>1, <2>2, FollowsOwned
<1>17. Owned(e, stack', proc', vm') /\ Framed(e, f, proc', core.tasks \cup {t})
       /\ proc'[u] = proc[u]
  <2>1. proc \in [Task -> ProcState]
    BY Zenon, InvFacts DEF Owned
  <2>2. /\ proc' \in [Task -> ProcState] /\ \A w \in Task \ {t} : proc'[w] = proc[w]
        /\ proc'[t] = "READY"
    BY <1>2, <2>1 DEF ProcState
  <2>3. "user" \in {"kernel", "user"} /\ "kernel" # "user"
    OBVIOUS
  <2>4. Owned(e, stack \cup {t}, proc', vm')
    BY Zenon, <1>2, <1>6, <1>11, <2>2, <2>3, JoinOwned
  <2>5. core.tasks \subseteq core.tasks
    OBVIOUS
  <2>6. Framed(e, f, proc', core.tasks \cup {t})
    BY Zenon, <1>2, <1>6, <1>11, <1>16, <2>2, <2>3, <2>5, JoinOwned DEF f
  <2> QED BY Zenon, <1>1, <1>2, <1>6, <2>2, <2>4, <2>6
<1>18. panicked' = FALSE
  <2>1. u \in stack /\ f[u] = "user"
    <3>1. u \in stack
      BY <1>1, <1>3 DEF RunsOnOwnResources
    <3>2. f[u] = IF proc'[u] # "none" THEN "user" ELSE "kernel"
      BY Zenon, <1>1, <1>11, <1>17 DEF Framed
    <3> QED BY Zenon, <1>2, <1>17, <3>1, <3>2 DEF IsUser
  <2>2. valid_frame(u, f)
    BY Zenon, <1>2, <2>1 DEF valid_frame
  <2> QED BY Zenon, <1>12, <1>13, <1>14, <2>2
<1>19. Owned(core', stack', proc', vm') /\ Framed(core', frame', proc', core'.tasks \ {core'.current})
  <2>1. Framed(e, f, proc', e.tasks \ {e.current})
    BY Zenon, <1>11, <1>17 DEF Framed
  <2> QED BY Zenon, <1>14, <1>17, <2>1
<1>20. NoSwitchLeftPending' /\ NoLostInput'
  BY Zenon, <1>1, <1>2, <1>6, <1>11, <1>14, TaskAssumption DEF NoSwitchLeftPending, NoLostInput
<1>21. RunsOnOwnResources'
  BY Zenon, <1>1, <1>2, <1>11, <1>14, <1>17, InvFacts DEF RunsOnOwnResources, IsUser
<1>22. KernelTypeOK'
  <2>1. /\ Good(core') /\ pit' \in 0..MaxTick /\ raw' \in RawType /\ pc' \in PcType
        /\ cr3' \in Task \cup {Kernel} /\ rsp0' \in Task /\ panicked' \in BOOLEAN
    BY <1>1, <1>2, <1>10, <1>14, <1>18
  <2> QED BY Zenon, <1>19, <2>1, TypeKept
<1> QED BY <1>1, <1>2, <1>10, <1>11, <1>14, <1>18, <1>19, <1>20, <1>21, <1>22 DEF SchedulerInv

-----------------------------------------------------------------------------
(* The invariant and what it says                                          *)

(* The state scheduler_init leaves behind satisfies the invariant.         *)
LEMMA SchedulerInitInv ==
  ASSUME SchedulerInit
  PROVE  SchedulerInv
<1>1. core = sched_core_init(0)
  BY DEF SchedulerInit, CoreInit
<1>2. Good(core)
  BY <1>1, InitGood
<1>3. /\ core.tasks = {Idle, Boot} /\ core.current = Boot /\ core.ready = <<>>
      /\ core.now = 0 /\ ~core.reschedule
      /\ core.state = [t \in Task |-> IF t = Idle THEN "READY" ELSE "RUNNING"]
      /\ core.quantum_left = [t \in Task |-> IF t \in {Idle, Boot} THEN Quantum ELSE 0]
      /\ core.preempt_depth = [t \in Task |-> 0]
  BY <1>1 DEF sched_core_init
<1>4. Prompt(core)
  BY <1>3, TaskAssumption, BoundAssumption DEF Prompt
<1>5. Owned(core, stack, proc, vm)
  BY <1>3, TaskAssumption DEF SchedulerInit, Owned, ProcState
<1>6. Framed(core, frame, proc, core.tasks \ {core.current})
  BY <1>3, TaskAssumption DEF SchedulerInit, Framed, FrameKind
<1>7. NoSwitchLeftPending /\ NoLostInput /\ RunsOnOwnResources
  BY Zenon, <1>3, TaskAssumption
     DEF SchedulerInit, NoSwitchLeftPending, NoLostInput, RunsOnOwnResources, IsUser
<1>8. KernelTypeOK
  <2>1. core \in SchedCoreType
    BY Zenon, <1>2, GoodFacts
  <2>2. pit \in 0..MaxTick /\ raw \in RawType
    BY BoundAssumption, SchedulerAssumption DEF SchedulerInit, RawType
  <2>3. pc \in PcType
    BY TaskAssumption DEF SchedulerInit, PcType
  <2>4. /\ stack \subseteq Task /\ vm \subseteq Task /\ proc \in [Task -> ProcState]
        /\ frame \in [Task -> FrameKind]
    BY TaskAssumption DEF SchedulerInit, ProcState, FrameKind
  <2>5. cr3 \in Task \cup {Kernel} /\ rsp0 \in Task /\ panicked \in BOOLEAN
    BY Zenon, TaskAssumption DEF SchedulerInit
  <2> QED BY Zenon, <2>1, <2>2, <2>3, <2>4, <2>5
          DEF KernelTypeOK, CoreTypeOK, RawType, PcType, ProcState, FrameKind
<1> QED BY ZenonT(30), <1>2, <1>3, <1>4, <1>5, <1>6, <1>7, <1>8 DEF SchedulerInit, SchedulerInv

(* Every step of the kernel keeps the invariant.                           *)
LEMMA SchedulerStep ==
  ASSUME SchedulerInv, [SchedulerNext]_vars
  PROVE  SchedulerInv'
<1>1. CASE Interrupt
  BY <1>1, TimerKeeps, KeyboardKeeps DEF Interrupt
<1>2. CASE KernelThread
  BY Zenon, <1>2, YieldKeeps, ThreadExitKeeps, DisableKeeps, EnableKeeps, SleepKeeps,
     CreateKeeps DEF KernelThread
<1>3. CASE Loops
  BY <1>3, ReapKeeps, ReadByteKeeps, LeaveBatchKeeps, WaitInputKeeps, IdleHaltsKeeps
     DEF Loops
<1>4. CASE UserThread
  BY Zenon, <1>4, UserExitKeeps, SysReturnKeeps, SysSleepKeeps, SysSpawnKeeps
     DEF UserThread
<1>5. CASE UNCHANGED vars
  BY Zenon, <1>5, InvFacts, LoopEnds DEF vars, NoLostInput
<1> QED BY <1>1, <1>2, <1>3, <1>4, <1>5 DEF SchedulerNext

(* Every reachable state of the scheduler satisfies the invariant, for any *)
(* set of tasks and any bounds.                                            *)
THEOREM SchedulerInvariant == SchedulerSpec => []SchedulerInv
<1>1. SchedulerInit => SchedulerInv
  BY SchedulerInitInv
<1>2. SchedulerInv /\ [SchedulerNext]_vars => SchedulerInv'
  BY SchedulerStep
<1> QED BY <1>1, <1>2, PTL DEF SchedulerSpec

(* No PANIC of scheduler.c or process.c is reachable (TimerInterrupt to    *)
(* SysReturn: every policy call the kernel does not check first succeeds,  *)
(* every selected frame can be returned to, the reaper owns what it frees).*)
THEOREM NeverPanics == SchedulerSpec => []NoPanic
<1>1. SchedulerInv => NoPanic
  BY DEF SchedulerInv, NoPanic
<1> QED BY <1>1, SchedulerInvariant, PTL

(* Control never returns to a thread that may be preempted while a switch  *)
(* is still pending (select_frame, preempt_enable).                        *)
THEOREM NoSwitchEverPending == SchedulerSpec => []NoSwitchLeftPending
<1>1. SchedulerInv => NoSwitchLeftPending
  BY DEF SchedulerInv
<1> QED BY <1>1, SchedulerInvariant, PTL

(* The shell is never blocked with a byte or a reset waiting in the ring   *)
(* (scheduler_wait_input against IRQ1).                                    *)
THEOREM NoInputLost == SchedulerSpec => []NoLostInput
<1>1. SchedulerInv => NoLostInput
  BY DEF SchedulerInv
<1> QED BY <1>1, SchedulerInvariant, PTL

(* The CPU runs on the current thread's own stack and address space, and   *)
(* stacks and address spaces exist exactly for the registered threads      *)
(* (select_frame, scheduler_create_user, thread_reap).                     *)
THEOREM ResourcesAlwaysExact == SchedulerSpec => []ResourcesExact
<1>1. SchedulerInv => ResourcesExact
  BY Zenon DEF SchedulerInv, ResourcesExact, OwnershipExact, Owned, IsUser
<1> QED BY <1>1, SchedulerInvariant, PTL

=============================================================================
