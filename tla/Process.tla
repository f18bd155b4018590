------------------------------- MODULE Process -------------------------------
(***************************************************************************)
(* Processes: kernel/core/process.c, the SPAWN, WAIT and EXIT system calls  *)
(* and the shell's wait_process.                                           *)
(*                                                                         *)
(* struct process objects live at addresses of the heap; registry holds    *)
(* pointers to them and history is the ring of the last results.  An       *)
(* object with state EXITED is one whose thread is a ZOMBIE: thread_reap   *)
(* finds it through the thread and hands it to process_reap.               *)
(*                                                                         *)
(* System calls, faults, thread_reap, process_collect_child and            *)
(* process_spawn_elf run with IF=0 and are one step each.                  *)
(* process_spawn_probe builds its process with IF=1 under preempt_disable  *)
(* and is two steps.  Scheduling is left to the module Scheduler: here any *)
(* live process, the shell or idle may take the next step.                 *)
(***************************************************************************)
EXTENDS Integers, Sequences, FiniteSetsExt

CONSTANTS
  Addr,       \* where kcalloc can put a struct process
  Limit,      \* UTAMO_PROCESS_LIMIT
  History,    \* UTAMO_PROCESS_HISTORY
  MaxPid,     \* INT64_MAX, the last pid
  Codes,      \* statuses a program passes to EXIT
  Vectors,    \* exceptions a program can raise
  Polls       \* rounds of wait_process before its deadline

ASSUME ProcessAssumption ==
  /\ Limit \in Nat \ {0} /\ History \in Nat \ {0}
  /\ MaxPid \in Nat \ {0} /\ Polls \in Nat \ {0}
  /\ 0 \in Codes /\ Codes \subseteq Int /\ Vectors \subseteq Nat
  /\ "NULL" \notin Addr

VARIABLES
  heap,       \* the struct process objects, Free where there is none
  registry,   \* registry[], Null for NULL
  history,    \* history[]
  cursor,     \* history_cursor, from 1
  next_pid,
  active,     \* statistics.active
  shell,      \* the kernel thread that spawns probes and runs `exec'
  panicked,   \* PANIC was reached
  reaped,     \* ghost: the results of all reaped processes, oldest first
  delivered   \* ghost: every status WAIT copied out

vars == <<heap, registry, history, cursor, next_pid, active, shell, panicked,
          reaped, delivered>>

Free == [state |-> "FREE"]
Null == "NULL"
Pid == 1..MaxPid

Outcome == [code : Int, faulted : BOOLEAN]
Success == [code |-> 0, faulted |-> FALSE]

(* A struct process.  waits is the child user_wait polls for, 0 outside.   *)
ProcessObject ==
  [state : {"BUILT", "READY", "EXITED"}, pid : Pid, parent_pid : 0..MaxPid,
   exit : Outcome, waits : 0..MaxPid]

NewProcess(pid, parent) ==
  [state |-> "READY", pid |-> pid, parent_pid |-> parent, exit |-> Success, waits |-> 0]

Result == [pid : 0..MaxPid, parent_pid : 0..MaxPid, exit : Outcome, collected : BOOLEAN]
NoResult == [pid |-> 0, parent_pid |-> 0, exit |-> Success, collected |-> FALSE]

(* The shell outside its calls, with what its last `exec' reported.        *)
ShellReady(pid, good) == [pc |-> "ready", pid |-> pid, good |-> good]

ProcessTypeOK ==
  /\ \A a \in Addr : heap[a] \in ProcessObject \cup {Free}
  /\ registry \in [1..Limit -> Addr \cup {Null}]
  /\ \A i \in 1..History : history[i] \in Result
  /\ cursor \in 1..History
  /\ next_pid \in 1..(MaxPid + 1)
  /\ active \in 0..Limit
  /\ \/ shell \in [pc : {"ready"}, pid : 0..MaxPid, good : BOOLEAN]
     \/ shell \in [pc : {"constructing"}, slot : 1..Limit, addr : Addr]
     \/ shell \in [pc : {"waiting"}, pid : Pid, left : 0..Polls, reap : BOOLEAN]

-----------------------------------------------------------------------------
(* Construction                                                            *)

Live == {a \in Addr : heap[a].state = "READY"}

(* The first free slot of the registry, Limit + 1 if there is none.        *)
FreeSlot == CHOOSE s \in 1..(Limit + 1) :
              /\ s <= Limit => registry[s] = Null
              /\ \A r \in 1..(s - 1) : registry[r] # Null

(* Mutant: preemption stays enabled during construction.                   *)
Runs_Preemptible == TRUE

(* Other threads run only outside the shell's preempt-disabled region.     *)
Runs == shell.pc # "constructing"

(* process_spawn_probe up to publication: a slot is chosen, the object is  *)
(* allocated and given the next pid, interrupts on.                        *)
process_spawn_probe ==
  /\ shell.pc = "ready"
  /\ next_pid <= MaxPid
  /\ FreeSlot <= Limit
  /\ \E a \in {b \in Addr : heap[b] = Free} :
       /\ shell' = [pc |-> "constructing", slot |-> FreeSlot, addr |-> a]
       /\ heap' = [heap EXCEPT ![a] = [NewProcess(next_pid, 0) EXCEPT !.state = "BUILT"]]
  /\ UNCHANGED <<registry, history, cursor, next_pid, active, panicked, reaped, delivered>>

Publish(slot, a, object) ==
  /\ heap' = [heap EXCEPT ![a] = object]
  /\ registry' = [registry EXCEPT ![slot] = a]
  /\ next_pid' = next_pid + 1
  /\ active' = active + 1

(* Its end: publication with IF=0, or the roll-back when an allocation     *)
(* failed.                                                                 *)
PublishProbe ==
  /\ shell.pc = "constructing"
  /\ shell' = ShellReady(0, FALSE)
  /\ \/ Publish(shell.slot, shell.addr, [heap[shell.addr] EXCEPT !.state = "READY"])
     \/ /\ heap' = [heap EXCEPT ![shell.addr] = Free]
        /\ UNCHANGED <<registry, next_pid, active>>
  /\ UNCHANGED <<history, cursor, panicked, reaped, delivered>>

(* process_spawn_elf, for a parent process or, with 0, for the shell.      *)
process_spawn_elf(parent) ==
  /\ next_pid <= MaxPid
  /\ FreeSlot <= Limit
  /\ \E a \in {b \in Addr : heap[b] = Free} :
       Publish(FreeSlot, a, NewProcess(next_pid, parent))
  /\ UNCHANGED <<history, cursor, panicked, reaped, delivered>>

-----------------------------------------------------------------------------
(* The end of a process                                                    *)

process_mark_exit(a, exit) ==
  /\ heap' = [heap EXCEPT ![a] = [@ EXCEPT !.state = "EXITED", !.exit = exit]]
  /\ UNCHANGED <<registry, history, cursor, next_pid, active, shell, panicked, reaped, delivered>>

SysExit(a) ==
  /\ Runs /\ a \in Live /\ heap[a].waits = 0
  /\ \E code \in Codes : process_mark_exit(a, [code |-> code, faulted |-> FALSE])

process_on_fault(a) ==
  /\ Runs /\ a \in Live /\ heap[a].waits = 0
  /\ \E v \in Vectors : process_mark_exit(a, [code |-> -(128 + v), faulted |-> TRUE])

Registered(a) == \E s \in 1..Limit : registry[s] = a

ResultOf(p) ==
  [pid |-> p.pid, parent_pid |-> p.parent_pid, exit |-> p.exit, collected |-> FALSE]

(* Where the n-th result from now goes: each goes to the cursor and moves  *)
(* it on by one, modulo History.                                           *)
Place(n) == ((cursor + n - 2) % History) + 1

(* The result that is left at place i when these have gone into the ring   *)
(* in their order: the last History of them are, over what was there.      *)
Left(results, i) ==
  LET here == {n \in 1..Len(results) : n > Len(results) - History /\ Place(n) = i}
  IN  IF here = {} THEN history[i] ELSE results[CHOOSE n \in here : TRUE]

Zombies == {a \in Addr : heap[a].state = "EXITED"}

(* thread_reap: process_reap of every zombie, in the order of the thread   *)
(* table.                                                                  *)
thread_reap ==
  \E q \in Bijection(1..Cardinality(Zombies), Zombies) :
    LET results == [n \in 1..Cardinality(Zombies) |-> ResultOf(heap[q[n]])]
    IN  /\ history' = [i \in 1..History |-> Left(results, i)]
        /\ cursor' = Place(Len(results) + 1)
        /\ registry' = [s \in 1..Limit |-> IF registry[s] \in Zombies THEN Null ELSE registry[s]]
        /\ active' = active - Len(results)
        /\ heap' = [a \in Addr |-> IF a \in Zombies THEN Free ELSE heap[a]]
        /\ panicked' = ~ (\A a \in Zombies : Registered(a))
        /\ reaped' = reaped \o results

(* Idle reaps whenever it runs, the shell between two batches of input.    *)
ReaperRuns ==
  /\ Runs
  /\ thread_reap
  /\ UNCHANGED <<next_pid, shell, delivered>>

-----------------------------------------------------------------------------
(* WAIT                                                                    *)

(* The registry still holds a child of that pid.                           *)
HasChild(parent, child) ==
  \E s \in 1..Limit :
    /\ registry[s] # Null
    /\ heap[registry[s]].pid = child
    /\ heap[registry[s]].parent_pid = parent

Uncollected(parent, child) ==
  {i \in 1..History : /\ history[i].pid = child
                      /\ history[i].parent_pid = parent
                      /\ ~history[i].collected}

(* Mutant: a result that is not there may still come.                      *)
CollectAnswer_Again(parent, child, copied) ==
  IF Uncollected(parent, child) # {} THEN IF copied THEN "OK" ELSE "EFAULT"
  ELSE "EAGAIN"

(* What process_collect_child answers; copied says whether the status      *)
(* address can be written.                                                 *)
CollectAnswer(parent, child, copied) ==
  IF Uncollected(parent, child) # {} THEN IF copied THEN "OK" ELSE "EFAULT"
  ELSE IF HasChild(parent, child) THEN "EAGAIN" ELSE "ENOENT"

process_collect_child(parent, child, copied) ==
  IF CollectAnswer(parent, child, copied) = "OK"
  THEN LET i == Min(Uncollected(parent, child))
       IN  /\ history' = [history EXCEPT ![i].collected = TRUE]
           /\ delivered' = Append(delivered,
                [to |-> parent, pid |-> child, exit |-> history[i].exit])
  ELSE UNCHANGED <<history, delivered>>

(* One round of user_wait: the call, then the loop ends unless EAGAIN.     *)
SysWait(a, child, copied) ==
  LET parent == heap[a].pid
  IN  /\ Runs /\ a \in Live /\ heap[a].waits \in {0, child}
      /\ process_collect_child(parent, child, copied)
      /\ heap' = [heap EXCEPT ![a].waits =
                    IF CollectAnswer(parent, child, copied) = "EAGAIN" THEN child ELSE 0]
      /\ UNCHANGED <<registry, cursor, next_pid, active, shell, panicked, reaped>>

SysSpawn(a) ==
  /\ Runs /\ a \in Live /\ heap[a].waits = 0
  /\ process_spawn_elf(heap[a].pid)
  /\ UNCHANGED shell

-----------------------------------------------------------------------------
(* The shell's `exec': filesystem_run and wait_process                     *)

filesystem_run ==
  /\ shell.pc = "ready"
  /\ process_spawn_elf(0)
  /\ shell' = [pc |-> "waiting", pid |-> next_pid, left |-> Polls, reap |-> TRUE]

(* The loop's thread_reap; the deadline is checked before it.              *)
WaitReaps ==
  /\ shell.pc = "waiting" /\ shell.reap
  /\ IF shell.left = 0
     THEN /\ shell' = ShellReady(shell.pid, FALSE)
          /\ UNCHANGED <<heap, registry, history, cursor, active, panicked, reaped>>
     ELSE /\ thread_reap
          /\ shell' = [shell EXCEPT !.reap = FALSE, !.left = @ - 1]
  /\ UNCHANGED <<next_pid, delivered>>

(* Mutant: the latest result, whose ever it is.                            *)
Recorded_Latest(pid) == {i \in 1..History : (i % History) + 1 = cursor /\ history[i].pid # 0}

(* process_get_result: the first entry of that pid, collected or not.      *)
Recorded(pid) == {i \in 1..History : history[i].pid = pid}

WaitLooks ==
  /\ shell.pc = "waiting" /\ ~shell.reap
  /\ LET found == Recorded(shell.pid)
     IN  shell' = IF found = {} THEN [shell EXCEPT !.reap = TRUE]
                  ELSE ShellReady(shell.pid, history[Min(found)].exit = Success)
  /\ UNCHANGED <<heap, registry, history, cursor, next_pid, active, panicked, reaped, delivered>>

-----------------------------------------------------------------------------
ProcessInit ==
  /\ heap = [a \in Addr |-> Free]
  /\ registry = [s \in 1..Limit |-> Null]
  /\ history = [i \in 1..History |-> NoResult]
  /\ cursor = 1
  /\ next_pid = 1
  /\ active = 0
  /\ shell = ShellReady(0, FALSE)
  /\ panicked = FALSE
  /\ reaped = <<>>
  /\ delivered = <<>>

Program(a) ==
  \/ SysExit(a) \/ process_on_fault(a) \/ SysSpawn(a)
  \/ \E child \in Pid, copied \in BOOLEAN : SysWait(a, child, copied)

ShellStep ==
  process_spawn_probe \/ PublishProbe \/ filesystem_run \/ WaitReaps \/ WaitLooks

ProcessNext == ~panicked /\ (ReaperRuns \/ ShellStep \/ \E a \in Addr : Program(a))

ProcessSpec == ProcessInit /\ [][ProcessNext]_vars

(* Every ready thread gets the CPU outside the finite regions with         *)
(* preemption disabled (EveryThreadRuns of Scheduler), so a thread that    *)
(* can go on again and again does: a parent in user_wait, the finite calls *)
(* of the shell, and the reaper.  The reaper runs in idle and the shell    *)
(* only: a program that computes for ever while the shell is blocked would *)
(* starve it, and is excluded here.                                        *)
WaitRound(a) == \E copied \in BOOLEAN : SysWait(a, heap[a].waits, copied)

ProcessFairness ==
  /\ SF_vars(~panicked /\ ReaperRuns)
  /\ WF_vars(~panicked /\ (PublishProbe \/ WaitReaps \/ WaitLooks))
  /\ \A a \in Addr : SF_vars(~panicked /\ heap[a] # Free /\ heap[a].waits # 0 /\ WaitRound(a))

FairProcessSpec == ProcessSpec /\ ProcessFairness

-----------------------------------------------------------------------------
(* Properties                                                              *)

Published == {a \in Addr : heap[a].state \in {"READY", "EXITED"}}

(* The registry, the live objects and the active count describe the same   *)
(* processes: each published process is in exactly one slot, no two have   *)
(* the same pid, and the reaper never meets one that is not registered     *)
(* (its PANIC).  A slot and a pid chosen with interrupts on stay good      *)
(* until process_spawn_probe publishes them.                               *)
RegistryExact ==
  /\ ProcessTypeOK
  /\ ~panicked
  /\ \A a \in Published : Cardinality({s \in 1..Limit : registry[s] = a}) = 1
  /\ \A s \in 1..Limit : registry[s] # Null => registry[s] \in Published
  /\ \A a, b \in Published : heap[a].pid = heap[b].pid => a = b
  /\ \A a \in Published : heap[a].pid < next_pid
  /\ active = Cardinality(Published)

(* A result is lost only to History later ones: the ring always holds the  *)
(* results of the last History reaped processes, unchanged                 *)
(* (process_reap).                                                         *)
ResultsKept ==
  \A k \in 1..Len(reaped) : k > Len(reaped) - History =>
    \E i \in 1..History :
      [history[i] EXCEPT !.collected = FALSE] = reaped[k]

(* What WAIT must answer, told from everything that ever happened: EAGAIN  *)
(* from SPAWN until the child is reaped, then its status once, ENOENT for  *)
(* strangers, for a status already given and for one History others have   *)
(* pushed out.                                                             *)
IsChild(parent, child) ==
  \E a \in Published : heap[a].pid = child /\ heap[a].parent_pid = parent
HasResult(parent, child) ==
  /\ \E k \in 1..Len(reaped) : /\ k > Len(reaped) - History
                              /\ reaped[k].pid = child
                              /\ reaped[k].parent_pid = parent
  /\ ~ \E d \in Range(delivered) : d.pid = child

WaitAnswersRight ==
  \A a \in Live, child \in Pid :
    LET parent == heap[a].pid
    IN  CollectAnswer(parent, child, TRUE) =
          IF IsChild(parent, child) THEN "EAGAIN"
          ELSE IF HasResult(parent, child) THEN "OK" ELSE "ENOENT"

(* A status is delivered at most once, to the parent, and is the one the   *)
(* child exited with (process_collect_child).                              *)
DeliveredOnce ==
  /\ \A i, j \in 1..Len(delivered) : delivered[i].pid = delivered[j].pid => i = j
  /\ \A d \in Range(delivered) :
       \E e \in Range(reaped) : e.pid = d.pid /\ e.parent_pid = d.to /\ e.exit = d.exit

(* Results are neither lost early, nor altered, nor given out twice or to  *)
(* anyone but the parent (process_reap, process_collect_child).            *)
ResultsExact == ResultsKept /\ DeliveredOnce

(* What the kernel keeps of its processes is exact while they live and     *)
(* after: the registry, the pids and the active count, then the results    *)
(* (process_spawn_probe, process_reap, process_collect_child).             *)
BookkeepingExact == RegistryExact /\ ResultsExact

(* `exec' reports success only for a process that exited with 0 and did    *)
(* not fault, whatever else finished meanwhile (wait_process).             *)
ExecTellsTruth ==
  shell.pc = "ready" /\ shell.good =>
    \E e \in Range(reaped) : e.pid = shell.pid /\ e.exit = Success

(* What the shell and a parent are told of a process is what became of it  *)
(* (wait_process, process_collect_child).                                  *)
AnswersTrue == WaitAnswersRight /\ ExecTellsTruth

(* `exec' comes back, even for a process that never ends (wait_process).   *)
ExecReturns == shell.pc = "waiting" ~> shell.pc = "ready"

WaitsFor(a, child) == heap[a].state = "READY" /\ heap[a].waits = child
Ended(pid) == \A b \in Live : heap[b].pid # pid

(* A parent in user_wait is released once its child has ended, whether the *)
(* child's result is still there or not.                                   *)
WaitEnds ==
  \A a \in Addr, child \in Pid :
    (WaitsFor(a, child) /\ Ended(child)) ~> ~WaitsFor(a, child)

(* Neither polling loop lasts for ever (wait_process, user_wait).          *)
PollingEnds == ExecReturns /\ WaitEnds

=============================================================================
