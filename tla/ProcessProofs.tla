---------------------------- MODULE ProcessProofs ----------------------------
(* Theorems about processes, for any number of slots, results, pids and     *)
(* objects: what the kernel keeps of its processes is exact, and what it    *)
(* answers a parent and the shell is true.                                  *)
EXTENDS Process, FiniteSetTheorems, WellFoundedInduction, TLAPS

-----------------------------------------------------------------------------
(* The inductive invariant                                                  *)

Delivery == [to : Pid, pid : Pid, exit : Outcome]

ShellState ==
  [pc : {"ready"}, pid : 0..MaxPid, good : BOOLEAN]
    \cup [pc : {"constructing"}, slot : 1..Limit, addr : Addr]
    \cup [pc : {"waiting"}, pid : Pid, left : 0..Polls, reap : BOOLEAN]

ProcType ==
  /\ heap \in [Addr -> ProcessObject \cup {Free}]
  /\ registry \in [1..Limit -> Addr \cup {Null}]
  /\ history \in [1..History -> Result]
  /\ cursor \in 1..History
  /\ next_pid \in 1..(MaxPid + 1)
  /\ active \in Nat
  /\ shell \in ShellState
  /\ panicked = FALSE
  /\ reaped \in Seq(Result)
  /\ delivered \in Seq(Delivery)

(* Published objects and occupied slots are in one-to-one correspondence.   *)
SlotsExact ==
  /\ \A a \in Published : Registered(a)
  /\ \A s \in 1..Limit : registry[s] # Null => registry[s] \in Published
  /\ \A s, r \in 1..Limit : registry[s] # Null /\ registry[s] = registry[r] => s = r
  /\ IsFiniteSet(Published) /\ active = Cardinality(Published)

(* A pid belongs to one process, published or reaped, and the next one to   *)
(* none; the object that process_spawn_probe is building has the next.      *)
PidsExact ==
  /\ \A a, b \in Published : heap[a].pid = heap[b].pid => a = b
  /\ \A a \in Published : heap[a].pid < next_pid
  /\ \A k \in 1..Len(reaped) : reaped[k].pid \in 1..(next_pid - 1) /\ ~reaped[k].collected
  /\ \A k, m \in 1..Len(reaped) : reaped[k].pid = reaped[m].pid => k = m
  /\ \A a \in Published, k \in 1..Len(reaped) : heap[a].pid # reaped[k].pid

(* What is built while preemption is off is still there to be published.    *)
ConstructionSafe ==
  shell.pc = "constructing" =>
    /\ next_pid <= MaxPid
    /\ registry[shell.slot] = Null
    /\ heap[shell.addr].state = "BUILT"
    /\ heap[shell.addr].pid = next_pid

(* The slot of the ring that the k-th of all results goes to.               *)
Slot(k) == ((k - 1) % History) + 1

(* The results still in the ring.                                           *)
Window == {k \in 1..Len(reaped) : k > Len(reaped) - History}

(* The ring holds the last History results, each in its slot, and those     *)
(* that were delivered are marked.                                          *)
RingExact ==
  /\ cursor = Slot(Len(reaped) + 1)
  /\ \A k \in Window :
       LET e == history[Slot(k)]
       IN  /\ e.pid = reaped[k].pid /\ e.parent_pid = reaped[k].parent_pid
           /\ e.exit = reaped[k].exit
           /\ e.collected <=> \E d \in Range(delivered) : d.pid = e.pid
  /\ \A i \in 1..History : history[i].pid # 0 => \E k \in Window : Slot(k) = i

ProcInv ==
  ProcType /\ SlotsExact /\ PidsExact /\ ConstructionSafe /\ RingExact
    /\ DeliveredOnce /\ ExecTellsTruth

-----------------------------------------------------------------------------
(* The slots of the ring                                                    *)

(* A remainder and its quotient.                                            *)
LEMMA Remainder ==
  ASSUME NEW x \in Nat
  PROVE  x % History \in 0..(History - 1) /\ \E q \in Nat : x = q * History + (x % History)
<1>1. History \in Nat \ {0} BY ProcessAssumption
<1>2. x % History \in 0..(History - 1) BY <1>1
<1>3. x \div History \in Nat BY <1>1
<1>4. x = (x \div History) * History + (x % History) BY <1>1
<1> QED BY <1>2, <1>3, <1>4

(* A number has one remainder.                                              *)
LEMMA RemainderUnique ==
  ASSUME NEW q \in Nat, NEW r \in 0..(History - 1)
  PROVE  (q * History + r) % History = r
<1>1. History \in Nat \ {0} BY ProcessAssumption
<1> DEFINE x == q * History + r
<1>2. x \in Nat BY <1>1
<1>3. PICK p \in Nat : x = p * History + (x % History) BY <1>2, Remainder
<1>4. x % History \in 0..(History - 1) BY <1>2, Remainder
<1>5. (p - q) * History = r - (x % History) BY <1>1, <1>3, <1>4
<1>6. CASE p - q >= 1 BY <1>1, <1>4, <1>5, <1>6
<1>7. CASE p - q <= -1 BY <1>1, <1>4, <1>5, <1>7
<1>8. CASE p = q BY <1>1, <1>3, <1>4, <1>8
<1> QED BY <1>6, <1>7, <1>8

(* Every result has a slot of the ring.                                     *)
LEMMA SlotType ==
  ASSUME NEW k \in Nat \ {0}
  PROVE  Slot(k) \in 1..History
<1>1. k - 1 \in Nat /\ History \in Nat \ {0} BY ProcessAssumption
<1>2. (k - 1) % History \in 0..(History - 1) BY Zenon, <1>1, Remainder
<1> QED BY <1>1, <1>2 DEF Slot

(* Fewer than History results in a row are in different slots.              *)
LEMMA SlotsDiffer ==
  ASSUME NEW k \in Nat \ {0}, NEW m \in Nat \ {0}, k < m, m < k + History
  PROVE  Slot(k) # Slot(m)
<1> SUFFICES ASSUME Slot(k) = Slot(m) PROVE FALSE OBVIOUS
<1>1. k - 1 \in Nat /\ m - 1 \in Nat /\ History \in Nat \ {0} BY ProcessAssumption
<1>2. PICK q \in Nat : k - 1 = q * History + ((k - 1) % History) BY Zenon, <1>1, Remainder
<1>3. PICK p \in Nat : m - 1 = p * History + ((m - 1) % History) BY Zenon, <1>1, Remainder
<1>4. /\ (k - 1) % History \in 0..(History - 1) /\ (m - 1) % History \in 0..(History - 1)
  BY Zenon, <1>1, Remainder
<1>5. (k - 1) % History = (m - 1) % History BY <1>4 DEF Slot
<1>6. (p - q) * History = m - k
  <2> DEFINE r == (k - 1) % History
  <2>1. k - 1 = q * History + r /\ m - 1 = p * History + r /\ r \in Nat
    BY <1>1, <1>2, <1>3, <1>4, <1>5
  <2> HIDE DEF r
  <2> QED BY <1>1, <2>1
<1>7. CASE p - q >= 1 BY <1>1, <1>6, <1>7
<1>8. CASE p - q <= 0 BY <1>1, <1>6, <1>8
<1> QED BY <1>7, <1>8

(* Of any History results in a row, one is in the slot of a given earlier   *)
(* one.                                                                     *)
LEMMA SlotReused ==
  ASSUME NEW k \in Nat \ {0}, NEW M \in Nat, k <= M
  PROVE  \E m \in k..M : m > M - History /\ Slot(m) = Slot(k)
<1>1. M - k \in Nat /\ k - 1 \in Nat /\ History \in Nat \ {0} BY ProcessAssumption
<1>2. PICK q \in Nat : M - k = q * History + ((M - k) % History) BY Zenon, <1>1, Remainder
<1>3. PICK p \in Nat : k - 1 = p * History + ((k - 1) % History) BY Zenon, <1>1, Remainder
<1>4. /\ (M - k) % History \in 0..(History - 1) /\ (k - 1) % History \in 0..(History - 1)
  BY Zenon, <1>1, Remainder
<1> DEFINE r == (k - 1) % History
           m == k + q * History
<1>5. m \in k..M /\ m > M - History BY <1>1, <1>2, <1>4
<1>6. m - 1 = (p + q) * History + r
  <2>1. r \in Nat /\ k - 1 = p * History + r BY <1>3, <1>4
  <2> HIDE DEF r
  <2> QED BY <1>1, <2>1
<1>7. (m - 1) % History = r
  <2>1. p + q \in Nat /\ r \in 0..(History - 1) BY <1>4
  <2> HIDE DEF r
  <2> QED BY <1>6, <2>1, RemainderUnique
<1>8. Slot(m) = Slot(k) BY <1>7 DEF Slot
<1> HIDE DEF m
<1> QED BY <1>5, <1>8

(* The n-th place from the cursor on is the slot of the n-th result to come. *)
LEMMA PlaceIsSlot ==
  ASSUME NEW L \in Nat, cursor = Slot(L + 1), NEW n \in Nat \ {0}
  PROVE  Place(n) = Slot(L + n)
<1>1. n - 1 \in Nat /\ History \in Nat \ {0} BY ProcessAssumption
<1>2. PICK q \in Nat : L = q * History + (L % History) BY Zenon, Remainder
<1> DEFINE r == L % History
           x == r + n - 1
           s == x % History
<1>3. r \in 0..(History - 1) /\ x \in Nat
  <2>1. r \in 0..(History - 1) BY Zenon, Remainder
  <2> HIDE DEF r
  <2> QED BY <1>1, <2>1
<1>4. PICK p \in Nat : x = p * History + s BY Zenon, <1>3, Remainder
<1>5. s \in 0..(History - 1) BY Zenon, <1>3, Remainder
<1>6. L + n - 1 = (q + p) * History + s
  <2>1. L = q * History + r /\ r \in Nat /\ s \in Nat /\ r + n - 1 = p * History + s
    BY <1>2, <1>3, <1>4, <1>5
  <2> HIDE DEF r, s
  <2> QED BY <1>1, <2>1
<1>7. (L + n - 1) % History = s
  <2>1. p + q \in Nat /\ q + p \in Nat OBVIOUS
  <2> HIDE DEF s
  <2> QED BY <1>5, <1>6, <2>1, RemainderUnique
<1>8. cursor = r + 1
  <2>1. (L + 1) - 1 = L OBVIOUS
  <2> QED BY <2>1 DEF Slot
<1>9. cursor + n - 2 = x BY <1>3, <1>8
<1> QED BY <1>7, <1>9 DEF Place, Slot

-----------------------------------------------------------------------------
(* What leaves the parts of the invariant alone                             *)

(* Boot starts with no process, no result and nothing delivered.            *)
LEMMA ProcInitInv == ProcessInit => ProcInv
<1> SUFFICES ASSUME ProcessInit PROVE ProcInv OBVIOUS
<1> USE ProcessAssumption DEF ProcessInit
<1>1. Published = {} /\ Len(reaped) = 0 /\ Len(delivered) = 0 /\ Range(delivered) = {}
  BY DEF Published, Free, Range
<1>2. Success \in Outcome BY DEF Outcome, Success
<1>3. NoResult \in Result BY <1>2 DEF NoResult, Result
<1>4. shell \in ShellState BY DEF ShellReady, ShellState
<1>5. ProcType
  <2>1. /\ heap \in [Addr -> ProcessObject \cup {Free}] /\ registry \in [1..Limit -> Addr \cup {Null}]
        /\ history \in [1..History -> Result] /\ cursor \in 1..History
        /\ next_pid \in 1..(MaxPid + 1) /\ active \in Nat
    BY <1>3
  <2>2. reaped \in Seq(Result) /\ delivered \in Seq(Delivery) OBVIOUS
  <2> QED BY Zenon, <1>4, <2>1, <2>2 DEF ProcType
<1>6. SlotsExact
  <2>1. IsFiniteSet(Published) /\ Cardinality(Published) = 0 BY <1>1, FS_EmptySet
  <2> QED BY <1>1, <2>1 DEF SlotsExact
<1>7. PidsExact BY <1>1 DEF PidsExact
<1>8. ConstructionSafe BY DEF ConstructionSafe, ShellReady
<1>9. RingExact
  <2>1. Slot(Len(reaped) + 1) = 1
    <3>1. Len(reaped) + 1 = 0 * History + 1 /\ 0 \in 0..(History - 1) BY <1>1
    <3>2. (0 * History + 0) % History = 0 BY <3>1, RemainderUnique
    <3> QED BY <1>1, <3>2 DEF Slot
  <2>2. Window = {} BY <1>1 DEF Window
  <2> QED BY <1>1, <2>1, <2>2 DEF RingExact, NoResult
<1>10. DeliveredOnce BY <1>1 DEF DeliveredOnce
<1>11. ExecTellsTruth BY DEF ExecTellsTruth, ShellReady
<1> QED BY <1>5, <1>6, <1>7, <1>8, <1>9, <1>10, <1>11 DEF ProcInv

(* The ring and the deliveries, when nothing touches them.                  *)
LEMMA ResultsUntouched ==
  ASSUME RingExact, DeliveredOnce, UNCHANGED <<history, cursor, reaped, delivered>>
  PROVE  RingExact' /\ DeliveredOnce'
<1>1. Window' = Window BY DEF Window
<1>2. RingExact' BY <1>1 DEF RingExact
<1>3. DeliveredOnce' BY DEF DeliveredOnce
<1> QED BY <1>2, <1>3

(* The registry and the pids, when an object changes in neither respect.    *)
LEMMA ObjectsUntouched ==
  ASSUME SlotsExact, PidsExact, Published' = Published,
         \A a \in Published : heap'[a].pid = heap[a].pid,
         UNCHANGED <<registry, next_pid, active, reaped>>
  PROVE  SlotsExact' /\ PidsExact'
<1>1. SlotsExact' BY DEF SlotsExact, Registered
<1>2. PidsExact' BY DEF PidsExact
<1> QED BY <1>1, <1>2

(* The shell's report of `exec' stays true: results are never taken back.   *)
LEMMA ReportStays ==
  ASSUME ExecTellsTruth, Range(reaped) \subseteq Range(reaped'),
         shell' = shell \/ ~(shell'.pc = "ready" /\ shell'.good)
  PROVE  ExecTellsTruth'
BY DEF ExecTellsTruth

(* An object that is published has a place in the registry, and the next    *)
(* pid, which nobody had.                                                   *)
LEMMA PublishKeeps ==
  ASSUME ProcInv, NEW slot \in 1..Limit, registry[slot] = Null,
         NEW a \in Addr, a \notin Published, NEW object \in ProcessObject,
         object.state = "READY", object.pid = next_pid, next_pid <= MaxPid,
         Publish(slot, a, object), reaped' = reaped
  PROVE  /\ SlotsExact' /\ PidsExact'
         /\ heap' \in [Addr -> ProcessObject \cup {Free}]
         /\ registry' \in [1..Limit -> Addr \cup {Null}]
         /\ next_pid' \in 1..(MaxPid + 1) /\ active' \in Nat
<1>1. ProcType /\ SlotsExact /\ PidsExact BY DEF ProcInv
<1>2. Null \notin Addr BY ProcessAssumption DEF Null
<1>3. /\ heap' \in [Addr -> ProcessObject \cup {Free}] /\ heap'[a] = object
      /\ \A b \in Addr \ {a} : heap'[b] = heap[b]
  BY <1>1 DEF Publish, ProcType
<1>4. Published' = Published \cup {a} BY <1>3 DEF Published
<1>5. /\ registry' \in [1..Limit -> Addr \cup {Null}] /\ registry'[slot] = a
      /\ \A s \in 1..Limit \ {slot} : registry'[s] = registry[s]
  BY <1>1 DEF Publish, ProcType
<1>6. next_pid' = next_pid + 1 /\ active' = active + 1 BY DEF Publish
<1>7. SlotsExact'
  <2>1. IsFiniteSet(Published') /\ Cardinality(Published') = Cardinality(Published) + 1
    BY <1>1, <1>4, FS_AddElement DEF SlotsExact
  <2>2. \A b \in Published' : Registered(b)'
    <3> SUFFICES ASSUME NEW b \in Published' PROVE \E s \in 1..Limit : registry'[s] = b
      BY DEF Registered
    <3>1. CASE b = a BY <1>5, <3>1
    <3>2. CASE b \in Published
      <4>1. PICK s \in 1..Limit : registry[s] = b BY <1>1, <3>2 DEF SlotsExact, Registered
      <4>2. b # Null BY <1>2, <3>2 DEF Published
      <4> QED BY <1>5, <4>1, <4>2
    <3> QED BY <1>4, <3>1, <3>2
  <2>3. \A s \in 1..Limit : registry'[s] # Null => registry'[s] \in Published'
    BY <1>1, <1>4, <1>5 DEF SlotsExact
  <2>4. \A s, r \in 1..Limit : registry'[s] # Null /\ registry'[s] = registry'[r] => s = r
    BY <1>1, <1>5 DEF SlotsExact
  <2> QED BY <1>1, <1>6, <2>1, <2>2, <2>3, <2>4 DEF SlotsExact
<1>8. PidsExact'
  <2>1. \A b \in Published : heap'[b].pid = heap[b].pid /\ heap[b].pid < next_pid
    BY <1>1, <1>3 DEF PidsExact, Published
  <2>2. heap'[a].pid = next_pid /\ next_pid \in Nat BY <1>1, <1>3 DEF ProcType
  <2>3. \A b \in Published : heap[b].pid \in Nat
    BY <1>1 DEF ProcType, Published, ProcessObject, Pid, Free
  <2>4. \A k \in 1..Len(reaped) : reaped[k].pid \in 1..(next_pid - 1) BY <1>1 DEF PidsExact
  <2> QED BY <1>1, <1>4, <1>6, <2>1, <2>2, <2>3, <2>4 DEF PidsExact
<1>9. next_pid' \in 1..(MaxPid + 1) /\ active' \in Nat
  BY <1>1, <1>6, ProcessAssumption DEF ProcType
<1> QED BY Zenon, <1>3, <1>5, <1>7, <1>8, <1>9

-----------------------------------------------------------------------------
(* The reaper                                                               *)

(* What one call of thread_reap has done, with the results in their order.  *)
Reaped(q, results) ==
  LET N == Cardinality(Zombies) IN
  /\ N \in Nat /\ q \in [1..N -> Zombies]
  /\ \A n, m \in 1..N : q[n] = q[m] => n = m
  /\ \A z \in Zombies : \E n \in 1..N : q[n] = z
  /\ results \in Seq(Result) /\ Len(results) = N
  /\ \A n \in 1..N : results[n] = ResultOf(heap[q[n]])
  /\ history' = [i \in 1..History |-> Left(results, i)]
  /\ cursor' = Place(N + 1)
  /\ registry' = [s \in 1..Limit |-> IF registry[s] \in Zombies THEN Null ELSE registry[s]]
  /\ active' = active - N
  /\ heap' = [a \in Addr |-> IF a \in Zombies THEN Free ELSE heap[a]]
  /\ panicked' = ~ (\A a \in Zombies : Registered(a))
  /\ reaped' \in Seq(Result) /\ Len(reaped') = Len(reaped) + N
  /\ \A k \in 1..Len(reaped) : reaped'[k] = reaped[k]
  /\ \A n \in 1..N : reaped'[Len(reaped) + n] = results[n]

(* The zombies are published and finitely many, so that the reaper gets     *)
(* through them.                                                            *)
LEMMA ReapExpands ==
  ASSUME ProcInv, thread_reap
  PROVE  \E q, results : Reaped(q, results)
<1>1. ProcType /\ SlotsExact BY DEF ProcInv
<1>2. Zombies \subseteq Published BY DEF Zombies, Published
<1>3. IsFiniteSet(Zombies) /\ Cardinality(Zombies) \in Nat
  BY <1>1, <1>2, FS_Subset, FS_CardinalityType DEF SlotsExact
<1> DEFINE N == Cardinality(Zombies)
<1>4. PICK q \in Bijection(1..N, Zombies) :
        LET results == [n \in 1..N |-> ResultOf(heap[q[n]])]
        IN  /\ history' = [i \in 1..History |-> Left(results, i)]
            /\ cursor' = Place(Len(results) + 1)
            /\ registry' = [s \in 1..Limit |-> IF registry[s] \in Zombies THEN Null ELSE registry[s]]
            /\ active' = active - Len(results)
            /\ heap' = [a \in Addr |-> IF a \in Zombies THEN Free ELSE heap[a]]
            /\ panicked' = ~ (\A a \in Zombies : Registered(a))
            /\ reaped' = reaped \o results
  BY Zenon DEF thread_reap
<1> DEFINE results == [n \in 1..N |-> ResultOf(heap[q[n]])]
<1>5. /\ q \in [1..N -> Zombies]
      /\ \A n, m \in 1..N : q[n] = q[m] => n = m
      /\ \A z \in Zombies : \E n \in 1..N : q[n] = z
  BY DEF Bijection, Injection, Surjection, IsInjective
<1>6. \A z \in Zombies : ResultOf(heap[z]) \in Result
  <2> SUFFICES ASSUME NEW z \in Zombies PROVE ResultOf(heap[z]) \in Result OBVIOUS
  <2>1. heap[z] \in ProcessObject BY <1>1 DEF ProcType, Zombies, Free
  <2> QED BY <2>1, ProcessAssumption DEF ResultOf, Result, ProcessObject, Pid
<1>7. results \in [1..N -> Result] BY <1>5, <1>6
<1>8. \A n \in 1..N : results[n] = ResultOf(heap[q[n]]) OBVIOUS
<1>9. results \in Seq(Result) /\ Len(results) = N BY <1>3, <1>7
<1>10. /\ history' = [i \in 1..History |-> Left(results, i)]
       /\ cursor' = Place(Len(results) + 1)
       /\ registry' = [s \in 1..Limit |-> IF registry[s] \in Zombies THEN Null ELSE registry[s]]
       /\ active' = active - Len(results)
       /\ heap' = [a \in Addr |-> IF a \in Zombies THEN Free ELSE heap[a]]
       /\ panicked' = ~ (\A a \in Zombies : Registered(a))
       /\ reaped' = reaped \o results
  BY Zenon, <1>4
<1> HIDE DEF results
<1>11. /\ reaped' \in Seq(Result) /\ Len(reaped') = Len(reaped) + N
       /\ \A k \in 1..Len(reaped) : reaped'[k] = reaped[k]
       /\ \A n \in 1..N : reaped'[Len(reaped) + n] = results[n]
  <2>1. reaped \in Seq(Result) /\ reaped' = reaped \o results BY <1>1, <1>10 DEF ProcType
  <2>2. N \in Nat BY <1>3
  <2> HIDE DEF N
  <2>3. reaped' \in Seq(Result) /\ Len(reaped') = Len(reaped) + N BY <1>9, <2>1
  <2>4. \A k \in 1..Len(reaped) : reaped'[k] = reaped[k] BY <1>9, <2>1
  <2>5. \A n \in 1..N : reaped'[Len(reaped) + n] = results[n] BY <1>9, <2>1, <2>2
  <2> QED BY <2>3, <2>4, <2>5
<1>12. Reaped(q, results)
  BY Zenon, <1>3, <1>5, <1>8, <1>9, <1>10, <1>11 DEF Reaped
<1> QED BY Zenon, <1>12

(* The registry loses the zombies and nobody else; no pid comes back.       *)
LEMMA ReapObjects ==
  ASSUME ProcInv, NEW q, NEW results, Reaped(q, results), next_pid' = next_pid
  PROVE  /\ SlotsExact' /\ PidsExact' /\ panicked' = FALSE
         /\ heap' \in [Addr -> ProcessObject \cup {Free}]
         /\ registry' \in [1..Limit -> Addr \cup {Null}] /\ active' \in Nat
<1>1. ProcType /\ SlotsExact /\ PidsExact BY DEF ProcInv
<1>2. Null \notin Addr BY ProcessAssumption DEF Null
<1>3. Zombies \subseteq Published /\ Published \subseteq Addr BY DEF Zombies, Published
<1>4. Published' = Published \ Zombies BY <1>1 DEF Reaped, Published, Free, ProcType
<1>5. \A a \in Published' : heap'[a] = heap[a] BY Zenon, <1>3, <1>4 DEF Reaped
<1>6. \A s \in 1..Limit : registry'[s] = IF registry[s] \in Zombies THEN Null ELSE registry[s]
  BY Zenon DEF Reaped
<1>7. SlotsExact'
  <2>1. /\ IsFiniteSet(Published \ Zombies)
        /\ Cardinality(Published \ Zombies) = Cardinality(Published) - Cardinality(Published \cap Zombies)
    BY Zenon, <1>1, FS_Difference DEF SlotsExact
  <2>2. Published \cap Zombies = Zombies BY <1>3
  <2>3. active' = active - Cardinality(Zombies) BY Zenon DEF Reaped
  <2>4. \A a \in Published' : Registered(a)'
    <3> SUFFICES ASSUME NEW a \in Published' PROVE \E s \in 1..Limit : registry'[s] = a
      BY DEF Registered
    <3>1. PICK s \in 1..Limit : registry[s] = a BY <1>1, <1>4 DEF SlotsExact, Registered
    <3> QED BY <1>4, <1>6, <3>1
  <2>5. \A s \in 1..Limit : registry'[s] # Null => registry'[s] \in Published'
    BY <1>1, <1>4, <1>6 DEF SlotsExact
  <2>6. \A s, r \in 1..Limit : registry'[s] # Null /\ registry'[s] = registry'[r] => s = r
    BY <1>1, <1>6 DEF SlotsExact
  <2> QED BY Zenon, <1>1, <1>4, <2>1, <2>2, <2>3, <2>4, <2>5, <2>6 DEF SlotsExact
<1>8. PidsExact'
  <2> DEFINE L == Len(reaped)
             N == Cardinality(Zombies)
  <2>1. L \in Nat /\ N \in Nat /\ Len(reaped') = L + N BY <1>1 DEF ProcType, Reaped
  <2>2. \A k \in 1..L : reaped'[k] = reaped[k] BY Zenon DEF Reaped
  <2>3. \A k \in 1..(L + N) : k > L =>
          /\ k - L \in 1..N /\ q[k - L] \in Zombies
          /\ reaped'[k].pid = heap[q[k - L]].pid /\ ~reaped'[k].collected
    <3> SUFFICES ASSUME NEW k \in 1..(L + N), k > L
                 PROVE  /\ k - L \in 1..N /\ q[k - L] \in Zombies
                        /\ reaped'[k].pid = heap[q[k - L]].pid /\ ~reaped'[k].collected
      OBVIOUS
    <3>1. k - L \in 1..N /\ L + (k - L) = k BY <2>1
    <3>2. reaped'[L + (k - L)] = results[k - L] /\ results[k - L] = ResultOf(heap[q[k - L]])
      BY Zenon, <3>1 DEF Reaped
    <3>3. q[k - L] \in Zombies
      <4>1. q \in [1..N -> Zombies] BY Zenon DEF Reaped
      <4> HIDE DEF N, L
      <4> QED BY <3>1, <4>1
    <3>4. reaped'[k] = ResultOf(heap[q[k - L]]) BY Zenon, <3>1, <3>2
    <3> HIDE DEF L, N
    <3> QED BY <3>1, <3>3, <3>4 DEF ResultOf
  <2>4. \A n, m \in 1..N : q[n] = q[m] => n = m BY Zenon DEF Reaped
  <2>5. \A a \in Published : heap[a].pid \in 1..(next_pid - 1)
    BY <1>1 DEF PidsExact, ProcType, Published, ProcessObject, Pid, Free
  <2> HIDE DEF L, N
  <2>6. \A k \in 1..(L + N) : reaped'[k].pid \in 1..(next_pid - 1) /\ ~reaped'[k].collected
    <3> SUFFICES ASSUME NEW k \in 1..(L + N)
                 PROVE  reaped'[k].pid \in 1..(next_pid - 1) /\ ~reaped'[k].collected
      OBVIOUS
    <3>1. CASE k <= L
      <4>1. k \in 1..L BY <2>1, <3>1
      <4>2. reaped[k].pid \in 1..(next_pid - 1) /\ ~reaped[k].collected BY <1>1, <4>1 DEF PidsExact, L
      <4> QED BY Zenon, <2>2, <4>1, <4>2
    <3>2. CASE k > L
      <4>1. /\ q[k - L] \in Zombies
            /\ reaped'[k].pid = heap[q[k - L]].pid /\ ~reaped'[k].collected
        BY Zenon, <2>3, <3>2
      <4> QED BY Zenon, <1>3, <2>5, <4>1
    <3> QED BY <2>1, <3>1, <3>2
  <2>7. ASSUME NEW k \in 1..(L + N), NEW m \in 1..(L + N), reaped'[k].pid = reaped'[m].pid
        PROVE  k = m
    <3>1. CASE k <= L /\ m <= L BY <1>1, <2>1, <2>2, <2>7, <3>1 DEF PidsExact, L
    <3>2. CASE k > L /\ m > L
      <4>1. q[k - L] = q[m - L] BY <1>1, <1>3, <2>3, <2>7, <3>2 DEF PidsExact
      <4>2. k - L = m - L BY <2>3, <2>4, <3>2, <4>1
      <4> QED BY <2>1, <4>2
    <3>3. ASSUME NEW i \in 1..(L + N), NEW j \in 1..(L + N), i > L, j <= L
          PROVE  reaped'[i].pid # reaped'[j].pid
      <4>1. q[i - L] \in Published /\ reaped'[i].pid = heap[q[i - L]].pid BY <1>3, <2>3, <3>3
      <4>2. j \in 1..L /\ reaped'[j] = reaped[j] BY <2>1, <2>2, <3>3
      <4> QED BY Zenon, <1>1, <4>1, <4>2 DEF PidsExact, L
    <3>4. CASE k > L /\ m <= L BY Zenon, <2>7, <3>3, <3>4
    <3>5. CASE k <= L /\ m > L BY Zenon, <2>7, <3>3, <3>5
    <3> QED BY <2>1, <3>1, <3>2, <3>4, <3>5
  <2>8. ASSUME NEW a \in Published', NEW k \in 1..(L + N)
        PROVE  heap'[a].pid # reaped'[k].pid
    <3>1. a \in Published /\ a \notin Zombies /\ heap'[a] = heap[a] BY <1>4, <1>5
    <3>2. CASE k <= L BY <1>1, <2>1, <2>2, <3>1, <3>2 DEF PidsExact, L
    <3>3. CASE k > L BY <1>1, <1>3, <2>3, <3>1, <3>3 DEF PidsExact
    <3> QED BY <2>1, <3>2, <3>3
  <2>9. /\ \A a, b \in Published' : heap'[a].pid = heap'[b].pid => a = b
        /\ \A a \in Published' : heap'[a].pid < next_pid'
    BY <1>1, <1>4, <1>5 DEF PidsExact
  <2> QED BY <2>1, <2>6, <2>7, <2>8, <2>9 DEF PidsExact
<1>9. panicked' = FALSE
  <2>1. \A a \in Zombies : Registered(a) BY <1>1, <1>3 DEF SlotsExact
  <2>2. panicked' = ~ (\A a \in Zombies : Registered(a)) BY Zenon DEF Reaped
  <2> QED BY Zenon, <2>1, <2>2
<1>10. /\ heap' \in [Addr -> ProcessObject \cup {Free}]
       /\ registry' \in [1..Limit -> Addr \cup {Null}]
  BY Zenon, <1>1 DEF ProcType, Reaped
<1>11. active' \in Nat
  <2>1. Cardinality(Published') \in Nat BY <1>7, FS_CardinalityType DEF SlotsExact
  <2> QED BY <1>7, <2>1 DEF SlotsExact
<1> QED BY Zenon, <1>7, <1>8, <1>9, <1>10, <1>11

(* The results that stay are each in the slot of their number, and the      *)
(* other slots are as they were.                                            *)
LEMMA LeftInPlace ==
  ASSUME ProcInv, NEW q, NEW results, Reaped(q, results)
  PROVE  LET L == Len(reaped)
             N == Len(results)
         IN  /\ \A n \in 1..N : n > N - History => history'[Slot(L + n)] = results[n]
             /\ \A i \in 1..History :
                  (\A n \in 1..N : n > N - History => Slot(L + n) # i) => history'[i] = history[i]
<1> DEFINE L == Len(reaped)
           N == Len(results)
           Here(i) == {n \in 1..N : n > N - History /\ Place(n) = i}
<1>1. L \in Nat /\ N \in Nat /\ History \in Nat \ {0}
  BY ProcessAssumption DEF ProcInv, ProcType, Reaped
<1>2. cursor = Slot(L + 1) BY DEF ProcInv, RingExact
<1>3. \A n \in 1..N : Place(n) = Slot(L + n)
  <2> SUFFICES ASSUME NEW n \in 1..N PROVE Place(n) = Slot(L + n) OBVIOUS
  <2>1. n \in Nat \ {0} BY <1>1
  <2> HIDE DEF L
  <2> QED BY <1>1, <1>2, <2>1, PlaceIsSlot
<1>4. \A i \in 1..History :
        history'[i] = IF Here(i) = {} THEN history[i] ELSE results[CHOOSE n \in Here(i) : TRUE]
  <2>1. history' = [i \in 1..History |-> Left(results, i)] BY Zenon DEF Reaped
  <2> QED BY Zenon, <2>1 DEF Left
<1> HIDE DEF L, N
<1>5. ASSUME NEW n \in 1..N, n > N - History
      PROVE  history'[Slot(L + n)] = results[n]
  <2>1. L + n \in Nat \ {0} BY <1>1
  <2>2. Slot(L + n) \in 1..History BY <2>1, SlotType
  <2>3. n \in Here(Slot(L + n)) BY Zenon, <1>3, <1>5
  <2>4. ASSUME NEW m \in Here(Slot(L + n)) PROVE m = n
    <3>1. m \in 1..N /\ m > N - History /\ Place(m) = Slot(L + n) BY Zenon, <2>4
    <3>2. Slot(L + m) = Slot(L + n) BY Zenon, <1>3, <3>1
    <3>3. L + m \in Nat \ {0} BY <1>1, <3>1
    <3>4. CASE m < n
      <4>1. L + m < L + n /\ L + n < (L + m) + History BY <1>1, <3>1, <3>4
      <4> QED BY Zenon, <2>1, <3>2, <3>3, <4>1, SlotsDiffer
    <3>5. CASE n < m
      <4>1. L + n < L + m /\ L + m < (L + n) + History BY <1>1, <1>5, <3>1, <3>5
      <4> QED BY Zenon, <2>1, <3>2, <3>3, <4>1, SlotsDiffer
    <3> QED BY <1>1, <3>1, <3>4, <3>5
  <2> HIDE DEF Here
  <2>5. (CHOOSE m \in Here(Slot(L + n)) : TRUE) = n
    <3>1. (CHOOSE m \in Here(Slot(L + n)) : TRUE) \in Here(Slot(L + n)) BY Zenon, <2>3
    <3> QED BY Zenon, <2>4, <3>1
  <2> QED BY Zenon, <1>4, <2>2, <2>3, <2>5
<1>6. ASSUME NEW i \in 1..History, \A n \in 1..N : n > N - History => Slot(L + n) # i
      PROVE  history'[i] = history[i]
  <2>1. Here(i) = {} BY Zenon, <1>3, <1>6
  <2> QED BY Zenon, <1>4, <2>1
<1> QED BY Zenon, <1>5, <1>6 DEF L, N

(* The ring after the reaper: the last History results, in their slots, and *)
(* none of the new ones is marked.                                          *)
LEMMA ReapRing ==
  ASSUME ProcInv, NEW q, NEW results, Reaped(q, results), delivered' = delivered
  PROVE  /\ RingExact' /\ DeliveredOnce' /\ Range(reaped) \subseteq Range(reaped')
         /\ history' \in [1..History -> Result] /\ cursor' \in 1..History
<1> DEFINE L == Len(reaped)
           N == Len(results)
<1>1. ProcType /\ PidsExact /\ RingExact /\ DeliveredOnce BY DEF ProcInv
<1>2. L \in Nat /\ N \in Nat /\ History \in Nat \ {0} BY <1>1, ProcessAssumption DEF ProcType, Reaped
<1>3. /\ reaped' \in Seq(Result) /\ Len(reaped') = L + N
      /\ \A k \in 1..L : reaped'[k] = reaped[k]
      /\ \A n \in 1..N : reaped'[L + n] = results[n] /\ results[n] \in Result
      /\ \A n \in 1..N : \E z \in Published : results[n] = ResultOf(heap[z])
  <2>1. Zombies \subseteq Published BY DEF Zombies, Published
  <2>2. N = Cardinality(Zombies) BY Zenon DEF Reaped
  <2>3. /\ reaped' \in Seq(Result) /\ Len(reaped') = L + N
        /\ \A k \in 1..L : reaped'[k] = reaped[k]
        /\ \A n \in 1..N : reaped'[L + n] = results[n]
    BY Zenon, <2>2 DEF Reaped
  <2>4. \A n \in 1..N : results[n] \in Result
    <3>1. results \in Seq(Result) BY Zenon DEF Reaped
    <3> QED BY <3>1
  <2>5. \A n \in 1..N : \E z \in Published : results[n] = ResultOf(heap[z])
    <3>1. /\ q \in [1..N -> Zombies]
          /\ \A n \in 1..N : results[n] = ResultOf(heap[q[n]])
      BY Zenon, <2>2 DEF Reaped
    <3>2. \A n \in 1..N : q[n] \in Published BY <2>1, <3>1
    <3> QED BY Zenon, <3>1, <3>2
  <2> QED BY Zenon, <2>3, <2>4, <2>5
<1>4. /\ \A n \in 1..N : n > N - History => history'[Slot(L + n)] = results[n]
      /\ \A i \in 1..History :
           (\A n \in 1..N : n > N - History => Slot(L + n) # i) => history'[i] = history[i]
  BY LeftInPlace
<1>5. Window = {k \in 1..L : k > L - History} /\ Window' = {k \in 1..(L + N) : k > L + N - History}
  <2>1. Window' = {k \in 1..Len(reaped') : k > Len(reaped') - History} BY DEF Window
  <2>2. Len(reaped') = L + N BY <1>3
  <2>3. Window = {k \in 1..L : k > L - History} BY DEF Window
  <2> HIDE DEF L, N
  <2>4. \A x : x = L + N => {k \in 1..x : k > x - History} = {k \in 1..(L + N) : k > L + N - History}
    BY <1>2
  <2> QED BY Zenon, <2>1, <2>2, <2>3, <2>4
<1>6. Range(reaped) \subseteq Range(reaped')
  <2> SUFFICES ASSUME NEW e \in Range(reaped) PROVE e \in Range(reaped') OBVIOUS
  <2>1. PICK k \in DOMAIN reaped : reaped[k] = e BY DEF Range
  <2>2. k \in 1..L BY <1>1, <2>1 DEF ProcType
  <2>3. k \in DOMAIN reaped' /\ reaped'[k] = e BY <1>2, <1>3, <2>1, <2>2
  <2> QED BY <2>3 DEF Range
<1>7. DeliveredOnce'
  <2>1. delivered' = delivered OBVIOUS
  <2> QED BY <1>1, <1>6, <2>1 DEF DeliveredOnce
<1> HIDE DEF L, N
<1>8. cursor' = Slot(L + N + 1)
  <2>1. cursor' = Place(N + 1) BY Zenon DEF Reaped, N
  <2>2. N + 1 \in Nat \ {0} /\ cursor = Slot(L + 1) /\ L + (N + 1) = L + N + 1
    BY <1>1, <1>2 DEF RingExact, L
  <2>3. Place(N + 1) = Slot(L + (N + 1)) BY Zenon, <1>2, <2>2, PlaceIsSlot
  <2> QED BY Zenon, <2>1, <2>2, <2>3
<1>9. ASSUME NEW k \in Window'
      PROVE  LET e == history'[Slot(k)]
             IN  /\ e.pid = reaped'[k].pid /\ e.parent_pid = reaped'[k].parent_pid
                 /\ e.exit = reaped'[k].exit
                 /\ e.collected <=> \E d \in Range(delivered') : d.pid = e.pid
  <2>1. k \in 1..(L + N) /\ k > L + N - History /\ k \in Nat \ {0} BY <1>2, <1>5, <1>9
  <2>2. CASE k <= L
    <3>1. k \in Window BY <1>2, <1>5, <2>1, <2>2
    <3>2. Slot(k) \in 1..History BY <2>1, SlotType
    <3>3. ASSUME NEW n \in 1..N, n > N - History PROVE Slot(L + n) # Slot(k)
      <4>1. L + n \in Nat \ {0} /\ k < L + n /\ L + n < k + History BY <1>2, <2>1, <2>2, <3>3
      <4> QED BY Zenon, <2>1, <4>1, SlotsDiffer
    <3>4. history'[Slot(k)] = history[Slot(k)] BY Zenon, <1>4, <3>2, <3>3
    <3>5. reaped'[k] = reaped[k]
      <4>1. k \in 1..L BY <1>2, <2>1, <2>2
      <4> QED BY Zenon, <1>3, <4>1
    <3>6. LET e == history[Slot(k)]
          IN  /\ e.pid = reaped[k].pid /\ e.parent_pid = reaped[k].parent_pid
              /\ e.exit = reaped[k].exit
              /\ e.collected <=> \E d \in Range(delivered) : d.pid = e.pid
      BY Zenon, <1>1, <3>1 DEF RingExact
    <3> QED BY Zenon, <3>4, <3>5, <3>6
  <2>3. CASE k > L
    <3>1. k - L \in 1..N /\ k - L > N - History /\ L + (k - L) = k BY <1>2, <2>1, <2>3
    <3>2. history'[Slot(k)] = results[k - L] /\ reaped'[k] = results[k - L] BY Zenon, <1>3, <1>4, <3>1
    <3>3. PICK z \in Published : results[k - L] = ResultOf(heap[z]) BY <1>3, <3>1
    <3>4. \A d \in Range(delivered) : d.pid # heap[z].pid
      <4> SUFFICES ASSUME NEW d \in Range(delivered) PROVE d.pid # heap[z].pid OBVIOUS
      <4>1. PICK e \in Range(reaped) : e.pid = d.pid BY <1>1 DEF DeliveredOnce
      <4>2. PICK m \in 1..Len(reaped) : reaped[m] = e BY <1>1, <4>1 DEF Range, ProcType
      <4> QED BY <1>1, <4>1, <4>2 DEF PidsExact
    <3>5. results[k - L].pid = heap[z].pid /\ ~results[k - L].collected BY <3>3 DEF ResultOf
    <3> QED BY Zenon, <3>2, <3>4, <3>5
  <2> QED BY <1>2, <2>1, <2>2, <2>3
<1>10. ASSUME NEW i \in 1..History, history'[i].pid # 0
       PROVE  \E k \in Window' : Slot(k) = i
  <2>1. CASE \E n \in 1..N : n > N - History /\ Slot(L + n) = i
    <3>1. PICK n \in 1..N : n > N - History /\ Slot(L + n) = i BY <2>1
    <3>2. L + n \in Window' BY <1>2, <1>5, <3>1
    <3> QED BY Zenon, <3>1, <3>2
  <2>2. CASE ~ \E n \in 1..N : n > N - History /\ Slot(L + n) = i
    <3>1. history'[i] = history[i] BY Zenon, <1>4, <2>2
    <3>2. PICK k \in Window : Slot(k) = i BY Zenon, <1>1, <1>10, <3>1 DEF RingExact
    <3>3. k \in Nat \ {0} /\ L + N \in Nat /\ k <= L + N BY <1>2, <1>5, <3>2
    <3>4. PICK m \in k..(L + N) : m > (L + N) - History /\ Slot(m) = Slot(k)
      BY Zenon, <3>3, SlotReused
    <3>5. m \in Window' BY <1>2, <1>5, <3>3, <3>4
    <3> QED BY Zenon, <3>2, <3>4, <3>5
  <2> QED BY <2>1, <2>2
<1>11. RingExact'
  <2>1. cursor' = Slot(Len(reaped') + 1) BY Zenon, <1>3, <1>8
  <2> QED BY Zenon, <1>9, <1>10, <2>1 DEF RingExact
<1>12. cursor' \in 1..History
  <2>1. L + N + 1 \in Nat \ {0} BY <1>2
  <2> QED BY Zenon, <1>8, <2>1, SlotType
<1>13. history' \in [1..History -> Result]
  <2>1. history' = [i \in 1..History |-> Left(results, i)] BY Zenon DEF Reaped
  <2>2. \A i \in 1..History : history'[i] \in Result
    <3> SUFFICES ASSUME NEW i \in 1..History PROVE history'[i] \in Result OBVIOUS
    <3>1. CASE \E n \in 1..N : n > N - History /\ Slot(L + n) = i BY Zenon, <1>3, <1>4, <3>1
    <3>2. CASE ~ \E n \in 1..N : n > N - History /\ Slot(L + n) = i
      <4>1. history'[i] = history[i] BY Zenon, <1>4, <3>2
      <4> QED BY <1>1, <4>1 DEF ProcType
    <3> QED BY <3>1, <3>2
  <2> QED BY <2>1, <2>2
<1> QED BY Zenon, <1>6, <1>7, <1>11, <1>12, <1>13

-----------------------------------------------------------------------------
(* WAIT and the search of the registry                                      *)

(* A set of numbers that is not empty has a least one.                      *)
LEMMA LeastMember ==
  ASSUME NEW S, S \subseteq Nat, S # {}
  PROVE  \E x \in S : \A y \in S : x <= y
<1>1. PICK x \in S : \A y \in S : ~ (<<y, x>> \in OpToRel(<, Nat))
  BY Zenon, NatLessThanWellFounded, WFMin
<1>2. \A y \in S : x <= y
  <2> SUFFICES ASSUME NEW y \in S PROVE x <= y OBVIOUS
  <2>1. ~ (<<y, x>> \in OpToRel(<, Nat)) BY Zenon, <1>1
  <2> QED BY <2>1 DEF OpToRel
<1> QED BY Zenon, <1>2

(* Min of a set of slots is one of them.                                    *)
LEMMA MinIsMember ==
  ASSUME NEW S, S \subseteq Nat, S # {}
  PROVE  Min(S) \in S
BY Zenon, LeastMember DEF Min

(* The slot found is free.                                                  *)
LEMMA FreeSlotIsFree ==
  ASSUME FreeSlot <= Limit
  PROVE  FreeSlot \in 1..Limit /\ registry[FreeSlot] = Null
<1> DEFINE S == {s \in 1..(Limit + 1) : s <= Limit => registry[s] = Null}
<1>1. Limit \in Nat \ {0} BY ProcessAssumption
<1>2. S \subseteq Nat /\ Limit + 1 \in S BY <1>1
<1>3. PICK x \in S : \A y \in S : x <= y
  <2>1. S # {} BY <1>2
  <2> HIDE DEF S
  <2> QED BY Zenon, <1>2, <2>1, LeastMember
<1>4. x \in 1..(Limit + 1) /\ (x <= Limit => registry[x] = Null) BY Zenon, <1>3
<1>5. \A r \in 1..(x - 1) : registry[r] # Null
  <2> SUFFICES ASSUME NEW r \in 1..(x - 1), registry[r] = Null PROVE FALSE OBVIOUS
  <2>1. r \in S BY <1>1, <1>4
  <2> HIDE DEF S
  <2>2. x <= r BY Zenon, <1>3, <2>1
  <2> QED BY <1>4, <2>2
<1>6. /\ FreeSlot \in 1..(Limit + 1)
      /\ FreeSlot <= Limit => registry[FreeSlot] = Null
  BY Zenon, <1>4, <1>5 DEF FreeSlot
<1> QED BY <1>1, <1>6

(* A status that is collected is that of a child, in the ring and not yet   *)
(* delivered; afterwards it is marked, and no other is.                     *)
LEMMA CollectKeeps ==
  ASSUME ProcInv, NEW parent \in Pid, NEW child \in Pid, NEW copied,
         process_collect_child(parent, child, copied), UNCHANGED <<cursor, reaped>>
  PROVE  /\ RingExact' /\ DeliveredOnce'
         /\ history' \in [1..History -> Result] /\ delivered' \in Seq(Delivery)
<1>1. ProcType /\ PidsExact /\ RingExact /\ DeliveredOnce BY DEF ProcInv
<1>2. CASE CollectAnswer(parent, child, copied) # "OK"
  <2>1. UNCHANGED <<history, delivered>> BY Zenon, <1>2 DEF process_collect_child
  <2> QED BY <1>1, <2>1, ResultsUntouched DEF ProcType
<1>3. CASE CollectAnswer(parent, child, copied) = "OK"
  <2>1. Uncollected(parent, child) # {} BY <1>3 DEF CollectAnswer
  <2>2. PICK i \in Uncollected(parent, child) :
          /\ history' = [history EXCEPT ![i].collected = TRUE]
          /\ delivered' = Append(delivered, [to |-> parent, pid |-> child, exit |-> history[i].exit])
    <3>1. Uncollected(parent, child) \subseteq Nat BY DEF Uncollected
    <3>2. Min(Uncollected(parent, child)) \in Uncollected(parent, child)
      BY Zenon, <2>1, <3>1, MinIsMember
    <3> QED BY Zenon, <1>3, <3>2 DEF process_collect_child
  <2>3. /\ i \in 1..History /\ history[i].pid = child /\ history[i].parent_pid = parent
        /\ ~history[i].collected
    BY DEF Uncollected
  <2>4. child # 0 BY DEF Pid
  <2>5. PICK k \in Window : Slot(k) = i BY Zenon, <1>1, <2>3, <2>4 DEF RingExact
  <2>6. /\ reaped[k].pid = child /\ reaped[k].parent_pid = parent /\ reaped[k].exit = history[i].exit
        /\ \A d \in Range(delivered) : d.pid # child
    BY Zenon, <1>1, <2>3, <2>5 DEF RingExact
  <2> DEFINE new == [to |-> parent, pid |-> child, exit |-> history[i].exit]
  <2>7. new \in Delivery
    <3>1. history[i] \in Result BY <1>1, <2>3 DEF ProcType
    <3> QED BY Zenon, <3>1 DEF Delivery, Result
  <2>8. /\ delivered \in Seq(Delivery) /\ delivered' \in Seq(Delivery)
        /\ Len(delivered') = Len(delivered) + 1 /\ delivered'[Len(delivered) + 1] = new
        /\ \A n \in 1..Len(delivered) : delivered'[n] = delivered[n]
    BY <1>1, <2>2, <2>7 DEF ProcType
  <2>9. new.pid = child /\ new.to = parent /\ new.exit = history[i].exit OBVIOUS
  <2> HIDE DEF new
  <2>10. Range(delivered') = Range(delivered) \cup {new}
    <3>1. Len(delivered) \in Nat /\ DOMAIN delivered = 1..Len(delivered)
          /\ DOMAIN delivered' = 1..(Len(delivered) + 1)
      BY <2>8
    <3> QED BY <2>8, <3>1 DEF Range
  <2>11. /\ history' \in [1..History -> Result]
         /\ \A j \in 1..History \ {i} : history'[j] = history[j]
         /\ history'[i].pid = history[i].pid /\ history'[i].parent_pid = history[i].parent_pid
         /\ history'[i].exit = history[i].exit /\ history'[i].collected
    <3>1. history \in [1..History -> Result] BY <1>1 DEF ProcType
    <3>2. [history[i] EXCEPT !.collected = TRUE] \in Result
      <4>1. \A e \in Result, b \in BOOLEAN : [e EXCEPT !.collected = b] \in Result BY DEF Result
      <4>2. history[i] \in Result BY Zenon, <2>3, <3>1
      <4> QED BY Zenon, <4>1, <4>2
    <3>3. history' = [history EXCEPT ![i] = [history[i] EXCEPT !.collected = TRUE]] BY <2>2, <2>3, <3>1
    <3>4. history'[i] = [history[i] EXCEPT !.collected = TRUE] BY <2>3, <3>1, <3>3
    <3>5. /\ history'[i].pid = history[i].pid /\ history'[i].parent_pid = history[i].parent_pid
          /\ history'[i].exit = history[i].exit /\ history'[i].collected
      BY <2>3, <3>1, <3>4 DEF Result
    <3>6. /\ history' \in [1..History -> Result]
          /\ \A j \in 1..History \ {i} : history'[j] = history[j]
      BY <2>3, <3>1, <3>2, <3>3
    <3> QED BY Zenon, <3>5, <3>6
  <2>12. Window' = Window BY DEF Window
  <2>13. ASSUME NEW m \in Window
         PROVE  LET e == history'[Slot(m)]
                IN  /\ e.pid = reaped[m].pid /\ e.parent_pid = reaped[m].parent_pid
                    /\ e.exit = reaped[m].exit
                    /\ e.collected <=> \E d \in Range(delivered') : d.pid = e.pid
    <3>1. /\ m \in 1..Len(reaped) /\ k \in 1..Len(reaped) /\ m \in Nat \ {0} /\ k \in Nat \ {0}
          /\ m > Len(reaped) - History /\ k > Len(reaped) - History /\ Len(reaped) \in Nat
      BY <1>1, <2>5 DEF Window, ProcType
    <3>2. CASE m = k BY Zenon, <2>3, <2>5, <2>6, <2>9, <2>10, <2>11, <3>2
    <3>3. CASE m # k
      <4>1. Slot(m) # i
        <5>1. CASE m < k
          <6>1. k < m + History BY <3>1, ProcessAssumption
          <6> QED BY Zenon, <2>5, <3>1, <5>1, <6>1, SlotsDiffer
        <5>2. CASE k < m
          <6>1. m < k + History BY <3>1, ProcessAssumption
          <6> QED BY Zenon, <2>5, <3>1, <5>2, <6>1, SlotsDiffer
        <5> QED BY <3>1, <3>3, <5>1, <5>2
      <4>2. Slot(m) \in 1..History BY <3>1, SlotType
      <4>3. history'[Slot(m)] = history[Slot(m)] BY Zenon, <2>11, <4>1, <4>2
      <4>4. reaped[m].pid # child BY Zenon, <1>1, <2>6, <3>1, <3>3 DEF PidsExact
      <4>5. LET e == history[Slot(m)]
            IN  /\ e.pid = reaped[m].pid /\ e.parent_pid = reaped[m].parent_pid
                /\ e.exit = reaped[m].exit
                /\ e.collected <=> \E d \in Range(delivered) : d.pid = e.pid
        BY Zenon, <1>1 DEF RingExact
      <4> QED BY Zenon, <2>9, <2>10, <4>3, <4>4, <4>5
    <3> QED BY Zenon, <3>2, <3>3
  <2>14. RingExact'
    <3>1. \A j \in 1..History : history'[j].pid = history[j].pid BY Zenon, <2>11
    <3>2. cursor' = Slot(Len(reaped') + 1) BY Zenon, <1>1 DEF RingExact
    <3>3. \A j \in 1..History : history'[j].pid # 0 => \E m \in Window' : Slot(m) = j
      BY Zenon, <1>1, <2>12, <3>1 DEF RingExact
    <3>4. reaped' = reaped OBVIOUS
    <3> QED BY Zenon, <2>12, <2>13, <3>2, <3>3, <3>4 DEF RingExact
  <2>15. DeliveredOnce'
    <3>1. \A n \in 1..Len(delivered) : delivered[n].pid # child
      BY <2>6, <2>8 DEF Range
    <3>2. \A n, m \in 1..Len(delivered') : delivered'[n].pid = delivered'[m].pid => n = m
      BY <1>1, <2>8, <2>9, <3>1 DEF DeliveredOnce
    <3>3. reaped[k] \in Range(reaped) BY <1>1, <2>5 DEF Window, Range, ProcType
    <3>4. \A d \in Range(delivered') :
            \E e \in Range(reaped) : e.pid = d.pid /\ e.parent_pid = d.to /\ e.exit = d.exit
      BY Zenon, <1>1, <2>6, <2>9, <2>10, <3>3 DEF DeliveredOnce
    <3> QED BY Zenon, <3>2, <3>4 DEF DeliveredOnce
  <2> QED BY Zenon, <2>8, <2>11, <2>14, <2>15
<1> QED BY <1>2, <1>3

-----------------------------------------------------------------------------
(* Every step keeps the invariant                                           *)

(* A process that is built, with the next pid, is an object of the heap.    *)
LEMMA NewIsObject ==
  ASSUME ProcType, next_pid <= MaxPid, NEW parent \in 0..MaxPid
  PROVE  /\ NewProcess(next_pid, parent) \in ProcessObject
         /\ [NewProcess(next_pid, parent) EXCEPT !.state = "BUILT"] \in ProcessObject
<1>1. next_pid \in Pid /\ 0 \in 0..MaxPid BY ProcessAssumption DEF ProcType, Pid
<1>2. Success \in Outcome BY DEF Success, Outcome
<1> QED BY <1>1, <1>2 DEF NewProcess, ProcessObject

(* The object of a process is filled in, not yet published.                 *)
LEMMA SpawnProbeKeeps ==
  ASSUME ProcInv, process_spawn_probe
  PROVE  ProcInv'
<1>1. ProcType /\ SlotsExact /\ PidsExact /\ RingExact /\ DeliveredOnce /\ ExecTellsTruth BY DEF ProcInv
<1> DEFINE object == [NewProcess(next_pid, 0) EXCEPT !.state = "BUILT"]
<1>2. PICK a \in Addr :
        /\ heap[a] = Free
        /\ shell' = [pc |-> "constructing", slot |-> FreeSlot, addr |-> a]
        /\ heap' = [heap EXCEPT ![a] = object]
  BY Zenon DEF process_spawn_probe
<1>3. /\ next_pid <= MaxPid /\ FreeSlot <= Limit
      /\ UNCHANGED <<registry, history, cursor, next_pid, active, panicked, reaped, delivered>>
  BY Zenon DEF process_spawn_probe
<1>4. FreeSlot \in 1..Limit /\ registry[FreeSlot] = Null BY <1>3, FreeSlotIsFree
<1>5. object \in ProcessObject /\ object.state = "BUILT" /\ object.pid = next_pid
  <2>1. 0 \in 0..MaxPid BY ProcessAssumption
  <2> QED BY <1>1, <1>3, <2>1, NewIsObject DEF NewProcess
<1> HIDE DEF object
<1>6. /\ heap' \in [Addr -> ProcessObject \cup {Free}] /\ heap'[a] = object
      /\ \A b \in Addr \ {a} : heap'[b] = heap[b]
  BY <1>1, <1>2, <1>5 DEF ProcType
<1>7. Published' = Published /\ \A b \in Published : heap'[b] = heap[b]
  BY <1>2, <1>5, <1>6 DEF Published, Free
<1>8. SlotsExact' /\ PidsExact' BY <1>1, <1>3, <1>7, ObjectsUntouched
<1>9. RingExact' /\ DeliveredOnce' BY <1>1, <1>3, ResultsUntouched
<1>10. shell' \in ShellState BY Zenon, <1>2, <1>4 DEF ShellState
<1>11. ProcType' BY <1>1, <1>3, <1>6, <1>10 DEF ProcType
<1>12. ConstructionSafe' BY <1>2, <1>3, <1>4, <1>5, <1>6 DEF ConstructionSafe
<1>13. ExecTellsTruth' BY Zenon, <1>2 DEF ExecTellsTruth
<1> QED BY <1>8, <1>9, <1>11, <1>12, <1>13 DEF ProcInv

(* A slot that was free is taken, with the count, in one step.              *)
LEMMA PublishProbeKeeps ==
  ASSUME ProcInv, PublishProbe
  PROVE  ProcInv'
<1>1. /\ ProcType /\ SlotsExact /\ PidsExact /\ RingExact /\ DeliveredOnce /\ ConstructionSafe
      /\ shell.pc = "constructing" /\ shell' = ShellReady(0, FALSE)
      /\ UNCHANGED <<history, cursor, panicked, reaped, delivered>>
  BY DEF ProcInv, PublishProbe
<1>2. shell.slot \in 1..Limit /\ shell.addr \in Addr BY Zenon, <1>1 DEF ProcType, ShellState
<1> DEFINE a == shell.addr
<1>3. /\ next_pid <= MaxPid /\ registry[shell.slot] = Null
      /\ heap[a].state = "BUILT" /\ heap[a].pid = next_pid
  BY Zenon, <1>1 DEF ConstructionSafe
<1>4. heap[a] \in ProcessObject /\ a \notin Published BY <1>1, <1>2, <1>3 DEF ProcType, Free, Published
<1>5. RingExact' /\ DeliveredOnce' BY <1>1, ResultsUntouched
<1>6. shell' \in ShellState BY <1>1, ProcessAssumption DEF ShellState, ShellReady
<1>7. ConstructionSafe' /\ ExecTellsTruth'
  BY Zenon, <1>1 DEF ConstructionSafe, ExecTellsTruth, ShellReady
<1>8. CASE Publish(shell.slot, a, [heap[a] EXCEPT !.state = "READY"])
  <2> DEFINE object == [heap[a] EXCEPT !.state = "READY"]
  <2>1. object \in ProcessObject /\ object.state = "READY" /\ object.pid = next_pid
    BY <1>3, <1>4 DEF ProcessObject
  <2>2. Publish(shell.slot, a, object) BY <1>8
  <2> HIDE DEF object
  <2>3. /\ SlotsExact' /\ PidsExact' /\ heap' \in [Addr -> ProcessObject \cup {Free}]
        /\ registry' \in [1..Limit -> Addr \cup {Null}]
        /\ next_pid' \in 1..(MaxPid + 1) /\ active' \in Nat
    BY Zenon, <1>1, <1>2, <1>3, <1>4, <2>1, <2>2, PublishKeeps
  <2>4. ProcType' BY Zenon, <1>1, <1>6, <2>3 DEF ProcType
  <2> QED BY <1>5, <1>7, <2>3, <2>4 DEF ProcInv
<1>9. CASE heap' = [heap EXCEPT ![a] = Free] /\ UNCHANGED <<registry, next_pid, active>>
  <2>1. /\ heap' \in [Addr -> ProcessObject \cup {Free}] /\ heap'[a] = Free
        /\ \A b \in Addr \ {a} : heap'[b] = heap[b]
    BY Zenon, <1>1, <1>2, <1>9 DEF ProcType
  <2>2. Published' = Published /\ \A b \in Published : heap'[b] = heap[b]
    BY <1>4, <2>1 DEF Published, Free
  <2>3. SlotsExact' /\ PidsExact' BY <1>1, <1>9, <2>2, ObjectsUntouched
  <2>4. ProcType' BY Zenon, <1>1, <1>6, <1>9, <2>1 DEF ProcType
  <2> QED BY <1>5, <1>7, <2>3, <2>4 DEF ProcInv
<1> QED BY Zenon, <1>8, <1>9 DEF PublishProbe

(* A program that starts, for a parent or for the shell.                    *)
LEMMA SpawnElfKeeps ==
  ASSUME ProcInv, shell.pc # "constructing", NEW parent \in 0..MaxPid, process_spawn_elf(parent),
         shell' = shell
           \/ shell' = [pc |-> "waiting", pid |-> next_pid, left |-> Polls, reap |-> TRUE]
  PROVE  ProcInv'
<1>1. ProcType /\ RingExact /\ DeliveredOnce /\ ExecTellsTruth BY DEF ProcInv
<1>2. PICK a \in Addr : heap[a] = Free /\ Publish(FreeSlot, a, NewProcess(next_pid, parent))
  BY Zenon DEF process_spawn_elf
<1>3. /\ next_pid <= MaxPid /\ FreeSlot <= Limit
      /\ UNCHANGED <<history, cursor, panicked, reaped, delivered>>
  BY Zenon DEF process_spawn_elf
<1>4. FreeSlot \in 1..Limit /\ registry[FreeSlot] = Null BY <1>3, FreeSlotIsFree
<1>5. /\ NewProcess(next_pid, parent) \in ProcessObject
      /\ NewProcess(next_pid, parent).state = "READY" /\ NewProcess(next_pid, parent).pid = next_pid
  <2>1. NewProcess(next_pid, parent) \in ProcessObject BY Zenon, <1>1, <1>3, NewIsObject
  <2>2. /\ NewProcess(next_pid, parent).state = "READY"
        /\ NewProcess(next_pid, parent).pid = next_pid
    BY Zenon DEF NewProcess
  <2> QED BY Zenon, <2>1, <2>2
<1>6. a \notin Published BY <1>2 DEF Published, Free
<1>7. /\ SlotsExact' /\ PidsExact' /\ heap' \in [Addr -> ProcessObject \cup {Free}]
      /\ registry' \in [1..Limit -> Addr \cup {Null}]
      /\ next_pid' \in 1..(MaxPid + 1) /\ active' \in Nat
  BY Zenon, <1>2, <1>3, <1>4, <1>5, <1>6, PublishKeeps
<1>8. RingExact' /\ DeliveredOnce' BY <1>1, <1>3, ResultsUntouched
<1>9. shell' \in ShellState /\ shell'.pc # "constructing"
      /\ (shell' = shell \/ ~(shell'.pc = "ready" /\ shell'.good))
  <2>1. CASE shell' = shell BY Zenon, <1>1, <2>1 DEF ProcType
  <2>2. CASE shell' = [pc |-> "waiting", pid |-> next_pid, left |-> Polls, reap |-> TRUE]
    <3>1. next_pid \in Pid /\ Polls \in 0..Polls BY <1>1, <1>3, ProcessAssumption DEF ProcType, Pid
    <3>2. shell' \in [pc : {"waiting"}, pid : Pid, left : 0..Polls, reap : BOOLEAN]
      BY Zenon, <2>2, <3>1
    <3>3. shell' \in ShellState BY Zenon, <3>2 DEF ShellState
    <3>4. shell'.pc = "waiting" BY Zenon, <2>2
    <3> QED BY <3>3, <3>4
  <2> QED BY <2>1, <2>2
<1>10. ExecTellsTruth' BY Zenon, <1>1, <1>3, <1>9, ReportStays
<1>11. ConstructionSafe' BY Zenon, <1>9 DEF ConstructionSafe
<1>12. ProcType' BY Zenon, <1>1, <1>3, <1>7, <1>9 DEF ProcType
<1> QED BY <1>7, <1>8, <1>10, <1>11, <1>12 DEF ProcInv

(* An exit or a fault changes how its own process ends, nothing else.       *)
LEMMA MarkExitKeeps ==
  ASSUME ProcInv, shell.pc # "constructing", NEW a \in Live, NEW exit \in Outcome,
         process_mark_exit(a, exit)
  PROVE  ProcInv'
<1>1. /\ ProcType /\ SlotsExact /\ PidsExact /\ RingExact /\ DeliveredOnce /\ ExecTellsTruth
      /\ UNCHANGED <<registry, history, cursor, next_pid, active, shell, panicked, reaped, delivered>>
  BY DEF ProcInv, process_mark_exit
<1>2. a \in Addr /\ heap[a] \in ProcessObject /\ heap[a].state = "READY"
  BY <1>1 DEF Live, ProcType, Free
<1> DEFINE object == [heap[a] EXCEPT !.state = "EXITED", !.exit = exit]
<1>3. object \in ProcessObject /\ object.state = "EXITED" /\ object.pid = heap[a].pid
  <2>1. \A p \in ProcessObject :
          LET o == [p EXCEPT !.state = "EXITED"]
          IN  o \in ProcessObject /\ o.state = "EXITED" /\ o.pid = p.pid
    BY DEF ProcessObject
  <2>2. \A p \in ProcessObject :
          LET o == [p EXCEPT !.exit = exit]
          IN  o \in ProcessObject /\ o.state = p.state /\ o.pid = p.pid
    BY DEF ProcessObject
  <2>3. object = [[heap[a] EXCEPT !.state = "EXITED"] EXCEPT !.exit = exit] OBVIOUS
  <2> QED BY Zenon, <1>2, <2>1, <2>2, <2>3
<1>4. heap' = [heap EXCEPT ![a] = object] BY <1>1, <1>2 DEF process_mark_exit, ProcType
<1> HIDE DEF object
<1>5. /\ heap' \in [Addr -> ProcessObject \cup {Free}] /\ heap'[a] = object
      /\ \A b \in Addr \ {a} : heap'[b] = heap[b]
  BY Zenon, <1>1, <1>2, <1>3, <1>4 DEF ProcType
<1>6. Published' = Published /\ \A b \in Published : heap'[b].pid = heap[b].pid
  BY Zenon, <1>2, <1>3, <1>5 DEF Published
<1>7. SlotsExact' /\ PidsExact' BY Zenon, <1>1, <1>6, ObjectsUntouched
<1>8. RingExact' /\ DeliveredOnce' BY <1>1, ResultsUntouched
<1>9. ProcType' BY Zenon, <1>1, <1>5 DEF ProcType
<1>10. ExecTellsTruth' /\ ConstructionSafe' BY Zenon, <1>1 DEF ExecTellsTruth, ConstructionSafe
<1> QED BY <1>7, <1>8, <1>9, <1>10 DEF ProcInv

(* The reaper, in idle or in the shell.                                     *)
LEMMA ReapKeeps ==
  ASSUME ProcInv, shell.pc # "constructing", thread_reap, UNCHANGED <<next_pid, delivered>>,
         shell' \in ShellState, shell'.pc # "constructing",
         shell' = shell \/ ~(shell'.pc = "ready" /\ shell'.good)
  PROVE  ProcInv'
<1>1. ProcType /\ ExecTellsTruth BY DEF ProcInv
<1>2. PICK q, results : Reaped(q, results) BY ReapExpands
<1>3. /\ SlotsExact' /\ PidsExact' /\ panicked' = FALSE
      /\ heap' \in [Addr -> ProcessObject \cup {Free}]
      /\ registry' \in [1..Limit -> Addr \cup {Null}] /\ active' \in Nat
  BY Zenon, <1>2, ReapObjects
<1>4. /\ RingExact' /\ DeliveredOnce' /\ Range(reaped) \subseteq Range(reaped')
      /\ history' \in [1..History -> Result] /\ cursor' \in 1..History
  BY Zenon, <1>2, ReapRing
<1>5. reaped' \in Seq(Result) BY Zenon, <1>2 DEF Reaped
<1>6. ProcType' BY Zenon, <1>1, <1>3, <1>4, <1>5 DEF ProcType
<1>7. ExecTellsTruth' BY Zenon, <1>1, <1>4, ReportStays
<1>8. ConstructionSafe' BY Zenon DEF ConstructionSafe
<1> QED BY Zenon, <1>3, <1>4, <1>6, <1>7, <1>8 DEF ProcInv

(* WAIT delivers a result that nobody was given before.                     *)
LEMMA SysWaitKeeps ==
  ASSUME ProcInv, NEW a \in Addr, NEW child \in Pid, NEW copied \in BOOLEAN,
         SysWait(a, child, copied)
  PROVE  ProcInv'
<1>1. ProcType /\ SlotsExact /\ PidsExact /\ ExecTellsTruth BY DEF ProcInv
<1> DEFINE answer == IF CollectAnswer(heap[a].pid, child, copied) = "EAGAIN" THEN child ELSE 0
<1>2. /\ shell.pc # "constructing" /\ a \in Live
      /\ process_collect_child(heap[a].pid, child, copied)
      /\ heap' = [heap EXCEPT ![a].waits = answer]
      /\ UNCHANGED <<registry, cursor, next_pid, active, shell, panicked, reaped>>
  BY Zenon DEF SysWait, Runs
<1>3. heap[a] \in ProcessObject /\ heap[a].state = "READY" BY <1>1, <1>2 DEF Live, ProcType, Free
<1>4. heap[a].pid \in Pid BY Zenon, <1>3 DEF ProcessObject
<1>5. answer \in 0..MaxPid BY ProcessAssumption DEF Pid
<1> HIDE DEF answer
<1>6. /\ RingExact' /\ DeliveredOnce'
      /\ history' \in [1..History -> Result] /\ delivered' \in Seq(Delivery)
  BY Zenon, <1>2, <1>4, CollectKeeps
<1>7. /\ heap' \in [Addr -> ProcessObject \cup {Free}]
      /\ \A b \in Addr : heap'[b].state = heap[b].state
      /\ \A b \in Published : heap'[b].pid = heap[b].pid
  <2>1. \A p \in ProcessObject :
          LET o == [p EXCEPT !.waits = answer]
          IN  o \in ProcessObject /\ o.state = p.state /\ o.pid = p.pid
    BY <1>5 DEF ProcessObject
  <2>2. heap' = [heap EXCEPT ![a] = [heap[a] EXCEPT !.waits = answer]] BY <1>1, <1>2 DEF ProcType
  <2>3. PICK o \in ProcessObject : /\ o = [heap[a] EXCEPT !.waits = answer]
                                   /\ o.state = heap[a].state /\ o.pid = heap[a].pid
    BY Zenon, <1>3, <2>1
  <2>4. heap' = [heap EXCEPT ![a] = o] BY Zenon, <2>2, <2>3
  <2>5. heap' \in [Addr -> ProcessObject \cup {Free}] /\ heap'[a] = o
        /\ \A b \in Addr \ {a} : heap'[b] = heap[b]
    BY <1>1, <2>4 DEF ProcType
  <2>6. Published \subseteq Addr BY DEF Published
  <2> QED BY Zenon, <2>3, <2>5, <2>6
<1>8. Published' = Published BY Zenon, <1>7 DEF Published
<1>9. SlotsExact' /\ PidsExact' BY <1>1, <1>2, <1>7, <1>8, ObjectsUntouched
<1>10. ProcType' BY Zenon, <1>1, <1>2, <1>6, <1>7 DEF ProcType
<1>11. ExecTellsTruth' /\ ConstructionSafe' BY <1>1, <1>2 DEF ExecTellsTruth, ConstructionSafe
<1> QED BY Zenon, <1>6, <1>9, <1>10, <1>11 DEF ProcInv

(* A step of the shell that changes nothing but the shell.                  *)
LEMMA ShellAloneKeeps ==
  ASSUME ProcInv, shell' \in ShellState, shell'.pc # "constructing", ExecTellsTruth',
         UNCHANGED <<heap, registry, history, cursor, next_pid, active, panicked, reaped, delivered>>
  PROVE  ProcInv'
<1>1. ProcType /\ SlotsExact /\ PidsExact /\ RingExact /\ DeliveredOnce BY DEF ProcInv
<1>2. Published' = Published BY Zenon DEF Published
<1>3. SlotsExact' /\ PidsExact' BY Zenon, <1>1, <1>2, ObjectsUntouched
<1>4. RingExact' /\ DeliveredOnce' BY <1>1, ResultsUntouched
<1>5. ProcType' BY Zenon, <1>1 DEF ProcType
<1>6. ConstructionSafe' BY Zenon DEF ConstructionSafe
<1> QED BY <1>3, <1>4, <1>5, <1>6 DEF ProcInv

(* The shell reaps while it waits, and sees the result it waits for.        *)
LEMMA WaitReapsKeeps ==
  ASSUME ProcInv, WaitReaps
  PROVE  ProcInv'
<1>1. ProcType BY DEF ProcInv
<1>2. shell \in [pc : {"waiting"}, pid : Pid, left : 0..Polls, reap : BOOLEAN] /\ shell.pc = "waiting"
  BY <1>1 DEF ProcType, ShellState, WaitReaps
<1>3. CASE shell.left = 0
  <2>1. /\ shell' = ShellReady(shell.pid, FALSE)
        /\ UNCHANGED <<heap, registry, history, cursor, next_pid, active, panicked, reaped, delivered>>
    BY <1>3 DEF WaitReaps
  <2>2. shell.pid \in 0..MaxPid BY <1>2 DEF Pid
  <2>3. shell' \in [pc : {"ready"}, pid : 0..MaxPid, good : BOOLEAN] BY Zenon, <2>1, <2>2 DEF ShellReady
  <2>4. shell' \in ShellState BY Zenon, <2>3 DEF ShellState
  <2>5. shell'.pc = "ready" /\ shell'.good = FALSE BY Zenon, <2>1 DEF ShellReady
  <2>6. ExecTellsTruth' BY <2>5 DEF ExecTellsTruth
  <2>7. shell'.pc # "constructing" BY <2>5
  <2> QED BY Zenon, <2>1, <2>4, <2>6, <2>7, ShellAloneKeeps
<1>4. CASE shell.left # 0
  <2>1. /\ thread_reap /\ shell' = [shell EXCEPT !.reap = FALSE, !.left = @ - 1]
        /\ UNCHANGED <<next_pid, delivered>>
    BY <1>4 DEF WaitReaps
  <2>2. shell.left - 1 \in 0..Polls BY <1>2, <1>4, ProcessAssumption
  <2>3. shell' \in [pc : {"waiting"}, pid : Pid, left : 0..Polls, reap : BOOLEAN]
    <3> DEFINE W == [pc : {"waiting"}, pid : Pid, left : 0..Polls, reap : BOOLEAN]
    <3>1. \A s \in W, b \in BOOLEAN : [s EXCEPT !.reap = b] \in W OBVIOUS
    <3>2. \A s \in W, n \in 0..Polls : [s EXCEPT !.left = n] \in W OBVIOUS
    <3>3. shell' = [[shell EXCEPT !.reap = FALSE] EXCEPT !.left = shell.left - 1] BY <1>2, <2>1
    <3>4. shell \in W BY Zenon, <1>2
    <3> HIDE DEF W
    <3>5. shell' \in W BY Zenon, <2>2, <3>1, <3>2, <3>3, <3>4
    <3> QED BY Zenon, <3>5 DEF W
  <2>4. shell' \in ShellState /\ shell'.pc = "waiting" BY <2>3 DEF ShellState
  <2> QED BY <1>2, <2>1, <2>4, ReapKeeps
<1> QED BY <1>3, <1>4

(* The result that wait_process finds is that of the process it started.    *)
LEMMA WaitLooksKeeps ==
  ASSUME ProcInv, WaitLooks
  PROVE  ProcInv'
<1>1. /\ ProcType /\ RingExact /\ shell.pc = "waiting"
      /\ UNCHANGED <<heap, registry, history, cursor, next_pid, active, panicked, reaped, delivered>>
      /\ shell' = IF Recorded(shell.pid) = {} THEN [shell EXCEPT !.reap = TRUE]
                  ELSE ShellReady(shell.pid, history[Min(Recorded(shell.pid))].exit = Success)
  BY Zenon DEF ProcInv, WaitLooks
<1>2. shell \in [pc : {"waiting"}, pid : Pid, left : 0..Polls, reap : BOOLEAN]
  BY <1>1 DEF ProcType, ShellState
<1>3. CASE Recorded(shell.pid) = {}
  <2>1. shell' \in [pc : {"waiting"}, pid : Pid, left : 0..Polls, reap : BOOLEAN]
    <3>1. \A s \in [pc : {"waiting"}, pid : Pid, left : 0..Polls, reap : BOOLEAN], b \in BOOLEAN :
            [s EXCEPT !.reap = b] \in [pc : {"waiting"}, pid : Pid, left : 0..Polls, reap : BOOLEAN]
      OBVIOUS
    <3> QED BY Zenon, <1>1, <1>2, <1>3, <3>1
  <2>2. shell' \in ShellState /\ shell'.pc = "waiting" BY Zenon, <2>1 DEF ShellState
  <2>3. ExecTellsTruth' BY <2>2 DEF ExecTellsTruth
  <2> QED BY <1>1, <2>2, <2>3, ShellAloneKeeps
<1>4. CASE Recorded(shell.pid) # {}
  <2> DEFINE i == Min(Recorded(shell.pid))
             good == history[i].exit = Success
  <2>1. i \in Recorded(shell.pid)
    <3>1. Recorded(shell.pid) \subseteq Nat BY DEF Recorded
    <3> QED BY Zenon, <1>4, <3>1, MinIsMember
  <2> HIDE DEF i
  <2>2. i \in 1..History /\ history[i].pid = shell.pid BY <2>1 DEF Recorded
  <2>3. shell.pid \in 0..MaxPid /\ shell.pid # 0 BY <1>2 DEF Pid
  <2>4. PICK k \in Window : Slot(k) = i BY <1>1, <2>2, <2>3 DEF RingExact
  <2>5. reaped[k].pid = shell.pid /\ reaped[k].exit = history[i].exit
    BY Zenon, <1>1, <2>2, <2>4 DEF RingExact
  <2>6. reaped[k] \in Range(reaped) BY <1>1 DEF Window, Range, ProcType
  <2>7. shell' = ShellReady(shell.pid, good) /\ good \in BOOLEAN BY Zenon, <1>1, <1>4 DEF i
  <2>8. /\ shell'.pc = "ready" /\ shell'.pid = shell.pid
        /\ shell'.good => history[i].exit = Success
    <3>1. shell' = [pc |-> "ready", pid |-> shell.pid, good |-> good] BY Zenon, <2>7 DEF ShellReady
    <3>2. shell'.pc = "ready" /\ shell'.pid = shell.pid BY <3>1
    <3>3. shell'.good = good BY Zenon, <3>1
    <3> QED BY Zenon, <3>2, <3>3
  <2>9. shell' \in ShellState
    <3>1. shell' \in [pc : {"ready"}, pid : 0..MaxPid, good : BOOLEAN]
      BY Zenon, <2>3, <2>7 DEF ShellReady
    <3> QED BY Zenon, <3>1 DEF ShellState
  <2>10. ExecTellsTruth' BY Zenon, <1>1, <2>5, <2>6, <2>8 DEF ExecTellsTruth
  <2> QED BY <1>1, <2>8, <2>9, <2>10, ShellAloneKeeps
<1> QED BY <1>3, <1>4

(* Every step of the kernel and its programs keeps the invariant.           *)
LEMMA ProcStep == ProcInv /\ [ProcessNext]_vars => ProcInv'
<1> SUFFICES ASSUME ProcInv, [ProcessNext]_vars PROVE ProcInv' OBVIOUS
<1>1. ProcType BY DEF ProcInv
<1>2. CASE ReaperRuns
  <2>1. /\ shell.pc # "constructing" /\ thread_reap /\ UNCHANGED <<next_pid, delivered>>
        /\ shell' = shell
    BY <1>2 DEF ReaperRuns, Runs
  <2>2. shell' \in ShellState BY <1>1, <2>1 DEF ProcType
  <2> QED BY <2>1, <2>2, ReapKeeps
<1>3. CASE ShellStep
  <2>1. CASE process_spawn_probe BY <2>1, SpawnProbeKeeps
  <2>2. CASE PublishProbe BY <2>2, PublishProbeKeeps
  <2>3. CASE filesystem_run
    <3>1. /\ shell.pc # "constructing" /\ process_spawn_elf(0)
          /\ shell' = [pc |-> "waiting", pid |-> next_pid, left |-> Polls, reap |-> TRUE]
      BY <2>3 DEF filesystem_run
    <3>2. 0 \in 0..MaxPid BY ProcessAssumption
    <3> QED BY Zenon, <3>1, <3>2, SpawnElfKeeps
  <2>4. CASE WaitReaps BY Zenon, <2>4, WaitReapsKeeps
  <2>5. CASE WaitLooks BY Zenon, <2>5, WaitLooksKeeps
  <2> QED BY <1>3, <2>1, <2>2, <2>3, <2>4, <2>5 DEF ShellStep
<1>4. ASSUME NEW a \in Addr, Program(a) PROVE ProcInv'
  <2>1. CASE SysExit(a)
    <3>1. PICK code \in Codes : process_mark_exit(a, [code |-> code, faulted |-> FALSE])
      BY Zenon, <2>1 DEF SysExit
    <3>2. [code |-> code, faulted |-> FALSE] \in Outcome BY ProcessAssumption DEF Outcome
    <3>3. shell.pc # "constructing" /\ a \in Live BY <2>1 DEF SysExit, Runs
    <3> QED BY Zenon, <3>1, <3>2, <3>3, MarkExitKeeps
  <2>2. CASE process_on_fault(a)
    <3>1. PICK v \in Vectors : process_mark_exit(a, [code |-> -(128 + v), faulted |-> TRUE])
      BY Zenon, <2>2 DEF process_on_fault
    <3>2. -(128 + v) \in Int BY ProcessAssumption
    <3>3. [code |-> -(128 + v), faulted |-> TRUE] \in Outcome BY Zenon, <3>2 DEF Outcome
    <3>4. shell.pc # "constructing" /\ a \in Live BY <2>2 DEF process_on_fault, Runs
    <3> QED BY Zenon, <3>1, <3>3, <3>4, MarkExitKeeps
  <2>3. CASE SysSpawn(a)
    <3>1. /\ shell.pc # "constructing" /\ a \in Live /\ process_spawn_elf(heap[a].pid) /\ shell' = shell
      BY <2>3 DEF SysSpawn, Runs
    <3>2. heap[a].pid \in 0..MaxPid BY <1>1, <3>1 DEF Live, ProcType, ProcessObject, Free, Pid
    <3> QED BY Zenon, <3>1, <3>2, SpawnElfKeeps
  <2>4. CASE \E child \in Pid, copied \in BOOLEAN : SysWait(a, child, copied)
    BY Zenon, <2>4, SysWaitKeeps
  <2> QED BY <1>4, <2>1, <2>2, <2>3, <2>4 DEF Program
<1>5. CASE UNCHANGED vars
  <2>1. /\ UNCHANGED <<heap, registry, history, cursor, next_pid, active, panicked, reaped, delivered>>
        /\ shell' = shell
    BY <1>5 DEF vars
  <2>2. Published' = Published BY Zenon, <2>1 DEF Published
  <2>3. SlotsExact' /\ PidsExact' BY <2>1, <2>2, ObjectsUntouched DEF ProcInv
  <2>4. RingExact' /\ DeliveredOnce' BY <2>1, ResultsUntouched DEF ProcInv
  <2>5. ProcType' BY Zenon, <1>1, <2>1 DEF ProcType
  <2>6. ConstructionSafe' /\ ExecTellsTruth' BY Zenon, <2>1 DEF ProcInv, ConstructionSafe, ExecTellsTruth
  <2> QED BY <2>3, <2>4, <2>5, <2>6 DEF ProcInv
<1> QED BY Zenon, <1>2, <1>3, <1>4, <1>5 DEF ProcessNext

(* The invariant holds in every reachable state.                            *)
THEOREM ProcessInvariant == ProcessSpec => []ProcInv
<1>1. ProcessInit => ProcInv BY ProcInitInv
<1>2. ProcInv /\ [ProcessNext]_vars => ProcInv' BY ProcStep
<1> QED BY <1>1, <1>2, PTL DEF ProcessSpec

-----------------------------------------------------------------------------
(* What the invariant says                                                  *)

(* There are no more processes than slots.                                  *)
LEMMA NoMoreThanSlots ==
  ASSUME ProcInv
  PROVE  active \in 0..Limit
<1>1. SlotsExact /\ ProcType BY DEF ProcInv
<1>2. Limit \in Nat /\ 1 \in Int /\ Limit \in Int BY ProcessAssumption
<1>3. IsFiniteSet(1..Limit) /\ Cardinality(1..Limit) = Limit
  <2>1. /\ IsFiniteSet(1..Limit)
        /\ Cardinality(1..Limit) = IF 1 > Limit THEN 0 ELSE Limit - 1 + 1
    BY <1>2, FS_Interval
  <2> QED BY <1>2, <2>1
<1> DEFINE f == [a \in Published |-> CHOOSE s \in 1..Limit : registry[s] = a]
<1>4. \A a \in Published : f[a] \in 1..Limit /\ registry[f[a]] = a
  BY Zenon, <1>1 DEF SlotsExact, Registered
<1>5. f \in Injection(Published, 1..Limit)
  <2>1. f \in [Published -> 1..Limit] BY Zenon, <1>4
  <2>2. \A a, b \in Published : f[a] = f[b] => a = b BY Zenon, <1>4
  <2> HIDE DEF f
  <2> QED BY <2>1, <2>2 DEF Injection, IsInjective
<1>6. Cardinality(Published) <= Cardinality(1..Limit)
  BY Zenon, <1>1, <1>3, <1>5, FS_Injection DEF SlotsExact, ExistsInjection
<1> QED BY <1>1, <1>2, <1>3, <1>6 DEF SlotsExact, ProcType

(* What the kernel keeps of its processes is exact while they live and      *)
(* after: the registry, the pids and the active count, then the results,    *)
(* which are neither lost early nor altered nor given out twice             *)
(* (process_spawn_probe, process_reap, process_collect_child).              *)
THEOREM BookkeepingAlwaysExact == ProcessSpec => []BookkeepingExact
<1>1. ProcInv => BookkeepingExact
  <2> SUFFICES ASSUME ProcInv PROVE BookkeepingExact OBVIOUS
  <2>1. ProcType /\ SlotsExact /\ PidsExact /\ RingExact /\ DeliveredOnce BY DEF ProcInv
  <2>2. ProcessTypeOK
    <3>1. active \in 0..Limit BY NoMoreThanSlots
    <3>2. \A a \in Addr : heap[a] \in ProcessObject \cup {Free} BY <2>1 DEF ProcType
    <3>3. \A i \in 1..History : history[i] \in Result BY <2>1 DEF ProcType
    <3> QED BY Zenon, <2>1, <3>1, <3>2, <3>3 DEF ProcType, ProcessTypeOK, ShellState
  <2>3. \A a \in Published : Cardinality({s \in 1..Limit : registry[s] = a}) = 1
    <3> SUFFICES ASSUME NEW a \in Published
                 PROVE  Cardinality({s \in 1..Limit : registry[s] = a}) = 1
      OBVIOUS
    <3>1. PICK s \in 1..Limit : registry[s] = a BY <2>1 DEF SlotsExact, Registered
    <3>2. a # Null BY ProcessAssumption DEF Published, Null
    <3>3. {r \in 1..Limit : registry[r] = a} = {s} BY <2>1, <3>1, <3>2 DEF SlotsExact
    <3>4. Cardinality({s}) = 1 BY Zenon, FS_Singleton
    <3> QED BY Zenon, <3>3, <3>4
  <2>4. RegistryExact
    BY Zenon, <2>1, <2>2, <2>3 DEF RegistryExact, SlotsExact, PidsExact, ProcType
  <2>5. ResultsKept
    <3> SUFFICES ASSUME NEW k \in 1..Len(reaped), k > Len(reaped) - History
                 PROVE  \E i \in 1..History : [history[i] EXCEPT !.collected = FALSE] = reaped[k]
      BY Zenon DEF ResultsKept
    <3>1. k \in Window /\ k \in Nat \ {0} BY DEF Window
    <3>2. Slot(k) \in 1..History BY <3>1, SlotType
    <3>3. LET e == history[Slot(k)]
          IN  e.pid = reaped[k].pid /\ e.parent_pid = reaped[k].parent_pid /\ e.exit = reaped[k].exit
      BY Zenon, <2>1, <3>1 DEF RingExact
    <3>4. history[Slot(k)] \in Result /\ reaped[k] \in Result BY <2>1, <3>2 DEF ProcType
    <3>5. reaped[k].collected = FALSE
      <4>1. ~reaped[k].collected BY <2>1 DEF PidsExact
      <4>2. reaped[k].collected \in BOOLEAN BY <3>4 DEF Result
      <4> QED BY Zenon, <4>1, <4>2
    <3>6. \A e, f \in Result, b \in BOOLEAN :
            e.pid = f.pid /\ e.parent_pid = f.parent_pid /\ e.exit = f.exit /\ f.collected = b
              => [e EXCEPT !.collected = b] = f
      BY DEF Result
    <3>7. [history[Slot(k)] EXCEPT !.collected = FALSE] = reaped[k]
      BY Zenon, <3>3, <3>4, <3>5, <3>6
    <3> QED BY Zenon, <3>2, <3>7
  <2> QED BY Zenon, <2>1, <2>4, <2>5 DEF BookkeepingExact, ResultsExact
<1> QED BY <1>1, ProcessInvariant, PTL

(* A parent and the shell are told the truth: WAIT answers EAGAIN from      *)
(* SPAWN until the child is reaped, then its status once, and ENOENT for    *)
(* everything else; `exec' reports success only for a process that          *)
(* succeeded (process_collect_child, wait_process).                         *)
THEOREM AnswersAlwaysTrue == ProcessSpec => []AnswersTrue
<1>1. ProcInv => AnswersTrue
  <2> SUFFICES ASSUME ProcInv PROVE AnswersTrue BY Zenon
  <2>1. /\ ProcType /\ SlotsExact /\ PidsExact /\ RingExact /\ DeliveredOnce /\ ExecTellsTruth
    BY DEF ProcInv
  <2>2. ASSUME NEW parent \in Pid, NEW child \in Pid
        PROVE  CollectAnswer(parent, child, TRUE) =
                 IF IsChild(parent, child) THEN "EAGAIN"
                 ELSE IF HasResult(parent, child) THEN "OK" ELSE "ENOENT"
    <3>1. HasChild(parent, child) <=> IsChild(parent, child)
      <4>1. HasChild(parent, child) => IsChild(parent, child)
        BY Zenon, <2>1 DEF HasChild, IsChild, SlotsExact
      <4>2. IsChild(parent, child) => HasChild(parent, child)
        <5> SUFFICES ASSUME NEW b \in Published, heap[b].pid = child, heap[b].parent_pid = parent
                     PROVE  HasChild(parent, child)
          BY Zenon DEF IsChild
        <5>1. PICK s \in 1..Limit : registry[s] = b BY Zenon, <2>1 DEF SlotsExact, Registered
        <5>2. b # Null BY ProcessAssumption DEF Published, Null
        <5> QED BY Zenon, <5>1, <5>2 DEF HasChild
      <4> QED BY <4>1, <4>2
    <3>2. ASSUME Uncollected(parent, child) # {} PROVE HasResult(parent, child)
      <4>1. PICK i \in 1..History : /\ history[i].pid = child /\ history[i].parent_pid = parent
                                    /\ ~history[i].collected
        BY Zenon, <3>2 DEF Uncollected
      <4>2. child # 0 BY DEF Pid
      <4>3. PICK k \in Window : Slot(k) = i BY Zenon, <2>1, <4>1, <4>2 DEF RingExact
      <4>4. /\ reaped[k].pid = child /\ reaped[k].parent_pid = parent
            /\ ~ \E d \in Range(delivered) : d.pid = child
        BY Zenon, <2>1, <4>1, <4>3 DEF RingExact
      <4> QED BY Zenon, <4>4 DEF HasResult, Window
    <3>3. ASSUME HasResult(parent, child) PROVE Uncollected(parent, child) # {}
      <4>1. PICK k \in Window : reaped[k].pid = child /\ reaped[k].parent_pid = parent
        BY Zenon, <3>3 DEF HasResult, Window
      <4>2. ~ \E d \in Range(delivered) : d.pid = child BY Zenon, <3>3 DEF HasResult
      <4>3. k \in Nat \ {0} BY DEF Window
      <4>4. Slot(k) \in 1..History BY <4>3, SlotType
      <4>5. /\ history[Slot(k)].pid = child /\ history[Slot(k)].parent_pid = parent
            /\ ~history[Slot(k)].collected
        BY Zenon, <2>1, <4>1, <4>2 DEF RingExact
      <4> QED BY <4>4, <4>5 DEF Uncollected
    <3>4. ASSUME IsChild(parent, child) PROVE ~HasResult(parent, child)
      BY Zenon, <2>1, <3>4 DEF IsChild, HasResult, PidsExact
    <3> QED BY Zenon, <3>1, <3>2, <3>3, <3>4 DEF CollectAnswer
  <2>3. ASSUME NEW a \in Live PROVE heap[a].pid \in Pid
    <3>1. heap[a] \in ProcessObject \cup {Free} /\ heap[a].state = "READY" BY Zenon, <2>1 DEF Live, ProcType
    <3> QED BY <3>1 DEF ProcessObject, Free
  <2>4. WaitAnswersRight BY Zenon, <2>2, <2>3 DEF WaitAnswersRight
  <2> QED BY Zenon, <2>1, <2>4 DEF AnswersTrue
<1> QED BY <1>1, ProcessInvariant, PTL

=============================================================================
