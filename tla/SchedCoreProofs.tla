--------------------------- MODULE SchedCoreProofs ---------------------------
(* Every operation of sched_core.c keeps the core valid, for every registry *)
(* size, quantum and bound, in whatever order the operations are called.    *)
(* First the linked lists as sequences: what appending, taking a part,      *)
(* unlinking and inserting by deadline do to the set a list enumerates and  *)
(* to its deadline order.  Then validity.  On top of it the reschedule      *)
(* requests and the preemption depth: idle yields, an exhausted quantum is  *)
(* enforced and a pinned task keeps the CPU.                                *)
EXTENDS SchedCore, FiniteSetTheorems, TLAPS

-----------------------------------------------------------------------------
(* Sequences that enumerate sets                                           *)

(* A list read as its elements: what Enumerates says of a sequence.        *)
LEMMA EnumeratesDef ==
  ASSUME NEW p \in Seq(Task), NEW S
  PROVE  Enumerates(p, S) <=>
           /\ \A i, j \in 1..Len(p) : p[i] = p[j] => i = j
           /\ \A i \in 1..Len(p) : p[i] \in S
           /\ \A x \in S : \E i \in 1..Len(p) : p[i] = x
  BY DEF Enumerates, IsInjective, Range

(* ready_push: appending a list of other tasks.                            *)
LEMMA EnumeratesConcat ==
  ASSUME NEW p \in Seq(Task), NEW q \in Seq(Task), NEW S, NEW T,
         Enumerates(p, S), Enumerates(q, T), S \cap T = {}
  PROVE  /\ p \o q \in Seq(Task)
         /\ Enumerates(p \o q, S \cup T)
<1>1. /\ p \o q \in Seq(Task)
      /\ Len(p \o q) = Len(p) + Len(q)
      /\ \A i \in 1 .. Len(p) + Len(q) :
           (p \o q)[i] = IF i <= Len(p) THEN p[i] ELSE q[i - Len(p)]
  OBVIOUS
<1>2. Len(p) \in Nat /\ Len(q) \in Nat
  OBVIOUS
<1> DEFINE r == p \o q
<1> HIDE DEF r
<1>3. \A i, j \in 1..Len(r) : r[i] = r[j] => i = j
  <2> SUFFICES ASSUME NEW i \in 1..Len(r), NEW j \in 1..Len(r), r[i] = r[j]
               PROVE  i = j
    OBVIOUS
  <2>1. CASE i <= Len(p) /\ j <= Len(p)
    BY <1>1, <1>2, <2>1, EnumeratesDef DEF r
  <2>2. CASE i > Len(p) /\ j > Len(p)
    <3>1. r[i] = q[i - Len(p)] /\ r[j] = q[j - Len(p)]
      BY <1>1, <1>2, <2>2 DEF r
    <3>2. i - Len(p) \in 1..Len(q) /\ j - Len(p) \in 1..Len(q)
      BY <1>1, <1>2, <2>2 DEF r
    <3> DEFINE a == i - Len(p)
               b == j - Len(p)
    <3> HIDE DEF a, b
    <3>a. a \in 1..Len(q) /\ b \in 1..Len(q) /\ q[a] = q[b]
      BY Zenon, <3>1, <3>2 DEF a, b
    <3>b. a = b
      BY <3>a, EnumeratesDef
    <3>3. i - Len(p) = j - Len(p)
      BY <3>b DEF a, b
    <3> QED BY <3>3, <1>1, <1>2 DEF r
  <2>3. ASSUME NEW a \in 1..Len(p), NEW b \in 1..Len(q) PROVE p[a] # q[b]
    BY EnumeratesDef
  <2>4. CASE i <= Len(p) /\ j > Len(p)
    <3>1. r[i] = p[i] /\ r[j] = q[j - Len(p)] /\ i \in 1..Len(p) /\ j - Len(p) \in 1..Len(q)
      BY <1>1, <1>2, <2>4 DEF r
    <3> QED BY Zenon, <3>1, <2>3
  <2>5. CASE i > Len(p) /\ j <= Len(p)
    <3>1. r[j] = p[j] /\ r[i] = q[i - Len(p)] /\ j \in 1..Len(p) /\ i - Len(p) \in 1..Len(q)
      BY <1>1, <1>2, <2>5 DEF r
    <3> QED BY <3>1, <2>3
  <2> QED BY SMTT(30), <1>1, <1>2, <2>1, <2>2, <2>4, <2>5 DEF r
<1>4. \A i \in 1..Len(r) : r[i] \in S \cup T
  <2> SUFFICES ASSUME NEW i \in 1..Len(r) PROVE r[i] \in S \cup T
    OBVIOUS
  <2>1. CASE i <= Len(p)
    BY <1>1, <1>2, <2>1, EnumeratesDef DEF r
  <2>2. CASE i > Len(p)
    <3>1. r[i] = q[i - Len(p)] /\ i - Len(p) \in 1..Len(q)
      BY <1>1, <1>2, <2>2 DEF r
    <3> QED BY <3>1, EnumeratesDef
  <2> QED BY <1>1, <1>2, <2>1, <2>2 DEF r
<1>5. ASSUME NEW x \in S \cup T PROVE \E i \in 1..Len(r) : r[i] = x
  <2>1. CASE x \in S
    <3>1. PICK i \in 1..Len(p) : p[i] = x
      BY <2>1, EnumeratesDef
    <3>2. i \in 1..Len(r) /\ r[i] = p[i]
      BY <3>1, <1>1, <1>2 DEF r
    <3> QED BY <3>1, <3>2
  <2>2. CASE x \in T
    <3>1. PICK i \in 1..Len(q) : q[i] = x
      BY <2>2, EnumeratesDef
    <3>2. i + Len(p) \in 1..Len(r) /\ r[i + Len(p)] = q[i]
      BY <3>1, <1>1, <1>2 DEF r
    <3> QED BY <3>1, <3>2
  <2> QED BY <1>5, <2>1, <2>2
<1>6. r \in Seq(Task)
  BY <1>1 DEF r
<1>7. Enumerates(r, S \cup T)
  BY Zenon, <1>3, <1>4, <1>5, <1>6, EnumeratesDef
<1> QED BY <1>6, <1>7 DEF r

(* The part of a list between two positions.                               *)
LEMMA EnumeratesSubSeq ==
  ASSUME NEW p \in Seq(Task), NEW S, Enumerates(p, S),
         NEW m \in 1..Len(p)+1, NEW n \in 0..Len(p)
  PROVE  /\ SubSeq(p, m, n) \in Seq(Task)
         /\ Len(SubSeq(p, m, n)) = IF m <= n THEN n - m + 1 ELSE 0
         /\ \A i \in 1..Len(SubSeq(p, m, n)) : SubSeq(p, m, n)[i] = p[m + i - 1]
         /\ Enumerates(SubSeq(p, m, n), {p[i] : i \in m..n})
<1> DEFINE r == SubSeq(p, m, n)
           T == {p[i] : i \in m..n}
<1>1. Len(p) \in Nat /\ \A i \in 1..Len(p) : p[i] \in Task
  OBVIOUS
<1>2. /\ r \in Seq(Task)
      /\ Len(r) = IF m <= n THEN n - m + 1 ELSE 0
      /\ \A i \in 1..Len(r) : r[i] = p[m + i - 1]
  <2>1. \A i \in m..n : p[i] \in Task
    BY <1>1
  <2>2. /\ r \in Seq(Task)
        /\ Len(r) = IF m <= n THEN n - m + 1 ELSE 0
        /\ \A i \in 1..n-m+1 : r[i] = p[m + i - 1]
    BY <2>1, <1>1
  <2> QED BY <2>2, <1>1
<1> HIDE DEF r
<1>3. \A i, j \in 1..Len(p) : p[i] = p[j] => i = j
  BY EnumeratesDef
<1>4. \A i, j \in 1..Len(r) : r[i] = r[j] => i = j
  <2> SUFFICES ASSUME NEW i \in 1..Len(r), NEW j \in 1..Len(r), r[i] = r[j]
               PROVE  i = j
    OBVIOUS
  <2> DEFINE a == m + i - 1
             b == m + j - 1
  <2>0. r[i] = p[a] /\ r[j] = p[b]
    BY <1>2
  <2>1. a \in 1..Len(p) /\ b \in 1..Len(p)
    BY SMTT(30), <1>1, <1>2
  <2> HIDE DEF a, b
  <2>2. a = b
    BY Zenon, <2>0, <2>1, <1>3
  <2> QED BY <2>2, <1>1, <1>2 DEF a, b
<1>5. ASSUME NEW i \in 1..Len(r) PROVE r[i] \in T
  <2>1. m + i - 1 \in m..n
    BY <1>1, <1>2
  <2>2. r[i] = p[m + i - 1]
    BY <1>2
  <2> QED BY <2>1, <2>2
<1>6. ASSUME NEW x \in T PROVE \E i \in 1..Len(r) : r[i] = x
  <2>1. PICK a \in m..n : x = p[a]
    OBVIOUS
  <2> DEFINE b == a - m + 1
  <2>2. b \in 1..Len(r) /\ m + b - 1 = a
    BY SMTT(30), <1>1, <1>2
  <2> HIDE DEF b
  <2>3. r[b] = p[m + b - 1]
    BY <1>2, <2>2
  <2> QED BY <2>1, <2>2, <2>3
<1>7. Enumerates(r, T)
  BY Zenon, <1>2, <1>4, <1>5, <1>6, EnumeratesDef
<1> QED BY <1>2, <1>7 DEF r

(* One task alone.                                                         *)
LEMMA EnumeratesOne ==
  ASSUME NEW t \in Task
  PROVE  <<t>> \in Seq(Task) /\ Len(<<t>>) = 1 /\ <<t>>[1] = t /\ Enumerates(<<t>>, {t})
  BY DEF Enumerates, IsInjective, Range

(* Deadline order survives concatenation when the second list is later.    *)
LEMMA OrderedConcat ==
  ASSUME NEW p \in Seq(Task), NEW q \in Seq(Task), NEW w \in [Task -> Nat],
         Ordered(p, w), Ordered(q, w),
         \A i \in 1..Len(p), j \in 1..Len(q) : w[p[i]] <= w[q[j]]
  PROVE  Ordered(p \o q, w)
<1> DEFINE r == p \o q
<1>1. /\ Len(r) = Len(p) + Len(q)
      /\ \A i \in 1 .. Len(p) + Len(q) :
           r[i] = IF i <= Len(p) THEN p[i] ELSE q[i - Len(p)]
      /\ Len(p) \in Nat /\ Len(q) \in Nat
  OBVIOUS
<1> HIDE DEF r
<1> SUFFICES ASSUME NEW i \in 1..Len(r), NEW j \in 1..Len(r), i < j
             PROVE  w[r[i]] <= w[r[j]]
  BY SMTT(30) DEF Ordered, r
<1>2. CASE j <= Len(p)
  <2>1. r[i] = p[i] /\ r[j] = p[j] /\ i \in 1..Len(p) /\ j \in 1..Len(p)
    BY <1>1, <1>2
  <2> QED BY <2>1 DEF Ordered
<1>3. CASE i > Len(p)
  <2> DEFINE a == i - Len(p)
             b == j - Len(p)
  <2>1. r[i] = q[a] /\ r[j] = q[b] /\ a \in 1..Len(q) /\ b \in 1..Len(q) /\ a < b
    BY <1>1, <1>3
  <2> HIDE DEF a, b
  <2> QED BY <2>1 DEF Ordered
<1>4. CASE i <= Len(p) /\ j > Len(p)
  <2> DEFINE b == j - Len(p)
  <2>1. r[i] = p[i] /\ r[j] = q[b] /\ i \in 1..Len(p) /\ b \in 1..Len(q)
    BY <1>1, <1>4
  <2> HIDE DEF b
  <2> QED BY SMTT(30), <2>1
<1> QED BY <1>1, <1>2, <1>3, <1>4

(* Any part of an ordered list is ordered, and so is the list under        *)
(* deadlines that agree on its members.                                    *)
LEMMA OrderedSubSeq ==
  ASSUME NEW p \in Seq(Task), NEW S, Enumerates(p, S),
         NEW w \in [Task -> Nat], Ordered(p, w),
         NEW v \in [Task -> Nat], \A x \in S : v[x] = w[x],
         NEW m \in 1..Len(p)+1, NEW n \in 0..Len(p)
  PROVE  Ordered(SubSeq(p, m, n), v)
<1> DEFINE r == SubSeq(p, m, n)
<1>1. /\ Len(r) = IF m <= n THEN n - m + 1 ELSE 0
      /\ \A i \in 1..Len(r) : r[i] = p[m + i - 1]
  BY EnumeratesSubSeq
<1>2. Len(p) \in Nat
  OBVIOUS
<1> HIDE DEF r
<1> SUFFICES ASSUME NEW i \in 1..Len(r), NEW j \in 1..Len(r), i < j
             PROVE  v[r[i]] <= v[r[j]]
  BY Zenon DEF Ordered, r
<1> DEFINE a == m + i - 1
           b == m + j - 1
<1>3. r[i] = p[a] /\ r[j] = p[b] /\ a \in 1..Len(p) /\ b \in 1..Len(p) /\ a < b
  <2>0. Len(r) = IF m <= n THEN n - m + 1 ELSE 0
    BY Zenon, <1>1
  <2>1. a \in 1..Len(p) /\ b \in 1..Len(p) /\ a < b
    BY SMTT(30), <1>2, <2>0
  <2>2. r[i] = p[a] /\ r[j] = p[b]
    BY Zenon, <1>1
  <2> QED BY <2>1, <2>2
<1> HIDE DEF a, b
<1>4. p[a] \in S /\ p[b] \in S
  BY <1>3, EnumeratesDef
<1> QED BY Zenon, <1>3, <1>4 DEF Ordered

(* Splitting a list at a position splits the set it enumerates.            *)
LEMMA EnumeratesSplit ==
  ASSUME NEW p \in Seq(Task), NEW S, Enumerates(p, S), NEW k \in 0..Len(p)
  PROVE  /\ {p[i] : i \in 1..k} \cap {p[i] : i \in k+1..Len(p)} = {}
         /\ {p[i] : i \in 1..k} \cup {p[i] : i \in k+1..Len(p)} = S
<1>1. Len(p) \in Nat
  OBVIOUS
<1>2. /\ \A i, j \in 1..Len(p) : p[i] = p[j] => i = j
      /\ \A i \in 1..Len(p) : p[i] \in S
      /\ \A x \in S : \E i \in 1..Len(p) : p[i] = x
  BY EnumeratesDef
<1>3. ASSUME NEW i \in 1..k, NEW j \in k+1..Len(p) PROVE p[i] # p[j]
  BY <1>1, <1>2
<1>4. ASSUME NEW x \in S PROVE x \in {p[i] : i \in 1..k} \cup {p[i] : i \in k+1..Len(p)}
  <2>1. PICK i \in 1..Len(p) : p[i] = x
    BY <1>2
  <2>2. i \in 1..k \/ i \in k+1..Len(p)
    BY <1>1
  <2> QED BY <2>1, <2>2
<1>5. \A i \in 1..k : p[i] \in S
  BY <1>1, <1>2
<1>6. \A i \in k+1..Len(p) : p[i] \in S
  BY <1>1, <1>2
<1> QED BY SMTT(30), <1>3, <1>4, <1>5, <1>6

(* sched_core_wake: unlinking one node.                                    *)
LEMMA WithoutEnumerates ==
  ASSUME NEW p \in Seq(Task), NEW S, Enumerates(p, S), NEW k \in 1..Len(p),
         NEW w \in [Task -> Nat], Ordered(p, w)
  PROVE  /\ Without(p, k) \in Seq(Task)
         /\ Enumerates(Without(p, k), S \ {p[k]})
         /\ Ordered(Without(p, k), w)
<1> DEFINE a == SubSeq(p, 1, k - 1)
           b == SubSeq(p, k + 1, Len(p))
           A == {p[i] : i \in 1..k-1}
           B == {p[i] : i \in k+1..Len(p)}
<1>1. Len(p) \in Nat
  OBVIOUS
<1>2. /\ 1 \in 1..Len(p)+1 /\ k + 1 \in 1..Len(p)+1
      /\ k - 1 \in 0..Len(p) /\ Len(p) \in 0..Len(p)
  BY <1>1
<1>3. /\ a \in Seq(Task) /\ Enumerates(a, A) /\ Len(a) = k - 1
      /\ \A i \in 1..Len(a) : a[i] = p[1 + i - 1]
  <2>1. /\ a \in Seq(Task) /\ Enumerates(a, A)
        /\ \A i \in 1..Len(a) : a[i] = p[1 + i - 1]
        /\ Len(a) = IF 1 <= k - 1 THEN k - 1 - 1 + 1 ELSE 0
    BY SMTT(30), <1>2, EnumeratesSubSeq
  <2>2. Len(a) = k - 1
    BY <1>1, <2>1
  <2> QED BY <2>1, <2>2
<1>4. /\ b \in Seq(Task) /\ Enumerates(b, B)
      /\ \A i \in 1..Len(b) : b[i] = p[k + 1 + i - 1]
      /\ Len(b) = IF k + 1 <= Len(p) THEN Len(p) - (k + 1) + 1 ELSE 0
  BY Zenon, <1>2, EnumeratesSubSeq
<1>5. /\ \A i, j \in 1..Len(p) : p[i] = p[j] => i = j
      /\ \A i \in 1..Len(p) : p[i] \in S
      /\ \A x \in S : \E i \in 1..Len(p) : p[i] = x
  BY EnumeratesDef
<1>6. A \cap B = {}
  BY <1>1, <1>5
<1>7. A \cup B = S \ {p[k]}
  <2>1. ASSUME NEW x \in S \ {p[k]} PROVE x \in A \cup B
    <3>1. PICK i \in 1..Len(p) : p[i] = x
      BY <1>5
    <3>2. i \in 1..k-1 \/ i \in k+1..Len(p)
      BY <1>1, <3>1
    <3> QED BY <3>1, <3>2
  <2>2. ASSUME NEW x \in A PROVE x \in S \ {p[k]}
    <3>1. PICK i \in 1..k-1 : x = p[i]
      BY Zenon
    <3>2. i \in 1..Len(p) /\ i # k
      BY <1>1
    <3> QED BY <3>1, <3>2, <1>5
  <2>3. ASSUME NEW x \in B PROVE x \in S \ {p[k]}
    <3>1. PICK i \in k+1..Len(p) : x = p[i]
      OBVIOUS
    <3>2. i \in 1..Len(p) /\ i # k
      BY <1>1
    <3> QED BY <3>1, <3>2, <1>5
  <2> QED BY Zenon, <2>1, <2>2, <2>3
<1>8. Ordered(a, w) /\ Ordered(b, w)
  BY Zenon, <1>2, OrderedSubSeq
<1>9. ASSUME NEW i \in 1..Len(a), NEW j \in 1..Len(b) PROVE w[a[i]] <= w[b[j]]
  <2> DEFINE u == 1 + i - 1
             v == k + 1 + j - 1
  <2>1. a[i] = p[u] /\ b[j] = p[v]
    BY <1>3, <1>4
  <2>2. u \in 1..Len(p) /\ v \in 1..Len(p) /\ u < v
    BY <1>1, <1>3, <1>4
  <2> HIDE DEF u, v
  <2>3. w[p[u]] <= w[p[v]]
    BY <2>2 DEF Ordered
  <2> HIDE DEF a, b
  <2> QED BY <2>1, <2>3
<1> HIDE DEF a, b, A, B
<1>10. Ordered(a \o b, w)
  BY Zenon, <1>3, <1>4, <1>8, <1>9, OrderedConcat
<1>11. a \o b \in Seq(Task) /\ Enumerates(a \o b, A \cup B)
  BY Zenon, <1>3, <1>4, <1>6, EnumeratesConcat
<1>12. Without(p, k) = a \o b
  BY DEF Without, a, b
<1> QED BY Zenon, <1>7, <1>10, <1>11, <1>12

(* sched_core_sleep_current: linking a node behind the deadlines that are  *)
(* not later than its own.                                                 *)
LEMMA LinkAfterEnumerates ==
  ASSUME NEW p \in Seq(Task), NEW S, Enumerates(p, S), NEW k \in 0..Len(p),
         NEW t \in Task, t \notin S,
         NEW w \in [Task -> Nat], Ordered(p, w),
         \A i \in 1..k : w[p[i]] <= w[t],
         k < Len(p) => w[p[k + 1]] > w[t]
  PROVE  /\ LinkAfter(p, k, t) \in Seq(Task)
         /\ Enumerates(LinkAfter(p, k, t), S \cup {t})
         /\ Ordered(LinkAfter(p, k, t), w)
<1> DEFINE a == SubSeq(p, 1, k)
           b == SubSeq(p, k + 1, Len(p))
           A == {p[i] : i \in 1..k}
           B == {p[i] : i \in k+1..Len(p)}
<1>1. Len(p) \in Nat
  OBVIOUS
<1>2. /\ 1 \in 1..Len(p)+1 /\ k + 1 \in 1..Len(p)+1
      /\ k \in 0..Len(p) /\ Len(p) \in 0..Len(p)
  BY <1>1
<1>3. /\ a \in Seq(Task) /\ Enumerates(a, A) /\ Len(a) = k
      /\ \A i \in 1..Len(a) : a[i] = p[1 + i - 1]
  <2>1. Len(a) = IF 1 <= k THEN k - 1 + 1 ELSE 0
    BY <1>2, EnumeratesSubSeq
  <2> QED BY SMTT(30), <1>1, <1>2, <2>1, EnumeratesSubSeq
<1>4. /\ b \in Seq(Task) /\ Enumerates(b, B)
      /\ \A i \in 1..Len(b) : b[i] = p[k + 1 + i - 1]
      /\ Len(b) = IF k + 1 <= Len(p) THEN Len(p) - (k + 1) + 1 ELSE 0
  BY ZenonT(60), <1>2, EnumeratesSubSeq
<1>5. A \cap B = {} /\ A \cup B = S
  BY Zenon, EnumeratesSplit
<1>6. Ordered(a, w) /\ Ordered(b, w)
  BY <1>2, OrderedSubSeq
<1>7. \A i \in 1..Len(p) : p[i] \in Task
  OBVIOUS
<1>8. ASSUME NEW i \in 1..Len(a) PROVE w[a[i]] <= w[t]
  <2>1. a[i] = p[1 + i - 1] /\ 1 + i - 1 = i /\ i \in 1..k
    BY <1>1, <1>3
  <2> HIDE DEF a
  <2> QED BY <2>1
<1>9. ASSUME NEW j \in 1..Len(b) PROVE w[t] <= w[b[j]]
  <2> DEFINE v == k + 1 + j - 1
  <2>1. b[j] = p[v]
    BY <1>4
  <2>2. v \in 1..Len(p) /\ k + 1 <= v /\ k + 1 \in 1..Len(p) /\ k < Len(p)
    BY <1>1, <1>4
  <2> HIDE DEF v, b
  <2>3. w[p[k + 1]] <= w[p[v]]
    BY <2>2, <1>7 DEF Ordered
  <2>4. w[p[k + 1]] \in Nat /\ w[p[v]] \in Nat /\ w[t] \in Nat
    BY <2>2, <1>7
  <2> QED BY SMTT(30), <2>1, <2>2, <2>3, <2>4
<1> HIDE DEF a, b, A, B
<1>10. /\ <<t>> \in Seq(Task) /\ Len(<<t>>) = 1 /\ <<t>>[1] = t
       /\ Enumerates(<<t>>, {t})
  BY EnumeratesOne
<1>11. Ordered(<<t>>, w)
  BY <1>10 DEF Ordered
<1>12. /\ a \o <<t>> \in Seq(Task) /\ Enumerates(a \o <<t>>, A \cup {t})
       /\ Ordered(a \o <<t>>, w)
  <2>1. A \cap {t} = {}
    BY <1>5
  <2>2. \A i \in 1..Len(a), j \in 1..Len(<<t>>) : w[a[i]] <= w[<<t>>[j]]
    BY <1>8, <1>10
  <2>3. a \o <<t>> \in Seq(Task) /\ Enumerates(a \o <<t>>, A \cup {t})
    BY Zenon, <1>3, <1>10, <2>1, EnumeratesConcat
  <2>4. Ordered(a \o <<t>>, w)
    BY Zenon, <1>3, <1>6, <1>10, <1>11, <2>2, OrderedConcat
  <2> QED BY <2>3, <2>4
<1> DEFINE h == a \o <<t>>
<1> HIDE DEF h
<1>13. \A i \in 1..Len(h), j \in 1..Len(b) : w[h[i]] <= w[b[j]]
  <2> SUFFICES ASSUME NEW i \in 1..Len(h), NEW j \in 1..Len(b)
               PROVE  w[h[i]] <= w[b[j]]
    OBVIOUS
  <2>1. w[h[i]] <= w[t]
    <3>1. h[i] \in A \cup {t}
      BY Zenon, <1>12, EnumeratesDef DEF h
    <3>2. ASSUME h[i] \in A PROVE w[h[i]] <= w[t]
      <4>1. PICK l \in 1..Len(a) : a[l] = h[i]
        BY <1>3, <3>2, EnumeratesDef
      <4> QED BY <4>1, <1>8
    <3> QED BY <3>1, <3>2
  <2>2. h[i] \in Task /\ b[j] \in Task
    <3>1. /\ h \in Seq(Task) /\ i \in 1..Len(h)
          /\ b \in Seq(Task) /\ j \in 1..Len(b)
      BY Zenon, <1>4, <1>12 DEF h
    <3> HIDE DEF h, b
    <3> QED BY <3>1
  <2>3. w[h[i]] \in Nat /\ w[b[j]] \in Nat /\ w[t] \in Nat
    BY <2>2
  <2> QED BY <1>9, <2>1, <2>3
<1>14. Ordered(h \o b, w)
  BY Zenon, <1>4, <1>6, <1>12, <1>13, OrderedConcat DEF h
<1>15. h \o b \in Seq(Task) /\ Enumerates(h \o b, (A \cup {t}) \cup B)
  <2>1. (A \cup {t}) \cap B = {}
    BY <1>5
  <2> QED BY Zenon, <1>4, <1>12, <2>1, EnumeratesConcat DEF h
<1>16. (A \cup {t}) \cup B = S \cup {t}
  BY <1>5
<1>17. LinkAfter(p, k, t) = h \o b
  BY Zenon DEF LinkAfter, a, b, h
<1> QED BY Zenon, <1>14, <1>15, <1>16, <1>17

(* The walk over the sleep list stops somewhere: LeadingDue is what its    *)
(* definition says.                                                        *)
LEMMA LeadingDueStops ==
  ASSUME NEW q \in Seq(Task), NEW w \in [Task -> Nat], NEW d \in Nat
  PROVE  /\ Len(q) \in Nat /\ LeadingDue(q, w, d) \in 0..Len(q)
         /\ \A i \in 1..LeadingDue(q, w, d) : w[q[i]] <= d
         /\ LeadingDue(q, w, d) < Len(q) => w[q[LeadingDue(q, w, d) + 1]] > d
<1> DEFINE T == {k \in 0..Len(q) : k < Len(q) => w[q[k + 1]] > d}
<1>1. Len(q) \in Nat /\ \A i \in 1..Len(q) : w[q[i]] \in Nat
  OBVIOUS
<1>2. T \subseteq Nat /\ Len(q) \in T
  BY <1>1
<1>3. PICK k \in T : \A l \in T : ~ (<<l, k>> \in OpToRel(<, Nat))
  BY Zenon, <1>2, NatLessThanWellFounded, WFMin
<1>4. \A i \in 1..k : w[q[i]] <= d
  <2> SUFFICES ASSUME NEW i \in 1..k, ~ (w[q[i]] <= d) PROVE FALSE
    OBVIOUS
  <2>1. i - 1 \in T
    BY <1>1, <1>2
  <2>2. <<i - 1, k>> \in OpToRel(<, Nat)
    BY <1>1 DEF OpToRel
  <2> QED BY Zenon, <2>1, <2>2, <1>3
<1>5. \E l \in 0..Len(q) : /\ \A i \in 1..l : w[q[i]] <= d
                           /\ l < Len(q) => w[q[l + 1]] > d
  BY <1>4
<1> QED BY Zenon, <1>1, <1>5 DEF LeadingDue

(* A list of tasks none of which changes its deadline stays ordered.       *)
LEMMA OrderedSame ==
  ASSUME NEW p \in Seq(Task), NEW S, Enumerates(p, S),
         NEW w, NEW v, Ordered(p, w), \A x \in S : v[x] = w[x]
  PROVE  Ordered(p, v)
  BY EnumeratesDef DEF Ordered

-----------------------------------------------------------------------------
(* The inductive invariant                                                 *)

(* A core of the right type, with finitely many tasks, that validates.     *)
Good(c) ==
  /\ c \in SchedCoreType
  /\ IsFiniteSet(c.tasks)
  /\ sched_core_validate(c)

(* d is c after the tasks Q joined the FIFO, which held the tasks R.       *)
Pushed(c, d, R, Q) ==
  /\ d \in SchedCoreType
  /\ Enumerates(d.ready, R \cup Q)
  /\ d.state = [t \in Task |-> IF t \in Q THEN "READY" ELSE c.state[t]]
  /\ d.wake_tick = [t \in Task |-> IF t \in Q THEN 0 ELSE c.wake_tick[t]]
  /\ d.tasks = c.tasks /\ d.current = c.current /\ d.sleepers = c.sleepers
  /\ d.now = c.now /\ d.next_id = c.next_id /\ d.id = c.id
  /\ d.quantum_left = c.quantum_left /\ d.preempt_depth = c.preempt_depth
  /\ d.reschedule = (c.reschedule \/
       (Q # {} /\ (c.current = Idle \/ c.state[c.current] # "RUNNING")))

(* ready_push leaves the fields it does not name alone, and the FIFO       *)
(* enumerates the tasks it held and the pushed ones.                       *)
LEMMA ReadyPush ==
  ASSUME NEW c \in SchedCoreType, NEW R, Enumerates(c.ready, R),
         NEW q \in Seq(Task), NEW Q, Enumerates(q, Q), R \cap Q = {}
  PROVE  Pushed(c, ready_push(c, q), R, Q)
<1> DEFINE d == ready_push(c, q)
<1>1. Range(q) = Q /\ (q # <<>> <=> Q # {})
  <2>1. q = <<>> => Q = {}
    BY DEF Enumerates, Range
  <2>2. q # <<>> => q[1] \in Q
    <3>1. q # <<>> => 1 \in 1..Len(q)
      OBVIOUS
    <3> QED BY <3>1, EnumeratesDef
  <2> QED BY <2>1, <2>2 DEF Enumerates
<1>2. c.ready \o q \in Seq(Task) /\ Enumerates(c.ready \o q, R \cup Q)
  BY Zenon, EnumeratesConcat DEF SchedCoreType
<1>3. /\ d.ready = c.ready \o q
      /\ d.state = [t \in Task |-> IF t \in Q THEN "READY" ELSE c.state[t]]
      /\ d.wake_tick = [t \in Task |-> IF t \in Q THEN 0 ELSE c.wake_tick[t]]
      /\ d.tasks = c.tasks /\ d.current = c.current /\ d.sleepers = c.sleepers
      /\ d.now = c.now /\ d.next_id = c.next_id /\ d.id = c.id
      /\ d.quantum_left = c.quantum_left /\ d.preempt_depth = c.preempt_depth
      /\ d.reschedule = (c.reschedule \/
           (q # <<>> /\ (c.current = Idle \/ c.state[c.current] # "RUNNING")))
  BY SMTT(30), <1>1 DEF ready_push, SchedCoreType
<1>4. d \in SchedCoreType
  BY Zenon, <1>1, <1>2 DEF ready_push, SchedCoreType, SchedState
<1> HIDE DEF d
<1>5. Pushed(c, d, R, Q)
  BY <1>1, <1>2, <1>3, <1>4 DEF Pushed
<1> QED BY <1>5 DEF d

(* The same for a single task, as all callers but sched_core_tick push.    *)
LEMMA ReadyPushOne ==
  ASSUME NEW c \in SchedCoreType, NEW R, Enumerates(c.ready, R),
         NEW t \in Task, t \notin R
  PROVE  Pushed(c, ready_push(c, <<t>>), R, {t})
<1>1. <<t>> \in Seq(Task) /\ Enumerates(<<t>>, {t})
  BY EnumeratesOne
<1>2. R \cap {t} = {}
  OBVIOUS
<1> QED BY Zenon, <1>1, <1>2, ReadyPush

(* sched_core_init builds a core that validates.                           *)
LEMMA InitGood ==
  ASSUME NEW now \in Nat
  PROVE  Good(sched_core_init(now))
<1> DEFINE c == sched_core_init(now)
<1>1. c \in SchedCoreType
  BY TaskAssumption, BoundAssumption
     DEF sched_core_init, SchedCoreType, SchedState
<1>2. IsFiniteSet(c.tasks) /\ Cardinality(c.tasks) = 2
  <2>1. IsFiniteSet({Idle}) /\ Cardinality({Idle}) = 1
    BY FS_Singleton
  <2>2. IsFiniteSet({Idle} \cup {Boot}) /\ Cardinality({Idle} \cup {Boot}) = 2
    BY <2>1, FS_AddElement, TaskAssumption
  <2>3. c.tasks = {Idle} \cup {Boot}
    BY DEF sched_core_init
  <2> QED BY <2>2, <2>3
<1>3. RegistryValid(c)
  <2>1. c.tasks = {Idle, Boot} /\ c.current = Boot /\ c.next_id = 2
        /\ c.id[Idle] = 0 /\ c.id[Boot] = 1
    BY TaskAssumption DEF sched_core_init
  <2> HIDE DEF c
  <2> QED BY <1>2, <2>1, BoundAssumption, TaskAssumption DEF RegistryValid
<1>4. NodesValid(c) /\ c.state[c.current] = "RUNNING"
  BY TaskAssumption, BoundAssumption DEF sched_core_init, NodesValid
<1>5. QueuesValid(c)
  <2>1. ReadyTasks(c) = {} /\ SleepingTasks(c) = {}
    BY TaskAssumption DEF sched_core_init, ReadyTasks, SleepingTasks
  <2>2. c.ready = <<>> /\ c.sleepers = <<>>
    BY DEF sched_core_init
  <2>3. Enumerates(<<>>, {})
    BY DEF Enumerates, IsInjective, Range
  <2>4. Ordered(<<>>, c.wake_tick)
    BY DEF Ordered
  <2> HIDE DEF c
  <2> QED BY Zenon, <2>1, <2>2, <2>3, <2>4 DEF QueuesValid
<1> QED BY <1>1, <1>2, <1>3, <1>4, <1>5 DEF Good, sched_core_validate

(* sched_core_add registers a task under a fresh id at the FIFO's tail.    *)
LEMMA AddGood ==
  ASSUME NEW c, Good(c), NEW t \in Task, CanAdd(c, t)
  PROVE  Good(sched_core_add(c, t))
<1> DEFINE b == [c EXCEPT !.tasks = @ \cup {t},
                          !.id[t] = c.next_id,
                          !.next_id = @ + 1,
                          !.quantum_left[t] = Quantum,
                          !.preempt_depth[t] = 0]
           d == sched_core_add(c, t)
<1>1. c \in SchedCoreType /\ IsFiniteSet(c.tasks) /\ RegistryValid(c) /\ NodesValid(c)
      /\ QueuesValid(c) /\ (c.state[c.current] # "RUNNING" => c.reschedule)
      /\ t \notin c.tasks /\ Cardinality(c.tasks) < MaxTasks
  BY DEF Good, sched_core_validate, CanAdd
<1>t. /\ c.id \in [Task -> Nat] /\ c.next_id \in Nat /\ c.tasks \in SUBSET Task
      /\ c.quantum_left \in [Task -> Nat] /\ c.preempt_depth \in [Task -> Nat]
      /\ c.state \in [Task -> SchedState] /\ c.wake_tick \in [Task -> Nat]
      /\ Quantum \in Nat
  BY <1>1, BoundAssumption DEF SchedCoreType
<1>2. /\ b.tasks = c.tasks \cup {t}
      /\ b.id = [c.id EXCEPT ![t] = c.next_id]
      /\ b.next_id = c.next_id + 1
      /\ b.quantum_left = [c.quantum_left EXCEPT ![t] = Quantum]
      /\ b.preempt_depth = [c.preempt_depth EXCEPT ![t] = 0]
      /\ b.current = c.current /\ b.ready = c.ready /\ b.sleepers = c.sleepers
      /\ b.now = c.now /\ b.reschedule = c.reschedule
      /\ b.state = c.state /\ b.wake_tick = c.wake_tick
  BY <1>1 DEF SchedCoreType
<1>u. /\ b.id \in [Task -> Nat] /\ b.next_id \in Nat /\ b.tasks \in SUBSET Task
      /\ b.quantum_left \in [Task -> Nat] /\ b.preempt_depth \in [Task -> Nat]
  <2> HIDE DEF b
  <2> QED BY <1>2, <1>t
<1>v. b \in SchedCoreType
  BY Zenon, <1>1, <1>u DEF SchedCoreType
<1>3. d = ready_push(b, <<t>>)
  BY DEF sched_core_add
<1> HIDE DEF b, d
<1>4. t \notin ReadyTasks(c) /\ Enumerates(b.ready, ReadyTasks(c))
  BY <1>1, <1>2 DEF ReadyTasks, QueuesValid
<1>p. Pushed(b, d, ReadyTasks(c), {t})
  BY <1>v, <1>3, <1>4, ReadyPushOne
<1>5. /\ d \in SchedCoreType
      /\ Enumerates(d.ready, ReadyTasks(c) \cup {t})
      /\ d.state = [u \in Task |-> IF u = t THEN "READY" ELSE b.state[u]]
      /\ d.wake_tick = [u \in Task |-> IF u = t THEN 0 ELSE b.wake_tick[u]]
      /\ d.tasks = b.tasks /\ d.current = b.current /\ d.sleepers = b.sleepers
      /\ d.now = b.now /\ d.next_id = b.next_id /\ d.id = b.id
      /\ d.quantum_left = b.quantum_left /\ d.preempt_depth = b.preempt_depth
      /\ b.reschedule => d.reschedule
  BY Zenon, <1>p DEF Pushed
<1>6. c.current \in c.tasks /\ c.tasks \subseteq Task /\ Idle \in c.tasks /\ t # Idle
  BY Zenon, <1>1 DEF RegistryValid, SchedCoreType
<1>7. RegistryValid(d) /\ IsFiniteSet(d.tasks)
  <2>1. IsFiniteSet(d.tasks) /\ Cardinality(d.tasks) = Cardinality(c.tasks) + 1
    <3>1. d.tasks = c.tasks \cup {t}
      BY <1>2, <1>5
    <3> QED BY Zenon, <1>1, <3>1, FS_AddElement
  <2>2. Cardinality(c.tasks) \in Nat
    BY <1>1, FS_CardinalityType
  <2>3. c.id \in [Task -> Nat] /\ c.next_id \in Nat
    BY <1>1 DEF SchedCoreType
  <2>4. /\ RegistryValid(c) /\ Cardinality(c.tasks) < MaxTasks
        /\ d.tasks = c.tasks \cup {t} /\ d.current = c.current
        /\ d.next_id = c.next_id + 1 /\ d.id = [c.id EXCEPT ![t] = c.next_id]
    BY Zenon, <1>1, <1>2, <1>5 DEF CanAdd
  <2>5. d.id[t] = c.next_id /\ t \notin c.tasks /\ \A x \in c.tasks : d.id[x] = c.id[x] /\ c.id[x] \in Nat
    BY <1>1, <1>6, <2>3, <2>4
  <2> QED BY <1>6, <2>1, <2>2, <2>3, <2>4, <2>5, BoundAssumption DEF RegistryValid
<1>8. NodesValid(d)
  <2>1. /\ NodesValid(c) /\ d.tasks = c.tasks \cup {t} /\ d.current = c.current
        /\ d.now = c.now /\ c.current # t
    BY Zenon, <1>1, <1>2, <1>5, <1>6
  <2>2. \A x \in c.tasks : /\ d.state[x] = c.state[x] /\ d.wake_tick[x] = c.wake_tick[x]
                            /\ d.quantum_left[x] = c.quantum_left[x]
                            /\ d.preempt_depth[x] = c.preempt_depth[x]
    BY <1>1, <1>t, <1>2, <1>5, <1>6
  <2>3. /\ d.state[t] = "READY" /\ d.wake_tick[t] = 0
        /\ d.quantum_left[t] = Quantum /\ d.preempt_depth[t] = 0
    BY <1>t, <1>2, <1>5
  <2> QED BY <1>t, <1>6, <2>1, <2>2, <2>3 DEF NodesValid
<1>9. QueuesValid(d)
  <2>1. ReadyTasks(d) = ReadyTasks(c) \cup {t}
    BY <1>2, <1>5, <1>6 DEF ReadyTasks
  <2>2. SleepingTasks(d) = SleepingTasks(c)
    BY SMTT(30), <1>1, <1>2, <1>5, <1>6 DEF SleepingTasks
  <2>3. \A x \in SleepingTasks(c) : d.wake_tick[x] = c.wake_tick[x]
    BY SMTT(30), <1>1, <1>2, <1>5, <1>6 DEF SleepingTasks
  <2>4. Enumerates(c.sleepers, SleepingTasks(c)) /\ Ordered(c.sleepers, c.wake_tick)
        /\ c.sleepers \in Seq(Task) /\ d.sleepers = c.sleepers
    BY Zenon, <1>1, <1>2, <1>5 DEF QueuesValid, SchedCoreType
  <2>5. Ordered(c.sleepers, d.wake_tick)
    BY SMTT(30), <2>3, <2>4, OrderedSame
  <2> QED BY SMTT(30), <1>5, <2>1, <2>2, <2>4, <2>5 DEF QueuesValid
<1>10. d.state[d.current] # "RUNNING" => d.reschedule
  BY <1>1, <1>2, <1>5, <1>6
<1> QED BY Zenon, <1>5, <1>7, <1>8, <1>9, <1>10 DEF Good, sched_core_validate, d

(* What sched_core_validate asks of the registry reads four fields only.   *)
LEMMA RegistryKept ==
  ASSUME NEW c, NEW d, RegistryValid(c), d.tasks = c.tasks, d.current \in c.tasks,
         d.next_id = c.next_id, d.id = c.id
  PROVE  RegistryValid(d)
BY Zenon DEF RegistryValid

(* What a good core gives the proofs below.                                *)
LEMMA GoodFacts ==
  ASSUME NEW c, Good(c)
  PROVE  /\ c \in SchedCoreType
         /\ c.tasks \in SUBSET Task /\ c.current \in c.tasks /\ Idle \in c.tasks
         /\ c.ready \in Seq(Task) /\ c.sleepers \in Seq(Task)
         /\ c.now \in Nat /\ c.next_id \in Nat /\ c.reschedule \in BOOLEAN
         /\ c.id \in [Task -> Nat] /\ c.state \in [Task -> SchedState]
         /\ c.wake_tick \in [Task -> Nat] /\ c.quantum_left \in [Task -> Nat]
         /\ c.preempt_depth \in [Task -> Nat]
         /\ IsFiniteSet(c.tasks)
         /\ RegistryValid(c) /\ NodesValid(c) /\ QueuesValid(c)
         /\ c.state[c.current] # "RUNNING" => c.reschedule
<1>1. c \in SchedCoreType /\ RegistryValid(c)
  BY DEF Good, sched_core_validate
<1>2. c.current \in c.tasks /\ Idle \in c.tasks
  BY <1>1 DEF RegistryValid
<1> QED BY Zenon, <1>1, <1>2 DEF Good, sched_core_validate, SchedCoreType

(* sched_core_block_current and sched_core_exit_current: the running task  *)
(* leaves the CPU for a state outside both queues.                         *)
LEMMA ParkGood ==
  ASSUME NEW c, Good(c), current_can_wait(c), NEW s \in {"BLOCKED", "ZOMBIE"},
         NEW d, d = [c EXCEPT !.state[c.current] = s, !.reschedule = TRUE]
  PROVE  Good(d)
<1>1. /\ c \in SchedCoreType
      /\ c.tasks \in SUBSET Task /\ c.current \in c.tasks /\ Idle \in c.tasks
      /\ c.state \in [Task -> SchedState]
      /\ IsFiniteSet(c.tasks)
      /\ RegistryValid(c) /\ NodesValid(c) /\ QueuesValid(c)
  BY GoodFacts
<1>2. c.current # Idle /\ c.state[c.current] = "RUNNING" /\ c.preempt_depth[c.current] = 0
  BY DEF current_can_wait
<1>3. /\ d.state = [c.state EXCEPT ![c.current] = s]
      /\ d.reschedule = TRUE
      /\ d.tasks = c.tasks /\ d.current = c.current /\ d.sleepers = c.sleepers
      /\ d.ready = c.ready /\ d.wake_tick = c.wake_tick
      /\ d.now = c.now /\ d.next_id = c.next_id /\ d.id = c.id
      /\ d.quantum_left = c.quantum_left /\ d.preempt_depth = c.preempt_depth
  BY <1>1 DEF SchedCoreType
<1>4. d.state \in [Task -> SchedState]
  BY <1>1, <1>3 DEF SchedState
<1>5. d \in SchedCoreType
  BY Zenon, <1>1, <1>4 DEF SchedCoreType
<1>6. RegistryValid(d)
  BY <1>1, <1>3 DEF RegistryValid
<1>7. NodesValid(d)
  BY <1>1, <1>2, <1>3 DEF NodesValid
<1>8. ReadyTasks(d) = ReadyTasks(c) /\ SleepingTasks(d) = SleepingTasks(c)
  BY <1>1, <1>2, <1>3 DEF ReadyTasks, SleepingTasks
<1>9. QueuesValid(d)
  BY <1>1, <1>3, <1>8 DEF QueuesValid
<1> QED BY <1>1, <1>3, <1>5, <1>6, <1>7, <1>9 DEF Good, sched_core_validate

(* sched_core_preempt_disable and sched_core_preempt_enable: only the      *)
(* running task's nesting depth changes.                                   *)
LEMMA DepthGood ==
  ASSUME NEW c, Good(c), c.state[c.current] = "RUNNING", NEW n \in Nat,
         NEW d, d = [c EXCEPT !.preempt_depth[c.current] = n]
  PROVE  Good(d)
<1>1. /\ c \in SchedCoreType
      /\ c.tasks \in SUBSET Task /\ c.current \in c.tasks
      /\ c.preempt_depth \in [Task -> Nat]
      /\ IsFiniteSet(c.tasks)
      /\ RegistryValid(c) /\ NodesValid(c) /\ QueuesValid(c)
  BY GoodFacts
<1>2. /\ d.preempt_depth = [c.preempt_depth EXCEPT ![c.current] = n]
      /\ d.state = c.state /\ d.reschedule = c.reschedule
      /\ d.tasks = c.tasks /\ d.current = c.current /\ d.sleepers = c.sleepers
      /\ d.ready = c.ready /\ d.wake_tick = c.wake_tick
      /\ d.now = c.now /\ d.next_id = c.next_id /\ d.id = c.id
      /\ d.quantum_left = c.quantum_left
  BY <1>1 DEF SchedCoreType
<1>3. d.preempt_depth \in [Task -> Nat]
  BY <1>1, <1>2
<1>4. d \in SchedCoreType
  BY Zenon, <1>1, <1>3 DEF SchedCoreType
<1>5. RegistryValid(d)
  BY <1>1, <1>2 DEF RegistryValid
<1>6. NodesValid(d)
  BY <1>1, <1>2 DEF NodesValid
<1>7. QueuesValid(d)
  BY <1>1, <1>2 DEF QueuesValid, ReadyTasks, SleepingTasks
<1> QED BY <1>1, <1>2, <1>4, <1>5, <1>6, <1>7 DEF Good, sched_core_validate

(* sched_core_remove_zombie forgets a task that is in no queue.            *)
LEMMA RemoveZombieGood ==
  ASSUME NEW c, Good(c), NEW t, CanRemoveZombie(c, t)
  PROVE  Good(sched_core_remove_zombie(c, t))
<1> DEFINE d == sched_core_remove_zombie(c, t)
<1>1. /\ c \in SchedCoreType
      /\ c.tasks \in SUBSET Task /\ c.current \in c.tasks /\ Idle \in c.tasks
      /\ c.id \in [Task -> Nat] /\ c.state \in [Task -> SchedState]
      /\ c.wake_tick \in [Task -> Nat] /\ c.quantum_left \in [Task -> Nat]
      /\ c.preempt_depth \in [Task -> Nat]
      /\ IsFiniteSet(c.tasks)
      /\ RegistryValid(c) /\ NodesValid(c) /\ QueuesValid(c)
      /\ c.state[c.current] # "RUNNING" => c.reschedule
  BY GoodFacts
<1>2. t \in c.tasks /\ t # c.current /\ t # Idle /\ c.state[t] = "ZOMBIE" /\ t \in Task
  BY <1>1 DEF CanRemoveZombie
<1>3. /\ d.tasks = c.tasks \ {t}
      /\ d.id = [c.id EXCEPT ![t] = 0]
      /\ d.state = [c.state EXCEPT ![t] = "RUNNING"]
      /\ d.wake_tick = [c.wake_tick EXCEPT ![t] = 0]
      /\ d.quantum_left = [c.quantum_left EXCEPT ![t] = 0]
      /\ d.preempt_depth = [c.preempt_depth EXCEPT ![t] = 0]
      /\ d.current = c.current /\ d.sleepers = c.sleepers /\ d.ready = c.ready
      /\ d.now = c.now /\ d.next_id = c.next_id /\ d.reschedule = c.reschedule
  BY <1>1 DEF SchedCoreType, sched_core_remove_zombie
<1>4. /\ d.tasks \in SUBSET Task
      /\ d.id \in [Task -> Nat] /\ d.state \in [Task -> SchedState]
      /\ d.wake_tick \in [Task -> Nat] /\ d.quantum_left \in [Task -> Nat]
      /\ d.preempt_depth \in [Task -> Nat]
  <2> HIDE DEF d
  <2>1. d.tasks \in SUBSET Task /\ d.id \in [Task -> Nat]
    BY <1>1, <1>2, <1>3
  <2>2. d.state \in [Task -> SchedState]
    BY <1>1, <1>2, <1>3 DEF SchedState
  <2>3. d.wake_tick \in [Task -> Nat] /\ d.quantum_left \in [Task -> Nat]
    BY <1>1, <1>2, <1>3
  <2>4. d.preempt_depth \in [Task -> Nat]
    BY <1>1, <1>2, <1>3
  <2> QED BY <2>1, <2>2, <2>3, <2>4
<1>5. d \in SchedCoreType
  BY Zenon, <1>1, <1>4 DEF SchedCoreType, sched_core_remove_zombie
<1> HIDE DEF d
<1>6. IsFiniteSet(d.tasks) /\ Cardinality(d.tasks) = Cardinality(c.tasks) - 1
      /\ Cardinality(c.tasks) \in Nat
  <2>1. d.tasks = c.tasks \ {t} /\ t \in c.tasks /\ IsFiniteSet(c.tasks)
    BY SMTT(30), <1>1, <1>2, <1>3
  <2> QED BY <2>1, FS_RemoveElement, FS_CardinalityType
<1>7. RegistryValid(d)
  <2>1. /\ RegistryValid(c) /\ d.tasks = c.tasks \ {t} /\ d.current = c.current
        /\ d.next_id = c.next_id /\ t # c.current /\ t # Idle
    BY Zenon, <1>1, <1>2, <1>3
  <2>2. \A x \in d.tasks : d.id[x] = c.id[x]
    BY Zenon, <1>1, <1>3
  <2> QED BY <1>6, <2>1, <2>2, BoundAssumption DEF RegistryValid
<1>8. NodesValid(d)
  BY <1>1, <1>2, <1>3 DEF NodesValid
<1>9. ReadyTasks(d) = ReadyTasks(c) /\ SleepingTasks(d) = SleepingTasks(c)
  BY <1>1, <1>2, <1>3 DEF ReadyTasks, SleepingTasks
<1>10. Ordered(d.sleepers, d.wake_tick)
  <2>1. \A x \in SleepingTasks(c) : d.wake_tick[x] = c.wake_tick[x]
    BY <1>1, <1>2, <1>3 DEF SleepingTasks
  <2>2. c.sleepers \in Seq(Task)
    BY GoodFacts
  <2>3. Enumerates(c.sleepers, SleepingTasks(c)) /\ Ordered(c.sleepers, c.wake_tick)
    BY <1>1 DEF QueuesValid
  <2>4. Ordered(c.sleepers, d.wake_tick)
    BY SMTT(30), <2>1, <2>2, <2>3, OrderedSame
  <2> QED BY <1>3, <2>4
<1>11. QueuesValid(d)
  BY Zenon, <1>1, <1>3, <1>9, <1>10 DEF QueuesValid
<1>12. d.state[d.current] # "RUNNING" => d.reschedule
  BY <1>1, <1>2, <1>3
<1> QED BY <1>5, <1>6, <1>7, <1>8, <1>11, <1>12 DEF Good, sched_core_validate, d

(* sched_core_wake moves a waiting task to the FIFO's tail.                *)
LEMMA WakeGood ==
  ASSUME NEW c, Good(c), NEW t, CanWake(c, t)
  PROVE  Good(sched_core_wake(c, t))
<1> DEFINE b == Unlink(c, t)
           d == sched_core_wake(c, t)
<1>1. /\ c \in SchedCoreType
      /\ c.tasks \in SUBSET Task /\ c.current \in c.tasks /\ Idle \in c.tasks
      /\ c.ready \in Seq(Task) /\ c.sleepers \in Seq(Task)
      /\ c.state \in [Task -> SchedState] /\ c.wake_tick \in [Task -> Nat]
      /\ IsFiniteSet(c.tasks)
      /\ RegistryValid(c) /\ NodesValid(c) /\ QueuesValid(c)
      /\ c.state[c.current] # "RUNNING" => c.reschedule
  BY GoodFacts
<1>2. t \in c.tasks /\ t \in Task /\ c.state[t] \in {"BLOCKED", "SLEEPING"}
  BY <1>1 DEF CanWake
<1>3. /\ Enumerates(c.ready, ReadyTasks(c)) /\ Enumerates(c.sleepers, SleepingTasks(c))
      /\ Ordered(c.sleepers, c.wake_tick)
  BY <1>1 DEF QueuesValid
<1>4. /\ b \in SchedCoreType
      /\ b.tasks = c.tasks /\ b.current = c.current /\ b.ready = c.ready
      /\ b.state = c.state /\ b.wake_tick = c.wake_tick /\ b.now = c.now
      /\ b.next_id = c.next_id /\ b.id = c.id /\ b.reschedule = c.reschedule
      /\ b.quantum_left = c.quantum_left /\ b.preempt_depth = c.preempt_depth
      /\ Enumerates(b.sleepers, SleepingTasks(c) \ {t})
      /\ Ordered(b.sleepers, c.wake_tick)
  <2>1. CASE c.state[t] = "SLEEPING"
    <3> DEFINE k == CHOOSE i \in 1..Len(c.sleepers) : c.sleepers[i] = t
    <3>1. t \in SleepingTasks(c)
      BY <1>2, <2>1 DEF SleepingTasks
    <3>2. k \in 1..Len(c.sleepers) /\ c.sleepers[k] = t
      <4>1. \E i \in 1..Len(c.sleepers) : c.sleepers[i] = t
        BY <1>1, <1>3, <3>1, EnumeratesDef
      <4> QED BY <4>1
    <3>3. b = [c EXCEPT !.sleepers = Without(c.sleepers, k)]
      BY <2>1 DEF Unlink
    <3> HIDE DEF k, b
    <3>4. /\ Without(c.sleepers, k) \in Seq(Task)
          /\ Enumerates(Without(c.sleepers, k), SleepingTasks(c) \ {t})
          /\ Ordered(Without(c.sleepers, k), c.wake_tick)
      BY Zenon, <1>1, <1>3, <3>2, WithoutEnumerates
    <3>5. b \in SchedCoreType /\ b.sleepers = Without(c.sleepers, k)
      BY Zenon, <1>1, <3>3, <3>4 DEF SchedCoreType
    <3>6. /\ b.tasks = c.tasks /\ b.current = c.current /\ b.ready = c.ready
          /\ b.state = c.state /\ b.wake_tick = c.wake_tick /\ b.now = c.now
          /\ b.next_id = c.next_id /\ b.id = c.id /\ b.reschedule = c.reschedule
          /\ b.quantum_left = c.quantum_left /\ b.preempt_depth = c.preempt_depth
      BY <1>1, <3>3 DEF SchedCoreType
    <3> QED BY <3>4, <3>5, <3>6
  <2>2. CASE c.state[t] # "SLEEPING"
    <3>1. b = c /\ SleepingTasks(c) \ {t} = SleepingTasks(c)
      BY <2>2 DEF Unlink, SleepingTasks
    <3> QED BY Zenon, <1>1, <1>3, <3>1
  <2> QED BY Zenon, <2>1, <2>2
<1>5. d = ready_push(b, <<t>>)
  BY DEF sched_core_wake
<1> HIDE DEF b, d
<1>6. t \notin ReadyTasks(c) /\ Enumerates(b.ready, ReadyTasks(c))
  BY <1>2, <1>3, <1>4 DEF ReadyTasks
<1>7. Pushed(b, d, ReadyTasks(c), {t})
  BY Zenon, <1>2, <1>4, <1>5, <1>6, ReadyPushOne
<1>8. /\ d \in SchedCoreType
      /\ Enumerates(d.ready, ReadyTasks(c) \cup {t})
      /\ d.state = [u \in Task |-> IF u = t THEN "READY" ELSE c.state[u]]
      /\ d.wake_tick = [u \in Task |-> IF u = t THEN 0 ELSE c.wake_tick[u]]
      /\ d.tasks = c.tasks /\ d.current = c.current /\ d.sleepers = b.sleepers
      /\ d.now = c.now /\ d.next_id = c.next_id /\ d.id = c.id
      /\ d.quantum_left = c.quantum_left /\ d.preempt_depth = c.preempt_depth
      /\ d.reschedule = (c.reschedule \/ c.current = Idle \/ c.state[c.current] # "RUNNING")
  BY Zenon, <1>4, <1>7 DEF Pushed
<1>9. t # Idle
  BY <1>1, <1>2 DEF NodesValid
<1>10. RegistryValid(d)
  <2>1. d.tasks = c.tasks /\ d.current \in c.tasks /\ d.next_id = c.next_id /\ d.id = c.id
    BY Zenon, <1>1, <1>8
  <2> QED BY Zenon, <1>1, <2>1, RegistryKept
<1>11. NodesValid(d)
  <2> SUFFICES ASSUME NEW x \in c.tasks
               PROVE  /\ d.quantum_left[x] <= Quantum
                      /\ x # d.current => d.preempt_depth[x] = 0
                      /\ x = Idle => d.state[x] = (IF x = d.current THEN "RUNNING" ELSE "READY")
                      /\ d.state[x] = "RUNNING" => x = d.current
                      /\ d.state[x] = "SLEEPING" => d.wake_tick[x] > d.now
                      /\ d.state[x] # "SLEEPING" => d.wake_tick[x] = 0
                      /\ d.state[x] \in {"SLEEPING", "BLOCKED", "ZOMBIE"}
                           => d.preempt_depth[x] = 0
    BY Zenon, <1>8 DEF NodesValid
  <2>1. x \in Task
    BY Zenon, <1>1
  <2>2. /\ d.state[x] = (IF x = t THEN "READY" ELSE c.state[x])
        /\ d.wake_tick[x] = (IF x = t THEN 0 ELSE c.wake_tick[x])
        /\ d.quantum_left[x] = c.quantum_left[x] /\ d.preempt_depth[x] = c.preempt_depth[x]
        /\ d.current = c.current /\ d.now = c.now
    BY Zenon, <1>8, <2>1
  <2>3. /\ c.quantum_left[x] <= Quantum
        /\ x # c.current => c.preempt_depth[x] = 0
        /\ x = Idle => c.state[x] = (IF x = c.current THEN "RUNNING" ELSE "READY")
        /\ c.state[x] = "RUNNING" => x = c.current
        /\ c.state[x] = "SLEEPING" => c.wake_tick[x] > c.now
        /\ c.state[x] # "SLEEPING" => c.wake_tick[x] = 0
        /\ c.state[x] \in {"SLEEPING", "BLOCKED", "ZOMBIE"} => c.preempt_depth[x] = 0
    BY Zenon, <1>1 DEF NodesValid
  <2> QED BY <1>9, <2>2, <2>3
<1>12. ReadyTasks(d) = ReadyTasks(c) \cup {t} /\ SleepingTasks(d) = SleepingTasks(c) \ {t}
  <2>1. d.tasks = c.tasks /\ t \in c.tasks /\ t # Idle
    BY Zenon, <1>1, <1>2, <1>8, <1>9
  <2>2. \A x \in c.tasks : d.state[x] = (IF x = t THEN "READY" ELSE c.state[x])
    BY <1>1, <1>8
  <2> QED BY <2>1, <2>2 DEF ReadyTasks, SleepingTasks
<1>13. Ordered(d.sleepers, d.wake_tick)
  <2>1. \A x \in SleepingTasks(c) \ {t} : d.wake_tick[x] = c.wake_tick[x]
    BY Zenon, <1>1, <1>8 DEF SleepingTasks
  <2>2. b.sleepers \in Seq(Task)
    BY Zenon, <1>4 DEF SchedCoreType
  <2>3. Ordered(b.sleepers, d.wake_tick)
    BY <1>4, <2>1, <2>2, OrderedSame
  <2> QED BY Zenon, <1>8, <2>3
<1>14. QueuesValid(d)
  BY Zenon, <1>4, <1>8, <1>12, <1>13 DEF QueuesValid
<1>15. d.state[d.current] # "RUNNING" => d.reschedule
  <2>1. d.state[d.current] # "RUNNING" => c.state[c.current] # "RUNNING"
    <3>1. c.current \in Task /\ d.current = c.current
      BY Zenon, <1>1, <1>8
    <3>2. c.current = t => c.state[c.current] # "RUNNING"
      BY <1>2
    <3>3. c.current # t => d.state[c.current] = c.state[c.current]
      BY <1>8, <3>1
    <3> QED BY Zenon, <3>1, <3>2, <3>3
  <2>2. c.state[c.current] # "RUNNING" => d.reschedule
    BY Zenon, <1>8
  <2> QED BY <2>1, <2>2
<1> QED BY Zenon, <1>1, <1>8, <1>10, <1>11, <1>14, <1>15 DEF Good, sched_core_validate, d

(* sched_core_sleep_current puts the running task into the sleep list.     *)
LEMMA SleepGood ==
  ASSUME NEW c, Good(c), NEW delay \in Nat, CanSleep(c, delay)
  PROVE  Good(sched_core_sleep_current(c, delay))
<1> DEFINE t == c.current
           deadline == c.now + delay
           k == LeadingDue(c.sleepers, c.wake_tick, deadline)
           d == sched_core_sleep_current(c, delay)
<1>1. /\ c \in SchedCoreType
      /\ c.tasks \in SUBSET Task /\ c.current \in c.tasks /\ Idle \in c.tasks
      /\ c.ready \in Seq(Task) /\ c.sleepers \in Seq(Task) /\ c.now \in Nat
      /\ c.state \in [Task -> SchedState] /\ c.wake_tick \in [Task -> Nat]
      /\ IsFiniteSet(c.tasks)
      /\ RegistryValid(c) /\ NodesValid(c) /\ QueuesValid(c)
  BY GoodFacts
<1>2. /\ t # Idle /\ c.state[t] = "RUNNING" /\ c.preempt_depth[t] = 0 /\ delay # 0
  BY DEF CanSleep, current_can_wait
<1>3. /\ Enumerates(c.ready, ReadyTasks(c)) /\ Enumerates(c.sleepers, SleepingTasks(c))
      /\ Ordered(c.sleepers, c.wake_tick)
  BY Zenon, <1>1 DEF QueuesValid
<1>4. deadline \in Nat /\ deadline > c.now
  BY <1>1, <1>2
<1>5. /\ d.state = [c.state EXCEPT ![t] = "SLEEPING"]
      /\ d.wake_tick = [c.wake_tick EXCEPT ![t] = deadline]
      /\ d.sleepers = LinkAfter(c.sleepers, k, t)
      /\ d.reschedule = TRUE
      /\ d.tasks = c.tasks /\ d.current = c.current /\ d.ready = c.ready
      /\ d.now = c.now /\ d.next_id = c.next_id /\ d.id = c.id
      /\ d.quantum_left = c.quantum_left /\ d.preempt_depth = c.preempt_depth
  BY <1>1 DEF SchedCoreType, sched_core_sleep_current
<1> HIDE DEF deadline, k
<1>6. /\ k \in 0..Len(c.sleepers)
      /\ \A i \in 1..k : c.wake_tick[c.sleepers[i]] <= deadline
      /\ k < Len(c.sleepers) => c.wake_tick[c.sleepers[k + 1]] > deadline
  BY Zenon, <1>1, <1>4, LeadingDueStops DEF k
<1>7. t \in Task /\ t \notin SleepingTasks(c)
  BY <1>1, <1>2 DEF SleepingTasks
<1> DEFINE w == [c.wake_tick EXCEPT ![t] = deadline]
<1>8. w \in [Task -> Nat] /\ w[t] = deadline /\ \A x \in Task : x # t => w[x] = c.wake_tick[x]
  BY <1>1, <1>4, <1>7
<1> HIDE DEF w
<1>9. \A i \in 1..Len(c.sleepers) : w[c.sleepers[i]] = c.wake_tick[c.sleepers[i]]
  <2>1. ASSUME NEW i \in 1..Len(c.sleepers) PROVE c.sleepers[i] \in Task /\ c.sleepers[i] # t
    BY <1>1, <1>3, <1>7, EnumeratesDef
  <2> QED BY <2>1, <1>8
<1>10. Ordered(c.sleepers, w)
  BY Zenon, <1>3, <1>9 DEF Ordered
<1>11. /\ \A i \in 1..k : w[c.sleepers[i]] <= w[t]
       /\ k < Len(c.sleepers) => w[c.sleepers[k + 1]] > w[t]
  <2>1. Len(c.sleepers) \in Nat
    BY <1>1
  <2> QED BY <1>6, <1>8, <1>9, <2>1
<1>12. /\ LinkAfter(c.sleepers, k, t) \in Seq(Task)
       /\ Enumerates(LinkAfter(c.sleepers, k, t), SleepingTasks(c) \cup {t})
       /\ Ordered(LinkAfter(c.sleepers, k, t), w)
  BY Zenon, <1>1, <1>3, <1>6, <1>7, <1>8, <1>10, <1>11, LinkAfterEnumerates
<1>13. d.state \in [Task -> SchedState] /\ d.wake_tick \in [Task -> Nat]
       /\ d.sleepers \in Seq(Task)
  <2>1. d.state \in [Task -> SchedState]
    <3> HIDE DEF d
    <3> QED BY ZenonT(30), <1>1, <1>5, <1>7 DEF SchedState
  <2> QED BY Zenon, <2>1, <1>5, <1>8, <1>12 DEF w
<1>14. d \in SchedCoreType
  BY Zenon, <1>1, <1>13 DEF SchedCoreType, sched_core_sleep_current
<1> HIDE DEF d
<1>15. RegistryValid(d)
  <2>1. d.tasks = c.tasks /\ d.current \in c.tasks /\ d.next_id = c.next_id /\ d.id = c.id
    BY Zenon, <1>1, <1>5
  <2> QED BY Zenon, <1>1, <2>1, RegistryKept
<1>16. NodesValid(d)
  <2>1. /\ NodesValid(c) /\ d.tasks = c.tasks /\ d.current = t /\ d.now = c.now
        /\ d.quantum_left = c.quantum_left /\ d.preempt_depth = c.preempt_depth
    BY Zenon, <1>1, <1>5
  <2>2. \A x \in c.tasks : /\ d.state[x] = (IF x = t THEN "SLEEPING" ELSE c.state[x])
                            /\ d.wake_tick[x] = (IF x = t THEN deadline ELSE c.wake_tick[x])
    BY <1>1, <1>5
  <2> QED BY <1>2, <1>4, <2>1, <2>2 DEF NodesValid
<1>17. ReadyTasks(d) = ReadyTasks(c) /\ SleepingTasks(d) = SleepingTasks(c) \cup {t}
  <2>1. d.tasks = c.tasks /\ t \in c.tasks /\ c.state[t] = "RUNNING"
    BY Zenon, <1>1, <1>2, <1>5
  <2>2. \A x \in c.tasks : d.state[x] = (IF x = t THEN "SLEEPING" ELSE c.state[x])
    BY <1>1, <1>5
  <2> QED BY <2>1, <2>2 DEF ReadyTasks, SleepingTasks
<1>18. QueuesValid(d)
  BY Zenon, <1>3, <1>5, <1>12, <1>17 DEF QueuesValid, w
<1> QED BY Zenon, <1>1, <1>5, <1>14, <1>15, <1>16, <1>18 DEF Good, sched_core_validate, d

(* Charging a tick touches the quantum of the running task and may request *)
(* a reschedule; it never withdraws one.                                   *)
LEMMA ChargeFacts ==
  ASSUME NEW c, Good(c)
  PROVE  LET e == ChargeTick(c)
         IN  /\ e \in SchedCoreType
             /\ e.tasks = c.tasks /\ e.current = c.current /\ e.ready = c.ready
             /\ e.sleepers = c.sleepers /\ e.now = c.now /\ e.next_id = c.next_id
             /\ e.id = c.id /\ e.state = c.state /\ e.wake_tick = c.wake_tick
             /\ e.preempt_depth = c.preempt_depth
             /\ \A t \in c.tasks : e.quantum_left[t] <= Quantum
             /\ c.reschedule => e.reschedule
<1> DEFINE e == ChargeTick(c)
           left == IF c.quantum_left[c.current] # 0
                   THEN c.quantum_left[c.current] - 1 ELSE 0
<1>1. /\ c \in SchedCoreType /\ NodesValid(c) /\ c.current \in c.tasks
      /\ c.tasks \in SUBSET Task /\ c.quantum_left \in [Task -> Nat]
      /\ c.current \in Task /\ c.reschedule \in BOOLEAN
  BY GoodFacts
<1>2. left \in Nat /\ left <= Quantum
  <2>1. c.quantum_left[c.current] \in Nat /\ c.quantum_left[c.current] <= Quantum
    BY <1>1 DEF NodesValid
  <2> QED BY <2>1, BoundAssumption
<1>3. CASE c.state[c.current] = "RUNNING" /\ c.current # Idle
  <2>1. e = [c EXCEPT !.quantum_left[c.current] = left, !.reschedule = @ \/ left = 0]
    BY <1>3 DEF ChargeTick
  <2> HIDE DEF left, e
  <2>2. /\ e.tasks = c.tasks /\ e.current = c.current /\ e.ready = c.ready
        /\ e.sleepers = c.sleepers /\ e.now = c.now /\ e.next_id = c.next_id
        /\ e.id = c.id /\ e.state = c.state /\ e.wake_tick = c.wake_tick
        /\ e.preempt_depth = c.preempt_depth
        /\ e.quantum_left = [c.quantum_left EXCEPT ![c.current] = left]
        /\ e.reschedule = (c.reschedule \/ left = 0)
    BY <1>1, <2>1 DEF SchedCoreType
  <2>3. [c.quantum_left EXCEPT ![c.current] = left] \in [Task -> Nat]
    BY <1>1, <1>2
  <2>4. e \in SchedCoreType
    BY Zenon, <1>1, <2>1, <2>3 DEF SchedCoreType
  <2>5. \A t \in c.tasks : e.quantum_left[t] <= Quantum
    BY <1>1, <1>2, <2>2 DEF NodesValid
  <2> QED BY Zenon, <2>2, <2>4, <2>5 DEF e
<1>4. CASE ~ (c.state[c.current] = "RUNNING" /\ c.current # Idle)
  <2>1. e = c
    BY <1>4 DEF ChargeTick
  <2> QED BY Zenon, <1>1, <2>1 DEF NodesValid
<1> QED BY Zenon, <1>3, <1>4

(* sched_core_tick moves every sleeper whose deadline came to the FIFO.    *)
LEMMA TickGood ==
  ASSUME NEW c, Good(c), NEW now \in Nat, CanTick(c, now)
  PROVE  Good(sched_core_tick(c, now))
<1> DEFINE e == ChargeTick(c)
           s == c.sleepers
           k == LeadingDue(s, c.wake_tick, now)
           b == [e EXCEPT !.now = now, !.sleepers = SubSeq(@, k + 1, Len(@))]
           q == SubSeq(s, 1, k)
           Q == {s[i] : i \in 1..k}
           P == {s[i] : i \in k+1..Len(s)}
           d == sched_core_tick(c, now)
<1>1. /\ c \in SchedCoreType
      /\ c.tasks \in SUBSET Task /\ c.current \in c.tasks /\ Idle \in c.tasks
      /\ c.ready \in Seq(Task) /\ s \in Seq(Task) /\ c.now \in Nat
      /\ c.state \in [Task -> SchedState] /\ c.wake_tick \in [Task -> Nat]
      /\ IsFiniteSet(c.tasks)
      /\ RegistryValid(c) /\ NodesValid(c) /\ QueuesValid(c)
      /\ c.state[c.current] # "RUNNING" => c.reschedule
  BY GoodFacts
<1>2. /\ Enumerates(c.ready, ReadyTasks(c)) /\ Enumerates(s, SleepingTasks(c))
      /\ Ordered(s, c.wake_tick)
  BY Zenon, <1>1 DEF QueuesValid
<1>3. /\ e \in SchedCoreType
      /\ e.tasks = c.tasks /\ e.current = c.current /\ e.ready = c.ready
      /\ e.sleepers = c.sleepers /\ e.now = c.now /\ e.next_id = c.next_id
      /\ e.id = c.id /\ e.state = c.state /\ e.wake_tick = c.wake_tick
      /\ e.preempt_depth = c.preempt_depth
      /\ \A t \in c.tasks : e.quantum_left[t] <= Quantum
      /\ c.reschedule => e.reschedule
  BY Zenon, ChargeFacts
<1>4. d = ready_push(b, q)
  BY <1>3 DEF sched_core_tick
<1> HIDE DEF e, s, k, d
<1>5. /\ Len(s) \in Nat /\ k \in 0..Len(s)
      /\ k < Len(s) => c.wake_tick[s[k + 1]] > now
  BY Zenon, <1>1, LeadingDueStops DEF k
<1>6. 1 \in 1..Len(s)+1 /\ k + 1 \in 1..Len(s)+1 /\ Len(s) \in 0..Len(s)
  BY <1>5
<1>7. q \in Seq(Task) /\ Enumerates(q, Q)
  BY Zenon, <1>1, <1>2, <1>5, <1>6, EnumeratesSubSeq
<1>8. SubSeq(s, k + 1, Len(s)) \in Seq(Task) /\ Enumerates(SubSeq(s, k + 1, Len(s)), P)
  BY Zenon, <1>1, <1>2, <1>5, <1>6, EnumeratesSubSeq
<1>9. Q \cap P = {} /\ Q \cup P = SleepingTasks(c)
  BY Zenon, <1>1, <1>2, <1>5, EnumeratesSplit
<1>10. Ordered(SubSeq(s, k + 1, Len(s)), c.wake_tick)
  BY Zenon, <1>1, <1>2, <1>5, <1>6, OrderedSubSeq
<1>11. \A x \in P : c.wake_tick[x] > now
  <2> SUFFICES ASSUME NEW i \in k+1..Len(s) PROVE c.wake_tick[s[i]] > now
    OBVIOUS
  <2>1. i \in 1..Len(s) /\ k + 1 \in 1..Len(s) /\ k < Len(s) /\ (i = k + 1 \/ k + 1 < i)
    BY <1>5
  <2>2. c.wake_tick[s[k + 1]] <= c.wake_tick[s[i]]
    <3>1. s[i] \in Task /\ s[k + 1] \in Task
      BY <1>1, <2>1
    <3> QED BY SMTT(30), <1>1, <1>2, <2>1, <3>1 DEF Ordered
  <2>3. c.wake_tick[s[i]] \in Nat /\ c.wake_tick[s[k + 1]] \in Nat
    BY <1>1, <2>1
  <2> QED BY <1>5, <2>1, <2>2, <2>3
<1>12. /\ b.tasks = c.tasks /\ b.current = c.current /\ b.ready = c.ready
       /\ b.sleepers = SubSeq(s, k + 1, Len(s)) /\ b.now = now /\ b.next_id = c.next_id
       /\ b.id = c.id /\ b.state = c.state /\ b.wake_tick = c.wake_tick
       /\ b.preempt_depth = c.preempt_depth /\ b.quantum_left = e.quantum_left
       /\ b.reschedule = e.reschedule
  BY Zenon, <1>3 DEF SchedCoreType, s
<1>13. b \in SchedCoreType
  BY Zenon, <1>3, <1>8 DEF SchedCoreType, s
<1> HIDE DEF b, q, Q, P
<1>14. ReadyTasks(c) \cap Q = {}
  BY <1>9 DEF ReadyTasks, SleepingTasks
<1>15. Enumerates(b.ready, ReadyTasks(c))
  BY <1>2, <1>12
<1>16. Pushed(b, d, ReadyTasks(c), Q)
  BY <1>4, <1>7, <1>13, <1>14, <1>15, ReadyPush
<1>17. /\ d \in SchedCoreType
       /\ Enumerates(d.ready, ReadyTasks(c) \cup Q)
       /\ d.state = [u \in Task |-> IF u \in Q THEN "READY" ELSE c.state[u]]
       /\ d.wake_tick = [u \in Task |-> IF u \in Q THEN 0 ELSE c.wake_tick[u]]
       /\ d.tasks = c.tasks /\ d.current = c.current
       /\ d.sleepers = SubSeq(s, k + 1, Len(s))
       /\ d.now = now /\ d.next_id = c.next_id /\ d.id = c.id
       /\ d.quantum_left = e.quantum_left /\ d.preempt_depth = c.preempt_depth
  BY Zenon, <1>12, <1>16 DEF Pushed
<1>18. c.reschedule => d.reschedule
  <2>1. e.reschedule => d.reschedule
    BY Zenon, <1>12, <1>16 DEF Pushed
  <2> QED BY Zenon, <1>3, <2>1
<1>19. RegistryValid(d)
  <2>1. d.tasks = c.tasks /\ d.current \in c.tasks /\ d.next_id = c.next_id /\ d.id = c.id
    BY Zenon, <1>1, <1>17
  <2> QED BY Zenon, <1>1, <2>1, RegistryKept
<1>20. \A x \in Q : x \in c.tasks /\ c.state[x] = "SLEEPING"
  BY <1>9 DEF SleepingTasks
<1>21. Idle \notin Q
  BY Zenon, <1>1, <1>20 DEF NodesValid
<1>22. \A x \in c.tasks : x \notin Q /\ c.state[x] = "SLEEPING" => x \in P
  BY <1>9 DEF SleepingTasks
<1>23. NodesValid(d)
  <2> SUFFICES ASSUME NEW t \in c.tasks
               PROVE  /\ d.quantum_left[t] <= Quantum
                      /\ t # d.current => d.preempt_depth[t] = 0
                      /\ t = Idle => d.state[t] = (IF t = d.current THEN "RUNNING" ELSE "READY")
                      /\ d.state[t] = "RUNNING" => t = d.current
                      /\ d.state[t] = "SLEEPING" => d.wake_tick[t] > d.now
                      /\ d.state[t] # "SLEEPING" => d.wake_tick[t] = 0
                      /\ d.state[t] \in {"SLEEPING", "BLOCKED", "ZOMBIE"}
                           => d.preempt_depth[t] = 0
    BY Zenon, <1>17 DEF NodesValid
  <2>1. t \in Task
    BY Zenon, <1>1
  <2>4. d.quantum_left[t] <= Quantum /\ d.preempt_depth[t] = c.preempt_depth[t]
        /\ d.current = c.current /\ d.now = now
    BY Zenon, <1>3, <1>17
  <2>2. CASE t \in Q
    <3>1. d.state[t] = "READY" /\ d.wake_tick[t] = 0
      BY <1>17, <2>1, <2>2
    <3>2. c.state[t] = "SLEEPING" /\ t # Idle
      BY Zenon, <1>20, <1>21, <2>2
    <3>3. c.preempt_depth[t] = 0
      BY <1>1, <3>2 DEF NodesValid
    <3> QED BY <2>4, <3>1, <3>2, <3>3
  <2>3. CASE t \notin Q
    <3>1. d.state[t] = c.state[t] /\ d.wake_tick[t] = c.wake_tick[t]
      BY Zenon, <1>17, <2>1, <2>3
    <3>2. c.state[t] = "SLEEPING" => c.wake_tick[t] > now
      BY Zenon, <1>11, <1>22, <2>3
    <3>3. /\ t # c.current => c.preempt_depth[t] = 0
          /\ t = Idle => c.state[t] = (IF t = c.current THEN "RUNNING" ELSE "READY")
          /\ c.state[t] = "RUNNING" => t = c.current
          /\ c.state[t] # "SLEEPING" => c.wake_tick[t] = 0
          /\ c.state[t] \in {"SLEEPING", "BLOCKED", "ZOMBIE"} => c.preempt_depth[t] = 0
      BY Zenon, <1>1 DEF NodesValid
    <3> QED BY Zenon, <2>4, <3>1, <3>2, <3>3
  <2> QED BY Zenon, <2>2, <2>3
<1>24. ReadyTasks(d) = ReadyTasks(c) \cup Q
  BY ZenonT(30), <1>1, <1>17, <1>20, <1>21 DEF ReadyTasks
<1>25. SleepingTasks(d) = P
  <2>1. \A x \in P : x \in c.tasks /\ c.state[x] = "SLEEPING" /\ x \notin Q
    BY <1>9 DEF SleepingTasks
  <2>2. \A x \in c.tasks : x \in Task
                            /\ d.state[x] = (IF x \in Q THEN "READY" ELSE c.state[x])
    BY <1>1, <1>17
  <2>3. d.tasks = c.tasks
    BY Zenon, <1>17
  <2> QED BY <1>22, <2>1, <2>2, <2>3 DEF SleepingTasks
<1>26. Ordered(d.sleepers, d.wake_tick)
  <2>1. \A x \in P : d.wake_tick[x] = c.wake_tick[x]
    <3>1. \A x \in P : x \in Task /\ x \notin Q
      BY Zenon, <1>1, <1>9 DEF SleepingTasks
    <3> QED BY <1>17, <3>1
  <2> DEFINE r == SubSeq(s, k + 1, Len(s))
  <2>2. r \in Seq(Task) /\ Enumerates(r, P) /\ Ordered(r, c.wake_tick)
    BY <1>8, <1>10
  <2> HIDE DEF r
  <2>3. Ordered(r, d.wake_tick)
    BY <2>1, <2>2, OrderedSame
  <2> QED BY <1>17, <2>3 DEF r
<1>27. QueuesValid(d)
  BY Zenon, <1>8, <1>17, <1>24, <1>25, <1>26 DEF QueuesValid
<1>28. d.state[d.current] # "RUNNING" => d.reschedule
  <2>1. d.state[d.current] # "RUNNING" => c.state[c.current] # "RUNNING"
    <3>1. c.current \in Task /\ d.current = c.current
      BY Zenon, <1>1, <1>17
    <3>2. d.state[c.current] = (IF c.current \in Q THEN "READY" ELSE c.state[c.current])
      BY Zenon, <1>17, <3>1
    <3>3. c.current \in Q => c.state[c.current] = "SLEEPING"
      BY Zenon, <1>20
    <3> QED BY <3>1, <3>2, <3>3
  <2> QED BY Zenon, <1>1, <1>18, <2>1
<1> QED BY Zenon, <1>1, <1>17, <1>19, <1>23, <1>27, <1>28 DEF Good, sched_core_validate, d

(* Between the two halves of sched_core_select: b is c with no task        *)
(* RUNNING, the FIFO and the sleep list exact, and nothing else changed.   *)
Vacated(c, b) ==
  /\ b \in SchedCoreType
  /\ b.tasks = c.tasks /\ b.current = c.current /\ b.sleepers = c.sleepers
  /\ b.now = c.now /\ b.next_id = c.next_id /\ b.id = c.id
  /\ b.quantum_left = c.quantum_left /\ b.preempt_depth = c.preempt_depth
  /\ b.state[Idle] = "READY"
  /\ \A t \in c.tasks : /\ b.state[t] # "RUNNING"
                        /\ b.state[t] = "SLEEPING" => b.wake_tick[t] > b.now
                        /\ b.state[t] # "SLEEPING" => b.wake_tick[t] = 0
  /\ QueuesValid(b)

(* The first half of sched_core_select puts the outgoing task back.        *)
LEMMA PutBackVacates ==
  ASSUME NEW c, Good(c)
  PROVE  Vacated(c, PutBack(c))
<1> DEFINE b == PutBack(c)
<1>1. /\ c \in SchedCoreType
      /\ c.tasks \in SUBSET Task /\ c.current \in c.tasks /\ Idle \in c.tasks
      /\ c.ready \in Seq(Task) /\ c.sleepers \in Seq(Task)
      /\ c.state \in [Task -> SchedState] /\ c.wake_tick \in [Task -> Nat]
      /\ NodesValid(c) /\ QueuesValid(c)
  BY Zenon, GoodFacts
<1>2. /\ Enumerates(c.ready, ReadyTasks(c)) /\ Enumerates(c.sleepers, SleepingTasks(c))
      /\ Ordered(c.sleepers, c.wake_tick)
  BY Zenon, <1>1 DEF QueuesValid
<1>3. CASE c.state[c.current] # "RUNNING"
  <2>1. b = c
    BY <1>3 DEF PutBack
  <2>2. c.current # Idle /\ c.state[Idle] = "READY"
    BY <1>1, <1>3 DEF NodesValid
  <2>3. \A t \in c.tasks : c.state[t] # "RUNNING"
    BY <1>1, <1>3 DEF NodesValid
  <2>4. Vacated(c, c)
    BY Zenon, <1>1, <2>2, <2>3 DEF Vacated, NodesValid
  <2> QED BY <2>1, <2>4
<1>4. CASE c.state[c.current] = "RUNNING" /\ c.current = Idle
  <2>1. b = [c EXCEPT !.state[Idle] = "READY"]
    BY <1>4 DEF PutBack
  <2>2. /\ b.tasks = c.tasks /\ b.current = c.current /\ b.sleepers = c.sleepers
        /\ b.now = c.now /\ b.next_id = c.next_id /\ b.id = c.id /\ b.ready = c.ready
        /\ b.quantum_left = c.quantum_left /\ b.preempt_depth = c.preempt_depth
        /\ b.wake_tick = c.wake_tick
        /\ b.state = [c.state EXCEPT ![Idle] = "READY"]
    BY <1>1, <2>1 DEF SchedCoreType
  <2>3. [c.state EXCEPT ![Idle] = "READY"] \in [Task -> SchedState]
    BY <1>1 DEF SchedState
  <2>4. b \in SchedCoreType
    BY Zenon, <1>1, <2>1, <2>3 DEF SchedCoreType
  <2> HIDE DEF b
  <2>5. ReadyTasks(b) = ReadyTasks(c) /\ SleepingTasks(b) = SleepingTasks(c)
    BY <1>1, <1>4, <2>2 DEF ReadyTasks, SleepingTasks
  <2>6. QueuesValid(b)
    BY <1>2, <2>2, <2>5 DEF QueuesValid
  <2>7. /\ b.state[Idle] = "READY"
        /\ \A t \in c.tasks : /\ b.state[t] # "RUNNING"
                              /\ b.state[t] = "SLEEPING" => b.wake_tick[t] > b.now
                              /\ b.state[t] # "SLEEPING" => b.wake_tick[t] = 0
    BY <1>1, <1>4, <2>2 DEF NodesValid
  <2>8. Vacated(c, b)
    BY Zenon, <2>2, <2>4, <2>6, <2>7 DEF Vacated
  <2> QED BY <2>8 DEF b
<1>5. CASE c.state[c.current] = "RUNNING" /\ c.current # Idle
  <2> DEFINE t == c.current
  <2>1. b = ready_push(c, <<t>>)
    BY <1>5 DEF PutBack
  <2>2. t \in Task /\ t \notin ReadyTasks(c) /\ t \notin SleepingTasks(c)
    BY Zenon, <1>1, <1>5 DEF ReadyTasks, SleepingTasks
  <2> HIDE DEF b
  <2>3. Pushed(c, b, ReadyTasks(c), {t})
    BY Zenon, <1>1, <1>2, <2>1, <2>2, ReadyPushOne
  <2>4. /\ b \in SchedCoreType
        /\ Enumerates(b.ready, ReadyTasks(c) \cup {t})
        /\ b.state = [u \in Task |-> IF u = t THEN "READY" ELSE c.state[u]]
        /\ b.wake_tick = [u \in Task |-> IF u = t THEN 0 ELSE c.wake_tick[u]]
        /\ b.tasks = c.tasks /\ b.current = c.current /\ b.sleepers = c.sleepers
        /\ b.now = c.now /\ b.next_id = c.next_id /\ b.id = c.id
        /\ b.quantum_left = c.quantum_left /\ b.preempt_depth = c.preempt_depth
    BY Zenon, <2>3 DEF Pushed
  <2>5. ReadyTasks(b) = ReadyTasks(c) \cup {t} /\ SleepingTasks(b) = SleepingTasks(c)
    BY <1>1, <1>5, <2>4 DEF ReadyTasks, SleepingTasks
  <2>6. Ordered(b.sleepers, b.wake_tick)
    <3>1. \A x \in SleepingTasks(c) : b.wake_tick[x] = c.wake_tick[x]
      BY Zenon, <1>1, <2>2, <2>4 DEF SleepingTasks
    <3>2. /\ c.sleepers \in Seq(Task) /\ Enumerates(c.sleepers, SleepingTasks(c))
          /\ Ordered(c.sleepers, c.wake_tick)
      BY Zenon, <1>1, <1>2
    <3>3. Ordered(c.sleepers, b.wake_tick)
      BY <3>1, <3>2, OrderedSame
    <3> QED BY Zenon, <2>4, <3>3
  <2>7. QueuesValid(b)
    BY Zenon, <1>2, <2>4, <2>5, <2>6 DEF QueuesValid
  <2>8. b.state[Idle] = "READY"
    BY SMTT(30), <1>1, <1>5, <2>4 DEF NodesValid
  <2>9. ASSUME NEW u \in c.tasks
        PROVE  /\ b.state[u] # "RUNNING"
               /\ b.state[u] = "SLEEPING" => b.wake_tick[u] > b.now
               /\ b.state[u] # "SLEEPING" => b.wake_tick[u] = 0
    <3>1. u \in Task
      BY <1>1
    <3> QED BY <1>1, <2>4, <3>1 DEF NodesValid
  <2>10. Vacated(c, b)
    BY Zenon, <2>4, <2>7, <2>8, <2>9 DEF Vacated
  <2> QED BY Zenon, <2>10 DEF b
<1> QED BY Zenon, <1>3, <1>4, <1>5

(* The task sched_core_select switches to, and the FIFO without it.        *)
NextTask(b) == IF b.ready = <<>> THEN Idle ELSE Head(b.ready)
RestReady(b) == IF b.ready = <<>> THEN b.ready ELSE Tail(b.ready)

(* The next task is registered and READY, and leaves the FIFO.             *)
LEMMA NextIsReady ==
  ASSUME NEW c, Good(c), NEW b, Vacated(c, b)
  PROVE  /\ NextTask(b) \in c.tasks /\ NextTask(b) \in Task
         /\ b.state[NextTask(b)] = "READY"
         /\ RestReady(b) \in Seq(Task)
         /\ Enumerates(RestReady(b), ReadyTasks(b) \ {NextTask(b)})
<1> DEFINE n == IF b.ready = <<>> THEN Idle ELSE Head(b.ready)
           r == IF b.ready = <<>> THEN b.ready ELSE Tail(b.ready)
<1> SUFFICES /\ n \in c.tasks /\ n \in Task /\ b.state[n] = "READY"
             /\ r \in Seq(Task) /\ Enumerates(r, ReadyTasks(b) \ {n})
  BY Zenon DEF NextTask, RestReady
<1>1. /\ c.tasks \in SUBSET Task /\ c.current \in c.tasks /\ Idle \in c.tasks
      /\ IsFiniteSet(c.tasks) /\ RegistryValid(c) /\ NodesValid(c)
  BY Zenon, GoodFacts
<1>2. /\ b \in SchedCoreType
      /\ b.tasks = c.tasks /\ b.current = c.current /\ b.sleepers = c.sleepers
      /\ b.now = c.now /\ b.next_id = c.next_id /\ b.id = c.id
      /\ b.quantum_left = c.quantum_left /\ b.preempt_depth = c.preempt_depth
      /\ b.state[Idle] = "READY"
      /\ \A t \in c.tasks : /\ b.state[t] # "RUNNING"
                            /\ b.state[t] = "SLEEPING" => b.wake_tick[t] > b.now
                            /\ b.state[t] # "SLEEPING" => b.wake_tick[t] = 0
      /\ Enumerates(b.ready, ReadyTasks(b)) /\ Enumerates(b.sleepers, SleepingTasks(b))
      /\ Ordered(b.sleepers, b.wake_tick)
  BY Zenon DEF Vacated, QueuesValid
<1>3. /\ b.ready \in Seq(Task) /\ b.sleepers \in Seq(Task)
      /\ b.state \in [Task -> SchedState] /\ b.wake_tick \in [Task -> Nat]
      /\ b.quantum_left \in [Task -> Nat]
  BY Zenon, <1>2 DEF SchedCoreType
<1>4. CASE b.ready = <<>>
  <2>1. n = Idle /\ r = b.ready /\ Idle \notin ReadyTasks(b)
    BY Zenon, <1>4 DEF ReadyTasks
  <2> QED BY Zenon, <1>1, <1>2, <1>3, <2>1
<1>5. CASE b.ready # <<>>
  <2> DEFINE p == b.ready
  <2>1. p \in Seq(Task) /\ Len(p) \in Nat /\ Len(p) >= 1
    BY SMTT(30), <1>3, <1>5
  <2>2. n = p[1] /\ r = SubSeq(p, 2, Len(p))
    BY SMTT(30), <1>3, <1>5
  <2>3. Enumerates(p, ReadyTasks(b))
    BY Zenon, <1>2
  <2> HIDE DEF p, n, r
  <2>4. 2 \in 1..Len(p)+1 /\ Len(p) \in 0..Len(p) /\ 1 \in 0..Len(p) /\ 1 \in 1..Len(p)
    BY <2>1
  <2>5. r \in Seq(Task) /\ Enumerates(r, {p[i] : i \in 2..Len(p)})
    BY Zenon, <2>1, <2>2, <2>3, <2>4, EnumeratesSubSeq
  <2>6. /\ \A i, j \in 1..Len(p) : p[i] = p[j] => i = j
        /\ \A i \in 1..Len(p) : p[i] \in ReadyTasks(b)
        /\ \A x \in ReadyTasks(b) : \E i \in 1..Len(p) : p[i] = x
    BY <2>1, <2>3, EnumeratesDef
  <2>7. {p[i] : i \in 2..Len(p)} = ReadyTasks(b) \ {n}
    <3>1. ASSUME NEW i \in 2..Len(p) PROVE p[i] \in ReadyTasks(b) /\ p[i] # n
      BY <2>1, <2>2, <2>4, <2>6
    <3>2. ASSUME NEW x \in ReadyTasks(b) \ {n} PROVE x \in {p[i] : i \in 2..Len(p)}
      <4>1. PICK i \in 1..Len(p) : p[i] = x
        BY <2>6
      <4>2. i # 1
        BY <2>2, <4>1
      <4>3. i \in 2..Len(p)
        BY <2>1, <4>2
      <4> QED BY <4>1, <4>3
    <3> QED BY <3>1, <3>2
  <2>8. n \in ReadyTasks(b)
    BY SMTT(30), <2>2, <2>4, <2>6
  <2>9. n \in c.tasks /\ n \in Task /\ b.state[n] = "READY"
    BY Zenon, <1>1, <1>2, <2>8 DEF ReadyTasks
  <2> QED BY Zenon, <2>5, <2>7, <2>9
<1> QED BY Zenon, <1>4, <1>5

(* The second half takes the head of the FIFO, or idle.                    *)
LEMMA TakeNextGood ==
  ASSUME NEW c, Good(c), c.preempt_depth[c.current] = 0,
         NEW b, Vacated(c, b)
  PROVE  Good(TakeNext(b))
<1> DEFINE n == IF b.ready = <<>> THEN Idle ELSE Head(b.ready)
           r == IF b.ready = <<>> THEN b.ready ELSE Tail(b.ready)
           d == TakeNext(b)
<1>1. /\ c.tasks \in SUBSET Task /\ c.current \in c.tasks /\ Idle \in c.tasks
      /\ IsFiniteSet(c.tasks) /\ RegistryValid(c) /\ NodesValid(c)
  BY Zenon, GoodFacts
<1>2. /\ b \in SchedCoreType
      /\ b.tasks = c.tasks /\ b.current = c.current /\ b.sleepers = c.sleepers
      /\ b.now = c.now /\ b.next_id = c.next_id /\ b.id = c.id
      /\ b.quantum_left = c.quantum_left /\ b.preempt_depth = c.preempt_depth
      /\ b.state[Idle] = "READY"
      /\ \A t \in c.tasks : /\ b.state[t] # "RUNNING"
                            /\ b.state[t] = "SLEEPING" => b.wake_tick[t] > b.now
                            /\ b.state[t] # "SLEEPING" => b.wake_tick[t] = 0
      /\ Enumerates(b.ready, ReadyTasks(b)) /\ Enumerates(b.sleepers, SleepingTasks(b))
      /\ Ordered(b.sleepers, b.wake_tick)
  BY Zenon DEF Vacated, QueuesValid
<1>3. /\ b.ready \in Seq(Task) /\ b.sleepers \in Seq(Task)
      /\ b.state \in [Task -> SchedState] /\ b.wake_tick \in [Task -> Nat]
      /\ b.quantum_left \in [Task -> Nat]
  BY Zenon, <1>2 DEF SchedCoreType
<1>4. /\ n \in c.tasks /\ n \in Task /\ b.state[n] = "READY"
      /\ r \in Seq(Task) /\ Enumerates(r, ReadyTasks(b) \ {n})
  BY Zenon, NextIsReady DEF NextTask, RestReady
<1>5. d = [b EXCEPT !.ready = r, !.state[n] = "RUNNING", !.wake_tick[n] = 0,
                    !.quantum_left[n] = Quantum, !.current = n, !.reschedule = FALSE]
  BY DEF TakeNext
<1> HIDE DEF n, r, d
<1>6. /\ d.tasks = c.tasks /\ d.current = n /\ d.sleepers = b.sleepers /\ d.ready = r
      /\ d.now = b.now /\ d.next_id = c.next_id /\ d.id = c.id
      /\ d.preempt_depth = c.preempt_depth
      /\ d.state = [b.state EXCEPT ![n] = "RUNNING"]
      /\ d.wake_tick = [b.wake_tick EXCEPT ![n] = 0]
      /\ d.quantum_left = [c.quantum_left EXCEPT ![n] = Quantum]
  BY Zenon, <1>2, <1>5 DEF SchedCoreType
<1>7. /\ [b.state EXCEPT ![n] = "RUNNING"] \in [Task -> SchedState]
      /\ [b.wake_tick EXCEPT ![n] = 0] \in [Task -> Nat]
      /\ [b.quantum_left EXCEPT ![n] = Quantum] \in [Task -> Nat]
  BY Zenon, <1>3, <1>4, BoundAssumption DEF SchedState
<1>8. d \in SchedCoreType
  BY ZenonT(30), <1>2, <1>4, <1>5, <1>7 DEF SchedCoreType
<1>9. RegistryValid(d)
  BY Zenon, <1>1, <1>4, <1>6, RegistryKept
<1>10. \A t \in c.tasks : c.preempt_depth[t] = 0
  BY Zenon, <1>1 DEF NodesValid
<1>11. NodesValid(d)
  <2> SUFFICES ASSUME NEW t \in c.tasks
               PROVE  /\ d.quantum_left[t] <= Quantum
                      /\ t # d.current => d.preempt_depth[t] = 0
                      /\ t = Idle => d.state[t] = (IF t = d.current THEN "RUNNING" ELSE "READY")
                      /\ d.state[t] = "RUNNING" => t = d.current
                      /\ d.state[t] = "SLEEPING" => d.wake_tick[t] > d.now
                      /\ d.state[t] # "SLEEPING" => d.wake_tick[t] = 0
                      /\ d.state[t] \in {"SLEEPING", "BLOCKED", "ZOMBIE"}
                           => d.preempt_depth[t] = 0
    BY Zenon, <1>6 DEF NodesValid
  <2>1. t \in Task /\ c.quantum_left[t] <= Quantum
    BY Zenon, <1>1 DEF NodesValid
  <2>4. d.current = n /\ d.preempt_depth[t] = 0 /\ d.now = b.now
    BY <1>6, <1>10
  <2>2. CASE t = n
    <3>1. d.quantum_left[n] = Quantum /\ d.state[n] = "RUNNING" /\ d.wake_tick[n] = 0
      BY Zenon, <1>2, <1>3, <1>4, <1>6
    <3> QED BY <2>2, <2>4, <3>1, BoundAssumption
  <2>3. CASE t # n
    <3>1. d.quantum_left[t] = c.quantum_left[t] /\ d.state[t] = b.state[t]
          /\ d.wake_tick[t] = b.wake_tick[t]
      BY Zenon, <1>2, <1>3, <1>6, <2>1, <2>3
    <3>2. /\ b.state[t] # "RUNNING"
          /\ b.state[t] = "SLEEPING" => b.wake_tick[t] > b.now
          /\ b.state[t] # "SLEEPING" => b.wake_tick[t] = 0
          /\ t = Idle => b.state[t] = "READY"
      BY Zenon, <1>2
    <3> QED BY Zenon, <2>1, <2>3, <2>4, <3>1, <3>2
  <2> QED BY Zenon, <2>2, <2>3
<1>12. ReadyTasks(d) = ReadyTasks(b) \ {n} /\ SleepingTasks(d) = SleepingTasks(b)
  <2>1. d.tasks = c.tasks /\ b.tasks = c.tasks /\ n \in c.tasks /\ b.state[n] = "READY"
    BY Zenon, <1>2, <1>4, <1>6
  <2>2. \A x \in c.tasks : d.state[x] = (IF x = n THEN "RUNNING" ELSE b.state[x])
    BY Zenon, <1>1, <1>3, <1>6
  <2> QED BY <2>1, <2>2 DEF ReadyTasks, SleepingTasks
<1>13. Ordered(d.sleepers, d.wake_tick)
  <2>1. \A x \in SleepingTasks(b) : d.wake_tick[x] = b.wake_tick[x]
    BY Zenon, <1>1, <1>2, <1>3, <1>4, <1>6 DEF SleepingTasks
  <2>2. /\ b.sleepers \in Seq(Task) /\ Enumerates(b.sleepers, SleepingTasks(b))
        /\ Ordered(b.sleepers, b.wake_tick)
    BY Zenon, <1>2, <1>3
  <2>3. Ordered(b.sleepers, d.wake_tick)
    BY SMTT(30), <2>1, <2>2, OrderedSame
  <2> QED BY Zenon, <1>6, <2>3
<1>14. QueuesValid(d)
  BY Zenon, <1>2, <1>4, <1>6, <1>12, <1>13 DEF QueuesValid
<1>15. d.state[d.current] = "RUNNING"
  BY Zenon, <1>3, <1>4, <1>6
<1> QED BY Zenon, <1>1, <1>6, <1>8, <1>9, <1>11, <1>14, <1>15 DEF Good, sched_core_validate, d

(* sched_core_select, with and without force.                              *)
LEMMA SelectGood ==
  ASSUME NEW c, Good(c), NEW force \in BOOLEAN
  PROVE  Good(sched_core_select(c, force))
<1>1. CASE KeepsCurrent(c, force)
  BY <1>1 DEF sched_core_select
<1>2. CASE ~KeepsCurrent(c, force)
  <2>1. c.preempt_depth[c.current] = 0
    BY <1>2 DEF KeepsCurrent
  <2>2. Vacated(c, PutBack(c))
    BY PutBackVacates
  <2>3. Good(TakeNext(PutBack(c)))
    BY <2>1, <2>2, TakeNextGood
  <2> QED BY <1>2, <2>3 DEF sched_core_select
<1> QED BY <1>1, <1>2

(* One step of the policy, whichever operation it is, keeps the core good. *)
LEMMA NextGood ==
  ASSUME Good(core), CoreNext
  PROVE  Good(core')
<1>1. /\ core.current \in Task /\ core.now \in Nat
      /\ core.preempt_depth \in [Task -> Nat]
      /\ core.current \in core.tasks /\ core.tasks \in SUBSET Task
  BY Zenon, GoodFacts
<1>2. ASSUME NEW t \in Task, Add(t) PROVE Good(core')
  BY <1>2, AddGood DEF Add
<1>3. ASSUME NEW t \in Task, Wake(t) PROVE Good(core')
  BY <1>3, WakeGood DEF Wake
<1>4. ASSUME NEW t \in Task, RemoveZombie(t) PROVE Good(core')
  BY <1>4, RemoveZombieGood DEF RemoveZombie
<1>5. ASSUME NEW now \in core.now..MaxTick, Tick(now) PROVE Good(core')
  <2>1. now \in Nat
    BY <1>1, BoundAssumption
  <2> QED BY <1>5, <2>1, TickGood DEF Tick
<1>6. ASSUME NEW force \in BOOLEAN, Select(force) PROVE Good(core')
  BY <1>6, SelectGood DEF Select
<1>7. ASSUME NEW delay \in 1..MaxTick, Sleep(delay) PROVE Good(core')
  <2>1. delay \in Nat
    BY SMTT(30), BoundAssumption
  <2> QED BY <1>7, <2>1, SleepGood DEF Sleep
<1>8. CASE Block
  BY Zenon, <1>8, ParkGood DEF Block, CanBlock, sched_core_block_current
<1>9. CASE Exit
  BY Zenon, <1>9, ParkGood DEF Exit, CanExit, sched_core_exit_current
<1>10. CASE PreemptDisable
  <2>1. core.preempt_depth[core.current] + 1 \in Nat
    BY <1>1
  <2> QED BY <1>10, <2>1, DepthGood
          DEF PreemptDisable, CanDisable, sched_core_preempt_disable
<1>11. CASE PreemptEnable
  <2>1. core.preempt_depth[core.current] - 1 \in Nat
    BY <1>1, <1>11 DEF PreemptEnable, CanEnable
  <2> QED BY <1>11, <2>1, DepthGood
          DEF PreemptEnable, CanEnable, sched_core_preempt_enable
<1> QED BY <1>2, <1>3, <1>4, <1>5, <1>6, <1>7, <1>8, <1>9, <1>10, <1>11 DEF CoreNext

(* The inductive invariant, as a state predicate.                          *)
CoreInv == Good(core)

(* The inductive invariant holds in every reachable state.                 *)
THEOREM CoreInvariant == CoreSpec => []CoreInv
<1>1. CoreInit => CoreInv
  BY InitGood DEF CoreInit, CoreInv
<1>2. CoreInv /\ [CoreNext]_core => CoreInv'
  <2>1. CoreInv /\ CoreNext => CoreInv'
    BY NextGood DEF CoreInv
  <2>2. CoreInv /\ UNCHANGED core => CoreInv'
    BY DEF CoreInv
  <2> QED BY <2>1, <2>2
<1> QED BY <1>1, <1>2, PTL DEF CoreSpec

(* The fields of the core always hold values of their types.               *)
THEOREM CoreTypeCorrect == CoreSpec => []CoreTypeOK
<1>1. CoreInv => CoreTypeOK
  BY DEF CoreInv, Good, CoreTypeOK
<1> QED BY <1>1, CoreInvariant, PTL

(* sched_core_validate succeeds in every reachable state: no sequence of   *)
(* operations can make the core reject itself.                             *)
THEOREM CoreAlwaysValid == CoreSpec => []CoreValid
<1>1. CoreInv => CoreValid
  BY DEF CoreInv, Good, CoreValid, CoreTypeOK
<1> QED BY <1>1, CoreInvariant, PTL

-----------------------------------------------------------------------------
(* Reschedule requests and preemption depth                                *)

(* What the requests and the depth of the current task say about it.       *)
Prompt(c) ==
  /\ c.current = Idle /\ c.ready # <<>> => c.reschedule
  /\ /\ c.current # Idle
     /\ c.state[c.current] = "RUNNING"
     /\ c.quantum_left[c.current] = 0
     => c.reschedule
  /\ c.preempt_depth[c.current] # 0 => c.state[c.current] = "RUNNING"

(* The operations that push to the FIFO on behalf of another task.         *)
LEMMA AddPrompt ==
  ASSUME NEW c, Good(c), Prompt(c), NEW t \in Task, CanAdd(c, t)
  PROVE  Prompt(sched_core_add(c, t))
<1> DEFINE d == sched_core_add(c, t)
<1>1. /\ c \in SchedCoreType /\ c.current \in c.tasks /\ c.tasks \in SUBSET Task
  BY Zenon, GoodFacts
<1>2. t # c.current /\ c.current \in Task
  BY SMTT(30), <1>1 DEF CanAdd
<1>3. /\ d.current = c.current
      /\ d.state[c.current] = c.state[c.current]
      /\ d.quantum_left[c.current] = c.quantum_left[c.current]
      /\ d.preempt_depth[c.current] = c.preempt_depth[c.current]
      /\ d.reschedule = (c.reschedule \/ c.current = Idle \/ c.state[c.current] # "RUNNING")
  BY <1>1, <1>2 DEF sched_core_add, ready_push, SchedCoreType, Range
<1> HIDE DEF d
<1>4. Prompt(d)
  BY Zenon, <1>3 DEF Prompt
<1> QED BY <1>4 DEF d

(* A wake-up of the current task finds it without preemption depth.        *)
LEMMA WakePrompt ==
  ASSUME NEW c, Good(c), Prompt(c), NEW t \in Task, CanWake(c, t)
  PROVE  Prompt(sched_core_wake(c, t))
<1> DEFINE b == Unlink(c, t)
           d == sched_core_wake(c, t)
<1>1. /\ c \in SchedCoreType /\ c.current \in c.tasks /\ c.tasks \in SUBSET Task
      /\ c.current \in Task /\ NodesValid(c) /\ t \in c.tasks
      /\ c.state[t] \in {"BLOCKED", "SLEEPING"}
  BY Zenon, GoodFacts DEF CanWake
<1>2. \E q : b = [c EXCEPT !.sleepers = q]
  <2>1. CASE c.state[t] = "SLEEPING"
    BY Zenon, <2>1 DEF Unlink
  <2>2. CASE c.state[t] # "SLEEPING"
    <3>1. b = c /\ c = [c EXCEPT !.sleepers = c.sleepers]
      BY <1>1, <2>2 DEF Unlink, SchedCoreType
    <3> QED BY <3>1
  <2> QED BY <2>1, <2>2
<1>3. /\ b.current = c.current /\ b.state = c.state
      /\ b.quantum_left = c.quantum_left /\ b.preempt_depth = c.preempt_depth
      /\ b.reschedule = c.reschedule
  <2> PICK q : b = [c EXCEPT !.sleepers = q]
    BY Zenon, <1>2
  <2> HIDE DEF b
  <2> QED BY <1>1 DEF SchedCoreType
<1>4. d = [b EXCEPT
              !.ready = @ \o <<t>>,
              !.state = [u \in Task |-> IF u \in Range(<<t>>) THEN "READY" ELSE @[u]],
              !.wake_tick = [u \in Task |-> IF u \in Range(<<t>>) THEN 0 ELSE @[u]],
              !.reschedule = @ \/ /\ <<t>> # <<>>
                                  /\ b.current = Idle \/ b.state[b.current] # "RUNNING"]
  BY DEF sched_core_wake, ready_push
<1>5. DOMAIN b = DOMAIN c
  <2> PICK q : b = [c EXCEPT !.sleepers = q]
    BY Zenon, <1>2
  <2> HIDE DEF b
  <2> QED OBVIOUS
<1> HIDE DEF b, d
<1>6. /\ d.current = c.current
      /\ c.current # t => d.state[c.current] = c.state[c.current]
      /\ d.quantum_left[c.current] = c.quantum_left[c.current]
      /\ d.preempt_depth[c.current] = c.preempt_depth[c.current]
      /\ d.reschedule = (c.reschedule \/ c.current = Idle \/ c.state[c.current] # "RUNNING")
  BY <1>1, <1>3, <1>4, <1>5 DEF SchedCoreType, Range
<1>7. c.current = t => c.preempt_depth[c.current] = 0 /\ c.state[c.current] # "RUNNING"
  BY Zenon, <1>1 DEF NodesValid
<1>8. Prompt(d)
  BY Zenon, <1>6, <1>7 DEF Prompt
<1> QED BY Zenon, <1>8 DEF d
(* A tick that empties the quantum asks for a switch, and so does one that *)
(* wakes a task while idle is current.                                     *)
LEMMA TickPrompt ==
  ASSUME NEW c, Good(c), Prompt(c), NEW now \in Nat, CanTick(c, now)
  PROVE  Prompt(sched_core_tick(c, now))
<1> DEFINE e == ChargeTick(c)
           s == c.sleepers
           k == LeadingDue(s, c.wake_tick, now)
           b == [e EXCEPT !.now = now, !.sleepers = SubSeq(@, k + 1, Len(@))]
           q == SubSeq(s, 1, k)
           Q == {s[i] : i \in 1..k}
           d == sched_core_tick(c, now)
<1>1. /\ c \in SchedCoreType /\ c.current \in Task /\ s \in Seq(Task)
      /\ c.wake_tick \in [Task -> Nat] /\ c.ready \in Seq(Task)
      /\ Enumerates(s, SleepingTasks(c)) /\ c.quantum_left \in [Task -> Nat]
  BY Zenon, GoodFacts DEF QueuesValid
<1>2. /\ e \in SchedCoreType
      /\ e.current = c.current /\ e.ready = c.ready /\ e.sleepers = c.sleepers
      /\ e.state = c.state /\ e.preempt_depth = c.preempt_depth
      /\ c.reschedule => e.reschedule
  BY Zenon, ChargeFacts
<1>3. /\ c.state[c.current] = "RUNNING" /\ c.current # Idle
      /\ e.quantum_left[c.current] = 0
      => e.reschedule
  <2> SUFFICES ASSUME c.state[c.current] = "RUNNING", c.current # Idle,
                      e.quantum_left[c.current] = 0
               PROVE  e.reschedule
    BY Zenon
  <2> DEFINE left == IF c.quantum_left[c.current] # 0
                     THEN c.quantum_left[c.current] - 1 ELSE 0
  <2>1. e = [c EXCEPT !.quantum_left[c.current] = left, !.reschedule = @ \/ left = 0]
    BY DEF ChargeTick
  <2> HIDE DEF e, left
  <2>2. e.quantum_left[c.current] = left /\ e.reschedule = (c.reschedule \/ left = 0)
    BY <1>1, <2>1 DEF SchedCoreType
  <2> QED BY Zenon, <2>2
<1>4. d = ready_push(b, q)
  BY <1>2 DEF sched_core_tick
<1>5. q \in Seq(Task) /\ Range(q) \subseteq SleepingTasks(c)
  <2>1. /\ Len(s) \in Nat /\ k \in 0..Len(s) /\ 1 \in 1..Len(s)+1
    <3>1. Len(s) \in Nat /\ k \in 0..Len(s)
      BY Zenon, <1>1, LeadingDueStops
    <3> QED BY <3>1
  <2> HIDE DEF k
  <2>2. q \in Seq(Task) /\ Enumerates(q, Q)
    BY Zenon, <1>1, <2>1, EnumeratesSubSeq
  <2>3. Q \subseteq SleepingTasks(c)
    BY SMTT(30), <1>1, <2>1, EnumeratesSplit
  <2> QED BY <2>2, <2>3 DEF Enumerates
<1> HIDE DEF e, s, k, q
<1>6. /\ b.current = c.current /\ b.ready = c.ready /\ b.state = c.state
      /\ b.preempt_depth = c.preempt_depth /\ b.quantum_left = e.quantum_left
      /\ b.reschedule = e.reschedule /\ DOMAIN b = DOMAIN e
  BY <1>2 DEF SchedCoreType
<1> HIDE DEF b, d
<1>7. /\ d.current = c.current /\ d.ready = c.ready \o q
      /\ d.state[c.current] = IF c.current \in Range(q) THEN "READY" ELSE c.state[c.current]
      /\ d.quantum_left = e.quantum_left /\ d.preempt_depth = c.preempt_depth
      /\ d.reschedule = (e.reschedule \/
           (q # <<>> /\ (c.current = Idle \/ c.state[c.current] # "RUNNING")))
  BY SMTT(30), <1>1, <1>2, <1>4, <1>6 DEF ready_push, SchedCoreType
<1>8. c.current \in Range(q) => c.state[c.current] = "SLEEPING"
  BY <1>5 DEF SleepingTasks
<1>9. d.ready # <<>> => c.ready # <<>> \/ q # <<>>
  BY <1>1, <1>5, <1>7
<1>10. d.current = Idle /\ d.ready # <<>> => d.reschedule
  BY Zenon, <1>2, <1>7, <1>9 DEF Prompt
<1>11. d.state[c.current] = "RUNNING" => c.state[c.current] = "RUNNING"
  BY <1>7
<1>12. /\ d.current # Idle /\ d.state[d.current] = "RUNNING"
       /\ d.quantum_left[d.current] = 0
       => d.reschedule
  BY Zenon, <1>3, <1>7, <1>11
<1>13. d.preempt_depth[d.current] # 0 => d.state[d.current] = "RUNNING"
  BY Zenon, <1>7, <1>8 DEF Prompt
<1>14. Prompt(d)
  BY Zenon, <1>10, <1>12, <1>13 DEF Prompt
<1> QED BY <1>14 DEF d

(* A fresh quantum, an idle task only over an empty FIFO.                  *)
LEMMA SelectPrompt ==
  ASSUME NEW c, Good(c), Prompt(c), NEW force \in BOOLEAN
  PROVE  Prompt(sched_core_select(c, force))
<1>1. CASE KeepsCurrent(c, force)
  BY <1>1 DEF sched_core_select
<1>2. CASE ~KeepsCurrent(c, force)
  <2> DEFINE b == PutBack(c)
             n == IF b.ready = <<>> THEN Idle ELSE Head(b.ready)
             r == IF b.ready = <<>> THEN b.ready ELSE Tail(b.ready)
             d == TakeNext(b)
  <2>1. c.preempt_depth[c.current] = 0
    BY <1>2 DEF KeepsCurrent
  <2>2. Vacated(c, b)
    BY PutBackVacates
  <2>3. Good(d)
    BY Zenon, <2>1, <2>2, TakeNextGood
  <2>4. /\ b \in SchedCoreType /\ QueuesValid(b) /\ b.tasks = c.tasks
        /\ b.preempt_depth = c.preempt_depth
    BY Zenon, <2>2 DEF Vacated
  <2>5. d = [b EXCEPT !.ready = r, !.state[n] = "RUNNING", !.wake_tick[n] = 0,
                      !.quantum_left[n] = Quantum, !.current = n, !.reschedule = FALSE]
    BY DEF TakeNext
  <2>6. n = Idle => b.ready = <<>> /\ r = <<>>
    <3>1. b.ready # <<>> => b.ready[1] \in ReadyTasks(b) /\ Head(b.ready) = b.ready[1]
      <4>1. b.ready \in Seq(Task) /\ Enumerates(b.ready, ReadyTasks(b))
        BY Zenon, <2>4 DEF SchedCoreType, QueuesValid
      <4> HIDE DEF b
      <4>2. b.ready # <<>> => 1 \in 1..Len(b.ready)
        BY <4>1
      <4>3. \A i \in 1..Len(b.ready) : b.ready[i] \in ReadyTasks(b)
        BY <4>1, EnumeratesDef
      <4> QED BY <4>1, <4>2, <4>3
    <3> HIDE DEF b
    <3> QED BY Zenon, <3>1 DEF ReadyTasks
  <2> HIDE DEF b, n, r, d
  <2>7. n \in Task /\ d.current = n
    <3>1. d.current = n
      BY <2>4, <2>5 DEF SchedCoreType
    <3> QED BY Zenon, <2>3, <3>1 DEF Good, SchedCoreType
  <2>8. /\ d.ready = r /\ d.state[n] = "RUNNING" /\ d.quantum_left[n] = Quantum
        /\ d.preempt_depth = c.preempt_depth
    BY <2>4, <2>5, <2>7 DEF SchedCoreType
  <2>9. Prompt(d)
    BY <2>6, <2>7, <2>8, BoundAssumption DEF Prompt
  <2> QED BY <1>2, <2>9 DEF sched_core_select, d, b
<1> QED BY <1>1, <1>2
(* Sleeping, blocking and exiting ask for a switch themselves.             *)
LEMMA ParkPrompt ==
  ASSUME NEW c, Good(c), Prompt(c), current_can_wait(c), NEW d,
         d.current = c.current, d.reschedule = TRUE,
         d.preempt_depth = c.preempt_depth
  PROVE  Prompt(d)
  BY DEF Prompt, current_can_wait

(* preempt_disable and preempt_enable act on a RUNNING task.               *)
LEMMA DepthPrompt ==
  ASSUME NEW c, Good(c), Prompt(c), c.state[c.current] = "RUNNING", NEW n \in Nat,
         NEW d, d = [c EXCEPT !.preempt_depth[c.current] = n]
  PROVE  Prompt(d)
<1>1. /\ d.current = c.current /\ d.ready = c.ready /\ d.state = c.state
      /\ d.quantum_left = c.quantum_left /\ d.reschedule = c.reschedule
  BY DEF Good, SchedCoreType
<1> QED BY <1>1 DEF Prompt

(* A zombie that is removed is never the current task.                     *)
LEMMA RemoveZombiePrompt ==
  ASSUME NEW c, Good(c), Prompt(c), NEW t, CanRemoveZombie(c, t)
  PROVE  Prompt(sched_core_remove_zombie(c, t))
<1> DEFINE d == sched_core_remove_zombie(c, t)
<1>1. c \in SchedCoreType /\ t # c.current
  BY DEF Good, CanRemoveZombie
<1>2. /\ d.current = c.current /\ d.ready = c.ready /\ d.reschedule = c.reschedule
      /\ d.state[c.current] = c.state[c.current]
      /\ d.quantum_left[c.current] = c.quantum_left[c.current]
      /\ d.preempt_depth[c.current] = c.preempt_depth[c.current]
  BY <1>1 DEF SchedCoreType, sched_core_remove_zombie
<1> HIDE DEF d
<1>3. Prompt(d)
  BY Zenon, <1>2 DEF Prompt
<1> QED BY <1>3 DEF d

(* One step keeps the requests honest.                                     *)
LEMMA NextPrompt ==
  ASSUME Good(core), Prompt(core), CoreNext
  PROVE  Prompt(core')
<1>1. /\ core.current \in Task /\ core.now \in Nat /\ core \in SchedCoreType
      /\ core.preempt_depth \in [Task -> Nat]
      /\ core.current \in core.tasks /\ core.tasks \in SUBSET Task
  BY Zenon, GoodFacts
<1>2. ASSUME NEW t \in Task, Add(t) PROVE Prompt(core')
  BY <1>2, AddPrompt DEF Add
<1>3. ASSUME NEW t \in Task, Wake(t) PROVE Prompt(core')
  BY <1>3, WakePrompt DEF Wake
<1>4. ASSUME NEW t \in Task, RemoveZombie(t) PROVE Prompt(core')
  BY <1>4, RemoveZombiePrompt DEF RemoveZombie
<1>5. ASSUME NEW now \in core.now..MaxTick, Tick(now) PROVE Prompt(core')
  <2>1. now \in Nat
    BY <1>1, BoundAssumption
  <2> QED BY <1>5, <2>1, TickPrompt DEF Tick
<1>6. ASSUME NEW force \in BOOLEAN, Select(force) PROVE Prompt(core')
  BY <1>6, SelectPrompt DEF Select
<1>7. ASSUME NEW delay \in 1..MaxTick, Sleep(delay) PROVE Prompt(core')
  <2>1. /\ core'.current = core.current /\ core'.reschedule = TRUE
        /\ core'.preempt_depth = core.preempt_depth
    BY <1>1, <1>7 DEF Sleep, sched_core_sleep_current, SchedCoreType
  <2> QED BY Zenon, <1>7, <2>1, ParkPrompt DEF Sleep, CanSleep
<1>8. CASE Block
  <2>1. /\ core'.current = core.current /\ core'.reschedule = TRUE
        /\ core'.preempt_depth = core.preempt_depth
    BY SMTT(30), <1>1, <1>8 DEF Block, sched_core_block_current, SchedCoreType
  <2> QED BY Zenon, <1>8, <2>1, ParkPrompt DEF Block, CanBlock
<1>9. CASE Exit
  <2>1. /\ core'.current = core.current /\ core'.reschedule = TRUE
        /\ core'.preempt_depth = core.preempt_depth
    BY <1>1, <1>9 DEF Exit, sched_core_exit_current, SchedCoreType
  <2> QED BY Zenon, <1>9, <2>1, ParkPrompt DEF Exit, CanExit
<1>10. CASE PreemptDisable
  <2>1. core.preempt_depth[core.current] + 1 \in Nat
    BY <1>1
  <2> QED BY <1>10, <2>1, DepthPrompt
          DEF PreemptDisable, CanDisable, sched_core_preempt_disable
<1>11. CASE PreemptEnable
  <2>1. core.preempt_depth[core.current] - 1 \in Nat
    BY <1>1, <1>11 DEF PreemptEnable, CanEnable
  <2> QED BY <1>11, <2>1, DepthPrompt
          DEF PreemptEnable, CanEnable, sched_core_preempt_enable
<1> QED BY SMTT(30), <1>2, <1>3, <1>4, <1>5, <1>6, <1>7, <1>8, <1>9, <1>10, <1>11 DEF CoreNext

(* The requests as a state predicate.                                      *)
CorePrompt == Prompt(core)

(* The requests are honest in every reachable state.                       *)
THEOREM CorePromptInvariant == CoreSpec => []CorePrompt
<1>1. CoreInit => CorePrompt
  <2>1. Prompt(sched_core_init(0))
    BY Zenon, BoundAssumption, TaskAssumption DEF Prompt, sched_core_init
  <2> QED BY <2>1 DEF CoreInit, CorePrompt
<1>2. CoreInv /\ CorePrompt /\ [CoreNext]_core => CorePrompt'
  <2>1. CoreInv /\ CorePrompt /\ CoreNext => CorePrompt'
    BY NextPrompt DEF CoreInv, CorePrompt
  <2>2. CorePrompt /\ UNCHANGED core => CorePrompt'
    BY Zenon DEF CorePrompt
  <2> QED BY <2>1, <2>2
<1> QED BY <1>1, <1>2, CoreInvariant, PTL DEF CoreSpec

(* Idle never keeps the CPU from a ready task without a pending switch.    *)
THEOREM IdleAlwaysYields == CoreSpec => []IdleYields
<1>1. CorePrompt => IdleYields
  BY DEF CorePrompt, Prompt, IdleYields
<1> QED BY <1>1, CorePromptInvariant, PTL

(* An exhausted quantum always has a pending switch.                       *)
THEOREM QuantumAlwaysEnforced == CoreSpec => []QuantumEnforced
<1>1. CorePrompt => QuantumEnforced
  BY DEF CorePrompt, Prompt, QuantumEnforced
<1> QED BY <1>1, CorePromptInvariant, PTL

(* No operation takes the CPU from a task that disabled preemption.        *)
LEMMA NextKeepsPinned ==
  ASSUME Good(core), Prompt(core), CoreNext, core.preempt_depth[core.current] # 0
  PROVE  core'.current = core.current /\ core'.state[core.current] = "RUNNING"
<1>1. /\ core.current \in Task /\ core \in SchedCoreType /\ NodesValid(core)
      /\ core.current \in core.tasks /\ core.now \in Nat
      /\ core.state[core.current] = "RUNNING"
  BY Zenon, GoodFacts DEF Prompt
<1> DEFINE Pinned == /\ core'.current = core.current
                     /\ core'.preempt_depth[core.current] # 0
<1>2. ASSUME NEW t \in Task, Add(t) PROVE Pinned
  <2>1. t # core.current
    BY Zenon, <1>1, <1>2 DEF Add, CanAdd
  <2> QED BY <1>1, <1>2, <2>1 DEF Add, sched_core_add, ready_push, SchedCoreType
<1>3. ASSUME NEW t \in Task, Wake(t) PROVE Pinned
  <2> DEFINE b == Unlink(core, t)
  <2>1. /\ b.current = core.current /\ b.preempt_depth = core.preempt_depth
        /\ DOMAIN b = DOMAIN core
    BY <1>1 DEF Unlink, SchedCoreType
  <2>2. core' = ready_push(b, <<t>>)
    BY <1>3 DEF Wake, sched_core_wake
  <2> HIDE DEF b
  <2> QED BY SMTT(30), <1>1, <2>1, <2>2 DEF ready_push, SchedCoreType
<1>4. ASSUME NEW t \in Task, RemoveZombie(t) PROVE Pinned
  <2>1. t # core.current
    BY <1>4 DEF RemoveZombie, CanRemoveZombie
  <2> QED BY <1>1, <1>4, <2>1 DEF RemoveZombie, sched_core_remove_zombie, SchedCoreType
<1>5. ASSUME NEW now \in core.now..MaxTick, Tick(now) PROVE Pinned
  <2>1. /\ ChargeTick(core) \in SchedCoreType /\ ChargeTick(core).current = core.current
        /\ ChargeTick(core).preempt_depth = core.preempt_depth
    BY Zenon, ChargeFacts
  <2> QED BY <1>5, <2>1 DEF Tick, sched_core_tick, ready_push, SchedCoreType
<1>6. ASSUME NEW force \in BOOLEAN, Select(force) PROVE Pinned
  BY <1>6 DEF Select, sched_core_select, KeepsCurrent
<1>7. \A delay : ~Sleep(delay)
  BY DEF Sleep, CanSleep, current_can_wait
<1>8. ~Block /\ ~Exit
  BY DEF Block, CanBlock, Exit, CanExit, current_can_wait
<1>9. PreemptDisable \/ PreemptEnable
      => core'.current = core.current /\ core'.state = core.state
  BY <1>1 DEF PreemptDisable, PreemptEnable, sched_core_preempt_disable,
              sched_core_preempt_enable, SchedCoreType
<1>10. CASE PreemptDisable \/ PreemptEnable
  BY SMTT(30), <1>1, <1>9, <1>10
<1>11. CASE ~ (PreemptDisable \/ PreemptEnable)
  <2>1. Pinned
    BY Zenon, <1>2, <1>3, <1>4, <1>5, <1>6, <1>7, <1>8, <1>11 DEF CoreNext
  <2>2. Prompt(core')
    BY NextPrompt
  <2> QED BY <2>1, <2>2 DEF Prompt
<1> QED BY <1>10, <1>11

(* A switch the policy owes is always pending.                             *)
THEOREM SwitchAlwaysRequested == CoreSpec => []SwitchRequested
<1>1. IdleYields /\ QuantumEnforced => SwitchRequested
  BY DEF SwitchRequested
<1> QED BY <1>1, IdleAlwaysYields, QuantumAlwaysEnforced, PTL

(* preempt_disable really pins the CPU to its caller.                      *)
THEOREM PinnedKeepsCPU == CoreSpec => NonPreemptible
<1> DEFINE Step == core.preempt_depth[core.current] # 0
                     => /\ core'.current = core.current
                        /\ core'.state[core.current] = "RUNNING"
<1>1. CoreInv /\ CorePrompt /\ [CoreNext]_core => [Step]_core
  BY NextKeepsPinned DEF CoreInv, CorePrompt
<1> QED BY <1>1, CoreInvariant, CorePromptInvariant, PTL DEF CoreSpec, NonPreemptible

-----------------------------------------------------------------------------
(* The order of the FIFO                                                   *)

(* One step of the FIFO from r to s with n current after it: a task leaves *)
(* it only from its head and to run, tasks enter it only at its end.       *)
FifoStep(r, s, n) ==
  \E k \in 0..1 :
    /\ k <= Len(r)
    /\ Len(r) - k <= Len(s)
    /\ SubSeq(s, 1, Len(r) - k) = SubSeq(r, k + 1, Len(r))
    /\ k = 1 => n = Head(r)

(* The sleepers w that are in the FIFO s are there in the order of w.      *)
InDeadlineOrder(w, s) ==
  \A i, j \in 1..Len(w) :
    LET t == w[i]
        u == w[j]
    IN  i < j /\ t \in Range(s) /\ u \in Range(s) => Position(s, t) < Position(s, u)

(* Appending is a step of the FIFO.                                        *)
LEMMA FifoAppend ==
  ASSUME NEW r \in Seq(Task), NEW q \in Seq(Task), NEW n
  PROVE  FifoStep(r, r \o q, n)
<1>1. Len(r) \in Nat /\ Len(q) \in Nat /\ Len(r \o q) = Len(r) + Len(q)
  OBVIOUS
<1>2. SubSeq(r \o q, 1, Len(r)) = SubSeq(r, 1, Len(r))
  BY <1>1
<1>3. 0 \in 0..1 /\ 0 <= Len(r) /\ Len(r) - 0 = Len(r) /\ Len(r) <= Len(r \o q) /\ 0 + 1 = 1
  BY <1>1
<1> QED BY <1>2, <1>3 DEF FifoStep

(* So is appending followed by taking the head, if there was one.          *)
LEMMA FifoTake ==
  ASSUME NEW r \in Seq(Task), NEW q \in Seq(Task), r # <<>>
  PROVE  FifoStep(r, Tail(r \o q), Head(r \o q))
<1> DEFINE s == Tail(r \o q)
<1>1. /\ Len(r) \in Nat /\ Len(q) \in Nat /\ Len(r) >= 1 /\ r \o q \in Seq(Task)
      /\ Len(r \o q) = Len(r) + Len(q) /\ r \o q # <<>>
  OBVIOUS
<1>2. /\ Head(r \o q) = Head(r) /\ Len(s) = Len(r) + Len(q) - 1
      /\ \A i \in 1..(Len(r) - 1) : s[i] = r[i + 1]
  BY <1>1
<1>3. s \in Seq(Task)
  BY <1>1
<1> HIDE DEF s
<1>4. SubSeq(s, 1, Len(r) - 1) = SubSeq(r, 1 + 1, Len(r))
  BY <1>1, <1>2, <1>3
<1>5. 1 \in 0..1 /\ 1 <= Len(r) /\ Len(r) - 1 <= Len(s)
  BY <1>1, <1>2
<1> QED BY <1>2, <1>4, <1>5 DEF FifoStep, s

(* The position of a task in a list without repetitions.                   *)
LEMMA PositionUnique ==
  ASSUME NEW s \in Seq(Task), NEW S, Enumerates(s, S), NEW i \in 1..Len(s)
  PROVE  Position(s, s[i]) = i
<1>1. \A a, b \in 1..Len(s) : s[a] = s[b] => a = b
  BY EnumeratesDef
<1>2. s[i] \in Range(s)
  BY DEF Range
<1> QED BY <1>1, <1>2 DEF Position

(* Where at most one sleeper became ready there is nothing to order.       *)
LEMMA AtMostOneWoken ==
  ASSUME NEW c, Good(c), NEW d, Good(d), NEW t,
         \A u \in SleepingTasks(c) : u # t => d.state[u] # "READY"
  PROVE  InDeadlineOrder(c.sleepers, d.ready)
<1>1. /\ c.sleepers \in Seq(Task) /\ Enumerates(c.sleepers, SleepingTasks(c))
      /\ d.ready \in Seq(Task) /\ Enumerates(d.ready, ReadyTasks(d))
  BY Zenon, GoodFacts DEF QueuesValid
<1>2. \A u \in Range(d.ready) : d.state[u] = "READY"
  BY <1>1 DEF Enumerates, ReadyTasks
<1>3. /\ \A i, j \in 1..Len(c.sleepers) : c.sleepers[i] = c.sleepers[j] => i = j
      /\ \A i \in 1..Len(c.sleepers) : c.sleepers[i] \in SleepingTasks(c)
  BY Zenon, <1>1, EnumeratesDef
<1>4. ASSUME NEW i \in 1..Len(c.sleepers), NEW j \in 1..Len(c.sleepers), i < j,
             c.sleepers[i] \in Range(d.ready), c.sleepers[j] \in Range(d.ready)
      PROVE  FALSE
  <2>1. c.sleepers[i] = t /\ c.sleepers[j] = t
    BY <1>2, <1>3, <1>4
  <2>2. i = j
    BY <1>3, <2>1
  <2> QED BY <1>1, <1>4, <2>2
<1> QED BY <1>4 DEF InDeadlineOrder

(* sched_core_tick appends the sleepers that are due, in their order.      *)
LEMMA TickInOrder ==
  ASSUME NEW c, Good(c), NEW now \in Nat, CanTick(c, now),
         NEW d, d = sched_core_tick(c, now)
  PROVE  FifoStep(c.ready, d.ready, d.current) /\ InDeadlineOrder(c.sleepers, d.ready)
<1> DEFINE s == c.sleepers
           k == LeadingDue(s, c.wake_tick, now)
           q == SubSeq(s, 1, k)
           r == c.ready
           b == [ChargeTick(c) EXCEPT !.now = now,
                                      !.sleepers = SubSeq(@, k + 1, Len(@))]
<1>1. /\ s \in Seq(Task) /\ c.wake_tick \in [Task -> Nat] /\ r \in Seq(Task)
      /\ Enumerates(s, SleepingTasks(c)) /\ Enumerates(r, ReadyTasks(c))
  BY Zenon, GoodFacts DEF QueuesValid
<1>2. Good(d)
  BY TickGood
<1>3. d.ready = r \o q
  <2>1. ChargeTick(c) \in SchedCoreType /\ ChargeTick(c).ready = r
        /\ ChargeTick(c).sleepers = s
    BY Zenon, ChargeFacts
  <2>2. d = ready_push(b, q)
    BY <2>1 DEF sched_core_tick
  <2> HIDE DEF k, q
  <2>3. b.ready = r /\ "ready" \in DOMAIN b
    BY <2>1 DEF SchedCoreType
  <2> HIDE DEF b, r
  <2>4. ready_push(b, q).ready = r \o q
    BY <2>3 DEF ready_push
  <2> QED BY <2>2, <2>4
<1>4. Len(s) \in Nat /\ k \in 0..Len(s)
  BY Zenon, <1>1, LeadingDueStops
<1> HIDE DEF k
<1>5. q \in Seq(Task) /\ Len(q) = k /\ \A i \in 1..k : q[i] = s[i]
  BY <1>1, <1>4
<1>6. FifoStep(r, r \o q, d.current)
  BY Zenon, <1>1, <1>5, FifoAppend
<1>7. d.ready \in Seq(Task) /\ Enumerates(d.ready, ReadyTasks(d))
  BY Zenon, <1>2, GoodFacts DEF QueuesValid
<1>8. /\ \A i, j \in 1..Len(s) : s[i] = s[j] => i = j
      /\ \A i \in 1..Len(s) : s[i] \in SleepingTasks(c)
  BY Zenon, <1>1, EnumeratesDef
<1> HIDE DEF s, q, r
<1>9. /\ Len(r) \in Nat /\ Len(d.ready) = Len(r) + k
      /\ \A i \in 1..Len(r) : d.ready[i] = r[i]
      /\ \A i \in 1..k : d.ready[Len(r) + i] = s[i] /\ Len(r) + i \in 1..Len(d.ready)
  <2>1. /\ r \in Seq(Task) /\ q \in Seq(Task)
        /\ Len(r) \in Nat /\ Len(q) \in Nat /\ Len(q) = k
    BY <1>1, <1>5
  <2>2. Len(r \o q) = Len(r) + k /\ \A i \in 1..Len(r) : (r \o q)[i] = r[i]
    BY <2>1
  <2>3. \A i \in 1..k : (r \o q)[Len(r) + i] = q[i] /\ Len(r) + i \in 1..(Len(r) + k)
    BY <2>1
  <2> QED BY <1>3, <1>5, <2>1, <2>2, <2>3
<1>10. \A i \in 1..Len(r) : r[i] \notin SleepingTasks(c)
  <2>1. \A i \in 1..Len(r) : r[i] \in ReadyTasks(c)
    BY Zenon, <1>1, EnumeratesDef
  <2> QED BY <2>1 DEF ReadyTasks, SleepingTasks
<1>11. ASSUME NEW i \in 1..Len(s), s[i] \in Range(d.ready)
       PROVE  i \in 1..k /\ Position(d.ready, s[i]) = Len(r) + i
  <2>1. PICK a \in 1..Len(d.ready) : d.ready[a] = s[i]
    BY <1>7, <1>11 DEF Range
  <2>2. a \notin 1..Len(r)
    BY Zenon, <1>8, <1>9, <1>10, <2>1
  <2>3. a - Len(r) \in 1..k /\ a = Len(r) + (a - Len(r))
    BY <1>4, <1>9, <2>1, <2>2
  <2>4. s[a - Len(r)] = s[i] /\ a - Len(r) \in 1..Len(s)
    BY <1>4, <1>9, <2>1, <2>3
  <2>5. a - Len(r) = i
    BY <1>8, <2>4
  <2>6. Position(d.ready, d.ready[a]) = a
    BY Zenon, <1>7, <2>1, PositionUnique
  <2> QED BY <2>1, <2>3, <2>5, <2>6
<1>12. InDeadlineOrder(s, d.ready)
  <2> SUFFICES ASSUME NEW i \in 1..Len(s), NEW j \in 1..Len(s), i < j,
                      s[i] \in Range(d.ready), s[j] \in Range(d.ready)
               PROVE  Position(d.ready, s[i]) < Position(d.ready, s[j])
    BY DEF InDeadlineOrder
  <2>1. Position(d.ready, s[i]) = Len(r) + i /\ Position(d.ready, s[j]) = Len(r) + j
    BY <1>11
  <2> QED BY <1>4, <1>9, <2>1
<1> QED BY <1>3, <1>6, <1>12 DEF s, r

(* sched_core_select takes the head, behind which it has put the old task. *)
LEMMA SelectInOrder ==
  ASSUME NEW c, Good(c), NEW force \in BOOLEAN,
         NEW d, d = sched_core_select(c, force)
  PROVE  /\ FifoStep(c.ready, d.ready, d.current)
         /\ \A u \in SleepingTasks(c) : d.state[u] # "READY"
<1> DEFINE b == PutBack(c)
           n == NextTask(b)
<1>1. /\ c \in SchedCoreType /\ c.ready \in Seq(Task) /\ c.current \in Task
      /\ c.state \in [Task -> SchedState] /\ c.tasks \in SUBSET Task
  BY Zenon, GoodFacts
<1>2. <<>> \in Seq(Task)
  OBVIOUS
<1>3. CASE KeepsCurrent(c, force)
  <2>1. d = c /\ c.ready \o <<>> = c.ready
    BY <1>1, <1>3 DEF sched_core_select
  <2>2. FifoStep(c.ready, c.ready \o <<>>, d.current)
    BY Zenon, <1>1, <1>2, FifoAppend
  <2> QED BY <2>1, <2>2 DEF SleepingTasks
<1>4. CASE ~KeepsCurrent(c, force)
  <2>1. PICK q \in Seq(Task) : b.ready = c.ready \o q
    <3>1. b.ready = c.ready \/ b.ready = c.ready \o <<c.current>>
      BY <1>1 DEF PutBack, ready_push, SchedCoreType
    <3>2. c.ready = c.ready \o <<>> /\ <<c.current>> \in Seq(Task)
      BY <1>1
    <3> QED BY Zenon, <1>2, <3>1, <3>2
  <2>2. b \in SchedCoreType
    BY Zenon, PutBackVacates DEF Vacated
  <2>3. \A u \in SleepingTasks(c) : b.state[u] = "SLEEPING"
    BY <1>1 DEF PutBack, ready_push, SleepingTasks, SchedCoreType, Range
  <2>4. d.ready = RestReady(b) /\ d.current = n /\ d.state = [b.state EXCEPT ![n] = "RUNNING"]
    <3>1. d = TakeNext(b)
      BY <1>4 DEF sched_core_select
    <3> HIDE DEF b
    <3> QED BY <2>2, <3>1 DEF TakeNext, SchedCoreType, NextTask, RestReady
  <2> HIDE DEF b
  <2>5. \A u \in SleepingTasks(c) : d.state[u] # "READY"
    BY Zenon, <1>1, <2>2, <2>3, <2>4 DEF SchedCoreType, SleepingTasks
  <2>6. CASE c.ready # <<>>
    <3>1. b.ready # <<>>
      BY <1>1, <2>1, <2>6
    <3>2. d.ready = Tail(c.ready \o q) /\ d.current = Head(c.ready \o q)
      BY Zenon, <2>1, <2>4, <3>1 DEF NextTask, RestReady
    <3>3. FifoStep(c.ready, Tail(c.ready \o q), Head(c.ready \o q))
      BY <1>1, <2>6, FifoTake
    <3> QED BY Zenon, <2>5, <3>2, <3>3
  <2>7. CASE c.ready = <<>>
    <3>1. d.ready \in Seq(Task)
      BY <2>2, <2>4 DEF RestReady, SchedCoreType
    <3>2. <<>> \o d.ready = d.ready
      BY <3>1
    <3>3. FifoStep(<<>>, <<>> \o d.ready, d.current)
      BY Zenon, <1>2, <3>1, FifoAppend
    <3> QED BY <2>5, <2>7, <3>2, <3>3
  <2> QED BY <2>6, <2>7
<1> QED BY Zenon, <1>3, <1>4

(* sched_core_wake and sched_core_add append the one task they are given.  *)
LEMMA PushInOrder ==
  ASSUME NEW c, Good(c), NEW b, NEW t \in Task, b.ready = c.ready,
         \A u \in Task : b.state[u] = c.state[u],
         DOMAIN b = DOMAIN c, NEW d, d = ready_push(b, <<t>>)
  PROVE  /\ FifoStep(c.ready, d.ready, d.current)
         /\ \A u \in SleepingTasks(c) : u # t => d.state[u] # "READY"
<1>1. /\ c \in SchedCoreType /\ c.ready \in Seq(Task) /\ c.tasks \in SUBSET Task
      /\ <<t>> \in Seq(Task) /\ Range(<<t>>) = {t}
  BY GoodFacts DEF Range
<1>2. "ready" \in DOMAIN b /\ "state" \in DOMAIN b
  BY Zenon, <1>1 DEF SchedCoreType
<1>3. d.ready = c.ready \o <<t>>
  BY <1>2 DEF ready_push
<1>4. d.state = [u \in Task |-> IF u \in Range(<<t>>) THEN "READY" ELSE b.state[u]]
  BY <1>2 DEF ready_push
<1>5. FifoStep(c.ready, c.ready \o <<t>>, d.current)
  BY Zenon, <1>1, FifoAppend
<1>6. \A u \in SleepingTasks(c) : u # t => d.state[u] # "READY"
  BY Zenon, <1>1, <1>4 DEF SleepingTasks
<1> QED BY Zenon, <1>3, <1>5, <1>6

(* The operations that do not touch the FIFO.                              *)
LEMMA SameFifoInOrder ==
  ASSUME NEW c, Good(c), NEW d, d.ready = c.ready,
         \A u \in SleepingTasks(c) : d.state[u] = c.state[u]
  PROVE  /\ FifoStep(c.ready, d.ready, d.current)
         /\ \A u \in SleepingTasks(c) : d.state[u] # "READY"
<1>1. c.ready \in Seq(Task) /\ <<>> \in Seq(Task) /\ c.ready \o <<>> = c.ready
  BY GoodFacts
<1>2. FifoStep(c.ready, c.ready \o <<>>, d.current)
  BY Zenon, <1>1, FifoAppend
<1> QED BY <1>1, <1>2 DEF SleepingTasks

(* Every operation of the core keeps to the order of the FIFO.             *)
LEMMA NextInOrder ==
  ASSUME Good(core), CoreNext
  PROVE  /\ FifoStep(core.ready, core'.ready, core'.current)
         /\ InDeadlineOrder(core.sleepers, core'.ready)
<1> DEFINE Fifo == FifoStep(core.ready, core'.ready, core'.current)
           Order == InDeadlineOrder(core.sleepers, core'.ready)
           NoneWoken == \A u \in SleepingTasks(core) : core'.state[u] # "READY"
           Woken(t) == \A u \in SleepingTasks(core) : u # t => core'.state[u] # "READY"
           Kept == /\ core'.ready = core.ready
                   /\ \A u \in SleepingTasks(core) : core'.state[u] = core.state[u]
<1>1. /\ core \in SchedCoreType /\ core.current \in core.tasks /\ core.tasks \in SUBSET Task
      /\ core.ready \in Seq(Task) /\ core.now \in Nat
      /\ core.state \in [Task -> SchedState] /\ core.preempt_depth \in [Task -> Nat]
  BY Zenon, GoodFacts
<1>2. Good(core')
  BY NextGood
<1>3. ASSUME NEW t, Woken(t) PROVE Order
  BY Zenon, <1>2, <1>3, AtMostOneWoken
<1>4. NoneWoken => Order
  BY Zenon, <1>3
<1>5. Kept => Fifo /\ Order
  <2>1. Kept => Fifo /\ NoneWoken
    BY Zenon, SameFifoInOrder
  <2> QED BY Zenon, <1>4, <2>1
<1>6. ASSUME NEW t \in Task, Add(t) PROVE Fifo /\ Order
  <2> DEFINE b == [core EXCEPT !.tasks = @ \cup {t},
                               !.id[t] = core.next_id,
                               !.next_id = @ + 1,
                               !.quantum_left[t] = Quantum,
                               !.preempt_depth[t] = 0]
  <2>1. core' = ready_push(b, <<t>>)
    BY <1>6 DEF Add, sched_core_add
  <2>2. b.ready = core.ready /\ DOMAIN b = DOMAIN core /\ b.state = core.state
    BY <1>1 DEF SchedCoreType
  <2> HIDE DEF b
  <2>3. Fifo /\ Woken(t)
    BY Zenon, <2>1, <2>2, PushInOrder
  <2> QED BY Zenon, <1>3, <2>3
<1>7. ASSUME NEW t \in Task, Wake(t) PROVE Fifo /\ Order
  <2> DEFINE b == Unlink(core, t)
  <2>1. core' = ready_push(b, <<t>>)
    BY <1>7 DEF Wake, sched_core_wake
  <2>2. b.ready = core.ready /\ DOMAIN b = DOMAIN core /\ b.state = core.state
    BY <1>1 DEF SchedCoreType, Unlink
  <2> HIDE DEF b
  <2>3. Fifo /\ Woken(t)
    BY Zenon, <2>1, <2>2, PushInOrder
  <2> QED BY Zenon, <1>3, <2>3
<1>8. ASSUME NEW now \in core.now..MaxTick, Tick(now) PROVE Fifo /\ Order
  <2>1. now \in Nat
    BY <1>1, BoundAssumption
  <2> QED BY Zenon, <1>8, <2>1, TickInOrder DEF Tick
<1>9. ASSUME NEW force \in BOOLEAN, Select(force) PROVE Fifo /\ Order
  <2>1. Fifo /\ NoneWoken
    BY Zenon, <1>9, SelectInOrder DEF Select
  <2> QED BY Zenon, <1>4, <2>1
<1>10. ASSUME NEW t \in Task, RemoveZombie(t) PROVE Kept
  BY <1>1, <1>10 DEF RemoveZombie, sched_core_remove_zombie, CanRemoveZombie,
                     SchedCoreType, SleepingTasks
<1>11. core.current \notin SleepingTasks(core) \/ core.state[core.current] # "RUNNING"
  BY DEF SleepingTasks
<1>12. ASSUME NEW delay \in 1..MaxTick, Sleep(delay) PROVE Kept
  BY <1>1, <1>11, <1>12 DEF Sleep, CanSleep, current_can_wait, sched_core_sleep_current,
                            SchedCoreType, SleepingTasks
<1>13. CASE Block \/ Exit
  <2>1. core.state[core.current] = "RUNNING"
    BY Zenon, <1>13 DEF Block, CanBlock, Exit, CanExit, current_can_wait
  <2>2. PICK z : core' = [core EXCEPT !.state[core.current] = z, !.reschedule = TRUE]
    BY Zenon, <1>13 DEF Block, Exit, sched_core_block_current, sched_core_exit_current
  <2>3. Kept
    BY <1>1, <2>1, <2>2 DEF SchedCoreType, SleepingTasks
  <2> QED BY Zenon, <1>5, <2>3
<1>14. CASE PreemptDisable \/ PreemptEnable
  <2>1. PICK z : core' = [core EXCEPT !.preempt_depth[core.current] = z]
    BY Zenon, <1>14 DEF PreemptDisable, PreemptEnable, sched_core_preempt_disable,
                        sched_core_preempt_enable
  <2>2. Kept
    BY <1>1, <2>1 DEF SchedCoreType
  <2> QED BY Zenon, <1>5, <2>2
<1> HIDE DEF Fifo, Order, Kept
<1> QED BY Zenon, <1>5, <1>6, <1>7, <1>8, <1>9, <1>10, <1>12, <1>13, <1>14 DEF CoreNext, Fifo, Order

(* Nobody overtakes: a task leaves the FIFO only from its head and to run, *)
(* tasks enter it behind those already there, and sleepers woken by the    *)
(* same tick keep the order of their deadlines, whichever operations       *)
(* happen and however many tasks there are.                                *)
THEOREM NobodyOvertakes == CoreSpec => NoOvertaking
<1> DEFINE Step == /\ FifoStep(core.ready, core'.ready, core'.current)
                   /\ InDeadlineOrder(core.sleepers, core'.ready)
<1>1. CoreInv /\ [CoreNext]_core => [Step]_core
  BY NextInOrder DEF CoreInv
<1>2. CoreSpec => [][Step]_core
  BY <1>1, CoreInvariant, PTL DEF CoreSpec
<1> QED BY <1>2 DEF NoOvertaking, FifoStep, InDeadlineOrder

=============================================================================
