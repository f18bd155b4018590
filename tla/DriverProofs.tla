---------------------------- MODULE DriverProofs ----------------------------
(***************************************************************************)
(* The interrupt controllers and their driver, for every set of lines; the *)
(* network card and its driver, for rings of every size; and the ring of   *)
(* the keyboard's driver, which is a bounded queue for every capacity.     *)
(***************************************************************************)
EXTENDS Pic, E1000, InputRing, WellFoundedInduction, TLAPS

-----------------------------------------------------------------------------
(* The interrupt controllers                                               *)

\* What is in service while an interrupt is on its way.
InService ==
    \/ cpu \in {"running", "accepted"} /\ isr = {}
    \/ cpu = "slave" /\ isr = {Cascade}
    \/ cpu = "vector" /\ vector \in Master \ {Cascade} /\ isr = {vector}
    \/ cpu = "vector" /\ vector = 7 /\ isr = {}
    \/ cpu = "vector" /\ vector \in Slave /\ isr = {Cascade, vector}
    \/ cpu = "vector" /\ vector = 15 /\ isr = {Cascade}

\* What the driver believes, and what is written; the cascade is closed when nothing
\* behind it is open.
MasksAgree ==
    /\ master_mask \subseteq Master /\ slave_mask \subseteq Slave
    /\ imr = master_mask \cup slave_mask
    /\ Cascade \in master_mask <=> slave_mask = Slave

PicInv ==
    /\ last.real = last.treated
    /\ MasksAgree
    /\ ~started => cpu = "running"
    /\ started => InService

\* The lines of the two controllers.
LEMMA Wiring ==
    /\ Master \subseteq 0 .. 7 /\ Slave \subseteq 8 .. 15
    /\ Cascade \in Master /\ Cascade \notin Slave
    /\ Master \cap Slave = {}
<1>1. \A i \in Irq : i \in Int /\ 0 <= i /\ i <= 15 BY PicAssumption
<1>2. \A i \in Master : i \in 0 .. 7 BY <1>1 DEF Master, Cascade
<1>3. \A i \in Slave : i \in 8 .. 15 BY <1>1 DEF Slave
<1>4. Cascade \in Master BY DEF Master, Cascade
<1>5. Master \cap Slave = {} BY <1>2, <1>3
<1> QED BY <1>2, <1>3, <1>4, <1>5

\* A set of numbers that is not empty has a least one, and Min is it.
LEMMA MinIsMember ==
  ASSUME NEW S, S \subseteq Nat, S # {}
  PROVE  Min(S) \in S
<1>1. PICK x \in S : \A y \in S : ~ (<<y, x>> \in OpToRel(<, Nat))
  BY Zenon, NatLessThanWellFounded, WFMin
<1>2. \A y \in S : x <= y
  <2> SUFFICES ASSUME NEW y \in S PROVE x <= y OBVIOUS
  <2>1. ~ (<<y, x>> \in OpToRel(<, Nat)) BY Zenon, <1>1
  <2> QED BY <2>1 DEF OpToRel
<1> QED BY Zenon, <1>2 DEF Min

\* An EOI to a controller that serves one line ends that line.
LEMMA EoiEnds ==
  ASSUME NEW service, NEW lines, NEW i, lines \subseteq Nat, service \cap lines = {i}
  PROVE  Eoi(service, lines) = service \ {i}
<1>1. {i} \subseteq Nat /\ {i} # {} BY Zenon
<1>2. Min({i}) \in {i} BY Zenon, <1>1, MinIsMember
<1> QED BY Zenon, <1>2 DEF Eoi

\* Masking or unmasking a line keeps the two masks and the cascade in agreement.
LEMMA MaskAgrees ==
  ASSUME MasksAgree, NEW i \in Irq, NEW m \in {pic_mask(Masks, i), pic_unmask(Masks, i)}, Write(m)
  PROVE  MasksAgree'
<1>1. i \in Master \/ i \in Slave BY PicAssumption DEF Master, Slave
<1>2. i # Cascade BY PicAssumption DEF Cascade
<1>3. i < 8 <=> i \in Master BY <1>2 DEF Master
<1>4. CASE i \in Master
  <2>1. /\ m.slave = slave_mask
        /\ m.master = master_mask \cup {i} \/ m.master = master_mask \ {i}
    BY <1>3, <1>4 DEF pic_mask, pic_unmask, Masks
  <2>2. /\ slave_mask' = slave_mask /\ imr' = master_mask' \cup slave_mask'
        /\ master_mask' = master_mask \cup {i} \/ master_mask' = master_mask \ {i}
    BY Zenon, <2>1 DEF Write
  <2> QED BY <1>2, <1>4, <2>2 DEF MasksAgree
<1>5. CASE i \in Slave
  <2>0. ~ (i < 8) BY <1>5, Wiring
  <2>1. CASE m = pic_mask(Masks, i)
    <3>1. /\ m.slave = slave_mask \cup {i}
          /\ m.master = IF slave_mask \cup {i} = Slave THEN master_mask \cup {Cascade} ELSE master_mask
      BY <2>0, <2>1 DEF pic_mask, Masks
    <3>2. /\ slave_mask' = slave_mask \cup {i} /\ imr' = master_mask' \cup slave_mask'
          /\ master_mask' = IF slave_mask \cup {i} = Slave THEN master_mask \cup {Cascade} ELSE master_mask
      BY Zenon, <3>1 DEF Write
    <3> QED BY <1>5, <3>2, Wiring DEF MasksAgree
  <2>2. CASE m = pic_unmask(Masks, i)
    <3>1. m.slave = slave_mask \ {i} /\ m.master = master_mask \ {Cascade}
      BY <2>0, <2>2 DEF pic_unmask, Masks
    <3>2. /\ slave_mask' = slave_mask \ {i} /\ imr' = master_mask' \cup slave_mask'
          /\ master_mask' = master_mask \ {Cascade}
      BY Zenon, <3>1 DEF Write
    <3> QED BY <1>5, <3>2, Wiring DEF MasksAgree
  <2> QED BY <2>1, <2>2
<1> QED BY <1>1, <1>4, <1>5

\* The master answers with nothing in service.
LEMMA MasterAnswers ==
  ASSUME InService, AnswerMaster
  PROVE  InService'
<1>1. cpu = "accepted" /\ isr = {} BY DEF InService, AnswerMaster
<1> DEFINE U == Unblocked(Asking)
<1>2. U \subseteq Master BY DEF Unblocked, Asking, Waiting, Cascade, Master
<1>3. CASE U = {}
  <2>1. isr' = {} /\ vector' = 7 /\ cpu' = "vector"
    BY <1>1, <1>3 DEF AnswerMaster, Cascade
  <2> QED BY <2>1 DEF InService
<1>4. CASE U # {}
  <2> DEFINE line == Min(U)
  <2>1. U \subseteq Nat
    <3>1. Master \subseteq Nat /\ Slave \subseteq Nat BY Wiring
    <3> QED BY Zenon, <1>2, <3>1
  <2>2. line \in U BY Zenon, <1>4, <2>1, MinIsMember
  <2>3. /\ isr' = {line} /\ vector' = line
        /\ cpu' = IF line = Cascade THEN "slave" ELSE "vector"
    BY Zenon, <1>1, <1>4 DEF AnswerMaster
  <2> HIDE DEF line
  <2> QED BY <1>2, <2>2, <2>3 DEF InService
<1> QED BY <1>3, <1>4

\* The slave answers with the cascade in service.
LEMMA SlaveAnswers ==
  ASSUME InService, AnswerSlave
  PROVE  InService'
<1>1. cpu = "slave" /\ isr = {Cascade} BY DEF InService, AnswerSlave
<1> DEFINE U == Unblocked(Waiting(Slave))
<1>2. U \subseteq Slave BY DEF Unblocked, Waiting
<1>3. CASE U = {}
  <2>1. isr' = {Cascade} /\ vector' = 15 /\ cpu' = "vector"
    BY <1>1, <1>3 DEF AnswerSlave
  <2> QED BY <2>1 DEF InService
<1>4. CASE U # {}
  <2> DEFINE line == Min(U)
  <2>1. U \subseteq Nat
    <3>1. Master \subseteq Nat /\ Slave \subseteq Nat BY Wiring
    <3> QED BY Zenon, <1>2, <3>1
  <2>2. line \in U BY Zenon, <1>4, <2>1, MinIsMember
  <2>3. isr' = {Cascade} \cup {line} /\ vector' = line /\ cpu' = "vector"
    BY Zenon, <1>1, <1>4 DEF AnswerSlave
  <2> HIDE DEF line
  <2> QED BY <1>2, <2>2, <2>3 DEF InService
<1> QED BY <1>3, <1>4

\* Dispatch treats a line as real exactly if it is in service, and ends all that is.
LEMMA DispatchEnds ==
  ASSUME InService, irq_dispatch
  PROVE  /\ pic_begin_irq(vector) <=> vector \in isr
         /\ pic_begin_irq(vector) => vector \in Irq
         /\ isr' = {} /\ cpu' = "running"
<1>0. cpu = "vector" /\ cpu' = "running" BY DEF irq_dispatch
<1>1. Master \subseteq Nat /\ Slave \subseteq Nat BY Wiring
<1>2. CASE vector \in Master \ {Cascade} /\ isr = {vector}
  <2>1. pic_begin_irq(vector) /\ vector \in isr BY <1>2 DEF pic_begin_irq
  <2>2. vector \in Irq /\ ~ (vector >= 8)
    <3>1. vector \in Irq BY <1>2 DEF Master
    <3>2. vector \in 0 .. 7 BY <1>2, Wiring
    <3> QED BY <3>1, <3>2
  <2>3. isr' = Eoi(isr, Master) BY <2>1, <2>2 DEF irq_dispatch, pic_send_eoi
  <2>4. isr \cap Master = {vector} BY <1>2
  <2>5. isr' = isr \ {vector} BY Zenon, <1>1, <2>3, <2>4, EoiEnds
  <2> QED BY <1>0, <1>2, <2>1, <2>2, <2>5
<1>3. CASE vector = 7 /\ isr = {}
  BY <1>0, <1>3 DEF pic_begin_irq, irq_dispatch, Abandoned
<1>4. CASE vector \in Slave /\ isr = {Cascade, vector}
  <2>1. pic_begin_irq(vector) /\ vector \in isr BY <1>4 DEF pic_begin_irq
  <2>2. vector \in Irq /\ vector >= 8 BY <1>4 DEF Slave
  <2>3. isr' = Eoi(Eoi(isr, Slave), Master) BY <2>1, <2>2 DEF irq_dispatch, pic_send_eoi
  <2>4. isr \cap Slave = {vector} BY <1>4, Wiring
  <2>5. Eoi(isr, Slave) = isr \ {vector} BY Zenon, <1>1, <2>4, EoiEnds
  <2>6. isr \ {vector} = {Cascade} /\ {Cascade} \cap Master = {Cascade} BY <1>4, Wiring
  <2>7. Eoi({Cascade}, Master) = {Cascade} \ {Cascade} BY Zenon, <1>1, <2>6, EoiEnds
  <2>8. isr' = {} BY <2>3, <2>5, <2>6, <2>7
  <2> QED BY <1>0, <2>1, <2>2, <2>8
<1>5. CASE vector = 15 /\ isr = {Cascade}
  <2>1. ~pic_begin_irq(vector) /\ vector \notin isr BY <1>5 DEF pic_begin_irq, Cascade
  <2>2. isr' = Eoi(isr, Master) BY <1>5, <2>1 DEF irq_dispatch, Abandoned
  <2>3. isr \cap Master = {Cascade} BY <1>5, Wiring
  <2>4. isr' = isr \ {Cascade} BY Zenon, <1>1, <2>2, <2>3, EoiEnds
  <2> QED BY <1>0, <1>5, <2>1, <2>4
<1> QED BY <1>0, <1>2, <1>3, <1>4, <1>5 DEF InService

\* Every step of the hardware and the driver keeps the invariant.
LEMMA PicStep == PicInv /\ [PicNext]_pic_vars => PicInv'
<1> SUFFICES ASSUME PicInv, [PicNext]_pic_vars PROVE PicInv' OBVIOUS
<1>1. CASE pic_remap
  <2>1. /\ master_mask' = Master /\ slave_mask' = Slave /\ imr' = Master \cup Slave
        /\ isr' = {} /\ cpu' = cpu /\ last' = last /\ cpu = "running"
    BY <1>1 DEF pic_remap, Write, PicInv
  <2> QED BY <2>1, Wiring DEF PicInv, MasksAgree, InService
<1>2. ASSUME NEW i \in Irq, Raise(i) \/ Drop(i) PROVE PicInv'
  <2>1. UNCHANGED <<isr, imr, master_mask, slave_mask, cpu, vector, started, last>>
    BY <1>2 DEF Raise, Drop
  <2> QED BY <2>1 DEF PicInv, MasksAgree, InService
<1>3. ASSUME NEW i \in Irq, NEW m \in {pic_mask(Masks, i), pic_unmask(Masks, i)}, SetMask(m)
      PROVE  PicInv'
  <2>1. Write(m) /\ UNCHANGED <<isr, cpu, vector, started, last>> BY <1>3 DEF SetMask
  <2>2. MasksAgree' BY Zenon, <2>1, MaskAgrees DEF PicInv
  <2>3. InService => InService' BY <2>1 DEF InService
  <2> QED BY Zenon, <2>1, <2>2, <2>3 DEF PicInv
<1>4. CASE Accept \/ UNCHANGED pic_vars
  <2>1. /\ UNCHANGED <<isr, imr, master_mask, slave_mask, vector, started, last>>
        /\ cpu' = cpu \/ (started /\ cpu = "running" /\ cpu' = "accepted")
    BY <1>4 DEF Accept, pic_vars
  <2> QED BY <2>1 DEF PicInv, MasksAgree, InService
<1>5. CASE AnswerMaster \/ AnswerSlave
  <2>1. UNCHANGED <<imr, master_mask, slave_mask, started, last>> /\ cpu # "running"
    BY <1>5 DEF AnswerMaster, AnswerSlave
  <2>2. started /\ InService BY <2>1 DEF PicInv
  <2>3. InService' BY <1>5, <2>2, MasterAnswers, SlaveAnswers
  <2>4. MasksAgree' BY <2>1 DEF PicInv, MasksAgree
  <2> QED BY Zenon, <2>1, <2>2, <2>3, <2>4 DEF PicInv
<1>6. CASE irq_dispatch
  <2>1. cpu = "vector" /\ started' = started BY <1>6 DEF irq_dispatch
  <2>2. started /\ InService BY <2>1 DEF PicInv
  <2>3. /\ pic_begin_irq(vector) <=> vector \in isr
        /\ pic_begin_irq(vector) => vector \in Irq
        /\ isr' = {} /\ cpu' = "running"
    BY <1>6, <2>2, DispatchEnds
  <2>4. MasksAgree'
    <3>1. CASE pic_begin_irq(vector) /\ vector \notin Driven
      <4>1. Write(pic_mask(Masks, vector)) BY Zenon, <1>6, <3>1 DEF irq_dispatch
      <4> QED BY Zenon, <2>3, <3>1, <4>1, MaskAgrees DEF PicInv
    <3>2. CASE ~ (pic_begin_irq(vector) /\ vector \notin Driven)
      <4>1. UNCHANGED <<master_mask, slave_mask, imr>> BY Zenon, <1>6, <3>2 DEF irq_dispatch
      <4> QED BY <4>1 DEF PicInv, MasksAgree
    <3> QED BY <3>1, <3>2
  <2>5. last'.real = last'.treated
    <3>1. last' = [real |-> vector \in isr, treated |-> pic_begin_irq(vector)]
      BY Zenon, <1>6 DEF irq_dispatch
    <3>2. (vector \in isr) = pic_begin_irq(vector) BY <2>3 DEF pic_begin_irq
    <3> QED BY Zenon, <3>1, <3>2
  <2>6. InService' BY <2>3 DEF InService
  <2> QED BY Zenon, <2>1, <2>2, <2>4, <2>5, <2>6 DEF PicInv
<1> QED BY Zenon, <1>1, <1>2, <1>3, <1>4, <1>5, <1>6 DEF PicNext

\* Whatever lines are wired, raised and dropped, and whatever the drivers mask: no line
\* is left in service, the masks and the cascade agree with what the driver believes,
\* and an interrupt is handled exactly if a device asked for it (irq_dispatch,
\* pic_begin_irq, pic_send_eoi, pic_mask, pic_unmask).
THEOREM PicAlwaysSound == PicSpec => []PicSound
<1>1. PicInit => PicInv
  <2> SUFFICES ASSUME PicInit PROVE PicInv OBVIOUS
  <2>1. MasksAgree BY Wiring DEF PicInit, MasksAgree
  <2>2. last.real = last.treated BY DEF PicInit
  <2> QED BY <2>1, <2>2 DEF PicInit, PicInv
<1>2. PicInv /\ [PicNext]_pic_vars => PicInv' BY PicStep
<1>3. PicInv => PicSound
  <2> SUFFICES ASSUME PicInv PROVE PicSound OBVIOUS
  <2>0. MasksAgree BY DEF PicInv
  <2>1. Cascade \notin imr <=> Slave \ slave_mask # {}
    <3>1. Cascade \in imr <=> slave_mask = Slave BY <2>0, Wiring DEF MasksAgree
    <3>2. slave_mask = Slave <=> Slave \ slave_mask = {} BY <2>0 DEF MasksAgree
    <3> QED BY Zenon, <3>1, <3>2
  <2>2. started /\ cpu = "running" => isr = {} BY DEF PicInv, InService
  <2> QED BY Zenon, <2>1, <2>2 DEF PicInv, MasksAgree, PicSound
<1> QED BY <1>1, <1>2, <1>3, PTL DEF PicSpec

-----------------------------------------------------------------------------
(* The network card: the geometry of a ring                                *)

Prev(i) == IF i = 0 THEN RingCount - 1 ELSE i - 1

\* How far i is ahead of n.
Ahead(n, i) == IF i >= n THEN i - n ELSE i - n + RingCount

\* The next index without the remainder.
LEMMA NextIs ==
  ASSUME NEW i \in Index
  PROVE  /\ NextIndex(i) = IF i + 1 = RingCount THEN 0 ELSE i + 1
         /\ NextIndex(i) \in Index /\ Prev(i) \in Index
         /\ NextIndex(i) # i
         /\ Prev(NextIndex(i)) = i /\ NextIndex(Prev(i)) = i
<1>1. RingCount \in Nat /\ RingCount >= 2 BY CardAssumption
<1>2. ASSUME NEW j \in Index PROVE NextIndex(j) = IF j + 1 = RingCount THEN 0 ELSE j + 1
  <2>1. CASE j + 1 = RingCount BY <1>1, <2>1 DEF NextIndex, Index
  <2>2. CASE j + 1 # RingCount
    <3>1. j + 1 \in 0 .. (RingCount - 1) BY <1>1, <2>2 DEF Index
    <3> QED BY <1>1, <2>2, <3>1 DEF NextIndex
  <2> QED BY <2>1, <2>2
<1>3. Prev(i) \in Index BY <1>1 DEF Prev, Index
<1> QED BY <1>1, <1>2, <1>3 DEF Index, Prev

\* The place before, as the driver computes it.
LEMMA PrevIs ==
  ASSUME NEW x \in Index
  PROVE  PrevIndex(x) = Prev(x)
<1>1. RingCount \in Nat /\ RingCount >= 2 BY CardAssumption
<1>2. x \in Int /\ 0 <= x /\ x < RingCount BY <1>1 DEF Index
<1>3. (x + RingCount - 1) % RingCount = IF x = 0 THEN RingCount - 1 ELSE x - 1
  <2>1. CASE x = 0
    <3>1. x + RingCount - 1 = RingCount - 1 BY <1>1, <2>1
    <3>2. (RingCount - 1) % RingCount = RingCount - 1 BY <1>1
    <3> QED BY <2>1, <3>1, <3>2
  <2>2. CASE x # 0
    <3>1. x + RingCount - 1 = RingCount + (x - 1) BY <1>1, <1>2
    <3>2. (RingCount + (x - 1)) % RingCount = x - 1 BY <1>1, <1>2, <2>2
    <3> QED BY <2>2, <3>1, <3>2
  <2> QED BY <2>1, <2>2
<1> QED BY <1>3 DEF PrevIndex, Prev

\* Where the transmit that waits was written.
LEMMA CurrentIs ==
  ASSUME drv.tx_next \in Index
  PROVE  Current = Prev(drv.tx_next)
BY PrevIs DEF Current

\* Distances on the ring, and how a step forward changes them.
LEMMA Distances ==
  ASSUME NEW n \in Index, NEW i \in Index
  PROVE  /\ Ahead(n, i) \in Nat /\ Ahead(n, i) < RingCount
         /\ \A j \in Index : Ahead(n, i) = Ahead(n, j) => i = j
         /\ Ahead(n, i) = 0 <=> i = n
         /\ i # Prev(n) => Ahead(n, NextIndex(i)) = Ahead(n, i) + 1 /\ NextIndex(i) # n
         /\ i # n => Ahead(n, Prev(i)) = Ahead(n, i) - 1
         /\ i # n => Ahead(NextIndex(n), i) = Ahead(n, i) - 1
         /\ Ahead(NextIndex(n), n) = RingCount - 1
<1>1. RingCount \in Nat /\ RingCount >= 2 BY CardAssumption
<1>2. /\ NextIndex(i) = IF i + 1 = RingCount THEN 0 ELSE i + 1
      /\ NextIndex(n) = IF n + 1 = RingCount THEN 0 ELSE n + 1
  BY NextIs
<1>3. /\ i \in Int /\ 0 <= i /\ i < RingCount /\ n \in Int /\ 0 <= n /\ n < RingCount
  BY <1>1 DEF Index
<1>4. Ahead(n, i) \in Nat /\ Ahead(n, i) < RingCount /\ (Ahead(n, i) = 0 <=> i = n)
  BY <1>1, <1>3 DEF Ahead
<1>5. \A j \in Index : Ahead(n, i) = Ahead(n, j) => i = j BY <1>1, <1>3 DEF Ahead, Index
<1>6. i # Prev(n) => Ahead(n, NextIndex(i)) = Ahead(n, i) + 1 /\ NextIndex(i) # n
  BY <1>1, <1>2, <1>3 DEF Ahead, Prev
<1>7. i # n => Ahead(n, Prev(i)) = Ahead(n, i) - 1 BY <1>1, <1>3 DEF Ahead, Prev
<1>8. i # n => Ahead(NextIndex(n), i) = Ahead(n, i) - 1 BY <1>1, <1>2, <1>3 DEF Ahead
<1>9. Ahead(NextIndex(n), n) = RingCount - 1 BY <1>1, <1>2, <1>3 DEF Ahead
<1> QED BY <1>4, <1>5, <1>6, <1>7, <1>8, <1>9

-----------------------------------------------------------------------------
(* The network card: the inductive invariant                               *)

Descriptor == [done : BOOLEAN, frame : Nat, eop : BOOLEAN, error : BOOLEAN, part : {0, 1, 2}]
Whole == [frame : Nat, part : Nat]
Asleep == {"down", "mapping", "enabled", "dead"}

CardType ==
    /\ DOMAIN drv = {"at", "ready", "quarantined", "discarding", "rx_next", "tx_next", "seen"}
    /\ DOMAIN card = {"dma", "rdh", "rdt", "tdh", "tdt", "frames", "rest", "rxon", "txon"}
    /\ drv.rx_next \in Index /\ drv.tx_next \in Index
    /\ card.rdh \in Index /\ card.tdh \in Index /\ card.frames \in Nat /\ card.rest \in Nat
    /\ rx \in [Index -> Descriptor]
    /\ tx \in [Index -> [done : BOOLEAN, error : BOOLEAN]]
    /\ arrived \in Seq(Whole) /\ got \in Seq(Whole)
    /\ posted \in Seq(Nat) /\ wire \in Seq(Nat) /\ buffer \in Nat

\* The driver is ready only once the card is set up, and the pages are there as long as
\* the card can reach them.
LifeOK ==
    /\ drv.at \in Asleep => ~drv.ready
    /\ ~(drv.ready /\ drv.quarantined)
    /\ drv.at \in {"down", "mapping"} => ~card.dma
    /\ drv.at = "mapping" => pages = "held"
    /\ card.dma => pages = "held"
    /\ pages \in {"none", "held", "freed"}

\* The descriptors the card has stored and the driver has not taken.
Stored(i) == Ahead(drv.rx_next, i) < Ahead(drv.rx_next, card.rdh)

\* The descriptor before i does not end its frame.
Cut(i) == IF i = drv.rx_next THEN drv.discarding ELSE ~rx[Prev(i)].eop

Good(d) == d.part = 1 /\ d.eop /\ ~d.error

\* The card's part of the ring ends before the last descriptor the driver gave back; the
\* one it has taken and not given back yet is not the card's.
TailOK ==
    /\ card.rdt = IF drv.at = "give" THEN Prev(Prev(drv.rx_next)) ELSE Prev(drv.rx_next)
    /\ drv.at = "give" => card.rdh # Prev(drv.rx_next)

\* The stored descriptors are those that are done; each continues what the one before
\* it began; their frames come in order.
RingOK ==
    /\ \A i \in Index : rx[i].done <=> Stored(i)
    /\ \A i \in Index : Stored(i) =>
          /\ rx[i].part \in {1, 2} /\ rx[i].frame <= card.frames
          /\ rx[i].part = 2 <=> Cut(i)
          /\ rx[i].part = 2 => rx[i].eop
    /\ card.rest # NoFrame <=> Cut(card.rdh)
    /\ card.rest <= card.frames
    /\ \A i, j \in Index :
          Stored(j) /\ rx[j].part = 1 /\ Ahead(drv.rx_next, i) < Ahead(drv.rx_next, j)
             => rx[i].frame < rx[j].frame

\* What has arrived and was not returned yet is what is whole and correct in the ring.
ArrivedOK ==
    /\ \A j \in 1 .. Len(arrived) : arrived[j].part = 1 /\ arrived[j].frame <= card.frames
    /\ \A j, k \in 1 .. Len(arrived) : j < k => arrived[j].frame < arrived[k].frame
    /\ \A j \in 1 .. Len(arrived) : j > Len(got) =>
          \E i \in Index : Stored(i) /\ Good(rx[i]) /\ rx[i].frame = arrived[j].frame
    /\ \A i \in Index : Stored(i) /\ Good(rx[i]) =>
          \E j \in 1 .. Len(arrived) : j > Len(got) /\ rx[i].frame = arrived[j].frame
    /\ FramesWhole

\* One transmit at most is under way, and while it is the buffer is not refilled.
Outstanding ==
    /\ NextIndex(card.tdh) = card.tdt
    /\ Len(posted) = Len(wire) + 1 /\ buffer = posted[Len(posted)]
    /\ ~tx[card.tdh].done
    /\ drv.at = "transmit" \/ (drv.at = "idle" /\ ~drv.ready)

SendOK ==
    /\ card.tdt = drv.tx_next
    /\ (card.tdh = card.tdt /\ Len(wire) = Len(posted)) \/ Outstanding
    /\ \A i \in 1 .. Len(wire) : i <= Len(posted) /\ wire[i] = posted[i]

CardInv == CardType /\ LifeOK /\ TailOK /\ RingOK /\ ArrivedOK /\ SendOK

\* Steps that touch nothing of the receive side.
LEMMA ReceiveUntouched ==
  ASSUME RingOK, ArrivedOK, UNCHANGED <<rx, arrived, got>>,
         card'.rdh = card.rdh, card'.rest = card.rest, card'.frames = card.frames,
         drv'.rx_next = drv.rx_next, drv'.discarding = drv.discarding
  PROVE  RingOK' /\ ArrivedOK'
<1>1. \A i : Stored(i)' <=> Stored(i) BY DEF Stored
<1>2. \A i : Cut(i)' <=> Cut(i) BY DEF Cut
<1>3. RingOK' BY Zenon, <1>1, <1>2 DEF RingOK
<1>4. ArrivedOK' BY Zenon, <1>1 DEF ArrivedOK, FramesWhole
<1> QED BY <1>3, <1>4

\* Steps that give no descriptor back and take none.
LEMMA TailUntouched ==
  ASSUME TailOK, card'.rdh = card.rdh, card'.rdt = card.rdt, drv'.rx_next = drv.rx_next,
         drv'.at = "give" <=> drv.at = "give"
  PROVE  TailOK'
BY Zenon DEF TailOK

\* Steps that touch nothing of the transmit side, and do not make a failed driver ready.
LEMMA SendUntouched ==
  ASSUME SendOK, UNCHANGED <<tx, buffer, posted, wire>>,
         card'.tdh = card.tdh, card'.tdt = card.tdt, drv'.tx_next = drv.tx_next,
         \/ drv'.at = drv.at /\ drv'.ready = drv.ready
         \/ drv.at # "transmit" /\ (drv.at = "idle" => drv.ready)
         \/ drv'.at = "idle" /\ ~drv'.ready
  PROVE  SendOK'
<1>1. Outstanding => Outstanding' BY DEF Outstanding
<1> QED BY <1>1 DEF SendOK

\* The card stores d where it stands: the start of the next frame or the rest of the
\* last one.
Puts(d) ==
    /\ card.rdh # card.rdt /\ card'.rdh = NextIndex(card.rdh) /\ card'.rdt = card.rdt
    /\ card'.frames \in Nat /\ card.frames <= card'.frames
    /\ card'.rest \in Nat /\ card'.rest <= card'.frames
    /\ card'.rest # NoFrame <=> ~d.eop
    /\ d.done /\ d.part \in {1, 2} /\ (d.part = 2 => d.eop) /\ (d.part = 2 <=> card.rest # NoFrame)
    /\ d.frame <= card'.frames /\ (d.part = 1 => card.frames < d.frame)
    /\ rx' = [rx EXCEPT ![card.rdh] = d]
    /\ arrived' = IF Good(d) THEN Append(arrived, [frame |-> d.frame, part |-> 1]) ELSE arrived
    /\ UNCHANGED <<drv, got>>

\* What is stored extends the ring and what has arrived.
LEMMA StoreKeeps ==
  ASSUME CardType, TailOK, RingOK, ArrivedOK, NEW d \in Descriptor, Puts(d)
  PROVE  TailOK' /\ RingOK' /\ ArrivedOK'
<1> DEFINE n == drv.rx_next
           h == card.rdh
<1>a. h # card.rdt /\ card'.rdh = NextIndex(h) /\ card'.rdt = card.rdt /\ drv' = drv /\ got' = got BY DEF Puts
<1>b. card'.frames \in Nat /\ card.frames <= card'.frames /\ card'.rest \in Nat /\ card'.rest <= card'.frames
  BY DEF Puts
<1>c. /\ card'.rest # NoFrame <=> ~d.eop
      /\ d.done /\ d.part \in {1, 2} /\ (d.part = 2 => d.eop) /\ (d.part = 2 <=> card.rest # NoFrame)
      /\ d.frame <= card'.frames /\ (d.part = 1 => card.frames < d.frame)
  BY DEF Puts
<1>1. n \in Index /\ h \in Index /\ h # Prev(n) /\ card.frames \in Nat /\ rx \in [Index -> Descriptor]
  BY Zenon, <1>a DEF CardType, TailOK
<1>2. rx'[h] = d /\ \A i \in Index : i # h => rx'[i] = rx[i] BY <1>1 DEF Puts
<1>3. \A i \in Index : Ahead(n, i) \in Nat /\ (Ahead(n, i) = Ahead(n, h) => i = h)
  BY <1>1, Distances
<1>4. Ahead(n, NextIndex(h)) = Ahead(n, h) + 1 /\ NextIndex(h) # n /\ Prev(NextIndex(h)) = h
  <2> HIDE DEF n, h
  <2>1. Ahead(n, NextIndex(h)) = Ahead(n, h) + 1 /\ NextIndex(h) # n BY <1>1, Distances
  <2>2. Prev(NextIndex(h)) = h BY <1>1, NextIs
  <2> QED BY <2>1, <2>2
<1>5. \A i \in Index : Stored(i)' <=> Stored(i) \/ i = h
  <2> SUFFICES ASSUME NEW i \in Index PROVE Stored(i)' <=> Stored(i) \/ i = h OBVIOUS
  <2>1. Stored(i)' <=> Ahead(n, i) < Ahead(n, h) + 1 BY <1>4, <1>a DEF Stored
  <2>2. Stored(i) <=> Ahead(n, i) < Ahead(n, h) BY DEF Stored
  <2> HIDE DEF n, h
  <2> QED BY <1>1, <1>3, <2>1, <2>2
<1>6. ~Stored(h) BY <1>1, <1>3 DEF Stored
<1>7. \A i \in Index : Stored(i) \/ i = h => (Cut(i)' <=> Cut(i))
  <2> SUFFICES ASSUME NEW i \in Index, Stored(i) \/ i = h PROVE Cut(i)' <=> Cut(i) OBVIOUS
  <2>1. CASE i = n BY <1>a, <2>1 DEF Cut
  <2>2. CASE i # n
    <3>1. Prev(i) \in Index /\ Ahead(n, Prev(i)) = Ahead(n, i) - 1
      <4> HIDE DEF n
      <4>1. Ahead(n, Prev(i)) = Ahead(n, i) - 1 BY <1>1, <2>2, Distances
      <4>2. Prev(i) \in Index BY NextIs
      <4> QED BY <4>1, <4>2
    <3>2. Ahead(n, i) <= Ahead(n, h) BY <1>1, <1>3 DEF Stored
    <3>3. Prev(i) # h
      <4> HIDE DEF n, h
      <4> QED BY <1>1, <1>3, <3>1, <3>2
    <3> QED BY <1>2, <1>a, <2>2, <3>1, <3>3 DEF Cut
  <2> QED BY <2>1, <2>2
<1>8. card'.rest # NoFrame <=> Cut(card.rdh)'
  BY <1>2, <1>4, <1>a, <1>c DEF Cut
<1>9. RingOK'
  <2>2. \A i \in Index : rx'[i].done <=> Stored(i)' BY Zenon, <1>2, <1>5, <1>6, <1>c DEF RingOK
  <2>3. ASSUME NEW i \in Index, Stored(i)'
        PROVE  /\ rx'[i].part \in {1, 2} /\ rx'[i].frame <= card'.frames
               /\ rx'[i].part = 2 <=> Cut(i)'
               /\ rx'[i].part = 2 => rx'[i].eop
    <3>1. CASE i = h
      <4>1. Cut(h) <=> card.rest # NoFrame BY Zenon DEF RingOK
      <4> QED BY <1>2, <1>7, <1>c, <3>1, <4>1
    <3>2. CASE i # h
      <4>1. Stored(i) /\ rx'[i] = rx[i] BY <1>2, <1>5, <2>3, <3>2
      <4>2. rx[i].frame \in Nat BY <1>1 DEF Descriptor
      <4>3. /\ rx[i].part \in {1, 2} /\ rx[i].frame <= card.frames
            /\ rx[i].part = 2 <=> Cut(i)
            /\ rx[i].part = 2 => rx[i].eop
        BY Zenon, <4>1 DEF RingOK
      <4>4. rx'[i].frame <= card'.frames BY <1>1, <1>b, <4>1, <4>2, <4>3
      <4> QED BY Zenon, <1>7, <4>1, <4>3, <4>4
    <3> QED BY Zenon, <3>1, <3>2
  <2>4. ASSUME NEW i \in Index, NEW j \in Index, Stored(j)', rx'[j].part = 1, Ahead(n, i) < Ahead(n, j)
        PROVE  rx'[i].frame < rx'[j].frame
    <3>1. i # h
      BY <1>1, <1>3, <1>5, <2>4 DEF Stored
    <3>2. rx'[i] = rx[i] /\ rx[i].frame \in Nat BY <1>1, <1>2, <3>1 DEF Descriptor
    <3>3. CASE j = h
      <4>1. Stored(i) BY <2>4, <3>3 DEF Stored
      <4>2. rx[i].frame <= card.frames BY Zenon, <4>1 DEF RingOK
      <4>3. rx'[j].part = 1 /\ rx'[j] = d /\ d.frame \in Nat BY <1>2, <2>4, <3>3 DEF Descriptor
      <4> QED BY <1>1, <1>c, <3>2, <4>2, <4>3
    <3>4. CASE j # h
      <4>1. Stored(j) /\ rx'[j] = rx[j] BY <1>2, <1>5, <2>4, <3>4
      <4> QED BY Zenon, <2>4, <3>2, <4>1 DEF RingOK
    <3> QED BY <3>3, <3>4
  <2> QED BY Zenon, <1>8, <1>a, <1>b, <2>2, <2>3, <2>4 DEF RingOK
<1>10. ArrivedOK'
  <2> DEFINE L == Len(arrived)
             G == Len(got)
  <2>1. L \in Nat /\ G \in Nat /\ G <= L /\ arrived \in Seq(Whole) /\ got' = got
    BY <1>a DEF CardType, ArrivedOK, FramesWhole
  <2>2. \A j \in 1 .. L : arrived[j].frame \in Nat
    <3>1. \A j \in 1 .. L : arrived[j] \in Whole BY <2>1
    <3> QED BY <3>1 DEF Whole
  <2>3. CASE ~Good(d)
    <3>1. arrived' = arrived BY Zenon, <2>3 DEF Puts
    <3>2. \A i \in Index : Stored(i)' /\ Good(rx'[i]) <=> Stored(i) /\ Good(rx[i])
      BY <1>2, <1>5, <1>6, <2>3
    <3>3. \A i \in Index : Stored(i) => rx'[i] = rx[i] BY <1>2, <1>6
    <3>4. \A j \in 1 .. L : arrived[j].part = 1 /\ arrived[j].frame <= card'.frames
      <4>1. \A j \in 1 .. L : arrived[j].part = 1 /\ arrived[j].frame <= card.frames BY Zenon DEF ArrivedOK
      <4> HIDE DEF L
      <4> QED BY <1>1, <1>b, <2>2, <4>1
    <3>5. \A j, k \in 1 .. L : j < k => arrived[j].frame < arrived[k].frame BY Zenon DEF ArrivedOK
    <3>6. Len(arrived') = L /\ Len(got') = G BY <2>1, <3>1
    <3>7. FramesWhole'
      <4>1. FramesWhole BY Zenon DEF ArrivedOK
      <4> QED BY Zenon, <2>1, <3>1, <4>1 DEF FramesWhole
    <3>8. ASSUME NEW j \in 1 .. L, j > G
          PROVE  \E i \in Index : Stored(i)' /\ Good(rx'[i]) /\ rx'[i].frame = arrived[j].frame
      <4>1. PICK i \in Index : Stored(i) /\ Good(rx[i]) /\ rx[i].frame = arrived[j].frame
        BY <3>8 DEF ArrivedOK
      <4>2. Stored(i)' /\ Good(rx'[i]) BY Zenon, <3>2, <4>1
      <4>3. rx'[i] = rx[i] BY Zenon, <3>3, <4>1
      <4> QED BY Zenon, <4>1, <4>2, <4>3
    <3>9. ASSUME NEW i \in Index, Stored(i)', Good(rx'[i])
          PROVE  \E j \in 1 .. L : j > G /\ rx'[i].frame = arrived[j].frame
      <4>1. Stored(i) /\ Good(rx[i]) BY Zenon, <3>2, <3>9
      <4>2. rx'[i] = rx[i] BY Zenon, <3>3, <4>1
      <4>3. PICK j \in 1 .. L : j > G /\ rx[i].frame = arrived[j].frame BY <4>1 DEF ArrivedOK
      <4> QED BY Zenon, <4>2, <4>3
    <3> HIDE DEF L, G
    <3> QED BY ZenonT(30), <3>1, <3>4, <3>5, <3>6, <3>7, <3>8, <3>9 DEF ArrivedOK
  <2>4. CASE Good(d)
    <3> DEFINE e == [frame |-> d.frame, part |-> 1]
    <3>0. d.frame \in Nat /\ e \in Whole /\ e.frame = d.frame /\ e.part = 1 /\ d.part = 1
      BY <2>4 DEF Descriptor, Whole, Good
    <3> HIDE DEF e
    <3>1. /\ arrived' = Append(arrived, e) /\ Len(arrived') = L + 1 /\ arrived'[L + 1] = e
          /\ \A j \in 1 .. L : arrived'[j] = arrived[j]
      BY <2>1, <2>4, <3>0 DEF e, Puts
    <3>2. \A j \in 1 .. (L + 1) : arrived'[j].part = 1 /\ arrived'[j].frame <= card'.frames
      <4> SUFFICES ASSUME NEW j \in 1 .. (L + 1)
                   PROVE  arrived'[j].part = 1 /\ arrived'[j].frame <= card'.frames
        OBVIOUS
      <4>1. CASE j = L + 1 BY Zenon, <1>c, <3>0, <3>1, <4>1
      <4>2. CASE j \in 1 .. L
        <5>1. arrived'[j] = arrived[j] /\ arrived[j].part = 1 /\ arrived[j].frame <= card.frames
          BY Zenon, <3>1, <4>2 DEF ArrivedOK
        <5>2. arrived[j].frame \in Nat /\ card.frames \in Nat BY Zenon, <1>1, <2>2, <4>2
        <5> HIDE DEF L
        <5> QED BY <1>b, <5>1, <5>2
      <4> QED BY <2>1, <4>1, <4>2
    <3>3. \A j, k \in 1 .. (L + 1) : j < k => arrived'[j].frame < arrived'[k].frame
      <4> SUFFICES ASSUME NEW j \in 1 .. (L + 1), NEW k \in 1 .. (L + 1), j < k
                   PROVE  arrived'[j].frame < arrived'[k].frame
        OBVIOUS
      <4>1. j \in 1 .. L BY <2>1
      <4>2. CASE k = L + 1
        <5>1. arrived[j].frame <= card.frames /\ card.frames < d.frame BY Zenon, <1>c, <3>0, <4>1 DEF ArrivedOK
        <5>2. arrived'[k].frame = d.frame /\ arrived'[j].frame = arrived[j].frame
          BY Zenon, <3>0, <3>1, <4>1, <4>2
        <5>3. arrived[j].frame \in Nat /\ card.frames \in Nat /\ d.frame \in Nat
          BY Zenon, <1>1, <2>2, <3>0, <4>1
        <5> HIDE DEF L
        <5> QED BY <5>1, <5>2, <5>3
      <4>3. CASE k \in 1 .. L BY <3>1, <4>1, <4>3 DEF ArrivedOK
      <4>4. k = L + 1 \/ k \in 1 .. L
        <5> HIDE DEF L
        <5> QED BY <2>1
      <4> QED BY <4>2, <4>3, <4>4
    <3>4. ASSUME NEW j \in 1 .. (L + 1), j > G
          PROVE  \E i \in Index : Stored(i)' /\ Good(rx'[i]) /\ rx'[i].frame = arrived'[j].frame
      <4>1. CASE j = L + 1 BY Zenon, <1>1, <1>2, <1>5, <2>4, <3>0, <3>1, <4>1
      <4>2. CASE j \in 1 .. L
        <5>1. PICK i \in Index : Stored(i) /\ Good(rx[i]) /\ rx[i].frame = arrived[j].frame
          BY Zenon, <3>4, <4>2 DEF ArrivedOK
        <5>2. rx'[i] = rx[i] /\ Stored(i)' BY <1>2, <1>5, <1>6, <5>1
        <5> QED BY Zenon, <3>1, <4>2, <5>1, <5>2
      <4> QED BY <2>1, <4>1, <4>2
    <3>5. ASSUME NEW i \in Index, Stored(i)', Good(rx'[i])
          PROVE  \E j \in 1 .. (L + 1) : j > G /\ rx'[i].frame = arrived'[j].frame
      <4>1. CASE i = h
        <5>1. L + 1 \in 1 .. (L + 1) /\ L + 1 > G BY <2>1
        <5> QED BY <1>2, <3>0, <3>1, <4>1, <5>1
      <4>2. CASE i # h
        <5>1. Stored(i) /\ rx'[i] = rx[i] BY <1>2, <1>5, <3>5, <4>2
        <5>2. PICK j \in 1 .. L : j > G /\ rx[i].frame = arrived[j].frame
          BY Zenon, <3>5, <5>1 DEF ArrivedOK
        <5>3. j \in 1 .. (L + 1) BY <2>1
        <5> QED BY <3>1, <5>1, <5>2, <5>3
      <4> QED BY <4>1, <4>2
    <3>6. FramesWhole'
      <4>1. \A j \in 1 .. G : got[j] = arrived[j] BY Zenon DEF ArrivedOK, FramesWhole
      <4>2. ASSUME NEW j \in 1 .. G PROVE j \in 1 .. L BY <2>1
      <4>3. \A j \in 1 .. G : got[j] = arrived'[j] BY Zenon, <3>1, <4>1, <4>2
      <4>4. Len(got') <= Len(arrived') BY <2>1, <3>1
      <4> QED BY Zenon, <2>1, <4>3, <4>4 DEF FramesWhole
    <3>7. Len(got') = G BY <2>1
    <3> HIDE DEF L, G
    <3> QED BY ZenonT(60), <3>1, <3>2, <3>3, <3>4, <3>5, <3>6, <3>7 DEF ArrivedOK
  <2> QED BY <2>3, <2>4
<1>11. TailOK'
  <2>1. CASE drv.at # "give" BY Zenon, <1>a, <2>1 DEF TailOK
  <2>2. CASE drv.at = "give"
    <3>1. h # Prev(Prev(n)) BY Zenon, <1>a, <2>2 DEF TailOK
    <3>2. NextIndex(h) # Prev(n)
      <4> HIDE DEF n, h
      <4> QED BY Zenon, <1>4, <3>1
    <3> QED BY Zenon, <1>a, <2>2, <3>2 DEF TailOK
  <2> QED BY Zenon, <2>1, <2>2
<1> QED BY <1>9, <1>10, <1>11

\* One entry of a function is replaced.
LEMMA OneEntry ==
  ASSUME NEW S, NEW T, NEW f \in [S -> T], NEW i \in S, NEW d \in T
  PROVE  /\ [f EXCEPT ![i] = d] \in [S -> T] /\ [f EXCEPT ![i] = d][i] = d
         /\ \A j \in S : j # i => [f EXCEPT ![i] = d][j] = f[j]
OBVIOUS

\* A descriptor that is given back is not done, and the others stay as they are.
LEMMA GivenBack ==
  ASSUME NEW r \in [Index -> Descriptor], NEW i \in Index
  PROVE  \A s : s = [r EXCEPT ![i].done = FALSE, ![i].error = FALSE, ![i].eop = FALSE] =>
           /\ s \in [Index -> Descriptor] /\ ~s[i].done
           /\ \A j \in Index : j # i => s[j] = r[j]
<1>1. \A d \in Descriptor, b \in BOOLEAN :
        /\ [d EXCEPT !.done = b] \in Descriptor /\ [d EXCEPT !.done = b].done = b
        /\ [d EXCEPT !.error = b] \in Descriptor /\ [d EXCEPT !.error = b].done = d.done
        /\ [d EXCEPT !.eop = b] \in Descriptor /\ [d EXCEPT !.eop = b].done = d.done
  BY DEF Descriptor
<1> DEFINE d1 == [r[i] EXCEPT !.done = FALSE]
           r1 == [r EXCEPT ![i] = d1]
           d2 == [r1[i] EXCEPT !.error = FALSE]
           r2 == [r1 EXCEPT ![i] = d2]
           d3 == [r2[i] EXCEPT !.eop = FALSE]
           r3 == [r2 EXCEPT ![i] = d3]
<1>2. [r EXCEPT ![i].done = FALSE, ![i].error = FALSE, ![i].eop = FALSE] = r3 BY Zenon
<1>3. d1 \in Descriptor /\ d1.done = FALSE BY Zenon, <1>1
<1> HIDE DEF d1
<1>4. r1 \in [Index -> Descriptor] /\ r1[i] = d1 /\ \A j \in Index : j # i => r1[j] = r[j]
  BY Zenon, OneEntry, <1>3
<1> HIDE DEF r1
<1>5. d2 \in Descriptor /\ d2.done = FALSE BY Zenon, <1>1, <1>3, <1>4
<1> HIDE DEF d2
<1>6. r2 \in [Index -> Descriptor] /\ r2[i] = d2 /\ \A j \in Index : j # i => r2[j] = r[j]
  BY Zenon, OneEntry, <1>4, <1>5
<1> HIDE DEF r2
<1>7. d3 \in Descriptor /\ d3.done = FALSE BY Zenon, <1>1, <1>5, <1>6
<1> HIDE DEF d3
<1>8. r3 \in [Index -> Descriptor] /\ r3[i] = d3 /\ \A j \in Index : j # i => r3[j] = r[j]
  BY Zenon, OneEntry, <1>6, <1>7
<1> HIDE DEF r3
<1> QED BY Zenon, <1>2, <1>7, <1>8

\* The driver takes the descriptor it stands at: what it returns is the next frame that
\* arrived.
LEMMA TakeKeeps ==
  ASSUME CardType, TailOK, RingOK, ArrivedOK, TakeDescriptor
  PROVE  TailOK' /\ RingOK' /\ ArrivedOK'
<1> DEFINE n == drv.rx_next
           h == card.rdh
           m == NextIndex(n)
           valid == e1000_rx_valid(rx[n], drv.discarding)
<1>1. n \in Index /\ h \in Index /\ m \in Index /\ card.frames \in Nat /\ rx \in [Index -> Descriptor]
  BY NextIs DEF CardType
<1>2. /\ rx[n].done
      /\ got' = IF valid THEN Append(got, [frame |-> rx[n].frame, part |-> rx[n].part]) ELSE got
      /\ rx' = [rx EXCEPT ![n].done = FALSE, ![n].error = FALSE, ![n].eop = FALSE]
      /\ drv.at = "receive" /\ card' = card /\ arrived' = arrived
  BY DEF TakeDescriptor
<1>3. drv'.rx_next = m /\ drv'.discarding = ~rx[n].eop /\ drv'.at = "give" BY DEF TakeDescriptor, CardType
<1>4. card'.rdt = card.rdt /\ card'.rdh = h /\ card'.frames = card.frames /\ card'.rest = card.rest
  BY Zenon, <1>2
<1>5. ~rx'[n].done /\ \A i \in Index : i # n => rx'[i] = rx[i]
  <2> HIDE DEF n
  <2>1. \A s : s = [rx EXCEPT ![n].done = FALSE, ![n].error = FALSE, ![n].eop = FALSE] =>
           ~s[n].done /\ \A j \in Index : j # n => s[j] = rx[j]
    BY Zenon, <1>1, GivenBack
  <2>2. rx' = [rx EXCEPT ![n].done = FALSE, ![n].error = FALSE, ![n].eop = FALSE] BY Zenon, <1>2
  <2> QED BY Zenon, <2>1, <2>2
<1>6. Stored(n) /\ h # n
  <2>1. Stored(n) BY <1>1, <1>2 DEF RingOK
  <2>2. Ahead(n, n) \in Nat BY Zenon, <1>1, Distances
  <2> QED BY <2>1, <2>2 DEF Stored
<1>7. \A i \in Index : Ahead(n, i) \in Nat /\ Ahead(n, i) < RingCount /\ (Ahead(n, i) = 0 <=> i = n)
  <2> HIDE DEF n
  <2> QED BY <1>1, Distances
<1>8. Ahead(m, n) = RingCount - 1 /\ \A i \in Index : i # n => Ahead(m, i) = Ahead(n, i) - 1
  <2> HIDE DEF n
  <2> QED BY <1>1, Distances DEF m
<1>9. \A i \in Index : Stored(i)' <=> Stored(i) /\ i # n
  <2> SUFFICES ASSUME NEW i \in Index PROVE Stored(i)' <=> Stored(i) /\ i # n OBVIOUS
  <2>1. Stored(i)' <=> Ahead(m, i) < Ahead(m, h) BY <1>3, <1>4 DEF Stored
  <2>2. Stored(i) <=> Ahead(n, i) < Ahead(n, h) BY DEF Stored
  <2>3. RingCount \in Nat BY CardAssumption
  <2> HIDE DEF n, h, m
  <2> QED BY <1>1, <1>6, <1>7, <1>8, <2>1, <2>2, <2>3
<1>10. \A i \in Index : i # n => (Cut(i)' <=> Cut(i))
  <2> SUFFICES ASSUME NEW i \in Index, i # n PROVE Cut(i)' <=> Cut(i) OBVIOUS
  <2>1. Prev(i) \in Index /\ NextIndex(Prev(i)) = i /\ Prev(m) = n BY <1>1, NextIs
  <2>2. CASE i = m
    <3>1. Cut(i)' <=> ~rx[n].eop BY Zenon, <1>3, <2>2 DEF Cut
    <3>2. Cut(i) <=> ~rx[Prev(i)].eop BY DEF Cut
    <3> QED BY <2>1, <2>2, <3>1, <3>2
  <2>3. CASE i # m
    <3>1. Prev(i) # n BY <2>1, <2>3
    <3>2. rx'[Prev(i)] = rx[Prev(i)] BY <1>5, <2>1, <3>1
    <3>3. Cut(i)' <=> ~rx'[Prev(i)].eop BY <1>3, <2>3 DEF Cut
    <3>4. Cut(i) <=> ~rx[Prev(i)].eop BY Zenon DEF Cut
    <3> QED BY <3>2, <3>3, <3>4
  <2> QED BY <2>2, <2>3
<1>11. RingOK'
  <2>2. \A i \in Index : rx'[i].done <=> Stored(i)' BY Zenon, <1>5, <1>9 DEF RingOK
  <2>3. ASSUME NEW i \in Index, Stored(i)'
        PROVE  /\ rx'[i].part \in {1, 2} /\ rx'[i].frame <= card'.frames
               /\ rx'[i].part = 2 <=> Cut(i)'
               /\ rx'[i].part = 2 => rx'[i].eop
    <3>1. Stored(i) /\ i # n /\ rx'[i] = rx[i] BY Zenon, <1>5, <1>9, <2>3
    <3> QED BY Zenon, <1>4, <1>10, <3>1 DEF RingOK
  <2>4. card'.rest # NoFrame <=> Cut(card.rdh)'
    <3>1. PICK x \in Index : x = h BY <1>1
    <3>2. Cut(x)' <=> Cut(x) BY <1>6, <1>10, <3>1
    <3>3. Cut(card.rdh)' <=> Cut(x)' BY <1>4, <3>1 DEF Cut
    <3>4. Cut(x) <=> card.rest # NoFrame BY Zenon, <3>1 DEF RingOK
    <3> QED BY <1>4, <3>2, <3>3, <3>4
  <2>5. card'.rest <= card'.frames BY Zenon, <1>4 DEF RingOK
  <2>6. ASSUME NEW i \in Index, NEW j \in Index, Stored(j)', rx'[j].part = 1, Ahead(m, i) < Ahead(m, j)
        PROVE  rx'[i].frame < rx'[j].frame
    <3>1. Stored(j) /\ j # n /\ rx'[j] = rx[j] BY Zenon, <1>5, <1>9, <2>6
    <3>2. i # n /\ Ahead(n, i) < Ahead(n, j)
      <4>1. RingCount \in Nat BY CardAssumption
      <4> HIDE DEF n, m
      <4> QED BY <1>1, <1>7, <1>8, <2>6, <3>1, <4>1
    <3>3. rx'[i] = rx[i] BY <1>5, <3>2
    <3> QED BY Zenon, <2>6, <3>1, <3>2, <3>3 DEF RingOK
  <2> QED BY Zenon, <1>3, <2>2, <2>3, <2>4, <2>5, <2>6 DEF RingOK
<1>12. valid <=> Good(rx[n])
  <2>1. rx[n].part \in {1, 2} /\ (rx[n].part = 2 <=> drv.discarding) BY Zenon, <1>1, <1>6 DEF RingOK, Cut
  <2> QED BY <2>1 DEF Good, e1000_rx_valid
<1>13. ArrivedOK'
  <2> DEFINE L == Len(arrived)
             G == Len(got)
  <2>1. L \in Nat /\ G \in Nat /\ G <= L /\ arrived \in Seq(Whole) /\ got \in Seq(Whole)
    BY DEF CardType, ArrivedOK, FramesWhole
  <2>2. \A j \in 1 .. L : arrived[j] \in Whole BY <2>1
  <2>3. \A j \in 1 .. L : arrived[j].frame \in Nat BY <2>2 DEF Whole
  <2>4. rx[n] \in Descriptor BY <1>1
  <2>5. rx[n].frame \in Nat BY <2>4 DEF Descriptor
  <2>6. CASE ~valid
    <3>1. got' = got BY <1>2, <2>6
    <3>2. \A i \in Index : Stored(i)' /\ Good(rx'[i]) <=> Stored(i) /\ Good(rx[i])
      BY Zenon, <1>5, <1>9, <1>12, <2>6
    <3>3. \A i \in Index : Stored(i)' => rx'[i] = rx[i] BY <1>5, <1>9
    <3>4. /\ \A j \in 1 .. L : j > G =>
                \E i \in Index : Stored(i)' /\ Good(rx'[i]) /\ rx'[i].frame = arrived[j].frame
          /\ \A i \in Index : Stored(i)' /\ Good(rx'[i]) =>
                \E j \in 1 .. L : j > G /\ rx'[i].frame = arrived[j].frame
      <4>1. \A j \in 1 .. L : j > G =>
              \E i \in Index : Stored(i) /\ Good(rx[i]) /\ rx[i].frame = arrived[j].frame
        BY Zenon DEF ArrivedOK
      <4>2. \A i \in Index : Stored(i) /\ Good(rx[i]) =>
              \E j \in 1 .. L : j > G /\ rx[i].frame = arrived[j].frame
        BY Zenon DEF ArrivedOK
      <4> HIDE DEF L, G
      <4>3. \A j \in 1 .. L : j > G =>
              \E i \in Index : Stored(i)' /\ Good(rx'[i]) /\ rx'[i].frame = arrived[j].frame
        BY Zenon, <3>2, <3>3, <4>1
      <4>4. \A i \in Index : Stored(i)' /\ Good(rx'[i]) =>
              \E j \in 1 .. L : j > G /\ rx'[i].frame = arrived[j].frame
        BY Zenon, <3>2, <3>3, <4>2
      <4> QED BY Zenon, <4>3, <4>4
    <3>5. /\ \A j \in 1 .. L : arrived[j].part = 1 /\ arrived[j].frame <= card'.frames
          /\ \A j, k \in 1 .. L : j < k => arrived[j].frame < arrived[k].frame
          /\ FramesWhole'
      BY Zenon, <1>2, <1>4, <3>1 DEF ArrivedOK, FramesWhole
    <3>6. Len(arrived') = L /\ arrived' = arrived /\ Len(got') = G BY <1>2, <3>1
    <3> HIDE DEF L, G
    <3> QED BY ZenonT(30), <3>4, <3>5, <3>6 DEF ArrivedOK
  <2>7. CASE valid
    <3> DEFINE e == [frame |-> rx[n].frame, part |-> rx[n].part]
    <3>1. Good(rx[n]) /\ rx[n].part = 1 BY Zenon, <1>12, <2>7 DEF Good
    <3>2. e \in Whole BY <2>5, <3>1 DEF Whole
    <3>3. e.frame = rx[n].frame /\ e.part = 1 BY Zenon, <3>1
    <3> HIDE DEF e
    <3>4. got' = Append(got, e) /\ Len(got') = G + 1 /\ got'[G + 1] = e
          /\ \A j \in 1 .. G : got'[j] = got[j]
      BY <1>2, <2>1, <2>7, <3>2 DEF e
    <3>5. PICK j \in 1 .. L : j > G /\ rx[n].frame = arrived[j].frame
      BY Zenon, <1>1, <1>6, <3>1 DEF ArrivedOK
    <3>6. \A i \in Index : Stored(i) /\ Good(rx[i]) /\ i # n => rx[n].frame < rx[i].frame
      <4> SUFFICES ASSUME NEW i \in Index, Stored(i), Good(rx[i]), i # n PROVE rx[n].frame < rx[i].frame
        OBVIOUS
      <4>1. Ahead(n, n) < Ahead(n, i)
        <5> HIDE DEF n
        <5> QED BY <1>1, <1>7
      <4>2. rx[i].part = 1 BY DEF Good
      <4> QED BY Zenon, <1>1, <4>1, <4>2 DEF RingOK
    <3>7. j = G + 1
      <4> SUFFICES ASSUME j # G + 1 PROVE FALSE OBVIOUS
      <4>1. G + 1 \in 1 .. L /\ G + 1 < j /\ G + 1 > G
        <5> HIDE DEF G, L
        <5> QED BY <2>1, <3>5
      <4>2. PICK i \in Index : Stored(i) /\ Good(rx[i]) /\ rx[i].frame = arrived[G + 1].frame
        BY Zenon, <4>1 DEF ArrivedOK
      <4>3. arrived[G + 1].frame < arrived[j].frame BY Zenon, <4>1 DEF ArrivedOK
      <4>4. rx[i].frame < rx[n].frame /\ rx[i].frame \in Nat BY Zenon, <2>3, <3>5, <4>1, <4>2, <4>3
      <4>5. ~ (rx[n].frame < rx[i].frame) /\ i # n BY <2>5, <4>4
      <4> QED BY <3>6, <4>2, <4>5
    <3>8. arrived[j] = e
      <4>1. arrived[j] \in Whole /\ arrived[j].part = 1 /\ arrived[j].frame = e.frame
        BY Zenon, <2>2, <3>3, <3>5 DEF ArrivedOK
      <4> QED BY <3>2, <3>3, <4>1 DEF Whole
    <3>9. FramesWhole'
      <4>1. G + 1 <= L
        <5> HIDE DEF G, L
        <5> QED BY <2>1, <3>5, <3>7
      <4>2. ASSUME NEW k \in 1 .. (G + 1) PROVE got'[k] = arrived[k]
        <5>1. CASE k = G + 1 BY <3>4, <3>7, <3>8, <5>1
        <5>2. CASE k \in 1 .. G BY Zenon, <3>4, <5>2 DEF ArrivedOK, FramesWhole
        <5>3. k = G + 1 \/ k \in 1 .. G
          <6> HIDE DEF G
          <6> QED BY <2>1
        <5> QED BY <5>1, <5>2, <5>3
      <4> QED BY Zenon, <1>2, <3>4, <4>1, <4>2 DEF FramesWhole
    <3>10. ASSUME NEW k \in 1 .. L, k > G + 1
           PROVE  \E i \in Index : Stored(i)' /\ Good(rx'[i]) /\ rx'[i].frame = arrived[k].frame
      <4>1. k > G BY <2>1, <3>10
      <4>2. PICK i \in Index : Stored(i) /\ Good(rx[i]) /\ rx[i].frame = arrived[k].frame
        BY Zenon, <4>1 DEF ArrivedOK
      <4>3. arrived[j].frame < arrived[k].frame BY Zenon, <3>7, <3>10 DEF ArrivedOK
      <4>4. i # n BY <2>3, <3>5, <4>2, <4>3
      <4> QED BY Zenon, <1>5, <1>9, <4>2, <4>4
    <3>11. ASSUME NEW i \in Index, Stored(i)', Good(rx'[i])
           PROVE  \E k \in 1 .. L : k > G + 1 /\ rx'[i].frame = arrived[k].frame
      <4>1. Stored(i) /\ i # n /\ rx'[i] = rx[i] BY <1>5, <1>9, <3>11
      <4>2. PICK k \in 1 .. L : k > G /\ rx[i].frame = arrived[k].frame
        BY Zenon, <3>11, <4>1 DEF ArrivedOK
      <4>3. rx[n].frame < rx[i].frame BY Zenon, <3>6, <3>11, <4>1
      <4>4. k # G + 1 BY <2>3, <3>5, <3>7, <4>2, <4>3
      <4>5. k > G + 1
        <5> HIDE DEF G, L
        <5> QED BY <2>1, <4>2, <4>4
      <4> QED BY <4>1, <4>2, <4>5
    <3>12. /\ \A k \in 1 .. L : arrived[k].part = 1 /\ arrived[k].frame <= card'.frames
           /\ \A k, l \in 1 .. L : k < l => arrived[k].frame < arrived[l].frame
      BY Zenon, <1>4 DEF ArrivedOK
    <3>13. Len(arrived') = L /\ arrived' = arrived /\ Len(got') = G + 1 BY <1>2, <3>4
    <3> HIDE DEF L, G
    <3>14. /\ \A k \in 1 .. L : k > G + 1 =>
                 \E i \in Index : Stored(i)' /\ Good(rx'[i]) /\ rx'[i].frame = arrived[k].frame
           /\ \A i \in Index : Stored(i)' /\ Good(rx'[i]) =>
                 \E k \in 1 .. L : k > G + 1 /\ rx'[i].frame = arrived[k].frame
      BY Zenon, <3>10, <3>11
    <3> QED BY SMTT(60), ZenonT(60), <3>9, <3>12, <3>13, <3>14 DEF ArrivedOK
  <2> QED BY <2>6, <2>7
<1>14. TailOK'
  <2>1. Prev(m) = n BY <1>1, NextIs
  <2>2. drv.at # "give" BY <1>2
  <2>3. card.rdt = Prev(n) BY Zenon, <2>2 DEF TailOK
  <2> HIDE DEF n, m, h
  <2> QED BY Zenon, <1>3, <1>4, <1>6, <2>1, <2>3 DEF TailOK
<1> QED BY <1>11, <1>13, <1>14

\* The steps that leave the rings, the buffer and the frames alone.
LEMMA QuietKeeps ==
  ASSUME CardInv,
         Start \/ StartFails \/ EnableDma \/ Enable \/ Receive \/ ReceiveNone \/ TransmitDone \/ TransmitFails
  PROVE  CardInv'
<1>1. CardType /\ LifeOK /\ TailOK /\ RingOK /\ ArrivedOK /\ SendOK BY DEF CardInv
<1>2. UNCHANGED <<rx, tx, buffer, arrived, got, posted, wire>>
  <2>1. CASE Start BY <2>1 DEF Start
  <2>2. CASE StartFails BY <2>2 DEF StartFails
  <2>3. CASE EnableDma BY Zenon, <2>3 DEF EnableDma
  <2>4. CASE Enable BY <2>4 DEF Enable
  <2>5. CASE Receive BY <2>5 DEF Receive
  <2>6. CASE ReceiveNone BY <2>6 DEF ReceiveNone
  <2>7. CASE TransmitDone BY <2>7 DEF TransmitDone
  <2>8. CASE TransmitFails BY <2>8 DEF TransmitFails
  <2> QED BY Zenon, <2>1, <2>2, <2>3, <2>4, <2>5, <2>6, <2>7, <2>8
<1>3. ASSUME DOMAIN drv' = DOMAIN drv, DOMAIN card' = DOMAIN card,
             card'.rdh = card.rdh, card'.rdt = card.rdt, card'.rest = card.rest, card'.frames = card.frames,
             card'.tdh = card.tdh, card'.tdt = card.tdt,
             drv'.rx_next = drv.rx_next, drv'.discarding = drv.discarding, drv'.tx_next = drv.tx_next,
             LifeOK', drv.at # "give", drv'.at # "give",
             \/ drv'.at = drv.at /\ drv'.ready = drv.ready
             \/ drv.at # "transmit" /\ (drv.at = "idle" => drv.ready)
             \/ drv'.at = "idle" /\ ~drv'.ready
             \/ card.tdh = card.tdt
      PROVE  CardInv'
  <2>1. CardType' BY Zenon, <1>1, <1>2, <1>3 DEF CardType
  <2>2. TailOK' /\ RingOK' /\ ArrivedOK' BY Zenon, <1>1, <1>2, <1>3, ReceiveUntouched, TailUntouched
  <2>3. SendOK'
    <3>1. CASE card.tdh = card.tdt BY ZenonT(30), <1>1, <1>2, <1>3, <3>1, NextIs DEF SendOK, Outstanding, CardType
    <3>2. CASE card.tdh # card.tdt BY Zenon, <1>1, <1>2, <1>3, <3>2, SendUntouched
    <3> QED BY Zenon, <3>1, <3>2
  <2> QED BY Zenon, <1>3, <2>1, <2>2, <2>3 DEF CardInv
<1>4. CASE Start
  <2>1. drv' = [drv EXCEPT !.at = "mapping"] /\ card' = card /\ drv.at = "down" /\ pages' = "held"
    BY <1>4 DEF Start
  <2> QED BY <1>1, <1>3, <2>1 DEF CardType, LifeOK, Asleep
<1>5. CASE StartFails
  <2>1. drv' = [drv EXCEPT !.at = "dead"] /\ card' = card /\ drv.at = "mapping" /\ pages' = "freed"
    BY <1>5 DEF StartFails
  <2> QED BY <1>1, <1>3, <2>1 DEF CardType, LifeOK, Asleep
<1>6. CASE EnableDma
  <2>1. PICK a \in {"enabled", "dead"} : drv' = [drv EXCEPT !.at = a, !.quarantined = TRUE]
    <3>1. PICK works \in BOOLEAN :
            drv' = [drv EXCEPT !.at = IF works THEN "enabled" ELSE "dead", !.quarantined = TRUE]
      BY Zenon, <1>6 DEF EnableDma
    <3>2. (IF works THEN "enabled" ELSE "dead") \in {"enabled", "dead"} BY Zenon
    <3> QED BY Zenon, <3>1, <3>2
  <2>2. card' = [card EXCEPT !.dma = TRUE] /\ drv.at = "mapping" /\ pages' = pages
    BY Zenon, <1>6 DEF EnableDma
  <2> QED BY <1>1, <1>3, <2>1, <2>2 DEF CardType, LifeOK, Asleep
<1>7. CASE Enable
  <2>1. /\ drv' = [drv EXCEPT !.at = "idle", !.quarantined = FALSE, !.ready = TRUE]
        /\ card' = [card EXCEPT !.rxon = TRUE, !.txon = TRUE] /\ drv.at = "enabled" /\ pages' = pages
    BY <1>7 DEF Enable
  <2> QED BY <1>1, <1>3, <2>1 DEF CardType, LifeOK, Asleep
<1>8. CASE Receive
  <2>1. /\ drv' = [drv EXCEPT !.at = "receive", !.seen = 0] /\ card' = card /\ pages' = pages
        /\ drv.at = "idle" /\ drv.ready
    BY <1>8 DEF Receive
  <2> QED BY <1>1, <1>3, <2>1 DEF CardType, LifeOK, Asleep
<1>9. CASE ReceiveNone
  <2>1. /\ drv' = [drv EXCEPT !.at = "idle", !.seen = 0] /\ card' = card /\ pages' = pages
        /\ drv.at = "receive"
    BY <1>9 DEF ReceiveNone
  <2> QED BY <1>1, <1>3, <2>1 DEF CardType, LifeOK, Asleep
<1>10. CASE TransmitDone
  <2>1. /\ drv' = [drv EXCEPT !.at = "idle"] /\ card' = card /\ pages' = pages
        /\ drv.at = "transmit" /\ tx[Current].done
    BY <1>10 DEF TransmitDone
  <2>2. card.tdh = card.tdt
    <3> SUFFICES ASSUME Outstanding PROVE FALSE BY Zenon, <1>1 DEF SendOK
    <3>1. Prev(NextIndex(card.tdh)) = card.tdh BY Zenon, <1>1, NextIs DEF CardType
    <3>2. Current = card.tdh BY Zenon, <1>1, <3>1, CurrentIs DEF CardType, SendOK, Outstanding
    <3> QED BY <2>1, <3>2 DEF Outstanding
  <2> QED BY <1>1, <1>3, <2>1, <2>2 DEF CardType, LifeOK, Asleep
<1>11. CASE TransmitFails
  <2>1. /\ drv' = [[drv EXCEPT !.at = "idle"] EXCEPT !.ready = FALSE, !.quarantined = TRUE]
        /\ card' = [card EXCEPT !.rxon = FALSE, !.txon = FALSE] /\ pages' = pages
        /\ drv.at \in {"idle", "transmit"}
    BY <1>11 DEF TransmitFails, quarantine, Stopped
  <2> QED BY <1>1, <1>3, <2>1 DEF CardType, LifeOK, Asleep
<1> QED BY <1>4, <1>5, <1>6, <1>7, <1>8, <1>9, <1>10, <1>11

\* The driver's part of the ring goes forward by one.
LEMMA TakeDescriptorKeeps ==
  ASSUME CardInv, TakeDescriptor
  PROVE  CardInv'
<1>1. CardType /\ LifeOK /\ TailOK /\ RingOK /\ ArrivedOK /\ SendOK BY DEF CardInv
<1>2. TailOK' /\ RingOK' /\ ArrivedOK' BY <1>1, TakeKeeps
<1> DEFINE n == drv.rx_next
           d == rx[n]
           e == [frame |-> d.frame, part |-> d.part]
<1>3. n \in Index /\ d \in Descriptor /\ rx \in [Index -> Descriptor] BY Zenon, <1>1 DEF CardType
<1>4. e \in Whole BY <1>3 DEF Descriptor, Whole
<1>5. /\ UNCHANGED <<tx, buffer, pages, arrived, posted, wire>>
      /\ got' = got \/ got' = Append(got, e)
      /\ rx' = [rx EXCEPT ![n].done = FALSE, ![n].error = FALSE, ![n].eop = FALSE]
      /\ card' = card /\ drv.at = "receive"
  BY DEF TakeDescriptor
<1>6. PICK b, x : drv' = [drv EXCEPT !.rx_next = NextIndex(n), !.discarding = b, !.seen = x, !.at = "give"]
  <2> DEFINE over == e1000_rx_valid(d, drv.discarding) \/ drv.seen + 1 = RingCount
  <2>1. drv' = [drv EXCEPT !.rx_next = NextIndex(n), !.discarding = ~d.eop,
                           !.seen = IF over THEN 0 ELSE @ + 1, !.at = "give"]
    BY Zenon DEF TakeDescriptor
  <2> HIDE DEF over, d, n
  <2> QED BY Zenon, <2>1
<1>7. /\ DOMAIN drv' = DOMAIN drv /\ drv'.rx_next = NextIndex(n) /\ drv'.tx_next = drv.tx_next
      /\ drv'.ready = drv.ready /\ drv'.quarantined = drv.quarantined /\ drv'.at = "give"
  BY <1>1, <1>6 DEF CardType
<1>8. /\ DOMAIN card' = DOMAIN card /\ card'.rdh = card.rdh /\ card'.tdh = card.tdh /\ card'.tdt = card.tdt
      /\ card'.frames = card.frames /\ card'.rest = card.rest /\ card'.dma = card.dma
  BY Zenon, <1>5
<1>9. CardType'
  <2>1. rx' \in [Index -> Descriptor]
    <3> HIDE DEF n
    <3> QED BY Zenon, <1>3, <1>5, GivenBack
  <2>2. got' \in Seq(Whole)
    <3>1. got \in Seq(Whole) BY <1>1 DEF CardType
    <3> HIDE DEF e
    <3>2. Append(got, e) \in Seq(Whole) BY <1>4, <3>1
    <3> QED BY Zenon, <1>5, <3>1, <3>2
  <2>3. NextIndex(n) \in Index BY <1>3, NextIs
  <2> QED BY Zenon, <1>1, <1>5, <1>7, <1>8, <2>1, <2>2, <2>3 DEF CardType
<1>10. LifeOK' BY <1>1, <1>5, <1>7, <1>8 DEF LifeOK, Asleep
<1>11. SendOK' BY <1>1, <1>5, <1>7, <1>8, SendUntouched
<1> QED BY <1>2, <1>9, <1>10, <1>11 DEF CardInv

\* The descriptor becomes the card's: it does not stand there, so nothing of the ring is
\* taken for stored.
LEMMA GiveBackKeeps ==
  ASSUME CardInv, GiveBack
  PROVE  CardInv'
<1>1. CardType /\ LifeOK /\ TailOK /\ RingOK /\ ArrivedOK /\ SendOK BY DEF CardInv
<1>2. /\ drv.at = "give" /\ card' = [card EXCEPT !.rdt = PrevIndex(drv.rx_next)]
      /\ UNCHANGED <<rx, tx, buffer, pages, arrived, got, posted, wire>>
  BY Zenon DEF GiveBack
<1>3. PICK a \in {"idle", "receive"} : drv' = [drv EXCEPT !.at = a]
  <2>1. drv' = [drv EXCEPT !.at = IF drv.seen = 0 THEN "idle" ELSE "receive"] BY Zenon DEF GiveBack
  <2>2. (IF drv.seen = 0 THEN "idle" ELSE "receive") \in {"idle", "receive"} BY Zenon
  <2> QED BY Zenon, <2>1, <2>2
<1>4. /\ DOMAIN drv' = DOMAIN drv /\ drv'.rx_next = drv.rx_next /\ drv'.tx_next = drv.tx_next
      /\ drv'.ready = drv.ready /\ drv'.quarantined = drv.quarantined
      /\ drv'.discarding = drv.discarding /\ drv'.at = a
  BY <1>1, <1>3 DEF CardType
<1>5. /\ DOMAIN card' = DOMAIN card /\ card'.rdh = card.rdh /\ card'.rdt = PrevIndex(drv.rx_next)
      /\ card'.tdh = card.tdh /\ card'.tdt = card.tdt
      /\ card'.frames = card.frames /\ card'.rest = card.rest /\ card'.dma = card.dma
  BY <1>1, <1>2 DEF CardType
<1>6. TailOK'
  <2>1. PrevIndex(drv.rx_next) = Prev(drv.rx_next) BY Zenon, <1>1, PrevIs DEF CardType
  <2>2. a # "give" BY <1>3
  <2> QED BY Zenon, <1>4, <1>5, <2>1, <2>2 DEF TailOK
<1>7. CardType' BY Zenon, <1>1, <1>2, <1>4, <1>5 DEF CardType
<1>8. RingOK' /\ ArrivedOK' BY Zenon, <1>1, <1>2, <1>4, <1>5, ReceiveUntouched
<1>9. LifeOK' BY <1>1, <1>2, <1>3, <1>4, <1>5 DEF LifeOK, Asleep
<1>10. SendOK'
  <2>1. drv.at # "transmit" /\ drv.at # "idle" BY <1>2
  <2> QED BY Zenon, <1>1, <1>2, <1>4, <1>5, <2>1, SendUntouched
<1> QED BY Zenon, <1>6, <1>7, <1>8, <1>9, <1>10 DEF CardInv

\* A frame is given to the card only when the one before is out.
LEMMA TransmitKeeps ==
  ASSUME CardInv, Transmit
  PROVE  CardInv'
<1>1. CardType /\ LifeOK /\ TailOK /\ RingOK /\ ArrivedOK /\ SendOK BY Zenon DEF CardInv
<1> DEFINE L == Len(posted)
           n == drv.tx_next
           fresh == [done |-> FALSE, error |-> FALSE]
<1>2. /\ drv.at = "idle" /\ drv.ready
      /\ buffer' = L + 1 /\ posted' = Append(posted, L + 1)
      /\ tx' = [tx EXCEPT ![n] = fresh]
      /\ card' = [card EXCEPT !.tdt = NextIndex(n)]
      /\ drv' = [drv EXCEPT !.at = "transmit", !.tx_next = NextIndex(n)]
      /\ UNCHANGED <<rx, pages, arrived, got, wire>>
  BY DEF Transmit
<1>3. n \in Index /\ NextIndex(n) \in Index /\ L \in Nat /\ posted \in Seq(Nat) /\ wire \in Seq(Nat)
  BY <1>1, NextIs DEF CardType
<1>4. /\ DOMAIN drv' = DOMAIN drv /\ drv'.rx_next = drv.rx_next /\ drv'.discarding = drv.discarding
      /\ drv'.tx_next = NextIndex(n) /\ drv'.ready = drv.ready /\ drv'.quarantined = drv.quarantined
      /\ drv'.at = "transmit"
  <2>1. DOMAIN drv = {"at", "ready", "quarantined", "discarding", "rx_next", "tx_next", "seen"}
    BY <1>1 DEF CardType
  <2> HIDE DEF n
  <2>2. PICK x : x = NextIndex(n) OBVIOUS
  <2>3. drv' = [drv EXCEPT !.at = "transmit", !.tx_next = x] BY <1>2, <2>2
  <2> QED BY <2>1, <2>2, <2>3
<1>5. /\ DOMAIN card' = DOMAIN card /\ card'.rdh = card.rdh /\ card'.rdt = card.rdt /\ card'.tdh = card.tdh
      /\ card'.tdt = NextIndex(n) /\ card'.frames = card.frames /\ card'.rest = card.rest
      /\ card'.dma = card.dma
  BY <1>1, <1>2 DEF CardType
<1>6. card.tdh = n /\ Len(wire) = L BY <1>1, <1>2 DEF SendOK, Outstanding
<1>7. fresh \in [done : BOOLEAN, error : BOOLEAN] /\ ~fresh.done OBVIOUS
<1>8. tx' \in [Index -> [done : BOOLEAN, error : BOOLEAN]] /\ ~tx'[n].done
  <2> HIDE DEF fresh, n
  <2>1. tx' \in [Index -> [done : BOOLEAN, error : BOOLEAN]] /\ tx'[n] = fresh
    BY Zenon, <1>1, <1>2, <1>3, <1>7, OneEntry DEF CardType
  <2> QED BY <1>7, <2>1
<1>9. /\ posted' \in Seq(Nat) /\ Len(posted') = L + 1 /\ posted'[L + 1] = L + 1
      /\ \A i \in 1 .. L : posted'[i] = posted[i]
  BY <1>2, <1>3
<1>a. buffer' \in Nat BY <1>2, <1>3
<1>10. CardType' BY Zenon, <1>1, <1>2, <1>3, <1>4, <1>5, <1>8, <1>9, <1>a DEF CardType
<1>11. LifeOK' BY <1>1, <1>2, <1>4, <1>5 DEF LifeOK, Asleep
<1>12. TailOK' /\ RingOK' /\ ArrivedOK'
  <2>1. drv.at # "give" /\ drv'.at # "give" BY <1>2, <1>4
  <2> QED BY Zenon, <1>1, <1>2, <1>4, <1>5, <2>1, ReceiveUntouched, TailUntouched
<1>13. SendOK'
  <2>1. Outstanding' BY <1>2, <1>4, <1>5, <1>6, <1>8, <1>9 DEF Outstanding
  <2>2. \A i \in 1 .. Len(wire') : i <= Len(posted') /\ wire'[i] = posted'[i]
    <3> HIDE DEF L
    <3> QED BY <1>1, <1>2, <1>3, <1>6, <1>9 DEF SendOK
  <2> QED BY Zenon, <1>4, <1>5, <2>1, <2>2 DEF SendOK
<1> QED BY <1>10, <1>11, <1>12, <1>13 DEF CardInv

\* The card gets to the descriptor: the buffer still holds its frame.
LEMMA CardSendsKeeps ==
  ASSUME CardInv, CardSends
  PROVE  CardInv'
<1>1. CardType /\ LifeOK /\ TailOK /\ RingOK /\ ArrivedOK /\ SendOK BY Zenon DEF CardInv
<1>2. /\ card.tdh # card.tdt /\ wire' = Append(wire, buffer)
      /\ card' = [card EXCEPT !.tdh = NextIndex(card.tdh)]
      /\ UNCHANGED <<drv, rx, buffer, pages, arrived, got, posted>>
  BY Zenon DEF CardSends
<1>3. PICK error \in BOOLEAN : tx' = [tx EXCEPT ![card.tdh] = [done |-> TRUE, error |-> error]]
  BY Zenon DEF CardSends
<1>4. [done |-> TRUE, error |-> error] \in [done : BOOLEAN, error : BOOLEAN] OBVIOUS
<1>5. tx' \in [Index -> [done : BOOLEAN, error : BOOLEAN]]
  BY Zenon, <1>1, <1>3, <1>4, OneEntry DEF CardType
<1>6. NextIndex(card.tdh) \in Index BY <1>1, NextIs DEF CardType
<1>7. /\ DOMAIN card' = DOMAIN card /\ card'.rdh = card.rdh /\ card'.rdt = card.rdt
      /\ card'.tdh = NextIndex(card.tdh) /\ card'.tdt = card.tdt
      /\ card'.frames = card.frames /\ card'.rest = card.rest /\ card'.dma = card.dma
  BY <1>1, <1>2 DEF CardType
<1>8. Outstanding BY <1>1, <1>2 DEF SendOK
<1>9. /\ wire' \in Seq(Nat) /\ Len(wire') = Len(wire) + 1 /\ wire'[Len(wire) + 1] = buffer
      /\ \A i \in 1 .. Len(wire) : wire'[i] = wire[i]
  BY <1>1, <1>2 DEF CardType
<1>10. CardType' BY Zenon, <1>1, <1>2, <1>5, <1>6, <1>7, <1>9 DEF CardType
<1>11. LifeOK' BY <1>1, <1>2, <1>7 DEF LifeOK
<1>12. TailOK' /\ RingOK' /\ ArrivedOK' BY Zenon, <1>1, <1>2, <1>7, ReceiveUntouched, TailUntouched
<1>13. SendOK'
  <2> DEFINE W == Len(wire)
  <2>1. W \in Nat /\ Len(posted) = W + 1 /\ buffer = posted[W + 1] BY <1>1, <1>8 DEF CardType, Outstanding
  <2>2. \A i \in 1 .. (W + 1) : i <= W + 1 /\ wire'[i] = posted[i]
    <3> SUFFICES ASSUME NEW i \in 1 .. (W + 1) PROVE i <= W + 1 /\ wire'[i] = posted[i] OBVIOUS
    <3>1. CASE i = W + 1 BY <1>9, <2>1, <3>1
    <3>2. CASE i \in 1 .. W BY <1>1, <1>9, <2>1, <3>2 DEF SendOK
    <3>3. i = W + 1 \/ i \in 1 .. W
      <4> HIDE DEF W
      <4> QED BY <2>1
    <3> QED BY <2>1, <3>1, <3>2, <3>3
  <2> HIDE DEF W
  <2>3. Len(wire') = W + 1 /\ Len(posted') = W + 1 /\ card'.tdh = card'.tdt
    BY <1>2, <1>7, <1>8, <1>9, <2>1 DEF Outstanding, W
  <2> QED BY <1>1, <1>2, <1>7, <2>2, <2>3 DEF SendOK
<1> QED BY <1>10, <1>11, <1>12, <1>13 DEF CardInv

\* What the card writes is a descriptor.
LEMMA Written ==
  ASSUME NEW f \in Nat, NEW eop \in BOOLEAN, NEW error \in BOOLEAN, NEW p \in {1, 2}
  PROVE  [done |-> TRUE, frame |-> f, eop |-> eop, error |-> error, part |-> p] \in Descriptor
<1>1. p \in {0, 1, 2} OBVIOUS
<1> QED BY Zenon, <1>1 DEF Descriptor

\* The card stores the start of a frame, or all of it.
LEMMA CardReceivesKeeps ==
  ASSUME CardInv, CardReceives
  PROVE  CardInv'
<1>1. CardType /\ LifeOK /\ TailOK /\ RingOK /\ ArrivedOK /\ SendOK BY Zenon DEF CardInv
<1> DEFINE f == card.frames + 1
           desc(eop, error) == [done |-> TRUE, frame |-> f, eop |-> eop, error |-> error, part |-> 1]
           ent == [frame |-> f, part |-> 1]
<1>2. PICK long \in BOOLEAN, error \in BOOLEAN :
        /\ Store(desc(~long, error))
        /\ card' = [card EXCEPT !.rdh = NextIndex(@), !.frames = f, !.rest = IF long THEN f ELSE NoFrame]
        /\ arrived' = IF long \/ error THEN arrived ELSE Append(arrived, ent)
  BY Zenon DEF CardReceives
<1>3. f \in Nat /\ f > card.frames /\ card.frames <= f /\ f <= f /\ NoFrame \in Nat /\ f # NoFrame /\ NoFrame <= f
      /\ card.frames \in Nat /\ card.rdh \in Index
  BY <1>1 DEF CardType, NoFrame
<1>4. card.rest = NoFrame BY DEF CardReceives
<1>5. PICK d : d = desc(~long, error) BY Zenon
<1>6. /\ d.done /\ d.part = 1 /\ d.frame = f
      /\ d.eop = ~long /\ d.error = error
  BY Zenon, <1>5
<1>7. d \in Descriptor
  <2>1. (~long) \in BOOLEAN BY Zenon
  <2>2. 1 \in {1, 2} OBVIOUS
  <2> HIDE DEF f
  <2> QED BY Zenon, <1>3, <1>5, <2>1, <2>2, Written
<1>8. /\ card.rdh # card.rdt /\ rx' = [rx EXCEPT ![card.rdh] = d]
      /\ UNCHANGED <<drv, tx, buffer, pages, got, posted, wire>>
  BY Zenon, <1>2, <1>5 DEF Store, software
<1>9. PICK r : r = IF long THEN f ELSE NoFrame BY Zenon
<1>10. r \in Nat /\ r <= f /\ (r # NoFrame <=> long)
  <2> HIDE DEF f
  <2>1. CASE long BY <1>3, <1>9, <2>1
  <2>2. CASE ~long BY <1>3, <1>9, <2>2
  <2> QED BY <2>1, <2>2
<1>11. /\ DOMAIN card' = DOMAIN card /\ card'.rdh = NextIndex(card.rdh) /\ card'.rdt = card.rdt
       /\ card'.tdh = card.tdh /\ card'.tdt = card.tdt
       /\ card'.frames = f /\ card'.rest = r /\ card'.dma = card.dma
  <2>1. card' = [card EXCEPT !.rdh = NextIndex(@), !.frames = f, !.rest = r] BY Zenon, <1>2, <1>9
  <2> HIDE DEF f
  <2> QED BY <1>1, <2>1 DEF CardType
<1>12. Good(d) <=> ~(long \/ error) BY Zenon, <1>6 DEF Good
<1>13. arrived' = IF Good(d) THEN Append(arrived, [frame |-> d.frame, part |-> 1]) ELSE arrived
  BY Zenon, <1>2, <1>6, <1>12
<1>14. card'.rest # NoFrame <=> ~d.eop BY Zenon, <1>6, <1>10, <1>11
<1>15. TailOK' /\ RingOK' /\ ArrivedOK'
  <2>1. d.part \in {1, 2} /\ d.part # 2 BY <1>6
  <2>2. d.frame <= card'.frames /\ card.frames < d.frame /\ card'.frames \in Nat
        /\ card.frames <= card'.frames /\ card'.rest \in Nat /\ card'.rest <= card'.frames
    <3> HIDE DEF f
    <3> QED BY Zenon, <1>3, <1>6, <1>10, <1>11
  <2> HIDE DEF f
  <2>3. Puts(d) BY Zenon, <1>4, <1>6, <1>8, <1>11, <1>13, <1>14, <2>1, <2>2 DEF Puts
  <2> QED BY Zenon, <1>1, <1>7, <2>3, StoreKeeps
<1>16. CardType'
  <2>1. rx' \in [Index -> Descriptor] BY Zenon, <1>1, <1>3, <1>7, <1>8, OneEntry DEF CardType
  <2>2. arrived' \in Seq(Whole)
    <3>1. arrived \in Seq(Whole) BY Zenon, <1>1 DEF CardType
    <3>2. ent \in Whole BY <1>3 DEF Whole
    <3> HIDE DEF ent
    <3>3. Append(arrived, ent) \in Seq(Whole) BY <3>1, <3>2
    <3> QED BY Zenon, <1>2, <3>1, <3>3
  <2>3. NextIndex(card.rdh) \in Index BY <1>3, NextIs
  <2> HIDE DEF f
  <2> QED BY Zenon, <1>1, <1>3, <1>8, <1>10, <1>11, <2>1, <2>2, <2>3 DEF CardType
<1>17. LifeOK' BY Zenon, <1>1, <1>8, <1>11 DEF LifeOK
<1>18. SendOK' BY Zenon, <1>1, <1>8, <1>11, SendUntouched
<1> QED BY <1>15, <1>16, <1>17, <1>18 DEF CardInv

\* The card stores the rest of a long frame.
LEMMA CardReceivesRestKeeps ==
  ASSUME CardInv, CardReceivesRest
  PROVE  CardInv'
<1>1. CardType /\ LifeOK /\ TailOK /\ RingOK /\ ArrivedOK /\ SendOK BY Zenon DEF CardInv
<1>2. PICK d : d = [done |-> TRUE, frame |-> card.rest, eop |-> TRUE, error |-> FALSE, part |-> 2] BY Zenon
<1>3. /\ card.rest # NoFrame /\ card' = [card EXCEPT !.rdh = NextIndex(@), !.rest = NoFrame]
      /\ card.rdh # card.rdt /\ rx' = [rx EXCEPT ![card.rdh] = d]
      /\ UNCHANGED <<drv, tx, buffer, pages, got, posted, wire, arrived>>
  BY Zenon, <1>2 DEF CardReceivesRest, Store, software
<1>4. card.rest \in Nat /\ card.frames \in Nat /\ card.rest <= card.frames /\ card.rdh \in Index
  BY Zenon, <1>1 DEF CardType, RingOK
<1>5. d.done /\ d.part = 2 /\ d.frame = card.rest /\ d.eop BY Zenon, <1>2
<1>6. d \in Descriptor
  <2>1. TRUE \in BOOLEAN /\ FALSE \in BOOLEAN /\ 2 \in {1, 2} OBVIOUS
  <2> QED BY Zenon, <1>2, <1>4, <2>1, Written
<1>7. /\ DOMAIN card' = DOMAIN card /\ card'.rdh = NextIndex(card.rdh) /\ card'.rdt = card.rdt
      /\ card'.tdh = card.tdh /\ card'.tdt = card.tdt
      /\ card'.frames = card.frames /\ card'.rest = NoFrame /\ card'.dma = card.dma
  BY <1>1, <1>3 DEF CardType
<1>8. ~Good(d) BY <1>5 DEF Good
<1>9. TailOK' /\ RingOK' /\ ArrivedOK'
  <2>1. d.part \in {1, 2} /\ d.part # 1 BY <1>5
  <2>2. d.frame <= card'.frames /\ card'.frames \in Nat
        /\ card.frames <= card'.frames /\ card'.rest \in Nat /\ card'.rest <= card'.frames
    BY <1>4, <1>5, <1>7 DEF NoFrame
  <2>3. Puts(d) BY Zenon, <1>3, <1>5, <1>7, <1>8, <2>1, <2>2 DEF Puts
  <2> QED BY Zenon, <1>1, <1>6, <2>3, StoreKeeps
<1>10. CardType'
  <2>1. rx' \in [Index -> Descriptor] BY Zenon, <1>1, <1>3, <1>4, <1>6, OneEntry DEF CardType
  <2>2. NextIndex(card.rdh) \in Index BY <1>4, NextIs
  <2>3. NoFrame \in Nat BY DEF NoFrame
  <2> QED BY Zenon, <1>1, <1>3, <1>4, <1>7, <2>1, <2>2, <2>3 DEF CardType
<1>11. LifeOK' BY Zenon, <1>1, <1>3, <1>7 DEF LifeOK
<1>12. SendOK' BY <1>1, <1>3, <1>7, SendUntouched
<1> QED BY Zenon, <1>9, <1>10, <1>11, <1>12 DEF CardInv

\* Every step keeps the invariant.
LEMMA CardKeeps ==
  ASSUME CardInv, [CardNext]_card_vars
  PROVE  CardInv'
<1>1. CASE CardDriver
  BY Zenon, <1>1, QuietKeeps, TakeDescriptorKeeps, GiveBackKeeps, TransmitKeeps DEF CardDriver
<1>2. CASE CardStep
  BY Zenon, <1>2, CardReceivesKeeps, CardReceivesRestKeeps, CardSendsKeeps DEF CardStep
<1>3. CASE UNCHANGED card_vars
  <2>1. UNCHANGED <<drv, rx, tx, buffer, pages, card, arrived, got, posted, wire>> BY <1>3 DEF card_vars
  <2>2. CardType /\ LifeOK /\ TailOK /\ RingOK /\ ArrivedOK /\ SendOK BY DEF CardInv
  <2>3. CardType' BY Zenon, <2>1, <2>2 DEF CardType
  <2>4. LifeOK' BY Zenon, <2>1, <2>2 DEF LifeOK
  <2>5. TailOK' /\ RingOK' /\ ArrivedOK' BY Zenon, <2>1, <2>2, ReceiveUntouched, TailUntouched
  <2>6. SendOK' BY <2>1, <2>2, SendUntouched
  <2> QED BY <2>3, <2>4, <2>5, <2>6 DEF CardInv
<1> QED BY Zenon, <1>1, <1>2, <1>3 DEF CardNext

\* It holds before e1000_init runs.
LEMMA CardBegins ==
  ASSUME CardInit
  PROVE  CardInv
<1>1. 0 \in Index /\ RingCount - 1 \in Index /\ RingCount \in Nat BY CardAssumption DEF Index
<1>2. /\ drv.at = "down" /\ ~drv.ready /\ ~drv.quarantined /\ ~drv.discarding /\ drv.rx_next = 0 /\ drv.tx_next = 0
      /\ DOMAIN drv = {"at", "ready", "quarantined", "discarding", "rx_next", "tx_next", "seen"}
  BY Zenon DEF CardInit
<1>3. /\ ~card.dma /\ card.rdh = 0 /\ card.rdt = RingCount - 1 /\ card.tdh = 0 /\ card.tdt = 0
      /\ card.frames = 0 /\ card.rest = 0
      /\ DOMAIN card = {"dma", "rdh", "rdt", "tdh", "tdt", "frames", "rest", "rxon", "txon"}
  BY Zenon DEF CardInit, NoFrame
<1>4. /\ rx = [i \in Index |-> Empty] /\ tx = [i \in Index |-> [done |-> TRUE, error |-> FALSE]]
      /\ buffer = 0 /\ pages = "none" /\ arrived = <<>> /\ got = <<>> /\ posted = <<>> /\ wire = <<>>
  BY Zenon DEF CardInit, NoFrame
<1>5. rx \in [Index -> Descriptor] /\ \A i \in Index : ~rx[i].done
  <2>1. Empty \in Descriptor /\ ~Empty.done BY DEF Empty, Descriptor, NoFrame
  <2> QED BY <1>4, <2>1
<1>6. tx \in [Index -> [done : BOOLEAN, error : BOOLEAN]]
  <2>1. [done |-> TRUE, error |-> FALSE] \in [done : BOOLEAN, error : BOOLEAN] OBVIOUS
  <2> QED BY Zenon, <1>4, <2>1
<1>7. \A i \in Index : ~Stored(i)
  <2>1. Ahead(0, 0) = 0 BY DEF Ahead
  <2>2. \A i \in Index : Ahead(0, i) \in Nat BY <1>1, Distances
  <2> QED BY <1>2, <1>3, <2>1, <2>2 DEF Stored
<1>8. CardType
  <2>1. arrived \in Seq(Whole) /\ got \in Seq(Whole) /\ posted \in Seq(Nat) /\ wire \in Seq(Nat) /\ buffer \in Nat
    BY <1>4
  <2>2. 0 \in Nat OBVIOUS
  <2> QED BY Zenon, <1>1, <1>2, <1>3, <1>5, <1>6, <2>1, <2>2 DEF CardType
<1>9. LifeOK BY <1>2, <1>3, <1>4 DEF LifeOK
<1>10. RingOK
  <2>2. ~Cut(card.rdh) BY <1>2, <1>3 DEF Cut
  <2> QED BY <1>2, <1>3, <1>5, <1>7, <2>2 DEF RingOK, NoFrame
<1>11. ArrivedOK
  <2>1. Len(arrived) = 0 /\ Len(got) = 0 BY <1>4
  <2>2. 1 .. Len(arrived) = {} /\ 1 .. Len(got) = {} /\ Len(got) <= Len(arrived) BY <2>1
  <2> QED BY Zenon, <1>7, <2>2 DEF ArrivedOK, FramesWhole
<1>12. SendOK BY <1>2, <1>3, <1>4 DEF SendOK
<1>13. TailOK
  <2>1. Prev(0) = RingCount - 1 BY <1>1 DEF Prev
  <2> QED BY <1>2, <1>3, <2>1 DEF TailOK
<1> QED BY <1>8, <1>9, <1>10, <1>11, <1>12, <1>13 DEF CardInv

\* However the card and the driver interleave, for every ring of two descriptors or more:
\* receive returns the whole, correct frames, each once and in order; what goes out is what
\* was asked for, once and in order, although there is one buffer and a transmit may time
\* out; the pages are kept as long as the card can reach them (drivers/e1000.c).
THEOREM CardAlwaysSound == CardSpec => []CardSound
<1>1. CardInit => CardInv BY Zenon, CardBegins
<1>2. CardInv /\ [CardNext]_card_vars => CardInv' BY Zenon, CardKeeps
<1>3. CardInv => CardSound
  <2> SUFFICES ASSUME CardInv PROVE CardSound BY Zenon
  <2>1. CardType /\ LifeOK /\ ArrivedOK /\ SendOK BY DEF CardInv
  <2>2. FramesWhole BY Zenon, <2>1 DEF ArrivedOK
  <2>3. DriverTypeOK BY Zenon, <2>1 DEF CardType, LifeOK, DriverTypeOK
  <2>4. Len(wire) <= Len(posted)
    <3>1. Len(wire) \in Nat /\ Len(posted) \in Nat BY <2>1 DEF CardType
    <3> QED BY <2>1, <3>1 DEF SendOK, Outstanding
  <2>5. DmaSafe BY Zenon, <2>1, <2>3, <2>4 DEF DmaSafe, SendOK, LifeOK
  <2> QED BY <2>2, <2>5 DEF CardSound
<1> QED BY <1>1, <1>2, <1>3, PTL DEF CardSpec

-----------------------------------------------------------------------------
(* The keyboard's ring refines the queue, for every capacity and every set *)
(* of bytes.  The argument: indices stay in the array, After(i) is the     *)
(* next index with a wrap to 0, and so a push extends Contents at its end, *)
(* a pop removes its head and a discard empties it.                        *)

(* A sum of two indices, wrapped once.                                     *)
LEMMA Wrap ==
  ASSUME NEW x \in 0..(2 * Capacity - 1)
  PROVE  x % Capacity = IF x < Capacity THEN x ELSE x - Capacity
<1> Capacity \in Nat \ {0}  BY RingAssumption
<1> QED  BY Z3

(* The index helper of the ring stays in the array and wraps to 0.         *)
LEMMA AfterIndex ==
  ASSUME NEW i \in 0..(Capacity - 1)
  PROVE  /\ After(i) \in 0..(Capacity - 1)
         /\ After(i) = IF i + 1 = Capacity THEN 0 ELSE i + 1
<1> Capacity \in Nat \ {0}  BY RingAssumption
<1>1. i + 1 \in 0..(2 * Capacity - 1)  OBVIOUS
<1>2. After(i) = IF i + 1 < Capacity THEN i + 1 ELSE i + 1 - Capacity
  BY <1>1, Wrap DEF After
<1> QED  BY <1>2

(* The number of waiting bytes without the remainder.                      *)
LEMMA CountIs ==
  ASSUME RingTypeOK
  PROVE  /\ Count \in 0..(Capacity - 1)
         /\ Count = IF tail <= head THEN head - tail ELSE head - tail + Capacity
<1> Capacity \in Nat \ {0}  BY RingAssumption
<1> head \in 0..(Capacity - 1) /\ tail \in 0..(Capacity - 1)  BY DEF RingTypeOK
<1>1. head - tail + Capacity \in 0..(2 * Capacity - 1)  OBVIOUS
<1>2. Count = IF head - tail + Capacity < Capacity
              THEN head - tail + Capacity ELSE head - tail + Capacity - Capacity
  BY <1>1, Wrap DEF Count
<1> QED  BY <1>2

(* Where the i-th waiting byte lies.                                       *)
LEMMA SlotIs ==
  ASSUME RingTypeOK, NEW i \in 1..Count
  PROVE  /\ (tail + i - 1) % Capacity \in 0..(Capacity - 1)
         /\ (tail + i - 1) % Capacity =
              IF tail + i - 1 < Capacity THEN tail + i - 1 ELSE tail + i - 1 - Capacity
         /\ (tail + i - 1) % Capacity # head
<1> Capacity \in Nat \ {0}  BY RingAssumption
<1> head \in 0..(Capacity - 1) /\ tail \in 0..(Capacity - 1)  BY DEF RingTypeOK
<1>0. /\ Count \in 0..(Capacity - 1)
      /\ Count = IF tail <= head THEN head - tail ELSE head - tail + Capacity
  BY CountIs
<1>1. tail + i - 1 \in 0..(2 * Capacity - 1)  BY <1>0
<1> DEFINE x == tail + i - 1
<1>2. (tail + i - 1) % Capacity =
        IF tail + i - 1 < Capacity THEN tail + i - 1 ELSE tail + i - 1 - Capacity
  <2>1. x \in 0..(2 * Capacity - 1)  BY <1>1
  <2> HIDE DEF x
  <2>2. x % Capacity = IF x < Capacity THEN x ELSE x - Capacity  BY <2>1, Wrap
  <2> QED  BY <2>2 DEF x
<1> QED  BY <1>0, <1>1, <1>2

(* Contents is a sequence of bytes.                                        *)
LEMMA ContentsType ==
  ASSUME RingTypeOK
  PROVE  Contents \in Seq(Byte) /\ Len(Contents) = Count /\ DOMAIN Contents = 1..Count
<1>1. Count \in Nat  BY CountIs, RingAssumption
<1>2. \A i \in 1..Count : bytes[(tail + i - 1) % Capacity] \in Byte
  BY SlotIs DEF RingTypeOK
<1> QED  BY <1>1, <1>2 DEF Contents

(* Append and Tail, index by index.                                        *)
LEMMA SeqAppend ==
  ASSUME NEW s \in Seq(Byte), NEW b \in Byte
  PROVE  Append(s, b) = [i \in 1..(Len(s) + 1) |-> IF i <= Len(s) THEN s[i] ELSE b]
<1> DEFINE t == [i \in 1..(Len(s) + 1) |-> IF i <= Len(s) THEN s[i] ELSE b]
<1>1. t \in Seq(Byte) /\ Len(t) = Len(s) + 1
  <2>1. \A i \in 1..(Len(s) + 1) : (IF i <= Len(s) THEN s[i] ELSE b) \in Byte  OBVIOUS
  <2> QED  BY <2>1
<1>2. Append(s, b) \in Seq(Byte) /\ Len(Append(s, b)) = Len(s) + 1  OBVIOUS
<1>3. \A i \in 1..(Len(s) + 1) : Append(s, b)[i] = t[i]  OBVIOUS
<1> HIDE DEF t
<1>4. Append(s, b) = t
  <2>1. PICK u : u = Append(s, b) BY Zenon
  <2>2. u \in Seq(Byte) /\ Len(u) = Len(s) + 1 BY Zenon, <1>2, <2>1
  <2>3. u = [i \in 1..(Len(s) + 1) |-> u[i]] BY <2>2
  <2>4. t = [i \in 1..(Len(s) + 1) |-> t[i]] BY <1>1
  <2>5. \A i \in 1..(Len(s) + 1) : u[i] = t[i] BY Zenon, <1>3, <2>1
  <2>6. u = t BY <2>3, <2>4, <2>5
  <2> QED BY Zenon, <2>1, <2>6
<1> QED  BY <1>4 DEF t

(* The same for the rest of a sequence.                                    *)
LEMMA SeqTail ==
  ASSUME NEW s \in Seq(Byte), Len(s) >= 1
  PROVE  Tail(s) = [i \in 1..(Len(s) - 1) |-> s[i + 1]]
<1> DEFINE t == [i \in 1..(Len(s) - 1) |-> s[i + 1]]
<1>1. t \in Seq(Byte) /\ Len(t) = Len(s) - 1
  <2>1. \A i \in 1..(Len(s) - 1) : s[i + 1] \in Byte  OBVIOUS
  <2> QED  BY <2>1
<1>2. Tail(s) \in Seq(Byte) /\ Len(Tail(s)) = Len(s) - 1
  OBVIOUS
<1>3. \A i \in 1..(Len(s) - 1) : Tail(s)[i] = t[i]  OBVIOUS
<1> HIDE DEF t
<1>4. Tail(s) = t
  <2>1. PICK u : u = Tail(s) BY Zenon
  <2>2. u \in Seq(Byte) /\ Len(u) = Len(s) - 1 BY Zenon, <1>2, <2>1
  <2>3. u = [i \in 1..(Len(s) - 1) |-> u[i]] BY <2>2
  <2>4. t = [i \in 1..(Len(s) - 1) |-> t[i]] BY <1>1
  <2>5. \A i \in 1..(Len(s) - 1) : u[i] = t[i] BY Zenon, <1>3, <2>1
  <2>6. u = t BY <2>3, <2>4, <2>5
  <2> QED BY Zenon, <2>1, <2>6
<1> QED  BY <1>4 DEF t

(* A zeroed ring is well typed.                                            *)
LEMMA RingTypeInit == input_ring_init => RingTypeOK
<1> SUFFICES ASSUME input_ring_init PROVE RingTypeOK
  BY Zenon
<1>1. 0 \in 0..(Capacity - 1)  BY RingAssumption
<1>2. [i \in 0..(Capacity - 1) |-> 0] \in [0..(Capacity - 1) -> Byte]  BY RingAssumption
<1> QED  BY Zenon, <1>1, <1>2 DEF input_ring_init, RingTypeOK

(* Every call keeps the indices in the array.                              *)
LEMMA RingTypeStep == RingTypeOK /\ [RingNext]_ring_vars => RingTypeOK'
<1> SUFFICES ASSUME RingTypeOK, [RingNext]_ring_vars PROVE RingTypeOK'
  BY Zenon
<1> USE DEF RingTypeOK
<1>1. After(head) \in 0..(Capacity - 1) /\ After(tail) \in 0..(Capacity - 1)
  BY AfterIndex
<1>2. ASSUME NEW b \in Byte, input_ring_push(b) PROVE RingTypeOK'
  BY Zenon, <1>1, <1>2 DEF input_ring_push, input_ring_discard
<1>3. CASE input_ring_pop
  BY Zenon, <1>1, <1>3 DEF input_ring_pop
<1>4. CASE input_ring_discard
  BY <1>4 DEF input_ring_discard
<1>5. CASE UNCHANGED ring_vars
  BY <1>5 DEF ring_vars
<1> QED  BY <1>2, <1>3, <1>4, <1>5 DEF RingNext

(* head and tail stay indices of bytes[] for ever (input_ring_push and      *)
(* input_ring_pop).                                                         *)
THEOREM RingTypeCorrect == RingSpec => []RingTypeOK
  BY RingTypeInit, RingTypeStep, PTL DEF RingSpec

(* A discard empties the ring.                                             *)
LEMMA DiscardEmpties ==
  ASSUME RingTypeOK, input_ring_discard
  PROVE  Contents' = <<>>
<1> Capacity \in Nat \ {0}  BY RingAssumption
<1> head \in 0..(Capacity - 1) /\ tail \in 0..(Capacity - 1)  BY DEF RingTypeOK
<1>1. RingTypeOK'  BY DEF RingTypeOK, input_ring_discard
<1>2. tail' = head /\ head' = head  BY DEF input_ring_discard
<1>3. Count' = (head' - tail' + Capacity) % Capacity  BY DEF Count
<1>4. Count' = 0
  <2>1. head' - tail' + Capacity = Capacity  BY <1>2
  <2>2. Capacity \in 0..(2 * Capacity - 1)  OBVIOUS
  <2> QED  BY <1>3, <2>1, <2>2, Wrap
<1> QED  BY <1>4 DEF Contents

(* A push that fits extends Contents by the byte.                          *)
LEMMA PushAppends ==
  ASSUME RingTypeOK, NEW b \in Byte, After(head) # tail,
         bytes' = [bytes EXCEPT ![head] = b], head' = After(head), tail' = tail
  PROVE  Contents' = Append(Contents, b)
<1> Capacity \in Nat \ {0}  BY RingAssumption
<1> head \in 0..(Capacity - 1) /\ tail \in 0..(Capacity - 1)  BY DEF RingTypeOK
<1>a. /\ After(head) \in 0..(Capacity - 1)
      /\ After(head) = IF head + 1 = Capacity THEN 0 ELSE head + 1
  BY AfterIndex
<1>c. /\ Count \in 0..(Capacity - 1)
      /\ Count = IF tail <= head THEN head - tail ELSE head - tail + Capacity
  BY CountIs
<1>1. Count' = Count + 1
  <2> DEFINE x == head' - tail' + Capacity
  <2>1. x \in 0..(2 * Capacity - 1)  BY <1>a
  <2>2. Count' = x % Capacity  BY DEF Count
  <2>3. x = head' - tail' + Capacity  OBVIOUS
  <2> HIDE DEF x
  <2>4. x % Capacity = IF x < Capacity THEN x ELSE x - Capacity  BY <2>1, Wrap
  <2> QED  BY <1>a, <1>c, <2>2, <2>3, <2>4
<1>2. ASSUME NEW i \in 1..Count
      PROVE  bytes'[(tail' + i - 1) % Capacity] = bytes[(tail + i - 1) % Capacity]
  BY Zenon, SlotIs DEF RingTypeOK
<1>3. bytes'[(tail' + (Count + 1) - 1) % Capacity] = b
  <2> DEFINE x == tail + Count
  <2>1. x \in 0..(2 * Capacity - 1)  BY <1>c
  <2>2. x = tail + Count /\ tail' + (Count + 1) - 1 = x  BY <1>c
  <2> HIDE DEF x
  <2>3. x % Capacity = IF x < Capacity THEN x ELSE x - Capacity  BY Zenon, <2>1, Wrap
  <2>4. x % Capacity = head  BY <2>2, <2>3, <1>c
  <2> QED  BY <2>2, <2>4 DEF RingTypeOK
<1>4. Contents' = [i \in 1..(Count + 1) |-> bytes'[(tail' + i - 1) % Capacity]]
  BY <1>1 DEF Contents
<1>5. Contents \in Seq(Byte) /\ Len(Contents) = Count  BY ContentsType
<1>6. Append(Contents, b) =
        [i \in 1..(Count + 1) |-> IF i <= Count THEN Contents[i] ELSE b]
  BY <1>5, SeqAppend
<1>7. ASSUME NEW i \in 1..(Count + 1)
      PROVE  bytes'[(tail' + i - 1) % Capacity] = IF i <= Count THEN Contents[i] ELSE b
  <2>1. CASE i <= Count
    <3>1. i \in 1..Count  BY <2>1, <1>c
    <3>2. Contents[i] = bytes[(tail + i - 1) % Capacity]  BY <3>1 DEF Contents
    <3> QED  BY <2>1, <3>1, <3>2, <1>2
  <2>2. CASE i = Count + 1
    BY <2>2, <1>3, <1>c
  <2> QED  BY <2>1, <2>2, <1>c
<1> QED  BY Zenon, <1>4, <1>6, <1>7

(* A pop from a ring that is not empty removes the head of Contents.       *)
LEMMA PopTakesHead ==
  ASSUME RingTypeOK, head # tail, tail' = After(tail), head' = head, bytes' = bytes
  PROVE  /\ Contents # <<>>
         /\ bytes[tail] = Head(Contents)
         /\ Contents' = Tail(Contents)
<1> Capacity \in Nat \ {0}  BY RingAssumption
<1> head \in 0..(Capacity - 1) /\ tail \in 0..(Capacity - 1)  BY DEF RingTypeOK
<1>a. /\ After(tail) \in 0..(Capacity - 1)
      /\ After(tail) = IF tail + 1 = Capacity THEN 0 ELSE tail + 1
  BY AfterIndex
<1>c. /\ Count \in 0..(Capacity - 1)
      /\ Count = IF tail <= head THEN head - tail ELSE head - tail + Capacity
  BY CountIs
<1>0. Count >= 1  BY <1>c
<1>1. Count' = Count - 1
  <2> DEFINE x == head' - tail' + Capacity
  <2>1. x \in 0..(2 * Capacity - 1)  BY <1>a
  <2>2. Count' = x % Capacity  BY DEF Count
  <2>3. x = head' - tail' + Capacity  OBVIOUS
  <2> HIDE DEF x
  <2>4. x % Capacity = IF x < Capacity THEN x ELSE x - Capacity  BY <2>1, Wrap
  <2> QED  BY <1>a, <1>c, <2>2, <2>3, <2>4
<1>2. Contents \in Seq(Byte) /\ Len(Contents) = Count  BY ContentsType
<1>3. bytes[tail] = Contents[1]
  <2>1. tail + 1 - 1 = tail  OBVIOUS
  <2>2. tail % Capacity = tail  BY Wrap
  <2>3. 1 \in 1..Count  BY <1>0, <1>c
  <2>4. Contents[1] = bytes[(tail + 1 - 1) % Capacity]  BY <2>3 DEF Contents
  <2> QED  BY <2>1, <2>2, <2>4
<1>4. ASSUME NEW i \in 1..(Count - 1)
      PROVE  bytes'[(tail' + i - 1) % Capacity] = Contents[i + 1]
  <2>1. i + 1 \in 1..Count  BY <1>c
  <2>2. Contents[i + 1] = bytes[(tail + (i + 1) - 1) % Capacity]  BY <2>1 DEF Contents
  <2>3. (tail + (i + 1) - 1) % Capacity =
          IF tail + i < Capacity THEN tail + i ELSE tail + i - Capacity
    BY <2>1, SlotIs
  <2> DEFINE x == tail' + i - 1
  <2>4. x \in 0..(2 * Capacity - 1) /\ x = After(tail) + i - 1  BY <1>a, <1>c
  <2>5. bytes'[(tail' + i - 1) % Capacity] = bytes[x % Capacity]  OBVIOUS
  <2> HIDE DEF x
  <2>6. x % Capacity = IF x < Capacity THEN x ELSE x - Capacity  BY <2>4, Wrap
  <2>7. x % Capacity = (tail + (i + 1) - 1) % Capacity
    BY <2>3, <2>4, <2>6, <1>a, <1>c
  <2> QED  BY <2>2, <2>5, <2>7
<1>5. Contents' = [i \in 1..(Count - 1) |-> bytes'[(tail' + i - 1) % Capacity]]
  BY <1>1 DEF Contents
<1>6. Tail(Contents) = [i \in 1..(Count - 1) |-> Contents[i + 1]]
  BY <1>0, <1>2, SeqTail
<1> QED  BY <1>0, <1>2, <1>3, <1>4, <1>5, <1>6

(* Every call of the ring is the same call of the queue.                   *)
LEMMA RingStep ==
  ASSUME RingTypeOK, [RingNext]_ring_vars
  PROVE  [Queue!QueueNext]_<<Contents, reset_pending, answer>>
<1> Capacity \in Nat \ {0}  BY RingAssumption
<1> head \in 0..(Capacity - 1) /\ tail \in 0..(Capacity - 1)  BY DEF RingTypeOK
<1>c. /\ Count \in 0..(Capacity - 1)
      /\ Count = IF tail <= head THEN head - tail ELSE head - tail + Capacity
  BY CountIs
<1>l. Contents \in Seq(Byte) /\ Len(Contents) = Count  BY ContentsType
<1>f. After(head) = tail <=> Len(Contents) = Capacity - 1
  <2>1. After(head) = IF head + 1 = Capacity THEN 0 ELSE head + 1  BY AfterIndex
  <2> QED  BY <2>1, <1>c, <1>l
<1>1. ASSUME NEW b \in Byte, input_ring_push(b) PROVE Queue!QueuePush(b)
  <2>1. CASE After(head) = tail
    <3>1. input_ring_discard /\ answer' = [ok |-> FALSE]
      BY <1>1, <2>1 DEF input_ring_push
    <3>2. Contents' = <<>>  BY <3>1, DiscardEmpties
    <3> QED  BY <3>1, <3>2, <2>1, <1>f DEF Queue!QueuePush, Queue!QueueDiscard, input_ring_discard
  <2>2. CASE After(head) # tail
    <3>1. /\ bytes' = [bytes EXCEPT ![head] = b] /\ head' = After(head) /\ tail' = tail
          /\ reset_pending' = reset_pending /\ answer' = [ok |-> TRUE]
      BY <1>1, <2>2 DEF input_ring_push
    <3>2. Contents' = Append(Contents, b)  BY Zenon, <3>1, <2>2, PushAppends
    <3> QED  BY <3>1, <3>2, <2>2, <1>f DEF Queue!QueuePush
  <2> QED  BY <2>1, <2>2
<1>2. ASSUME input_ring_pop PROVE Queue!QueuePop
  <2>1. CASE head = tail
    <3>1. /\ tail' = tail /\ head' = head /\ bytes' = bytes /\ reset_pending' = FALSE
          /\ answer' = [ok |-> FALSE, reset |-> reset_pending]
      BY Zenon, <1>2, <2>1 DEF input_ring_pop
    <3>2. Contents = <<>>  BY <2>1, <1>c, <1>l
    <3>3. Contents' = Contents  BY <3>1 DEF Contents, Count
    <3> QED  BY Zenon, <3>1, <3>2, <3>3 DEF Queue!QueuePop
  <2>2. CASE head # tail
    <3>1. /\ tail' = After(tail) /\ head' = head /\ bytes' = bytes /\ reset_pending' = FALSE
          /\ answer' = [ok |-> TRUE, reset |-> reset_pending, byte |-> bytes[tail]]
      BY Zenon, <1>2, <2>2 DEF input_ring_pop
    <3>2. Contents # <<>> /\ bytes[tail] = Head(Contents) /\ Contents' = Tail(Contents)
      BY <3>1, <2>2, PopTakesHead
    <3> QED  BY Zenon, <3>1, <3>2 DEF Queue!QueuePop
  <2> QED  BY <2>1, <2>2
<1>3. ASSUME input_ring_discard PROVE Queue!QueueDiscard
  BY <1>3, DiscardEmpties DEF Queue!QueueDiscard, input_ring_discard
<1>4. CASE UNCHANGED ring_vars
  BY <1>4 DEF ring_vars, Contents, Count
<1> QED  BY <1>1, <1>2, <1>3, <1>4 DEF RingNext, Queue!QueueNext

(* input.c's ring implements the queue of input.h, for every capacity: no   *)
(* byte is lost, repeated or reordered except by the announced discard.     *)
THEOREM RingRefinesQueue == RingSpec => RingImplementsQueue
<1>1. input_ring_init => Queue!QueueInit
  <2> SUFFICES ASSUME input_ring_init PROVE Queue!QueueInit
    BY Zenon
  <2> Capacity \in Nat \ {0}  BY Zenon, RingAssumption
  <2>1. RingTypeOK  BY RingTypeInit
  <2>2. Count = 0  BY <2>1, CountIs DEF input_ring_init
  <2> QED  BY <2>2 DEF input_ring_init, Contents, Queue!QueueInit
<1>2. RingTypeOK /\ [RingNext]_ring_vars
        => [Queue!QueueNext]_<<Contents, reset_pending, answer>>
  BY RingStep
<1> QED  BY <1>1, <1>2, RingTypeCorrect, PTL DEF RingSpec, RingImplementsQueue, Queue!QueueSpec
=============================================================================
