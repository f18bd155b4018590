-------------------------------- MODULE Pic ---------------------------------
(***************************************************************************)
(* The driver of the interrupt controllers (arch/x86_64/pic.c) and the     *)
(* dispatch of an interrupt (interrupts/irq.c), with the pair of 8259s     *)
(* they talk to.  The hardware is external, modelled from what the driver  *)
(* writes and reads: edge triggered, explicit EOI, the slave on line 2.    *)
(*                                                                         *)
(* A line may drop after the CPU has accepted the interrupt and before the *)
(* controller is asked which it was: then the controller answers with its  *)
(* lowest line, 7 or 15, and sets nothing in service.  Code runs with IF=0 *)
(* and is one step between an accepted interrupt and the next.             *)
(***************************************************************************)
EXTENDS Integers, FiniteSetsExt

CONSTANTS
    Irq,      \* the lines that are wired, the cascade not among them
    Driven    \* the lines with a handler: 0, the timer, and 1, the keyboard

ASSUME PicAssumption == Irq \subseteq 0 .. 15 /\ 2 \notin Irq

VARIABLES
    irr,      \* lines that are raised and not yet acknowledged
    isr,      \* lines in service, in either controller; 2 is the cascade
    imr,      \* lines that are masked in the controllers
    master_mask, slave_mask,   \* what the driver believes is masked
    cpu,      \* "running", "accepted", "slave" or "vector": how far an interrupt is
    vector,   \* the line of the interrupt being dispatched
    started,  \* the controllers are programmed and the CPU takes interrupts
    last      \* the interrupt dispatched last: was it real, was it treated so
pic_vars == <<irr, isr, imr, master_mask, slave_mask, cpu, vector, started, last>>

Cascade == 2
Master == {i \in Irq \cup {Cascade} : i < 8}
Slave == {i \in Irq : i >= 8}

-----------------------------------------------------------------------------
(* The hardware.                                                           *)

Waiting(lines) == {i \in lines \cap irr : i \notin imr}

\* The lines of the master that ask for service: its own, and the slave's.
Asking == Waiting(Master) \cup (IF Waiting(Slave) # {} /\ Cascade \notin imr THEN {Cascade} ELSE {})

\* A line in service holds off the lines after it.
Unblocked(lines) == {i \in lines : \A s \in isr : (s < 8 <=> i < 8) => i < s}

Raise(i) ==
    /\ i \notin irr /\ irr' = irr \cup {i}
    /\ UNCHANGED <<isr, imr, master_mask, slave_mask, cpu, vector, started, last>>

Drop(i) ==
    /\ i \in irr /\ irr' = irr \ {i}
    /\ UNCHANGED <<isr, imr, master_mask, slave_mask, cpu, vector, started, last>>

Accept ==
    /\ started /\ cpu = "running" /\ Unblocked(Asking) # {}
    /\ cpu' = "accepted"
    /\ UNCHANGED <<irr, isr, imr, master_mask, slave_mask, vector, started, last>>

\* The master answers for its lines, and lets the slave answer for the cascade.
AnswerMaster ==
    LET line == IF Unblocked(Asking) = {} THEN 7 ELSE Min(Unblocked(Asking))
        real == Unblocked(Asking) # {}
    IN  /\ cpu = "accepted"
        /\ isr' = IF real THEN isr \cup {line} ELSE isr
        /\ irr' = irr \ (IF real THEN {line} ELSE {})
        /\ cpu' = IF line = Cascade THEN "slave" ELSE "vector"
        /\ vector' = line
        /\ UNCHANGED <<imr, master_mask, slave_mask, started, last>>

AnswerSlave ==
    LET waiting == Unblocked(Waiting(Slave))
        line == IF waiting = {} THEN 15 ELSE Min(waiting)
    IN  /\ cpu = "slave"
        /\ isr' = IF waiting # {} THEN isr \cup {line} ELSE isr
        /\ irr' = irr \ (IF waiting # {} THEN {line} ELSE {})
        /\ cpu' = "vector" /\ vector' = line
        /\ UNCHANGED <<imr, master_mask, slave_mask, started, last>>

\* What an EOI ends in one controller: the line it serves first.
Eoi(service, lines) == service \ (IF service \cap lines = {} THEN {} ELSE {Min(service \cap lines)})

-----------------------------------------------------------------------------
(* pic.c                                                                   *)

\* What the driver believes after masking or unmasking a line, and what it writes.
Masks == [master |-> master_mask, slave |-> slave_mask]

pic_mask(m, i) ==
    IF i < 8 THEN [m EXCEPT !.master = @ \cup {i}]
    ELSE LET slave == m.slave \cup {i}
         IN  [slave |-> slave, master |-> IF slave = Slave THEN m.master \cup {Cascade} ELSE m.master]

pic_unmask(m, i) ==
    IF i < 8 THEN [m EXCEPT !.master = @ \ {i}]
    ELSE [slave |-> m.slave \ {i}, master |-> m.master \ {Cascade}]

Write(m) == master_mask' = m.master /\ slave_mask' = m.slave /\ imr' = m.master \cup m.slave

\* Whether the interrupt is real, and the lines still in service if it is not.
pic_begin_irq(i) == i \in {7, 15} => i \in isr

\* Mutant: a spurious interrupt is ended nowhere.
Abandoned_None(i) == isr

Abandoned(i) == IF i = 15 THEN Eoi(isr, Master) ELSE isr

pic_send_eoi(i) == IF i >= 8 THEN Eoi(Eoi(isr, Slave), Master) ELSE Eoi(isr, Master)

pic_remap ==
    /\ ~started
    /\ Write([master |-> Master, slave |-> Slave])
    /\ irr' = {} /\ isr' = {} /\ started' = TRUE
    /\ UNCHANGED <<cpu, vector, last>>

\* A driver changes the mask of a line between two interrupts.
SetMask(m) ==
    /\ started /\ cpu = "running"
    /\ Write(m)
    /\ UNCHANGED <<irr, isr, cpu, vector, started, last>>

irq_dispatch ==
    LET real == pic_begin_irq(vector)
    IN  /\ cpu = "vector"
        /\ cpu' = "running"
        /\ isr' = IF real THEN pic_send_eoi(vector) ELSE Abandoned(vector)
        /\ IF real /\ vector \notin Driven THEN Write(pic_mask(Masks, vector))
           ELSE UNCHANGED <<master_mask, slave_mask, imr>>
        /\ last' = [real |-> vector \in isr, treated |-> real]
        /\ vector' = 0
        /\ UNCHANGED <<irr, started>>

-----------------------------------------------------------------------------

\* The firmware leaves lines as they are, and any of them in service.
PicInit ==
    /\ irr \in SUBSET Irq /\ isr \in SUBSET (Irq \cup {Cascade}) /\ imr = Master \cup Slave
    /\ master_mask = Master /\ slave_mask = Slave
    /\ cpu = "running" /\ vector = 0 /\ started = FALSE
    /\ last = [real |-> FALSE, treated |-> FALSE]

PicNext ==
    \/ pic_remap
    \/ \E i \in Irq : Raise(i) \/ Drop(i) \/ SetMask(pic_mask(Masks, i)) \/ SetMask(pic_unmask(Masks, i))
    \/ Accept \/ AnswerMaster \/ AnswerSlave
    \/ irq_dispatch

PicSpec == PicInit /\ [][PicNext]_pic_vars

-----------------------------------------------------------------------------

\* Between two interrupts no line is in service, so that none is held off for good,
\* whichever came too late, in both controllers; a line is open all the way to the CPU
\* exactly when the driver believes so; and an interrupt is handled exactly if a device
\* asked for it (irq_dispatch, pic_begin_irq, pic_send_eoi, pic_mask, pic_unmask).
PicSound ==
    /\ last.real = last.treated
    /\ started =>
          /\ imr = master_mask \cup slave_mask
          /\ Cascade \notin imr <=> Slave \ slave_mask # {}
          /\ cpu = "running" => isr = {}
=============================================================================
