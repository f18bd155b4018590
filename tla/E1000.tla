------------------------------- MODULE E1000 --------------------------------
(***************************************************************************)
(* The network card's driver (drivers/e1000.c, e1000_ring.c) against the   *)
(* card, which works on the shared descriptor rings at its own pace.  The  *)
(* driver's receive and transmit run with preemption off, so one is never  *)
(* inside the other; the card's steps fall between any two of theirs.  A   *)
(* frame is a number; one that does not fit a receive buffer arrives in    *)
(* two parts.                                                              *)
(***************************************************************************)
EXTENDS Integers, Sequences

CONSTANTS
    RingCount,   \* descriptors of a ring (8)
    MaxFrames,   \* bound: frames that arrive
    MaxSends     \* bound: frames the stack sends

ASSUME CardAssumption == RingCount \in Nat \ {0, 1} /\ MaxFrames \in Nat /\ MaxSends \in Nat

VARIABLES
    drv,      \* the driver's state, and the call it is in
    rx, tx,   \* the descriptor rings
    buffer,   \* the one transmit buffer
    pages,    \* the DMA pages: "none", "held" or "freed"
    card,     \* the card: its heads and tails, and what it may do
    arrived,  \* the whole, correct frames the card stored, in order
    got,      \* what receive returned, in order
    posted,   \* the frames given to the card, in order
    wire      \* the frames the card sent, in order
card_vars == <<drv, rx, tx, buffer, pages, card, arrived, got, posted, wire>>
software == <<drv, tx, buffer, pages, got, posted>>

Index == 0 .. RingCount - 1
NextIndex(i) == (i + 1) % RingCount
NoFrame == 0
Empty == [done |-> FALSE, frame |-> NoFrame, eop |-> FALSE, error |-> FALSE, part |-> 0]

-----------------------------------------------------------------------------
(* e1000_init.  Until the card may use the bus a failure gives the pages   *)
(* back; afterwards they are kept for good.                                *)

CardInit ==
    /\ drv = [at |-> "down", ready |-> FALSE, quarantined |-> FALSE, discarding |-> FALSE,
              rx_next |-> 0, tx_next |-> 0, seen |-> 0]
    /\ rx = [i \in Index |-> Empty]
    /\ tx = [i \in Index |-> [done |-> TRUE, error |-> FALSE]]
    /\ buffer = NoFrame
    /\ pages = "none"
    /\ card = [dma |-> FALSE, rdh |-> 0, rdt |-> RingCount - 1, tdh |-> 0, tdt |-> 0,
               frames |-> 0, rest |-> NoFrame, rxon |-> FALSE, txon |-> FALSE]
    /\ arrived = <<>> /\ got = <<>> /\ posted = <<>> /\ wire = <<>>

Start ==
    /\ drv.at = "down" /\ pages = "none"
    /\ pages' = "held"
    /\ drv' = [drv EXCEPT !.at = "mapping"]
    /\ UNCHANGED <<rx, tx, buffer, card, arrived, got, posted, wire>>

\* memory_phys_to_virt fails.
StartFails ==
    /\ drv.at = "mapping"
    /\ pages' = "freed"
    /\ drv' = [drv EXCEPT !.at = "dead"]
    /\ UNCHANGED <<rx, tx, buffer, card, arrived, got, posted, wire>>

\* The pages are the card's from here on: pci_enable_mmio_dma may fail half-way.
EnableDma ==
    /\ drv.at = "mapping"
    /\ card' = [card EXCEPT !.dma = TRUE]
    /\ \E works \in BOOLEAN :
          drv' = [drv EXCEPT !.at = IF works THEN "enabled" ELSE "dead", !.quarantined = TRUE]
    /\ UNCHANGED <<rx, tx, buffer, pages, arrived, got, posted, wire>>

Enable ==
    /\ drv.at = "enabled"
    /\ card' = [card EXCEPT !.rxon = TRUE, !.txon = TRUE]
    /\ drv' = [drv EXCEPT !.at = "idle", !.quarantined = FALSE, !.ready = TRUE]
    /\ UNCHANGED <<rx, tx, buffer, pages, arrived, got, posted, wire>>

-----------------------------------------------------------------------------
(* receive: one descriptor after the other.                                *)

Receive ==
    /\ drv.at = "idle" /\ drv.ready
    /\ drv' = [drv EXCEPT !.at = "receive", !.seen = 0]
    /\ UNCHANGED <<rx, tx, buffer, pages, card, arrived, got, posted, wire>>

\* A frame in one part, with no error, that is not the end of a longer one.
e1000_rx_valid(d, discarding) == ~discarding /\ d.eop /\ ~d.error

\* The frame is copied and the descriptor cleared; it is not the card's yet.
TakeDescriptor ==
    LET index == drv.rx_next
        d == rx[index]
        valid == e1000_rx_valid(d, drv.discarding)
        over == valid \/ drv.seen + 1 = RingCount
    IN  /\ drv.at = "receive"
        /\ d.done
        /\ got' = IF valid THEN Append(got, [frame |-> d.frame, part |-> d.part]) ELSE got
        /\ rx' = [rx EXCEPT ![index].done = FALSE, ![index].error = FALSE, ![index].eop = FALSE]
        /\ drv' = [drv EXCEPT !.rx_next = NextIndex(index), !.discarding = ~d.eop,
                              !.seen = IF over THEN 0 ELSE @ + 1, !.at = "give"]
        /\ UNCHANGED <<tx, buffer, pages, card, arrived, posted, wire>>

PrevIndex(i) == (i + RingCount - 1) % RingCount

\* The tail register: the descriptor is the card's.  The call ends with a frame,
\* or once it has seen the whole ring.
GiveBack ==
    /\ drv.at = "give"
    /\ card' = [card EXCEPT !.rdt = PrevIndex(drv.rx_next)]
    /\ drv' = [drv EXCEPT !.at = IF drv.seen = 0 THEN "idle" ELSE "receive"]
    /\ UNCHANGED <<rx, tx, buffer, pages, arrived, got, posted, wire>>

ReceiveNone ==
    /\ drv.at = "receive" /\ ~rx[drv.rx_next].done
    /\ drv' = [drv EXCEPT !.at = "idle", !.seen = 0]
    /\ UNCHANGED <<rx, tx, buffer, pages, card, arrived, got, posted, wire>>

-----------------------------------------------------------------------------
(* transmit.                                                               *)

\* Mutant: after a failure the driver goes on.
quarantine_GoesOn(d) == d

\* The card is told to stop, and the driver never uses it again; what the card
\* has already begun, it may still do.
quarantine(d) == [d EXCEPT !.ready = FALSE, !.quarantined = TRUE]
Stopped == [card EXCEPT !.rxon = FALSE, !.txon = FALSE]

\* The link is up: the frame is copied and its descriptor given to the card.
Transmit ==
    /\ drv.at = "idle" /\ drv.ready
    /\ Len(posted) < MaxSends
    /\ tx[drv.tx_next].done
    /\ buffer' = Len(posted) + 1
    /\ posted' = Append(posted, Len(posted) + 1)
    /\ tx' = [tx EXCEPT ![drv.tx_next] = [done |-> FALSE, error |-> FALSE]]
    /\ card' = [card EXCEPT !.tdt = NextIndex(drv.tx_next)]
    /\ drv' = [drv EXCEPT !.at = "transmit", !.tx_next = NextIndex(@)]
    /\ UNCHANGED <<rx, pages, arrived, got, wire>>

Current == PrevIndex(drv.tx_next)

TransmitDone ==
    /\ drv.at = "transmit" /\ tx[Current].done /\ ~tx[Current].error
    /\ drv' = [drv EXCEPT !.at = "idle"]
    /\ UNCHANGED <<rx, tx, buffer, pages, card, arrived, got, posted, wire>>

\* An error of the card, or no answer in time; or, before anything is written,
\* a descriptor the card still holds.
TransmitFails ==
    /\ IF drv.at = "transmit"
       THEN tx[Current].error \/ ~tx[Current].done
       ELSE drv.at = "idle" /\ drv.ready /\ ~tx[drv.tx_next].done
    /\ drv' = quarantine([drv EXCEPT !.at = "idle"])
    /\ card' = Stopped
    /\ UNCHANGED <<rx, tx, buffer, pages, arrived, got, posted, wire>>

-----------------------------------------------------------------------------
(* The card.  It owns the receive descriptors from its head up to, and     *)
(* without, the tail the driver wrote; a step it has begun ends even after *)
(* it was told to stop.                                                    *)

Store(d) ==
    /\ card.rdh # card.rdt
    /\ rx' = [rx EXCEPT ![card.rdh] = d]
    /\ UNCHANGED <<software, wire>>

\* A short frame, or the first part of a long one.
CardReceives ==
    /\ card.dma /\ card.rxon
    /\ card.frames < MaxFrames
    /\ card.rest = NoFrame
    /\ \E long, error \in BOOLEAN :
          LET frame == card.frames + 1 IN
          /\ Store([done |-> TRUE, frame |-> frame, eop |-> ~long, error |-> error, part |-> 1])
          /\ card' = [card EXCEPT !.rdh = NextIndex(@), !.frames = frame,
                                  !.rest = IF long THEN frame ELSE NoFrame]
          /\ arrived' = IF long \/ error THEN arrived
                        ELSE Append(arrived, [frame |-> frame, part |-> 1])

CardReceivesRest ==
    /\ card.rest # NoFrame
    /\ Store([done |-> TRUE, frame |-> card.rest, eop |-> TRUE, error |-> FALSE, part |-> 2])
    /\ card' = [card EXCEPT !.rdh = NextIndex(@), !.rest = NoFrame]
    /\ UNCHANGED arrived

\* The card reads the buffer when it gets to the descriptor, however late.
CardSends ==
    /\ card.tdh # card.tdt
    /\ \E error \in BOOLEAN : tx' = [tx EXCEPT ![card.tdh] = [done |-> TRUE, error |-> error]]
    /\ wire' = Append(wire, buffer)
    /\ card' = [card EXCEPT !.tdh = NextIndex(@)]
    /\ UNCHANGED <<drv, rx, buffer, pages, arrived, got, posted>>

-----------------------------------------------------------------------------

CardDriver ==
    \/ Start \/ StartFails \/ EnableDma \/ Enable
    \/ Receive \/ TakeDescriptor \/ GiveBack \/ ReceiveNone
    \/ Transmit \/ TransmitDone \/ TransmitFails

CardStep == CardReceives \/ CardReceivesRest \/ CardSends

CardNext == CardDriver \/ CardStep

CardSpec == CardInit /\ [][CardNext]_card_vars

-----------------------------------------------------------------------------

DriverTypeOK ==
    /\ drv.rx_next \in Index /\ drv.tx_next \in Index
    /\ ~(drv.ready /\ drv.quarantined)
    /\ pages \in {"none", "held", "freed"}

\* However the card and the driver interleave, and wherever the ring wraps: the
\* frames receive returns are the whole, correct ones the card stored, each once
\* and in order; a part of a long frame is never taken for one (receive,
\* e1000_rx_valid).
FramesWhole == Len(got) <= Len(arrived) /\ \A i \in 1 .. Len(got) : got[i] = arrived[i]

\* What the card sends is what the stack asked for, each frame at most once, in
\* order: the one buffer is never refilled while the card may still read it,
\* even after a timeout, and the pages are never given back once the card can
\* reach them (transmit, quarantine, e1000_init).
DmaSafe ==
    /\ DriverTypeOK
    /\ Len(wire) <= Len(posted) /\ \A i \in 1 .. Len(wire) : wire[i] = posted[i]
    /\ card.dma => pages = "held"

\* Frames come in and go out whole, once and in order, and the card never reaches
\* memory that is not its own (receive, transmit, quarantine, e1000_init).
CardSound == FramesWhole /\ DmaSafe

=============================================================================
