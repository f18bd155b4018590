-------------------------------- MODULE Ahci --------------------------------
(***************************************************************************)
(* The disk driver (drivers/ahci.c, ahci_core.c) under the block layer     *)
(* (drivers/block.c), against a controller that works through the command  *)
(* table and the transfer buffer in shared memory at its own pace.  A read *)
(* runs with preemption off, so there is one at a time; the controller's   *)
(* steps fall between any two of its own.  A sector's content is its       *)
(* number.  A wait may end by its deadline at any time.                    *)
(***************************************************************************)
EXTENDS Integers, Sequences

CONSTANTS
    Sectors,    \* the size of the disk
    Batch,      \* sectors the transfer buffer holds (8)
    MaxReads    \* bound: reads asked for

ASSUME DiskAssumption == Sectors \in Nat \ {0} /\ Batch \in Nat \ {0} /\ MaxReads \in Nat

VARIABLES
    disk,    \* the driver's state, and the call it is in
    table,   \* the command in the command list and table
    moved,   \* the sectors the controller says it moved (the header's PRDBC)
    data,    \* the transfer buffer
    disk_pages,   \* the four DMA pages: "none", "held" or "freed"
    port     \* the port's registers, and the command the controller works on
disk_vars == <<disk, table, moved, data, disk_pages, port>>
shared == <<table, moved, data, disk_pages>>

Zero == -1
Cleared == [i \in 1 .. Batch |-> Zero]
NoCommand == [lba |-> 0, count |-> 0]
Identify == [lba |-> 0, count |-> 1]

\* The sectors a read is to return.
Wanted(lba, count) == [i \in 1 .. count |-> lba + i - 1]

\* The firmware may have left the port running, with a command of its own.
DiskInit ==
    /\ disk = [at |-> "off", job |-> "init", ready |-> FALSE, quarantined |-> FALSE,
              busy |-> FALSE, complete |-> FALSE, commands |-> 0, reads |-> 0,
              lba |-> 0, left |-> 0, asked |-> NoCommand, out |-> <<>>, good |-> FALSE]
    /\ table = NoCommand /\ moved = 0 /\ data = Cleared /\ disk_pages = "none"
    /\ \E running \in BOOLEAN :
          port = [st |-> running, cr |-> running, fre |-> running, ci |-> FALSE,
                  bsy |-> running, error |-> FALSE, ours |-> FALSE, dma |-> FALSE,
                  active |-> IF running THEN Identify ELSE NoCommand, done |-> 0]

-----------------------------------------------------------------------------
(* stop_port.  Clearing ST drops the command the port was given; the       *)
(* engine stops (CR) when it gets to it, or does not in time.              *)

Stopping(p) == [p EXCEPT !.st = FALSE, !.ci = FALSE]

\* Where the call goes on once stop_port returned.
AfterStop(stopped) ==
    CASE disk.job = "init" -> [disk EXCEPT !.at = IF stopped THEN "stopped" ELSE "dead"]
      [] disk.job = "identify" -> [disk EXCEPT !.at = "dead"]
      [] disk.job = "read" -> [disk EXCEPT !.at = "failed"]

StopPort ==
    /\ disk.at = "stop" /\ ~port.cr
    /\ port' = [port EXCEPT !.fre = FALSE]
    /\ \E stopped \in BOOLEAN : disk' = AfterStop(stopped)
    /\ UNCHANGED shared

StopTimesOut ==
    /\ disk.at = "stop" /\ port.cr
    /\ disk' = AfterStop(FALSE)
    /\ UNCHANGED <<shared, port>>

-----------------------------------------------------------------------------
(* ahci_init.                                                              *)

\* A controller, its registers and its handoff are good: the ports are stopped.
FindPort ==
    /\ disk.at = "off"
    /\ disk' = [disk EXCEPT !.at = "stop"]
    /\ port' = Stopping(port)
    /\ UNCHANGED shared

\* No controller, no disk, or no memory.
NoDisk ==
    /\ disk.at \in {"off", "stopped"}
    /\ disk' = [disk EXCEPT !.at = "dead"]
    /\ UNCHANGED <<shared, port>>

AllocDma ==
    /\ disk.at = "stopped"
    /\ disk_pages' = "held"
    /\ disk' = [disk EXCEPT !.at = "rebase"]
    /\ UNCHANGED <<table, moved, data, port>>

\* The controller cannot reach the pages, or the kernel cannot.
DmaUnreachable ==
    /\ disk.at = "rebase"
    /\ disk_pages' = "freed"
    /\ disk' = [disk EXCEPT !.at = "dead"]
    /\ UNCHANGED <<table, moved, data, port>>

\* The port gets the pages' address, and the controller the bus, which may fail
\* half-way: the pages are the controller's from here on.
Rebase ==
    /\ disk.at = "rebase"
    /\ table' = NoCommand /\ moved' = 0 /\ data' = Cleared
    /\ port' = [port EXCEPT !.ours = TRUE, !.error = FALSE, !.dma = TRUE]
    /\ \E enabled \in BOOLEAN :
          disk' = [disk EXCEPT !.quarantined = TRUE, !.at = IF enabled THEN "start" ELSE "dead"]
    /\ UNCHANGED disk_pages

StartPort ==
    /\ disk.at = "start"
    /\ port' = [port EXCEPT !.fre = TRUE, !.st = TRUE, !.cr = TRUE]
    /\ disk' = [disk EXCEPT !.quarantined = FALSE, !.at = "issue", !.job = "identify",
                          !.lba = 0, !.left = 1]
    /\ UNCHANGED shared

\* ahci_identify accepts what the disk says of itself; disk.sectors is set.
Identified ==
    /\ disk.at = "issued" /\ disk.job = "identify"
    /\ disk' = [disk EXCEPT !.ready = TRUE, !.at = "idle", !.job = "read"]
    /\ UNCHANGED <<shared, port>>

\* It does not, or the command failed.
IdentifyFails ==
    /\ disk.at \in {"issued", "refused"} /\ disk.job = "identify"
    /\ disk' = [disk EXCEPT !.quarantined = TRUE, !.at = "stop"]
    /\ port' = Stopping(port)
    /\ UNCHANGED shared

-----------------------------------------------------------------------------
(* issue.                                                                  *)

\* The part of a read that one command transfers.
Part == [lba |-> disk.lba, count |-> IF disk.left < Batch THEN disk.left ELSE Batch]

PortFree == ~port.bsy /\ ~port.ci

\* ahci_build_read accepts a command that fits the buffer; its other bound, 2^48
\* sectors, holds for every sector of a disk that ahci_identify accepted.
Buildable(c) == c.count \in 1 .. Batch

\* The table is built, the buffer cleared, and the controller told.
IssueCommand ==
    /\ disk.at = "issue" /\ ~disk.quarantined /\ PortFree /\ Buildable(Part)
    /\ table' = Part /\ moved' = 0 /\ data' = Cleared
    /\ port' = [port EXCEPT !.error = FALSE, !.ci = TRUE]
    /\ disk' = [disk EXCEPT !.commands = @ + 1, !.at = "poll"]
    /\ UNCHANGED disk_pages

\* The port stays busy, or holds a command: nothing is written, and the next
\* read may try again.
IssueRefused ==
    /\ disk.at = "issue" /\ (disk.quarantined \/ ~PortFree \/ ~Buildable(Part))
    /\ disk' = [disk EXCEPT !.at = "refused"]
    /\ UNCHANGED <<shared, port>>

\* The three ends of the polling loop.
PollError ==
    /\ disk.at = "poll" /\ port.error
    /\ disk' = [disk EXCEPT !.at = "check", !.complete = FALSE]
    /\ UNCHANGED <<shared, port>>

PollComplete ==
    /\ disk.at = "poll" /\ ~port.ci
    /\ disk' = [disk EXCEPT !.at = "check", !.complete = TRUE]
    /\ UNCHANGED <<shared, port>>

PollTimesOut ==
    /\ disk.at = "poll" /\ port.ci
    /\ disk' = [disk EXCEPT !.at = "check", !.complete = FALSE]
    /\ UNCHANGED <<shared, port>>

\* Mutant: the byte count is not compared.
Succeeded_AnyLength == disk.complete /\ ~port.bsy /\ ~port.error

\* What issue takes for success.  An error stays set, so that the last of its
\* reads sees what the first ones would have.
Succeeded == disk.complete /\ ~port.bsy /\ ~port.error /\ moved = Part.count

CommandGood ==
    /\ disk.at = "check" /\ Succeeded
    /\ disk' = [disk EXCEPT !.at = "issued"]
    /\ UNCHANGED <<shared, port>>

\* Mutant: after an ambiguous failure the disk is used again.
Quarantine_GoesOn(d) == d

Quarantine(d) == [d EXCEPT !.quarantined = TRUE, !.ready = FALSE]

CommandFails ==
    /\ disk.at = "check" /\ ~Succeeded
    /\ disk' = Quarantine([disk EXCEPT !.at = "stop"])
    /\ port' = Stopping(port)
    /\ UNCHANGED shared

-----------------------------------------------------------------------------
(* block_read and read_disk.                                               *)

\* The bounds are checked before the driver is called.
InBounds(lba, count) == count # 0 /\ lba < Sectors /\ count <= Sectors - lba

BlockRead(lba, count) ==
    LET allowed == InBounds(lba, count) /\ disk.ready IN
    /\ disk.at = "idle" /\ disk.reads < MaxReads /\ ~disk.busy
    /\ disk' = [disk EXCEPT !.reads = @ + 1, !.asked = [lba |-> lba, count |-> count],
                          !.lba = lba, !.left = count, !.out = <<>>, !.good = FALSE,
                          !.busy = allowed, !.at = IF allowed THEN "issue" ELSE "idle"]
    /\ UNCHANGED <<shared, port>>

\* A part has arrived: it is copied out, and the next one, if any, asked for.
CopyOut ==
    LET n == Part.count
        over == disk.left = n
    IN  /\ disk.at = "issued" /\ disk.job = "read"
        /\ disk' = [disk EXCEPT !.out = @ \o SubSeq(data, 1, n), !.lba = @ + n, !.left = @ - n,
                              !.at = IF over THEN "idle" ELSE "issue",
                              !.busy = ~over, !.good = over]
        /\ UNCHANGED <<shared, port>>

ReadFails ==
    /\ disk.at \in {"refused", "failed"} /\ disk.job = "read"
    /\ disk' = [disk EXCEPT !.at = "idle", !.busy = FALSE, !.good = FALSE]
    /\ UNCHANGED <<shared, port>>

-----------------------------------------------------------------------------
(* The controller and the disk.                                            *)

Working == port.active # NoCommand

Fetch ==
    /\ port.st /\ port.ci /\ ~Working /\ ~port.error /\ ~port.bsy
    /\ port' = [port EXCEPT !.active = table, !.done = 0, !.bsy = TRUE]
    /\ UNCHANGED <<disk, shared>>

\* One sector, also after an error was reported and after ST was cleared, until
\* the engine has stopped.
Transfer ==
    /\ Working /\ port.done < port.active.count
    /\ port' = [port EXCEPT !.done = @ + 1]
    /\ IF port.ours
       THEN /\ data' = [data EXCEPT ![port.done + 1] = port.active.lba + port.done]
            /\ moved' = port.done + 1
       ELSE UNCHANGED <<data, moved>>
    /\ UNCHANGED <<disk, table, disk_pages>>

\* The command ends, perhaps before all was moved.
Complete ==
    /\ Working
    /\ port' = [port EXCEPT !.active = NoCommand, !.ci = FALSE, !.bsy = FALSE, !.done = 0]
    /\ UNCHANGED <<disk, shared>>

\* The port no longer looks busy, whatever is still on its way.
Fail ==
    /\ Working /\ ~port.error
    /\ port' = [port EXCEPT !.error = TRUE, !.bsy = FALSE]
    /\ UNCHANGED <<disk, shared>>

\* The disk is busy with itself.
Occupied ==
    /\ ~Working /\ ~port.ci
    /\ port' = [port EXCEPT !.bsy = ~@]
    /\ UNCHANGED <<disk, shared>>

EngineStops ==
    /\ port.cr /\ ~port.st
    /\ port' = [port EXCEPT !.cr = FALSE, !.active = NoCommand, !.bsy = FALSE, !.done = 0]
    /\ UNCHANGED <<disk, shared>>

-----------------------------------------------------------------------------

DiskDriver ==
    \/ FindPort \/ NoDisk \/ AllocDma \/ DmaUnreachable \/ Rebase \/ StartPort
    \/ Identified \/ IdentifyFails
    \/ StopPort \/ StopTimesOut
    \/ IssueCommand \/ IssueRefused \/ PollError \/ PollComplete \/ PollTimesOut
    \/ CommandGood \/ CommandFails
    \/ CopyOut \/ ReadFails
    \/ \E lba \in 0 .. Sectors, count \in 0 .. Sectors + 1 : BlockRead(lba, count)

Controller == Fetch \/ Transfer \/ Complete \/ Fail \/ Occupied \/ EngineStops

DiskNext == DiskDriver \/ Controller

DiskSpec == DiskInit /\ [][DiskNext]_disk_vars

-----------------------------------------------------------------------------

DiskTypeOK ==
    /\ disk.lba \in 0 .. Sectors + 1 /\ disk.left \in 0 .. Sectors + 1
    /\ disk.busy = (disk.job = "read" /\ disk.at # "idle")
    /\ data \in [1 .. Batch -> Zero .. Sectors - 1]
    /\ moved \in 0 .. Batch

\* What a read has put into the caller's buffer is, whatever the controller does
\* and however many commands the read takes, the beginning of what was asked
\* for, and all of it when the read reports success; nothing else is ever
\* copied, not even by a read that fails later (read_disk, issue, block_read).
DiskReadsExact ==
    LET wanted == Wanted(disk.asked.lba, disk.asked.count) IN
    /\ DiskTypeOK
    /\ Len(disk.out) <= Len(wanted)
    /\ \A i \in 1 .. Len(disk.out) : disk.out[i] = wanted[i]
    /\ disk.good => disk.out = wanted /\ InBounds(disk.asked.lba, disk.asked.count)

\* The controller is never made to share the DMA pages with something else: the
\* port's addresses change only while its engine stands still, a command is
\* written only when the one before is over for the controller too, even after a
\* timeout or an error that left it unclear, and the pages are never given back
\* once the controller can reach them (ahci_init, issue, stop_port).
DmaUndisturbed ==
    /\ [](port.dma => disk_pages = "held")
    /\ [][/\ port'.ours # port.ours => ~port.cr
          /\ disk'.commands # disk.commands => ~Working]_disk_vars

=============================================================================
