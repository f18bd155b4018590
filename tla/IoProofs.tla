------------------------------ MODULE IoProofs ------------------------------
(***************************************************************************)
(* The disk driver and the network stack.  For every size of the disk and  *)
(* of the transfer buffer: reads are exact, and the controller's memory is *)
(* never disturbed.  For every set of hosts and offers, every size of the  *)
(* cache and all time limits: the stack honours its lease, and every       *)
(* operation of it ends.                                                   *)
(***************************************************************************)
EXTENDS Ahci, NetStack, TLAPS

-----------------------------------------------------------------------------
(* The disk: the inductive invariant                                       *)

Command == [lba : Nat, count : Nat]
Commanding == {"issue", "poll", "check", "issued", "refused"}

StageOK ==
    /\ \/ disk.job = "init" /\ disk.at \in {"off", "stop", "stopped", "rebase", "start", "dead"}
       \/ disk.job = "identify" /\ disk.at \in Commanding \cup {"stop", "dead"}
       \/ disk.job = "read" /\ disk.at \in Commanding \cup {"stop", "failed", "idle"}
    /\ disk.busy \in BOOLEAN /\ (disk.busy <=> disk.job = "read" /\ disk.at # "idle")

DiskType ==
    /\ DOMAIN disk = {"at", "job", "ready", "quarantined", "busy", "complete", "commands", "reads",
                      "lba", "left", "asked", "out", "good"}
    /\ DOMAIN port = {"st", "cr", "fre", "ci", "bsy", "error", "ours", "dma", "active", "done"}
    /\ StageOK
    /\ disk.lba \in 0 .. Sectors /\ disk.left \in 0 .. Sectors + 1
    /\ disk.asked \in Command /\ disk.out \in Seq(Int)
    /\ table \in Command /\ port.active \in Command /\ port.done \in Nat
    /\ data \in [1 .. Batch -> Zero .. Sectors - 1] /\ moved \in 0 .. Batch

\* The controller works only while its engine runs, for a command of this driver only
\* until the driver has seen its end or given the disk up; and the pages stay.
PortOK ==
    /\ (Working \/ port.st) => port.cr
    /\ disk.at \in {"stopped", "rebase", "start"} => ~port.cr
    /\ disk.at = "stop" => ~port.st
    /\ Working => port.ci \/ disk.quarantined \/ disk.job = "init"
    /\ port.ci => disk.at \in {"poll", "check"} /\ ~(disk.at = "check" /\ disk.complete)
    /\ disk.at \in Commanding => port.st /\ ~disk.quarantined
    /\ disk.ready => port.st /\ ~disk.quarantined /\ disk.job = "read"
    /\ (disk.job # "init" \/ disk.at = "start") => port.ours
    /\ disk.job = "init" /\ disk.at \notin {"start", "dead"} => ~port.dma
    /\ (disk.at = "rebase" \/ port.dma) => disk_pages = "held"

\* What the controller transfers is what the table says, and fits.
DataOK ==
    /\ Working =>
          /\ port.active.count \in 1 .. Batch /\ port.active.lba + port.active.count <= Sectors
          /\ port.done <= port.active.count
    /\ disk.at \in {"poll", "check", "issued"} =>
          /\ table = Part
          /\ \A i \in 1 .. moved : data[i] = disk.lba + i - 1
          /\ Working => port.active = table /\ port.done = moved
          /\ port.ci /\ ~Working => moved = 0
    /\ disk.at = "issued" => moved = Part.count

\* How far the read is.
ReadOK ==
    /\ disk.at \in Commanding => disk.left >= 1 /\ disk.lba + disk.left <= Sectors
    /\ disk.at \in Commanding /\ disk.job = "read" =>
          /\ InBounds(disk.asked.lba, disk.asked.count)
          /\ disk.lba = disk.asked.lba + Len(disk.out)
          /\ disk.left = disk.asked.count - Len(disk.out)
    /\ Len(disk.out) <= disk.asked.count
    /\ \A i \in 1 .. Len(disk.out) : disk.out[i] = disk.asked.lba + i - 1
    /\ disk.good => Len(disk.out) = disk.asked.count /\ InBounds(disk.asked.lba, disk.asked.count)

DiskInv == DiskType /\ PortOK /\ DataOK /\ ReadOK

\* Steps that leave the read where it is.
LEMMA ReadStays ==
  ASSUME ReadOK, disk'.lba = disk.lba, disk'.left = disk.left, disk'.asked = disk.asked,
         disk'.out = disk.out, disk'.good => disk.good,
         disk'.at \in Commanding => disk.at \in Commanding /\ disk'.job = disk.job
  PROVE  ReadOK'
BY DEF ReadOK, InBounds

\* Steps that leave the transfer where it is.
LEMMA DataStays ==
  ASSUME DataOK, UNCHANGED <<table, moved, data>>, disk'.lba = disk.lba, disk'.left = disk.left,
         port'.active = port.active, port'.done = port.done, port'.ci => port.ci,
         disk'.at \in {"poll", "check", "issued"} => disk.at \in {"poll", "check", "issued"},
         disk'.at = "issued" => disk.at = "issued"
  PROVE  DataOK'
<1>1. Part' = Part BY DEF Part
<1>2. Working' = Working BY DEF Working
<1> QED BY <1>1, <1>2 DEF DataOK

\* Steps of the driver that change the stage it is in.
LEMMA TypeStays ==
  ASSUME DiskType, StageOK', UNCHANGED <<table, moved, data>>, DOMAIN disk' = DOMAIN disk, DOMAIN port' = DOMAIN port,
         disk'.lba = disk.lba, disk'.left = disk.left, disk'.asked = disk.asked, disk'.out = disk.out,
         port'.active = port.active, port'.done = port.done
  PROVE  DiskType'
BY Zenon DEF DiskType

\* The controller takes the command from the table.
LEMMA FetchKeeps ==
  ASSUME DiskInv, Fetch
  PROVE  DiskInv'
<1>1. DiskType /\ PortOK /\ DataOK /\ ReadOK BY DEF DiskInv
<1>2. port' = [port EXCEPT !.active = table, !.done = 0, !.bsy = TRUE]
      /\ port.st /\ port.ci /\ ~Working /\ UNCHANGED <<disk, table, moved, data, disk_pages>>
  BY DEF Fetch, shared
<1>3. /\ DOMAIN port' = DOMAIN port /\ port'.st = port.st /\ port'.cr = port.cr /\ port'.ci = port.ci
      /\ port'.ours = port.ours /\ port'.dma = port.dma /\ port'.active = table /\ port'.done = 0
  <2>1. DOMAIN port = {"st", "cr", "fre", "ci", "bsy", "error", "ours", "dma", "active", "done"}
    BY <1>1 DEF DiskType
  <2> QED BY Zenon, <1>2, <2>1
<1>4. DiskType'
  <2>1. 0 \in Nat OBVIOUS
  <2> QED BY Zenon, <1>1, <1>2, <1>3, <2>1 DEF DiskType, StageOK
<1>5. PortOK' BY <1>1, <1>2, <1>3 DEF PortOK, Working
<1>6. disk.at \in {"poll", "check"} BY <1>1, <1>2 DEF PortOK
<1>7. Part' = Part /\ table = Part /\ moved = 0 BY <1>1, <1>2, <1>6 DEF Part, DataOK
<1>8. Part.count \in 1 .. Batch /\ Part.lba + Part.count <= Sectors
  BY <1>1, <1>6, DiskAssumption DEF Part, ReadOK, DiskType, Commanding
<1>9. DataOK' BY <1>1, <1>2, <1>3, <1>6, <1>7, <1>8 DEF DataOK
<1>10. ReadOK' BY <1>1, <1>2 DEF ReadOK, InBounds
<1> QED BY <1>4, <1>5, <1>9, <1>10 DEF DiskInv

\* One more sector is in the buffer.
LEMMA TransferKeeps ==
  ASSUME DiskInv, Transfer
  PROVE  DiskInv'
<1>1. DiskType /\ PortOK /\ DataOK /\ ReadOK BY Zenon DEF DiskInv
<1> DEFINE k == port.done
           a == port.active
<1>2. Working /\ k < a.count /\ port' = [port EXCEPT !.done = k + 1] /\ UNCHANGED <<disk, table, disk_pages>>
  BY DEF Transfer
<1>3. /\ DOMAIN port' = DOMAIN port /\ port'.st = port.st /\ port'.cr = port.cr /\ port'.ci = port.ci
      /\ port'.ours = port.ours /\ port'.dma = port.dma /\ port'.active = a /\ port'.done = k + 1
  BY <1>1, <1>2 DEF DiskType
<1>4. k \in Nat /\ a.count \in 1 .. Batch /\ a.lba \in Nat /\ a.lba + a.count <= Sectors
  BY <1>1, <1>2 DEF DiskType, DataOK, Command
<1>5. k + 1 \in 1 .. Batch /\ k + 1 <= a.count /\ a.lba + k \in Zero .. Sectors - 1
  <2> HIDE DEF k, a
  <2> QED BY <1>2, <1>4, DiskAssumption DEF Zero
<1>6. \/ data' = [data EXCEPT ![k + 1] = a.lba + k] /\ moved' = k + 1 /\ port.ours
      \/ UNCHANGED <<data, moved>> /\ ~port.ours
  BY DEF Transfer
<1>7. data' \in [1 .. Batch -> Zero .. Sectors - 1] /\ moved' \in 0 .. Batch
  <2>1. data \in [1 .. Batch -> Zero .. Sectors - 1] /\ moved \in 0 .. Batch BY <1>1 DEF DiskType
  <2>2. k + 1 \in 0 .. Batch BY <1>5, DiskAssumption
  <2> QED BY <1>5, <1>6, <2>1, <2>2
<1>8. DiskType'
  <2>1. k + 1 \in Nat BY <1>4
  <2> QED BY Zenon, <1>1, <1>2, <1>3, <1>7, <2>1 DEF DiskType, StageOK
<1>9. Working' = Working BY <1>3 DEF Working
<1>10. PortOK' BY <1>1, <1>2, <1>3, <1>9 DEF PortOK
<1>11. Part' = Part BY <1>2 DEF Part
<1>12. DataOK'
  <2>1. ASSUME disk.at \in {"poll", "check", "issued"}
        PROVE  /\ disk.at # "issued" /\ table = Part /\ port'.active = table /\ port'.done = moved'
               /\ \A i \in 1 .. moved' : data'[i] = disk.lba + i - 1
    <3>1. port.ours /\ a = table /\ k = moved /\ table = Part /\ port.ci
      BY <1>1, <1>2, <2>1 DEF DataOK, PortOK, Commanding, DiskType, StageOK
    <3>2. a.lba = disk.lba BY <3>1 DEF Part
    <3>3. moved' = k + 1 /\ data' = [data EXCEPT ![k + 1] = disk.lba + k] BY <1>6, <3>1, <3>2
    <3>4. \A i \in 1 .. k : data[i] = disk.lba + i - 1 BY <1>1, <2>1, <3>1 DEF DataOK
    <3>5. disk.at # "issued" BY <1>1, <3>1 DEF PortOK
    <3>6. data \in [1 .. Batch -> Zero .. Sectors - 1] /\ disk.lba \in Int BY <1>1 DEF DiskType
    <3>7. \A i \in 1 .. (k + 1) : data'[i] = disk.lba + i - 1
      <4> HIDE DEF k
      <4>1. k \in Int /\ k + 1 \in 1 .. Batch BY <1>4, <1>5, DiskAssumption
      <4>2. data'[k + 1] = disk.lba + k BY Zenon, <3>3, <3>6, <4>1
      <4>3. \A i \in 1 .. Batch : i # k + 1 => data'[i] = data[i] BY Zenon, <3>3, <3>6
      <4> SUFFICES ASSUME NEW i \in 1 .. (k + 1) PROVE data'[i] = disk.lba + i - 1
        BY Zenon
      <4>4. CASE i = k + 1 BY <3>6, <4>1, <4>2, <4>4
      <4>5. CASE i # k + 1
        <5>1. i \in 1 .. k /\ i \in 1 .. Batch BY <4>1, <4>5, DiskAssumption
        <5> QED BY Zenon, <3>4, <4>3, <4>5, <5>1
      <4> QED BY Zenon, <4>4, <4>5
    <3> QED BY <1>3, <3>1, <3>3, <3>5, <3>7
  <2>2. port'.done <= port'.active.count /\ port'.active = port.active BY <1>3, <1>5
  <2>3. UNCHANGED <<disk, table>> BY <1>2
  <2>4. Working' /\ port'.active.count \in 1 .. Batch /\ port'.active.lba + port'.active.count <= Sectors
    BY <1>2, <1>3, <1>4, <1>9
  <2> HIDE DEF k, a
  <2> QED BY <1>11, <2>1, <2>2, <2>3, <2>4 DEF DataOK
<1>13. ReadOK' BY <1>1, <1>2 DEF ReadOK, InBounds
<1> QED BY Zenon, <1>8, <1>10, <1>12, <1>13 DEF DiskInv

\* The controller is done, or stops, or the port fails, or is busy for a while.
LEMMA ControllerKeeps ==
  ASSUME DiskInv, Complete \/ Fail \/ Occupied \/ EngineStops
  PROVE  DiskInv'
<1>1. DiskType /\ PortOK /\ DataOK /\ ReadOK BY DEF DiskInv
<1>2. UNCHANGED <<disk, table, moved, data, disk_pages>>
  BY Zenon DEF Complete, Fail, Occupied, EngineStops, shared
<1>3. /\ DOMAIN port' = DOMAIN port /\ port'.st = port.st /\ port'.ours = port.ours /\ port'.dma = port.dma
      /\ \/ /\ port'.cr = port.cr /\ port'.ci = port.ci
            /\ port'.active = port.active /\ port'.done = port.done
         \/ /\ port'.cr = port.cr /\ ~port'.ci
            /\ port'.active = NoCommand /\ port'.done = 0
         \/ /\ ~port.st /\ ~port'.cr /\ port'.ci = port.ci
            /\ port'.active = NoCommand /\ port'.done = 0
  <2>1. CASE Complete BY <1>1, <2>1 DEF Complete, DiskType
  <2>2. CASE Fail BY <1>1, <2>2 DEF Fail, DiskType
  <2>3. CASE Occupied BY <1>1, <2>3 DEF Occupied, DiskType
  <2>4. CASE EngineStops BY <1>1, <2>4 DEF EngineStops, DiskType
  <2> QED BY <2>1, <2>2, <2>3, <2>4
<1>4. DiskType'
  <2>1. 0 \in Nat /\ NoCommand \in Command BY DEF NoCommand, Command
  <2> QED BY Zenon, <1>1, <1>2, <1>3, <2>1 DEF DiskType, StageOK
<1>5. (Working' => Working) /\ (port'.active # NoCommand => port'.active = port.active /\ port'.done = port.done)
  BY <1>3 DEF Working
<1>6. PortOK' BY <1>1, <1>2, <1>3 DEF PortOK, Working
<1>7. Part' = Part BY <1>2 DEF Part
<1>8. DataOK'
  <2>1. CASE port'.active = port.active /\ port'.done = port.done /\ port'.ci = port.ci
    BY <1>1, <1>2, <2>1, DataStays
  <2>2. CASE ~port'.ci /\ port'.active = NoCommand BY <1>1, <1>2, <1>7, <2>2 DEF DataOK, Working
  <2>3. CASE ~port.st /\ port'.ci = port.ci /\ port'.active = NoCommand
    <3>1. disk.at \notin {"poll", "check", "issued"} BY <1>1, <2>3 DEF PortOK, Commanding
    <3> QED BY <1>2, <2>3, <3>1 DEF DataOK, Working
  <2> QED BY <1>3, <2>1, <2>2, <2>3
<1>9. ReadOK' BY <1>1, <1>2 DEF ReadOK, InBounds
<1> QED BY <1>4, <1>6, <1>8, <1>9 DEF DiskInv

\* The steps of the driver that only look: neither the port nor the memory changes.
LEMMA LooksKeep ==
  ASSUME DiskInv, NoDisk \/ StopTimesOut \/ Identified \/ IssueRefused
                  \/ PollError \/ PollComplete \/ PollTimesOut \/ ReadFails
  PROVE  DiskInv'
<1>1. DiskType /\ PortOK /\ DataOK /\ ReadOK BY DEF DiskInv
<1>2. UNCHANGED <<table, moved, data, disk_pages, port>>
  BY Zenon DEF NoDisk, StopTimesOut, Identified, IssueRefused, PollError, PollComplete, PollTimesOut,
     ReadFails, shared
<1>3. DOMAIN disk = {"at", "job", "ready", "quarantined", "busy", "complete", "commands", "reads",
                     "lba", "left", "asked", "out", "good"}
  BY <1>1 DEF DiskType
<1>4. /\ DOMAIN disk' = DOMAIN disk /\ disk'.lba = disk.lba /\ disk'.left = disk.left
      /\ disk'.asked = disk.asked /\ disk'.out = disk.out /\ (disk'.good => disk.good)
      /\ disk'.quarantined = disk.quarantined /\ disk'.commands = disk.commands
      /\ \/ disk'.job = disk.job /\ disk'.ready = disk.ready /\ disk'.busy = disk.busy
            /\ \/ disk'.at = "dead" /\ disk.at \in {"off", "stopped"} /\ disk'.complete = disk.complete
               \/ disk'.at = "dead" /\ disk.at = "stop" /\ disk.job \in {"init", "identify"}
                  /\ disk'.complete = disk.complete
               \/ disk'.at = "failed" /\ disk.at = "stop" /\ disk.job = "read" /\ disk'.complete = disk.complete
               \/ disk'.at = "refused" /\ disk.at = "issue" /\ disk'.complete = disk.complete
               \/ disk'.at = "check" /\ disk.at = "poll" /\ (~port.ci \/ ~disk'.complete)
         \/ disk'.job = "read" /\ disk.job = "identify" /\ disk'.ready /\ disk'.busy = disk.busy
            /\ disk'.at = "idle" /\ disk.at = "issued" /\ disk'.complete = disk.complete
         \/ disk'.job = "read" /\ disk.job = "read" /\ disk'.ready = disk.ready /\ disk'.busy = FALSE
            /\ disk'.at = "idle" /\ disk.at \in {"refused", "failed"} /\ disk'.complete = disk.complete
  <2>1. CASE NoDisk BY <1>3, <2>1 DEF NoDisk
  <2>2. CASE StopTimesOut
    <3>1. CASE disk.job = "init" BY <1>3, <2>2, <3>1 DEF StopTimesOut, AfterStop
    <3>2. CASE disk.job = "identify" BY <1>3, <2>2, <3>2 DEF StopTimesOut, AfterStop
    <3>3. CASE disk.job = "read" BY <1>3, <2>2, <3>3 DEF StopTimesOut, AfterStop
    <3>4. disk.job = "init" \/ disk.job = "identify" \/ disk.job = "read" BY <1>1 DEF DiskType, StageOK
    <3> QED BY Zenon, <3>1, <3>2, <3>3, <3>4
  <2>3. CASE Identified BY <1>3, <2>3 DEF Identified
  <2>4. CASE IssueRefused BY <1>3, <2>4 DEF IssueRefused
  <2>5. CASE PollError BY <1>3, <2>5 DEF PollError
  <2>6. CASE PollComplete BY <1>3, <2>6 DEF PollComplete
  <2>7. CASE PollTimesOut BY <1>3, <2>7 DEF PollTimesOut
  <2>8. CASE ReadFails BY <1>3, <2>8 DEF ReadFails
  <2> QED BY Zenon, <2>1, <2>2, <2>3, <2>4, <2>5, <2>6, <2>7, <2>8
<1>5. DiskType'
  <2>1. StageOK BY <1>1 DEF DiskType
  <2>2. StageOK'
    <3>1. CASE disk'.job = disk.job /\ disk'.busy = disk.busy
      BY <1>4, <2>1, <3>1 DEF StageOK, Commanding
    <3>2. CASE disk'.job = "read" /\ disk'.at = "idle" /\ disk'.busy = FALSE
      BY Zenon, <3>2 DEF StageOK, Commanding
    <3>3. CASE disk'.job = "read" /\ disk.job = "identify" /\ disk'.at = "idle" /\ disk'.busy = disk.busy
      BY <2>1, <3>3 DEF StageOK, Commanding
    <3> QED BY Zenon, <1>4, <3>1, <3>2, <3>3
  <2> QED BY <1>1, <1>2, <1>4, <2>2, TypeStays
<1>6. PortOK' BY <1>1, <1>2, <1>4 DEF PortOK, Working, Commanding
<1>7. DataOK' BY <1>1, <1>2, <1>4, DataStays
<1>8. ReadOK' BY <1>1, <1>4, ReadStays DEF Commanding
<1> QED BY <1>5, <1>6, <1>7, <1>8 DEF DiskInv

\* issue sees its command succeed.
LEMMA CommandGoodKeeps ==
  ASSUME DiskInv, CommandGood
  PROVE  DiskInv'
<1>1. DiskType /\ PortOK /\ DataOK /\ ReadOK BY Zenon DEF DiskInv
<1>2. /\ UNCHANGED <<table, moved, data, disk_pages, port>> /\ disk.at = "check" /\ disk.complete
      /\ moved = Part.count /\ disk' = [disk EXCEPT !.at = "issued"]
  BY DEF CommandGood, Succeeded, shared
<1>3. DOMAIN disk = {"at", "job", "ready", "quarantined", "busy", "complete", "commands", "reads",
                     "lba", "left", "asked", "out", "good"}
  BY <1>1 DEF DiskType
<1>4. /\ DOMAIN disk' = DOMAIN disk /\ disk'.lba = disk.lba /\ disk'.left = disk.left
      /\ disk'.asked = disk.asked /\ disk'.out = disk.out /\ disk'.good = disk.good
      /\ disk'.quarantined = disk.quarantined /\ disk'.job = disk.job /\ disk'.ready = disk.ready
      /\ disk'.busy = disk.busy /\ disk'.at = "issued"
  BY <1>2, <1>3
<1>5. DiskType'
  <2>1. StageOK BY <1>1 DEF DiskType
  <2>2. StageOK' BY <1>2, <1>4, <2>1 DEF StageOK, Commanding
  <2> QED BY <1>1, <1>2, <1>4, <2>2, TypeStays
<1>6. PortOK' BY <1>1, <1>2, <1>4 DEF PortOK, Working, Commanding
<1>7. DataOK'
  <2>1. Part' = Part BY <1>4 DEF Part
  <2> QED BY <1>1, <1>2, <1>4, <2>1 DEF DataOK, Working
<1>8. ReadOK' BY <1>1, <1>2, <1>4, ReadStays DEF Commanding
<1> QED BY Zenon, <1>5, <1>6, <1>7, <1>8 DEF DiskInv

\* The port is told to stop.
LEMMA StoppingKeeps ==
  ASSUME DiskInv, FindPort \/ IdentifyFails \/ CommandFails
  PROVE  DiskInv'
<1>1. DiskType /\ PortOK /\ DataOK /\ ReadOK BY DEF DiskInv
<1>2. UNCHANGED <<table, moved, data, disk_pages>> /\ port' = [port EXCEPT !.st = FALSE, !.ci = FALSE]
  BY Zenon DEF FindPort, IdentifyFails, CommandFails, shared, Stopping
<1>3. /\ DOMAIN port' = DOMAIN port /\ ~port'.st /\ port'.cr = port.cr /\ ~port'.ci
      /\ port'.ours = port.ours /\ port'.dma = port.dma /\ port'.active = port.active /\ port'.done = port.done
  <2>1. DOMAIN port = {"st", "cr", "fre", "ci", "bsy", "error", "ours", "dma", "active", "done"}
    BY <1>1 DEF DiskType
  <2> QED BY <1>2, <2>1
<1>4. DOMAIN disk = {"at", "job", "ready", "quarantined", "busy", "complete", "commands", "reads",
                     "lba", "left", "asked", "out", "good"}
  BY <1>1 DEF DiskType
<1>5. /\ DOMAIN disk' = DOMAIN disk /\ disk'.lba = disk.lba /\ disk'.left = disk.left
      /\ disk'.asked = disk.asked /\ disk'.out = disk.out /\ disk'.good = disk.good
      /\ disk'.job = disk.job /\ disk'.busy = disk.busy /\ disk'.at = "stop"
      /\ \/ disk.at = "off" /\ disk'.ready = disk.ready /\ disk'.quarantined = disk.quarantined
         \/ disk.at \in {"issued", "refused"} /\ disk.job = "identify" /\ disk'.ready = disk.ready
            /\ disk'.quarantined
         \/ disk.at = "check" /\ ~disk'.ready /\ disk'.quarantined
  <2>1. CASE FindPort BY <1>4, <2>1 DEF FindPort
  <2>2. CASE IdentifyFails BY Zenon, <1>4, <2>2 DEF IdentifyFails
  <2>3. CASE CommandFails
    <3>1. PICK d : d = [disk EXCEPT !.at = "stop"] BY Zenon
    <3>2. disk' = [d EXCEPT !.quarantined = TRUE, !.ready = FALSE] /\ disk.at = "check"
      BY Zenon, <2>3, <3>1 DEF CommandFails, Quarantine
    <3> QED BY <1>4, <3>1, <3>2
  <2> QED BY Zenon, <2>1, <2>2, <2>3
<1>6. DiskType'
  <2>1. StageOK BY <1>1 DEF DiskType
  <2>2. StageOK' BY <1>5, <2>1 DEF StageOK, Commanding
  <2> QED BY <1>1, <1>2, <1>3, <1>5, <2>2, TypeStays
<1>7. PortOK' BY <1>1, <1>2, <1>3, <1>5 DEF PortOK, Working, Commanding, DiskType, StageOK
<1>8. DataOK' BY <1>1, <1>2, <1>3, <1>5, DataStays
<1>9. ReadOK' BY <1>1, <1>5, ReadStays DEF Commanding
<1> QED BY <1>6, <1>7, <1>8, <1>9 DEF DiskInv

\* The engine has stopped: stop_port returns.
LEMMA StopPortKeeps ==
  ASSUME DiskInv, StopPort
  PROVE  DiskInv'
<1>1. DiskType /\ PortOK /\ DataOK /\ ReadOK BY Zenon DEF DiskInv
<1>2. /\ UNCHANGED <<table, moved, data, disk_pages>> /\ port' = [port EXCEPT !.fre = FALSE]
      /\ disk.at = "stop" /\ ~port.cr
  BY Zenon DEF StopPort, shared
<1>3. /\ DOMAIN port' = DOMAIN port /\ port'.st = port.st /\ port'.cr = port.cr /\ port'.ci = port.ci
      /\ port'.ours = port.ours /\ port'.dma = port.dma /\ port'.active = port.active /\ port'.done = port.done
  <2>1. DOMAIN port = {"st", "cr", "fre", "ci", "bsy", "error", "ours", "dma", "active", "done"}
    BY Zenon, <1>1 DEF DiskType
  <2> QED BY Zenon, <1>2, <2>1
<1>4. PICK a : /\ disk' = [disk EXCEPT !.at = a]
               /\ \/ disk.job = "init" /\ a \in {"stopped", "dead"}
                  \/ disk.job = "identify" /\ a = "dead"
                  \/ disk.job = "read" /\ a = "failed"
  <2>1. PICK stopped \in BOOLEAN : disk' = AfterStop(stopped) BY Zenon DEF StopPort
  <2>2. disk.job = "init" \/ disk.job = "identify" \/ disk.job = "read" BY <1>1 DEF DiskType, StageOK
  <2>3. CASE disk.job = "init"
    <3>1. disk' = [disk EXCEPT !.at = IF stopped THEN "stopped" ELSE "dead"] BY <2>1, <2>3 DEF AfterStop
    <3>2. (IF stopped THEN "stopped" ELSE "dead") \in {"stopped", "dead"} BY Zenon
    <3> QED BY Zenon, <2>3, <3>1, <3>2
  <2>4. CASE disk.job = "identify"
    <3>1. disk' = [disk EXCEPT !.at = "dead"] BY <2>1, <2>4 DEF AfterStop
    <3> QED BY Zenon, <2>4, <3>1
  <2>5. CASE disk.job = "read"
    <3>1. disk' = [disk EXCEPT !.at = "failed"] BY <2>1, <2>5 DEF AfterStop
    <3> QED BY Zenon, <2>5, <3>1
  <2> QED BY Zenon, <2>2, <2>3, <2>4, <2>5
<1>5. DOMAIN disk = {"at", "job", "ready", "quarantined", "busy", "complete", "commands", "reads",
                     "lba", "left", "asked", "out", "good"}
  BY Zenon, <1>1 DEF DiskType
<1>6. /\ DOMAIN disk' = DOMAIN disk /\ disk'.lba = disk.lba /\ disk'.left = disk.left
      /\ disk'.asked = disk.asked /\ disk'.out = disk.out /\ disk'.good = disk.good
      /\ disk'.quarantined = disk.quarantined /\ disk'.job = disk.job /\ disk'.ready = disk.ready
      /\ disk'.busy = disk.busy /\ disk'.at = a
  BY <1>4, <1>5
<1>7. DiskType'
  <2>1. StageOK BY Zenon, <1>1 DEF DiskType
  <2>2. StageOK' BY <1>2, <1>4, <1>6, <2>1 DEF StageOK, Commanding
  <2> QED BY <1>1, <1>2, <1>3, <1>6, <2>2, TypeStays
<1>8. PortOK' BY <1>1, <1>2, <1>3, <1>4, <1>6 DEF PortOK, Working, Commanding
<1>9. DataOK' BY <1>1, <1>2, <1>3, <1>4, <1>6, DataStays
<1>10. ReadOK' BY <1>1, <1>4, <1>6, ReadStays DEF Commanding
<1> QED BY Zenon, <1>7, <1>8, <1>9, <1>10 DEF DiskInv

\* The pages are allocated, or given back before the controller knows of them.
LEMMA PagesKeep ==
  ASSUME DiskInv, AllocDma \/ DmaUnreachable
  PROVE  DiskInv'
<1>1. DiskType /\ PortOK /\ DataOK /\ ReadOK BY DEF DiskInv
<1>2. /\ UNCHANGED <<table, moved, data, port>>
      /\ \/ disk.at = "stopped" /\ disk' = [disk EXCEPT !.at = "rebase"] /\ disk_pages' = "held"
         \/ disk.at = "rebase" /\ disk' = [disk EXCEPT !.at = "dead"]
  BY Zenon DEF AllocDma, DmaUnreachable
<1>3. DOMAIN disk = {"at", "job", "ready", "quarantined", "busy", "complete", "commands", "reads",
                     "lba", "left", "asked", "out", "good"}
  BY <1>1 DEF DiskType
<1>4. /\ DOMAIN disk' = DOMAIN disk /\ disk'.lba = disk.lba /\ disk'.left = disk.left
      /\ disk'.asked = disk.asked /\ disk'.out = disk.out /\ disk'.good = disk.good
      /\ disk'.quarantined = disk.quarantined /\ disk'.job = disk.job /\ disk'.ready = disk.ready
      /\ disk'.busy = disk.busy
      /\ \/ disk.at = "stopped" /\ disk'.at = "rebase" /\ disk_pages' = "held"
         \/ disk.at = "rebase" /\ disk'.at = "dead"
  BY <1>2, <1>3
<1>5. StageOK BY <1>1 DEF DiskType
<1>6. disk.job = "init" BY <1>4, <1>5 DEF StageOK, Commanding
<1>7. DiskType'
  <2>1. StageOK' BY <1>4, <1>5, <1>6 DEF StageOK, Commanding
  <2> QED BY <1>1, <1>2, <1>4, <2>1, TypeStays
<1>8. PortOK' BY <1>1, <1>2, <1>4, <1>6 DEF PortOK, Working, Commanding
<1>9. DataOK' BY <1>1, <1>2, <1>4, DataStays
<1>10. ReadOK' BY <1>1, <1>4, ReadStays DEF Commanding
<1> QED BY <1>7, <1>8, <1>9, <1>10 DEF DiskInv

\* The port gets the pages while its engine stands still.
LEMMA RebaseKeeps ==
  ASSUME DiskInv, Rebase
  PROVE  DiskInv'
<1>1. DiskType /\ PortOK /\ DataOK /\ ReadOK BY Zenon DEF DiskInv
<1>2. /\ disk.at = "rebase" /\ table' = NoCommand /\ moved' = 0 /\ data' = Cleared
      /\ port' = [port EXCEPT !.ours = TRUE, !.error = FALSE, !.dma = TRUE] /\ disk_pages' = disk_pages
  BY Zenon DEF Rebase
<1>3. PICK a \in {"start", "dead"} : disk' = [disk EXCEPT !.quarantined = TRUE, !.at = a]
  <2>1. PICK enabled \in BOOLEAN :
          disk' = [disk EXCEPT !.quarantined = TRUE, !.at = IF enabled THEN "start" ELSE "dead"]
    BY Zenon DEF Rebase
  <2>2. (IF enabled THEN "start" ELSE "dead") \in {"start", "dead"} BY Zenon
  <2> QED BY Zenon, <2>1, <2>2
<1>4. /\ DOMAIN port' = DOMAIN port /\ port'.st = port.st /\ port'.cr = port.cr /\ port'.ci = port.ci
      /\ port'.ours = TRUE /\ port'.active = port.active /\ port'.done = port.done
  <2>1. DOMAIN port = {"st", "cr", "fre", "ci", "bsy", "error", "ours", "dma", "active", "done"}
    BY <1>1 DEF DiskType
  <2> QED BY Zenon, <1>2, <2>1
<1>5. /\ DOMAIN disk' = DOMAIN disk /\ disk'.lba = disk.lba /\ disk'.left = disk.left
      /\ disk'.asked = disk.asked /\ disk'.out = disk.out /\ disk'.good = disk.good
      /\ disk'.quarantined = TRUE /\ disk'.job = disk.job /\ disk'.ready = disk.ready
      /\ disk'.busy = disk.busy /\ disk'.at = a
  <2>1. DOMAIN disk = {"at", "job", "ready", "quarantined", "busy", "complete", "commands", "reads",
                       "lba", "left", "asked", "out", "good"}
    BY <1>1 DEF DiskType
  <2> QED BY Zenon, <1>3, <2>1
<1>6. StageOK BY <1>1 DEF DiskType
<1>7. disk.job = "init" BY <1>2, <1>6 DEF StageOK, Commanding
<1>8. DiskType'
  <2>1. StageOK' BY <1>2, <1>3, <1>5, <1>6, <1>7 DEF StageOK, Commanding
  <2>2. NoCommand \in Command /\ 0 \in 0 .. Batch BY DiskAssumption DEF NoCommand, Command
  <2>3. Cleared \in [1 .. Batch -> Zero .. Sectors - 1] BY DiskAssumption DEF Cleared, Zero
  <2> QED BY Zenon, <1>1, <1>2, <1>4, <1>5, <2>1, <2>2, <2>3 DEF DiskType
<1>9. PortOK' BY <1>1, <1>2, <1>3, <1>4, <1>5, <1>6, <1>7 DEF PortOK, Working, Commanding
<1>10. DataOK'
  <2>1. ~Working' /\ disk'.at \notin {"poll", "check", "issued"}
    BY <1>1, <1>2, <1>3, <1>4, <1>5 DEF PortOK, Working
  <2> QED BY <2>1 DEF DataOK
<1>11. ReadOK' BY <1>1, <1>3, <1>5, ReadStays DEF Commanding
<1> QED BY <1>8, <1>9, <1>10, <1>11 DEF DiskInv

\* The engine starts, and the disk is asked what it is.
LEMMA StartPortKeeps ==
  ASSUME DiskInv, StartPort
  PROVE  DiskInv'
<1>1. DiskType /\ PortOK /\ DataOK /\ ReadOK BY Zenon DEF DiskInv
<1>2. /\ disk.at = "start" /\ UNCHANGED <<table, moved, data, disk_pages>>
      /\ port' = [port EXCEPT !.fre = TRUE, !.st = TRUE, !.cr = TRUE]
      /\ disk' = [disk EXCEPT !.quarantined = FALSE, !.at = "issue", !.job = "identify", !.lba = 0, !.left = 1]
  BY Zenon DEF StartPort, shared
<1>3. /\ DOMAIN port' = DOMAIN port /\ port'.st = TRUE /\ port'.cr = TRUE /\ port'.ci = port.ci
      /\ port'.ours = port.ours /\ port'.dma = port.dma /\ port'.active = port.active /\ port'.done = port.done
  <2>1. DOMAIN port = {"st", "cr", "fre", "ci", "bsy", "error", "ours", "dma", "active", "done"}
    BY Zenon, <1>1 DEF DiskType
  <2> QED BY Zenon, <1>2, <2>1
<1>4. /\ DOMAIN disk' = DOMAIN disk /\ disk'.lba = 0 /\ disk'.left = 1
      /\ disk'.asked = disk.asked /\ disk'.out = disk.out /\ disk'.good = disk.good
      /\ disk'.quarantined = FALSE /\ disk'.job = "identify" /\ disk'.ready = disk.ready
      /\ disk'.busy = disk.busy /\ disk'.at = "issue"
  <2>1. DOMAIN disk = {"at", "job", "ready", "quarantined", "busy", "complete", "commands", "reads",
                       "lba", "left", "asked", "out", "good"}
    BY Zenon, <1>1 DEF DiskType
  <2> QED BY Zenon, <1>2, <2>1
<1>5. StageOK BY Zenon, <1>1 DEF DiskType
<1>6. disk.job = "init" BY <1>2, <1>5 DEF StageOK, Commanding
<1>7. DiskType'
  <2>1. StageOK' BY <1>4, <1>5, <1>6 DEF StageOK, Commanding
  <2>2. 0 \in 0 .. Sectors /\ 1 \in 0 .. Sectors + 1 BY DiskAssumption
  <2> QED BY Zenon, <1>1, <1>2, <1>3, <1>4, <2>1, <2>2 DEF DiskType
<1>8. ~Working /\ ~Working' /\ ~port.ci BY <1>1, <1>2, <1>3 DEF PortOK, Working
<1>9. port'.ours
  BY <1>1, <1>2, <1>3 DEF PortOK
<1>10. PortOK' BY <1>1, <1>2, <1>3, <1>4, <1>6, <1>8, <1>9 DEF PortOK, Commanding
<1>11. DataOK' BY <1>4, <1>8 DEF DataOK
<1>12. ReadOK' BY <1>1, <1>4, DiskAssumption DEF ReadOK, InBounds
<1> QED BY Zenon, <1>7, <1>10, <1>11, <1>12 DEF DiskInv

\* The command and the cleared buffer are the controller's from here on.
LEMMA IssueCommandKeeps ==
  ASSUME DiskInv, IssueCommand
  PROVE  DiskInv' /\ ~Working
<1>1. DiskType /\ PortOK /\ DataOK /\ ReadOK BY Zenon DEF DiskInv
<1>2. /\ disk.at = "issue" /\ ~disk.quarantined /\ disk_pages' = disk_pages
      /\ table' = Part /\ moved' = 0 /\ data' = Cleared
      /\ port' = [port EXCEPT !.error = FALSE, !.ci = TRUE]
      /\ disk' = [disk EXCEPT !.commands = @ + 1, !.at = "poll"]
  BY Zenon DEF IssueCommand
<1>3. /\ DOMAIN port' = DOMAIN port /\ port'.st = port.st /\ port'.cr = port.cr /\ port'.ci = TRUE
      /\ port'.ours = port.ours /\ port'.dma = port.dma /\ port'.active = port.active /\ port'.done = port.done
  <2>1. DOMAIN port = {"st", "cr", "fre", "ci", "bsy", "error", "ours", "dma", "active", "done"}
    BY Zenon, <1>1 DEF DiskType
  <2> QED BY Zenon, <1>2, <2>1
<1>4. /\ DOMAIN disk' = DOMAIN disk /\ disk'.lba = disk.lba /\ disk'.left = disk.left
      /\ disk'.asked = disk.asked /\ disk'.out = disk.out /\ disk'.good = disk.good
      /\ disk'.quarantined = disk.quarantined /\ disk'.job = disk.job /\ disk'.ready = disk.ready
      /\ disk'.busy = disk.busy /\ disk'.at = "poll"
  <2>1. DOMAIN disk = {"at", "job", "ready", "quarantined", "busy", "complete", "commands", "reads",
                       "lba", "left", "asked", "out", "good"}
    BY Zenon, <1>1 DEF DiskType
  <2> QED BY Zenon, <1>2, <2>1
<1>5. StageOK BY Zenon, <1>1 DEF DiskType
<1>6. disk.job # "init" BY <1>2, <1>5 DEF StageOK, Commanding
<1>7. ~Working /\ ~Working' BY <1>1, <1>2, <1>3, <1>6 DEF PortOK, Working
<1>8. Part \in Command BY <1>1, DiskAssumption DEF Part, Command, DiskType
<1>9. DiskType'
  <2>1. StageOK' BY <1>2, <1>4, <1>5 DEF StageOK, Commanding
  <2>2. 0 \in 0 .. Batch BY DiskAssumption
  <2>3. Cleared \in [1 .. Batch -> Zero .. Sectors - 1] BY DiskAssumption DEF Cleared, Zero
  <2> QED BY Zenon, <1>1, <1>2, <1>3, <1>4, <1>8, <2>1, <2>2, <2>3 DEF DiskType
<1>10. PortOK' BY <1>1, <1>2, <1>3, <1>4, <1>6, <1>7 DEF PortOK, Commanding
<1>11. DataOK'
  <2>1. Part' = Part BY <1>4 DEF Part
  <2> QED BY <1>2, <1>4, <1>7, <2>1 DEF DataOK
<1>12. ReadOK' BY <1>1, <1>2, <1>4, ReadStays DEF Commanding
<1> QED BY <1>7, <1>9, <1>10, <1>11, <1>12 DEF DiskInv

\* A read begins, or is refused.
LEMMA BlockReadKeeps ==
  ASSUME DiskInv, NEW lba \in 0 .. Sectors, NEW count \in 0 .. Sectors + 1, BlockRead(lba, count)
  PROVE  DiskInv'
<1>1. DiskType /\ PortOK /\ DataOK /\ ReadOK BY DEF DiskInv
<1>2. PICK allowed : allowed = (InBounds(lba, count) /\ disk.ready) BY Zenon
<1>3. PICK a : a = IF allowed THEN "issue" ELSE "idle" BY Zenon
<1>4. PICK q : q = [lba |-> lba, count |-> count] BY Zenon
<1>5. allowed \in BOOLEAN /\ (allowed => InBounds(lba, count) /\ disk.ready /\ a = "issue") /\ (~allowed => a = "idle")
  BY Zenon, <1>2, <1>3
<1>6. disk.at = "idle" /\ UNCHANGED <<table, moved, data, disk_pages, port>>
  BY Zenon DEF BlockRead, shared
<1>7. disk' = [disk EXCEPT !.reads = @ + 1, !.asked = q, !.lba = lba, !.left = count, !.out = <<>>, !.good = FALSE,
                           !.busy = allowed, !.at = a]
  BY Zenon, <1>2, <1>3, <1>4 DEF BlockRead
<1>8. q \in Command /\ q.lba = lba /\ q.count = count BY <1>4, DiskAssumption DEF Command
<1>9. /\ DOMAIN disk' = DOMAIN disk /\ disk'.lba = lba /\ disk'.left = count
      /\ disk'.asked = q /\ disk'.out = <<>> /\ disk'.good = FALSE
      /\ disk'.quarantined = disk.quarantined /\ disk'.job = disk.job /\ disk'.ready = disk.ready
      /\ disk'.busy = allowed /\ disk'.at = a
  <2>1. DOMAIN disk = {"at", "job", "ready", "quarantined", "busy", "complete", "commands", "reads",
                       "lba", "left", "asked", "out", "good"}
    BY <1>1 DEF DiskType
  <2> QED BY Zenon, <1>7, <2>1
<1>10. StageOK BY <1>1 DEF DiskType
<1>11. disk.job = "read" BY <1>6, <1>10 DEF StageOK, Commanding
<1>12. DiskType'
  <2>1. StageOK'
    <3>1. CASE allowed BY <1>5, <1>9, <1>11, <3>1 DEF StageOK, Commanding
    <3>2. CASE ~allowed BY <1>5, <1>9, <1>11, <3>2 DEF StageOK, Commanding
    <3> QED BY <3>1, <3>2
  <2>2. disk'.out \in Seq(Int) BY <1>9
  <2> QED BY Zenon, <1>1, <1>6, <1>8, <1>9, <2>1, <2>2 DEF DiskType
<1>13. PortOK' BY <1>1, <1>5, <1>6, <1>9, <1>11 DEF PortOK, Working, Commanding
<1>14. DataOK'
  <2>1. disk'.at \notin {"poll", "check", "issued"} /\ Working' = Working BY <1>5, <1>6, <1>9 DEF Working
  <2> QED BY <1>1, <1>6, <2>1 DEF DataOK
<1>15. ReadOK'
  <2>1. Len(disk'.out) = 0 /\ count \in Nat /\ lba \in Nat BY <1>9, DiskAssumption
  <2>2. disk'.at \in Commanding => InBounds(lba, count) BY <1>5, <1>9 DEF Commanding
  <2>3. InBounds(lba, count) => count >= 1 /\ lba + count <= Sectors BY <2>1, DiskAssumption DEF InBounds
  <2> QED BY <1>8, <1>9, <2>1, <2>2, <2>3 DEF ReadOK
<1> QED BY <1>12, <1>13, <1>14, <1>15 DEF DiskInv

\* The start of the buffer, after what is already there.
LEMMA Appended ==
  ASSUME NEW s \in Seq(Int), NEW d, NEW b \in Nat, d \in [1 .. b -> Int], NEW n \in 1 .. b, NEW x \in Int,
         \A i \in 1 .. Len(s) : s[i] = x + i - 1,
         \A i \in 1 .. n : d[i] = x + Len(s) + i - 1,
         NEW t, t = s \o SubSeq(d, 1, n)
  PROVE  t \in Seq(Int) /\ Len(t) = Len(s) + n /\ \A i \in 1 .. Len(t) : t[i] = x + i - 1
<1>1. d \in Seq(Int) /\ Len(d) = b OBVIOUS
<1>2. PICK u : u = SubSeq(d, 1, n) BY Zenon
<1>3. u \in Seq(Int) /\ Len(u) = n /\ \A i \in 1 .. n : u[i] = d[i] BY <1>1, <1>2
<1>4. t = s \o u BY Zenon, <1>2
<1>5. t \in Seq(Int) /\ Len(t) = Len(s) + n
  <2>1. t \in Seq(Int) BY <1>3, <1>4
  <2>2. s \in Seq(Int) /\ u \in Seq(Int) BY <1>3
  <2>3. Len(s \o u) = Len(s) + Len(u) BY SMTT(60), <2>2
  <2> QED BY <1>3, <1>4, <2>1, <2>3
<1>6. \A i \in 1 .. (Len(s) + n) : t[i] = x + i - 1
  <2> SUFFICES ASSUME NEW i \in 1 .. (Len(s) + n) PROVE t[i] = x + i - 1 OBVIOUS
  <2>1. CASE i <= Len(s) BY <1>3, <1>4, <2>1
  <2>2. CASE i > Len(s)
    <3>1. t[i] = u[i - Len(s)] BY <1>3, <1>4, <2>2
    <3>2. i - Len(s) \in 1 .. n BY <2>2
    <3> QED BY <1>3, <3>1, <3>2
  <2> QED BY <2>1, <2>2
<1> QED BY <1>2, <1>4, <1>5, <1>6

\* A part of the read is copied out.
LEMMA CopyOutKeeps ==
  ASSUME DiskInv, CopyOut
  PROVE  DiskInv'
<1>1. DiskType /\ PortOK /\ DataOK /\ ReadOK BY Zenon DEF DiskInv
<1> DEFINE n == Part.count
<1>2. disk.at = "issued" /\ disk.job = "read" /\ UNCHANGED <<table, moved, data, disk_pages, port>>
  BY Zenon DEF CopyOut, shared
<1>3. PICK over : over = (disk.left = n) BY Zenon
<1>4. PICK a : a = IF over THEN "idle" ELSE "issue" BY Zenon
<1>5. PICK t : t = disk.out \o SubSeq(data, 1, n) BY Zenon
<1>6. PICK b : b = ~over BY Zenon
<1>7. over \in BOOLEAN /\ (over <=> disk.left = n) /\ b \in BOOLEAN /\ (b <=> ~over)
      /\ (over => a = "idle") /\ (~over => a = "issue")
  BY Zenon, <1>3, <1>4, <1>6
<1>8. disk' = [disk EXCEPT !.out = t, !.lba = @ + n, !.left = @ - n, !.at = a, !.busy = b, !.good = over]
  BY Zenon, <1>3, <1>4, <1>5, <1>6 DEF CopyOut
<1> DEFINE L == Len(disk.out)
           x == disk.asked.lba
           c == disk.asked.count
<1>9. /\ disk.left \in Nat /\ disk.lba \in Nat /\ x \in Nat /\ c \in Nat
      /\ disk.out \in Seq(Int) /\ L \in Nat /\ data \in [1 .. Batch -> Zero .. Sectors - 1]
  <2>1. disk.left \in Nat /\ disk.lba \in Nat BY <1>1, DiskAssumption DEF DiskType
  <2>2. disk.out \in Seq(Int) /\ data \in [1 .. Batch -> Zero .. Sectors - 1] BY <1>1 DEF DiskType
  <2>3. disk.asked \in Command BY <1>1 DEF DiskType
  <2>4. x \in Nat /\ c \in Nat BY <2>3 DEF Command
  <2>5. L \in Nat BY <2>2
  <2> QED BY <2>1, <2>2, <2>4, <2>5
<1>10. /\ disk.left >= 1 /\ disk.lba + disk.left <= Sectors
       /\ disk.lba = x + L /\ disk.left = c - L /\ InBounds(x, c)
       /\ \A i \in 1 .. L : disk.out[i] = x + i - 1
  BY <1>1, <1>2 DEF ReadOK, Commanding
<1>18. moved = n /\ \A i \in 1 .. n : data[i] = disk.lba + i - 1
  BY <1>1, <1>2 DEF DataOK
<1>19. n \in 1 .. Batch /\ n \in Nat /\ n >= 1 /\ n <= disk.left BY <1>9, <1>10, DiskAssumption DEF Part
<1> HIDE DEF n
<1>11. /\ DOMAIN disk' = DOMAIN disk /\ disk'.lba = disk.lba + n /\ disk'.left = disk.left - n
       /\ disk'.asked = disk.asked /\ disk'.out = t /\ disk'.good = over
       /\ disk'.quarantined = disk.quarantined /\ disk'.job = disk.job /\ disk'.ready = disk.ready
       /\ disk'.busy = b /\ disk'.at = a
  <2>1. DOMAIN disk = {"at", "job", "ready", "quarantined", "busy", "complete", "commands", "reads",
                       "lba", "left", "asked", "out", "good"}
    BY Zenon, <1>1 DEF DiskType
  <2> QED BY Zenon, <1>8, <2>1
<1>12. t \in Seq(Int) /\ Len(t) = Len(disk.out) + n /\ \A i \in 1 .. Len(t) : t[i] = disk.asked.lba + i - 1
  <2>1. data \in [1 .. Batch -> Int] BY <1>9, DiskAssumption DEF Zero
  <2>2. x \in Int /\ Batch \in Nat BY <1>9, DiskAssumption
  <2>3. \A i \in 1 .. n : data[i] = x + L + i - 1
    <3> HIDE DEF x, L
    <3> QED BY <1>9, <1>10, <1>18, <1>19
  <2>4. n \in 1 .. Batch /\ disk.out \in Seq(Int) BY <1>9, <1>19
  <2>5. \A i \in 1 .. Len(disk.out) : disk.out[i] = x + i - 1 BY <1>10
  <2>6. t = disk.out \o SubSeq(data, 1, n) BY <1>5
  <2>7. \A i \in 1 .. n : data[i] = x + Len(disk.out) + i - 1 BY <2>3
  <2> HIDE DEF x, L
  <2>8. t \in Seq(Int) /\ Len(t) = Len(disk.out) + n /\ \A i \in 1 .. Len(t) : t[i] = x + i - 1
    BY <2>1, <2>2, <2>4, <2>5, <2>6, <2>7, Appended
  <2> QED BY <2>8 DEF x
<1> HIDE DEF L, x, c
<1>13. disk'.lba \in 0 .. Sectors /\ disk'.left \in 0 .. Sectors + 1
  BY SMTT(60), ZenonT(20), <1>9, <1>10, <1>11, <1>19, DiskAssumption
<1>14. DiskType'
  <2>1. StageOK'
    <3>1. CASE over BY <1>2, <1>7, <1>11, <3>1 DEF StageOK, Commanding
    <3>2. CASE ~over BY <1>2, <1>7, <1>11, <3>2 DEF StageOK, Commanding
    <3> QED BY <3>1, <3>2
  <2> QED BY Zenon, <1>1, <1>2, <1>11, <1>12, <1>13, <2>1 DEF DiskType
<1>15. PortOK' BY <1>1, <1>2, <1>7, <1>11 DEF PortOK, Working, Commanding
<1>16. DataOK'
  <2>1. disk'.at \notin {"poll", "check", "issued"} /\ Working' = Working BY Zenon, <1>2, <1>7, <1>11 DEF Working
  <2> QED BY <1>1, <1>2, <2>1 DEF DataOK
<1>17. ReadOK'
  <2>1. Len(t) = L + n BY <1>12 DEF L
  <2>2. /\ disk'.lba = x + Len(t) /\ disk'.left = c - Len(t)
        /\ disk'.lba + disk'.left <= Sectors /\ Len(t) <= c
        /\ (over => Len(t) = c) /\ (~over => disk'.left >= 1)
    BY <1>7, <1>9, <1>10, <1>11, <1>19, <2>1, DiskAssumption
  <2>3. disk'.at \in Commanding => ~over BY <1>7, <1>11 DEF Commanding
  <2> QED BY <1>10, <1>11, <1>12, <2>2, <2>3 DEF ReadOK, x, c
<1> QED BY Zenon, <1>14, <1>15, <1>16, <1>17 DEF DiskInv

\* Every step keeps the invariant.
LEMMA DiskKeeps ==
  ASSUME DiskInv, [DiskNext]_disk_vars
  PROVE  DiskInv'
<1>1. CASE DiskDriver
  BY Zenon, <1>1, LooksKeep, StoppingKeeps, StopPortKeeps, PagesKeep, RebaseKeeps, StartPortKeeps,
     IssueCommandKeeps, CommandGoodKeeps, BlockReadKeeps, CopyOutKeeps DEF DiskDriver
<1>2. CASE Controller
  BY Zenon, <1>2, FetchKeeps, TransferKeeps, ControllerKeeps DEF Controller
<1>3. CASE UNCHANGED disk_vars
  <2>1. UNCHANGED <<disk, table, moved, data, disk_pages, port>> BY <1>3 DEF disk_vars
  <2>2. DiskType /\ PortOK /\ DataOK /\ ReadOK BY DEF DiskInv
  <2>3. StageOK' BY Zenon, <2>1, <2>2 DEF DiskType, StageOK
  <2>4. DiskType' BY Zenon, <2>1, <2>2, <2>3, TypeStays
  <2>5. PortOK' BY Zenon, <2>1, <2>2 DEF PortOK, Working
  <2>6. DataOK' BY <2>1, <2>2, DataStays
  <2>7. ReadOK' BY <2>1, <2>2, ReadStays
  <2> QED BY <2>4, <2>5, <2>6, <2>7 DEF DiskInv
<1> QED BY Zenon, <1>1, <1>2, <1>3 DEF DiskNext

\* It holds when the kernel has not touched the controller yet.
LEMMA DiskBegins ==
  ASSUME DiskInit
  PROVE  DiskInv
<1>1. PICK running \in BOOLEAN :
        port = [st |-> running, cr |-> running, fre |-> running, ci |-> FALSE,
                bsy |-> running, error |-> FALSE, ours |-> FALSE, dma |-> FALSE,
                active |-> IF running THEN Identify ELSE NoCommand, done |-> 0]
  BY Zenon DEF DiskInit
<1>2. PICK a : a = IF running THEN Identify ELSE NoCommand BY Zenon
<1>3. /\ DOMAIN port = {"st", "cr", "fre", "ci", "bsy", "error", "ours", "dma", "active", "done"}
      /\ port.st = running /\ port.cr = running /\ port.ci = FALSE /\ port.ours = FALSE /\ port.dma = FALSE
      /\ port.active = a /\ port.done = 0
  <2>1. port = [st |-> running, cr |-> running, fre |-> running, ci |-> FALSE,
                bsy |-> running, error |-> FALSE, ours |-> FALSE, dma |-> FALSE, active |-> a, done |-> 0]
    BY Zenon, <1>1, <1>2
  <2> QED BY <2>1
<1>4. a \in Command /\ (a # NoCommand => running /\ a.lba = 0 /\ a.count = 1)
  <2>1. Identify \in Command /\ NoCommand \in Command /\ Identify.lba = 0 /\ Identify.count = 1
    BY DEF Identify, NoCommand, Command
  <2> QED BY Zenon, <1>2, <2>1
<1>5. /\ DOMAIN disk = {"at", "job", "ready", "quarantined", "busy", "complete", "commands", "reads",
                        "lba", "left", "asked", "out", "good"}
      /\ disk.at = "off" /\ disk.job = "init" /\ ~disk.ready /\ disk.busy = FALSE
      /\ disk.lba = 0 /\ disk.left = 0 /\ disk.asked = NoCommand /\ disk.out = <<>> /\ ~disk.good
  BY Zenon DEF DiskInit
<1>6. table = NoCommand /\ moved = 0 /\ data = Cleared BY DEF DiskInit
<1>7. NoCommand \in Command /\ NoCommand.count = 0 BY DEF NoCommand, Command
<1>8. DiskType
  <2>1. StageOK BY Zenon, <1>5 DEF StageOK
  <2>2. Cleared \in [1 .. Batch -> Zero .. Sectors - 1] BY DiskAssumption DEF Cleared, Zero
  <2>3. 0 \in 0 .. Sectors /\ 0 \in 0 .. Sectors + 1 /\ 0 \in Nat /\ 0 \in 0 .. Batch BY DiskAssumption
  <2>4. disk.out \in Seq(Int) BY <1>5
  <2> QED BY Zenon, <1>3, <1>4, <1>5, <1>6, <1>7, <2>1, <2>2, <2>3, <2>4 DEF DiskType
<1>9. PortOK BY <1>3, <1>4, <1>5 DEF PortOK, Working, Commanding
<1>10. DataOK BY <1>3, <1>4, <1>5, DiskAssumption DEF DataOK, Working
<1>11. ReadOK BY <1>5, <1>7 DEF ReadOK, Commanding
<1> QED BY <1>8, <1>9, <1>10, <1>11 DEF DiskInv

\* The port's addresses change in Rebase alone, the command in IssueCommand alone.
LEMMA DiskSteps ==
  ASSUME DiskInv, [DiskNext]_disk_vars
  PROVE  /\ port'.ours # port.ours => ~port.cr
         /\ disk'.commands # disk.commands => ~Working
<1>1. /\ DOMAIN disk = {"at", "job", "ready", "quarantined", "busy", "complete", "commands", "reads",
                        "lba", "left", "asked", "out", "good"}
      /\ DOMAIN port = {"st", "cr", "fre", "ci", "bsy", "error", "ours", "dma", "active", "done"}
  BY DEF DiskInv, DiskType
<1>2. CASE Controller
  <2>1. disk' = disk BY Zenon, <1>2 DEF Controller, Fetch, Transfer, Complete, Fail, Occupied, EngineStops
  <2>2. port'.ours = port.ours
    BY Zenon, <1>1, <1>2 DEF Controller, Fetch, Transfer, Complete, Fail, Occupied, EngineStops
  <2> QED BY <2>1, <2>2
<1>3. CASE Rebase
  <2>1. disk'.commands = disk.commands BY Zenon, <1>1, <1>3 DEF Rebase
  <2>2. ~port.cr BY <1>3 DEF Rebase, DiskInv, PortOK
  <2> QED BY <2>1, <2>2
<1>4. CASE IssueCommand
  <2>1. port'.ours = port.ours BY Zenon, <1>1, <1>4 DEF IssueCommand
  <2> QED BY <1>4, <2>1, IssueCommandKeeps
<1>5. CASE FindPort \/ IdentifyFails \/ CommandFails
  <2>1. port'.ours = port.ours BY Zenon, <1>1, <1>5 DEF FindPort, IdentifyFails, CommandFails, Stopping
  <2>2. CASE FindPort \/ IdentifyFails BY Zenon, <1>1, <2>1, <2>2 DEF FindPort, IdentifyFails
  <2>3. CASE CommandFails
    <3>1. PICK d : d = [disk EXCEPT !.at = "stop"] BY Zenon
    <3>2. disk' = [d EXCEPT !.quarantined = TRUE, !.ready = FALSE] BY Zenon, <2>3, <3>1 DEF CommandFails, Quarantine
    <3>3. DOMAIN d = DOMAIN disk /\ d.commands = disk.commands BY Zenon, <1>1, <3>1
    <3>4. disk'.commands = d.commands BY Zenon, <1>1, <3>2, <3>3
    <3> QED BY <2>1, <3>3, <3>4
  <2> QED BY <1>5, <2>2, <2>3
<1>6. CASE StopPort \/ StopTimesOut
  <2>1. port'.ours = port.ours BY Zenon, <1>1, <1>6 DEF StopPort, StopTimesOut
  <2>2. PICK b : disk' = AfterStop(b) BY Zenon, <1>6 DEF StopPort, StopTimesOut
  <2>3. disk.job = "init" \/ disk.job = "identify" \/ disk.job = "read" BY DEF DiskInv, DiskType, StageOK
  <2>4. CASE disk.job = "init" BY <1>1, <2>1, <2>2, <2>4 DEF AfterStop
  <2>5. CASE disk.job = "identify" BY <1>1, <2>1, <2>2, <2>5 DEF AfterStop
  <2>6. CASE disk.job = "read" BY <1>1, <2>1, <2>2, <2>6 DEF AfterStop
  <2> QED BY <2>3, <2>4, <2>5, <2>6
<1>7. CASE StartPort BY Zenon, <1>1, <1>7 DEF StartPort
<1>8. CASE CopyOut BY Zenon, <1>1, <1>8 DEF CopyOut
<1>9. CASE \E lba \in 0 .. Sectors, count \in 0 .. Sectors + 1 : BlockRead(lba, count)
  BY Zenon, <1>1, <1>9 DEF BlockRead
<1>10. CASE NoDisk \/ AllocDma \/ DmaUnreachable \/ Identified BY Zenon, <1>1, <1>10 DEF NoDisk, AllocDma, DmaUnreachable, Identified
<1>11. CASE IssueRefused \/ PollError \/ PollComplete \/ PollTimesOut \/ CommandGood \/ ReadFails
  BY Zenon, <1>1, <1>11 DEF IssueRefused, PollError, PollComplete, PollTimesOut, CommandGood, ReadFails
<1>12. CASE UNCHANGED disk_vars BY <1>12 DEF disk_vars
<1> QED
  BY Zenon, <1>2, <1>3, <1>4, <1>5, <1>6, <1>7, <1>8, <1>9, <1>10, <1>11, <1>12 DEF DiskNext, DiskDriver

\* Whatever the controller does and however many commands a read takes, for every size of
\* disk and of buffer: what is in the caller's buffer is the beginning of what was asked
\* for, and all of it when the read reports success (read_disk, issue, block_read).
THEOREM DiskReadsAlwaysExact == DiskSpec => []DiskReadsExact
<1>1. DiskInit => DiskInv BY DiskBegins
<1>2. DiskInv /\ [DiskNext]_disk_vars => DiskInv' BY DiskKeeps
<1>3. DiskInv => DiskReadsExact
  <2> SUFFICES ASSUME DiskInv PROVE DiskReadsExact OBVIOUS
  <2> DEFINE x == disk.asked.lba
             c == disk.asked.count
             o == disk.out
  <2>1. DiskType /\ ReadOK BY DEF DiskInv
  <2>2. disk.busy = (disk.job = "read" /\ disk.at # "idle") BY Zenon, <2>1 DEF DiskType, StageOK
  <2>3. DiskTypeOK BY <2>1, <2>2, DiskAssumption DEF DiskType, DiskTypeOK
  <2>4. x \in Nat /\ c \in Nat /\ o \in Seq(Int) BY <2>1 DEF DiskType, Command
  <2>5. Len(o) <= c /\ (\A i \in 1 .. Len(o) : o[i] = x + i - 1) /\ (disk.good => Len(o) = c /\ InBounds(x, c))
    BY <2>1 DEF ReadOK
  <2> HIDE DEF x, c, o
  <2>6. PICK w : w = Wanted(x, c) BY Zenon
  <2>7. w = [i \in 1 .. c |-> x + i - 1] BY <2>6 DEF Wanted
  <2>8. Len(w) = c /\ \A i \in 1 .. c : w[i] = x + i - 1 BY <2>4, <2>7
  <2>9. Len(o) <= Len(w) /\ \A i \in 1 .. Len(o) : o[i] = w[i] BY <2>4, <2>5, <2>8
  <2>10. ASSUME disk.good PROVE o = w
    <3>1. Len(o) = c BY <2>5, <2>10
    <3>2. o = [i \in 1 .. c |-> o[i]] BY <2>4, <3>1
    <3> QED BY <2>5, <2>7, <3>1, <3>2
  <2> QED BY <2>3, <2>5, <2>6, <2>9, <2>10 DEF DiskReadsExact, x, c, o
<1> QED BY <1>1, <1>2, <1>3, PTL DEF DiskSpec

\* The controller never shares its pages with anything else: they are held as long as it
\* can reach them, the port's addresses change only while its engine stands still, and a
\* command is written only when the one before is over (ahci_init, issue, stop_port).
THEOREM DmaNeverDisturbed == DiskSpec => DmaUndisturbed
<1>1. DiskInit => DiskInv BY Zenon, DiskBegins
<1>2. DiskInv /\ [DiskNext]_disk_vars => DiskInv' BY Zenon, DiskKeeps
<1>3. DiskInv => (port.dma => disk_pages = "held") BY DEF DiskInv, PortOK
<1>4. DiskInv /\ [DiskNext]_disk_vars =>
        [/\ port'.ours # port.ours => ~port.cr
         /\ disk'.commands # disk.commands => ~Working]_disk_vars
  BY DiskSteps
<1> QED BY <1>1, <1>2, <1>3, <1>4, PTL DEF DiskSpec, DmaUndisturbed

-----------------------------------------------------------------------------
(* The network stack: the inductive invariant                              *)

Fields ==
    {"configured", "configuration", "offered", "left", "arp_cache", "random", "xid",
     "dhcp_state", "arp_waiting", "busy", "offered_ready", "ack_ready", "echo_ready",
     "udp_ready", "echo_peer", "echo_sequence", "udp_peer", "udp_port", "dns_id",
     "udp_data", "heard"}

OpFields == {"at", "kind", "dest", "attempt", "waited", "frames", "request", "begun"}

Places == {"idle", "poll", "link", "discover", "offer", "ack", "route", "arp", "echo", "udp"}

Entry == [ip : Host \cup {None}, mac : Host \cup {None}, left : Nat]

\* Every slot in use is of a neighbour, no two of the same; the others are dead.
CacheOK(s) ==
    /\ s.arp_cache \in [Slots -> Entry]
    /\ \A i \in Slots :
          LET e == s.arp_cache[i]
          IN  IF e.ip = None THEN e.left = 0
              ELSE /\ local_peer(s, e.ip) /\ e.mac = e.ip
                   /\ \A j \in Slots \ {i} : s.arp_cache[j].ip # e.ip

\* A lease, with a gateway that is a neighbour, or nothing that belongs to one.
LeaseOK(s) ==
    IF s.configured THEN local_peer(s, s.configuration.gateway)
    ELSE s.configuration = NoOffer /\ s.arp_cache = EmptyCache

\* What holds of the stack whatever the owner is doing.
StackOK(s) ==
    /\ DOMAIN s = Fields
    /\ s.configured \in BOOLEAN
    /\ s.configuration \in Offers \cup {NoOffer}
    /\ s.left \in Nat
    /\ s.random \in 0 .. 2^RandomBits - 1
    /\ s.dhcp_state \in 0 .. 2
    /\ CacheOK(s)
    /\ LeaseOK(s)

\* Where the owner is, and the budget it has used.
OpOK(o) ==
    /\ DOMAIN o = OpFields
    /\ o.at \in Places
    /\ o.attempt \in Nat /\ (o.attempt < DhcpAttempts \/ o.attempt < ArpAttempts)
    /\ o.waited \in Nat
    /\ o.frames \in 0 .. PollFrames

\* What the owner relies on at each place it can be.
Agree(s, o) ==
    /\ s.busy \in BOOLEAN /\ (s.busy <=> o.at \notin {"idle", "poll"})
    /\ o.at \in {"link", "discover", "offer", "ack"} => ~s.configured
    /\ o.at \notin {"discover", "offer", "ack"} => s.dhcp_state = 0
    /\ o.at = "offer" => s.dhcp_state = 1
    /\ o.at = "ack" => s.dhcp_state = 2
    /\ o.at = "ack" \/ (o.at = "offer" /\ s.offered_ready)
          => s.offered \in Offers /\ OfferValid(s.offered)
    /\ o.at # "idle" /\ s.configured => s.left > 0
    /\ o.at = "arp" /\ s.configured => s.arp_waiting = NextHop(s.configuration, o.dest)

\* A server was asked for what o names.
Requested(o, a) ==
    \E r \in a : r.type = "request" /\ r.server = o.server /\ r.address = o.address

Types == {"discover", "request", "udp", "echo"}

AskedOK(s, o, a) ==
    /\ \A r \in a : r.type \in Types
    /\ s.configured => Requested(s.configuration, a)
    /\ o.at = "ack" => Requested(s.offered, a)

\* What was sent last is what the lease allows.
OutOK(s, p) ==
    p # NoPacket =>
        /\ s.configured
        /\ p.source = s.configuration.address
        /\ possible_peer(s, p.dest)
        /\ p.kind # "reply" => p.mac = NextHop(s.configuration, p.dest)

NetInv ==
    /\ StackOK(stack) /\ OpOK(op) /\ Agree(stack, op)
    /\ AskedOK(stack, op, asked) /\ OutOK(stack, out)

-----------------------------------------------------------------------------
(* What the helpers do to the stack                                        *)

\* The fields the owner's place depends on, beyond the lease.
Same(s, t) ==
    /\ t.busy = s.busy /\ t.dhcp_state = s.dhcp_state /\ t.arp_waiting = s.arp_waiting
    /\ t.offered = s.offered /\ t.offered_ready = s.offered_ready

\* The lease is the one it was, or is over.
LeaseKept(s, t) == t.configured => s.configured /\ t.configuration = s.configuration

\* Whether a host is a neighbour depends on the lease only.
LEMMA PeerByLease ==
    ASSUME NEW s, NEW t, t.configuration = s.configuration, NEW ip
    PROVE  /\ local_peer(t, ip) <=> local_peer(s, ip)
           /\ possible_peer(t, ip) <=> possible_peer(s, ip)
BY DEF local_peer, possible_peer

\* An empty cache is a cache.
LEMMA EmptyOK ==
    ASSUME NEW s, s.arp_cache = EmptyCache
    PROVE  CacheOK(s)
BY DEF CacheOK, EmptyCache, EmptyEntry, Entry

\* A change outside the lease, the cache and the generator keeps StackOK.
LEMMA OtherOK ==
    ASSUME NEW s, StackOK(s), NEW t, DOMAIN t = Fields,
           t.configured = s.configured, t.configuration = s.configuration,
           t.left = s.left, t.arp_cache = s.arp_cache,
           t.random \in 0 .. 2^RandomBits - 1,
           t.dhcp_state \in 0 .. 2
    PROVE  StackOK(t)
<1>1. \A ip : local_peer(t, ip) <=> local_peer(s, ip)
  BY PeerByLease
<1>2. CacheOK(t)
  BY <1>1 DEF StackOK, CacheOK
<1>3. LeaseOK(t)
  BY <1>1 DEF StackOK, LeaseOK
<1> QED BY <1>2, <1>3 DEF StackOK

\* Throwing the lease away.
LEMMA UnconfiguredOK ==
    ASSUME NEW s, StackOK(s), NEW t, t = Unconfigured(s)
    PROVE  StackOK(t) /\ Same(s, t) /\ ~t.configured /\ t.random = s.random
<1>1. /\ DOMAIN t = Fields /\ t.configured = FALSE /\ t.configuration = NoOffer
      /\ t.left = 0 /\ t.arp_cache = EmptyCache /\ t.random = s.random
      /\ Same(s, t)
  BY DEF StackOK, Unconfigured, Fields, Same
<1>2. CacheOK(t)
  BY <1>1, EmptyOK
<1>3. LeaseOK(t)
  BY <1>1 DEF LeaseOK
<1>4. /\ t.configured \in BOOLEAN /\ t.configuration \in Offers \cup {NoOffer} /\ t.left \in Nat
  <2>1. 0 \in Nat
    OBVIOUS
  <2> QED BY Zenon, <1>1, <2>1
<1>5. t.random \in 0 .. 2^RandomBits - 1 /\ t.dhcp_state \in 0 .. 2
  BY Zenon, <1>1 DEF StackOK, Same
<1>6. StackOK(t)
  BY Zenon, <1>1, <1>2, <1>3, <1>4, <1>5 DEF StackOK
<1> QED BY <1>1, <1>6

\* The start of a poll ends a lease that is over, and does nothing else.
LEMMA PolledOK ==
    ASSUME NEW s, StackOK(s), NEW t, t = Polled(s)
    PROVE  /\ StackOK(t) /\ Same(s, t) /\ LeaseKept(s, t)
           /\ t.configured => t.left > 0 /\ t = s
<1>1. CASE s.configured /\ s.left = 0
  BY <1>1, UnconfiguredOK DEF Polled, LeaseKept
<1>2. CASE ~(s.configured /\ s.left = 0)
  BY <1>2 DEF Polled, LeaseKept, Same, StackOK
<1> QED BY <1>1, <1>2

\* Time passes: entries and the lease come closer to their end.
LEMMA LaterOK ==
    ASSUME NEW s, StackOK(s), NEW t, t = Later(s)
    PROVE  StackOK(t) /\ Same(s, t) /\ LeaseKept(s, t)
<1> DEFINE c == s.arp_cache
           d == [i \in Slots |-> Older(c[i])]
<1>1. /\ DOMAIN t = Fields /\ t.configured = s.configured
      /\ t.configuration = s.configuration /\ t.left = Less(s.left)
      /\ t.arp_cache = d /\ t.random = s.random /\ Same(s, t)
  <2>1. t = [s EXCEPT !.left = Less(s.left), !.arp_cache = d]
    BY DEF Later
  <2> HIDE DEF d
  <2> QED BY <2>1 DEF StackOK, Fields, Same
<1>2. t.left \in Nat
  <2>1. s.left \in Nat /\ t.left = Less(s.left)
    BY Zenon, <1>1 DEF StackOK
  <2> HIDE DEF c, d
  <2> QED BY <2>1 DEF Less
<1>3. ASSUME NEW i \in Slots
      PROVE  /\ d[i] \in Entry /\ d[i].ip = c[i].ip /\ d[i].mac = c[i].mac
             /\ d[i].left = Less(c[i].left)
  <2>1. c[i] \in Entry
    BY Zenon DEF StackOK, CacheOK
  <2>2. d[i] = [c[i] EXCEPT !.left = Less(c[i].left)]
    BY DEF Older
  <2> HIDE DEF c, d
  <2> QED BY <2>1, <2>2 DEF Entry, Less
<1>4. \A ip : local_peer(t, ip) <=> local_peer(s, ip)
  BY <1>1, PeerByLease
<1>5. CacheOK(t)
  <2>1. d \in [Slots -> Entry]
    <3>1. \A i \in Slots : Older(c[i]) \in Entry
      BY Zenon, <1>3
    <3> HIDE DEF c
    <3> QED BY Zenon, <3>1
  <2> HIDE DEF d
  <2>2. ASSUME NEW i \in Slots
        PROVE  IF d[i].ip = None THEN d[i].left = 0
               ELSE /\ local_peer(t, d[i].ip) /\ d[i].mac = d[i].ip
                    /\ \A j \in Slots \ {i} : d[j].ip # d[i].ip
    <3>1. IF c[i].ip = None THEN c[i].left = 0
          ELSE /\ local_peer(s, c[i].ip) /\ c[i].mac = c[i].ip
               /\ \A j \in Slots \ {i} : c[j].ip # c[i].ip
      BY Zenon DEF StackOK, CacheOK
    <3>2. \A j \in Slots : d[j].ip = c[j].ip
      BY Zenon, <1>3
    <3>3. d[i].mac = c[i].mac /\ (c[i].left = 0 => d[i].left = 0)
      BY <1>3 DEF Less
    <3> HIDE DEF c
    <3> QED BY Zenon, <1>4, <3>1, <3>2, <3>3
  <2> QED BY Zenon, <1>1, <2>1, <2>2 DEF CacheOK
<1>6. ~s.configured => t.arp_cache = EmptyCache
  <2> SUFFICES ASSUME c = EmptyCache PROVE d = EmptyCache
    BY Zenon, <1>1 DEF StackOK, LeaseOK
  <2>1. Older(EmptyEntry) = EmptyEntry
    BY DEF Older, EmptyEntry, Less
  <2> QED BY <2>1 DEF EmptyCache
<1>7. LeaseOK(t)
  BY Zenon, <1>1, <1>4, <1>6 DEF StackOK, LeaseOK, Same
<1> HIDE DEF c, d
<1> QED BY <1>1, <1>2, <1>5, <1>7 DEF StackOK, Same, LeaseKept

\* Replacing one entry of a table, wherever that is.
LEMMA TableUpdate ==
    ASSUME NEW S, NEW E, NEW c \in [S -> E], NEW k, NEW e \in E
    PROVE  /\ [c EXCEPT ![k] = e] \in [S -> E]
           /\ \A i \in S : [c EXCEPT ![k] = e][i] = IF i = k THEN e ELSE c[i]
<1> DEFINE d == [c EXCEPT ![k] = e]
<1>1. \A i \in S : d[i] = IF i = k THEN e ELSE c[i]
  OBVIOUS
<1>2. CASE k \in S
  BY <1>1, <1>2
<1>3. CASE k \notin S
  <2>1. d = c
    BY <1>3
  <2>2. d \in [S -> E]
    BY Zenon, <2>1
  <2> QED BY <1>1, <2>2
<1> QED BY <1>2, <1>3

\* Replacing the cache changes nothing else.
LEMMA CacheOnly ==
    ASSUME NEW s, StackOK(s), NEW d, NEW t, t = [s EXCEPT !.arp_cache = d]
    PROVE  /\ DOMAIN t = Fields /\ t.configured = s.configured
           /\ t.configuration = s.configuration /\ t.left = s.left
           /\ t.arp_cache = d /\ t.random = s.random /\ Same(s, t)
BY DEF StackOK, Fields, Same

\* An entry for a neighbour takes the slot of its address, if it has one, or
\* any other: no address gets a second slot.
LEMMA RememberOK ==
    ASSUME NEW s, StackOK(s), s.configured, NEW ip \in Host, local_peer(s, ip),
           NEW t, t = arp_remember(s, ip, ip)
    PROVE  /\ StackOK(t) /\ Same(s, t)
           /\ t.configured = s.configured /\ t.configuration = s.configuration
           /\ t.left = s.left
<1> DEFINE c == s.arp_cache
           k == SlotFor(s, ip)
           e == [ip |-> ip, mac |-> ip, left |-> ArpLife]
           d == [c EXCEPT ![k] = e]
<1>1. /\ DOMAIN t = Fields /\ t.configured = s.configured
      /\ t.configuration = s.configuration /\ t.left = s.left
      /\ t.arp_cache = d /\ t.random = s.random /\ Same(s, t)
  <2>1. t = [s EXCEPT !.arp_cache = d]
    BY DEF arp_remember
  <2> HIDE DEF d
  <2> QED BY Zenon, <2>1, CacheOnly
<1>2. c \in [Slots -> Entry] /\ CacheOK(s)
  BY Zenon DEF StackOK, CacheOK
<1>3. e \in Entry /\ ip # None /\ e.ip = ip /\ e.mac = ip
  BY Zenon, NetAssumption DEF Entry, local_peer
<1>4. \A i \in Slots : i # k => c[i].ip # ip
  <2> SUFFICES ASSUME NEW i \in Slots, c[i].ip = ip PROVE i = k
    OBVIOUS
  <2>1. {j \in Slots : c[j].ip = ip} = {i}
    BY Zenon, <1>2, <1>3 DEF CacheOK
  <2>2. k = CHOOSE a \in {i} : \A j \in {i} : a <= j
    BY <2>1 DEF SlotFor
  <2>3. i <= i
    BY NetAssumption
  <2> QED BY Zenon, <2>2, <2>3
<1> HIDE DEF k, e, c
<1>5. /\ d \in [Slots -> Entry]
      /\ \A i \in Slots : d[i] = IF i = k THEN e ELSE c[i]
  <2>1. c \in [Slots -> Entry] /\ e \in Entry
    BY Zenon, <1>2, <1>3
  <2> QED BY Zenon, <2>1, TableUpdate
<1>6. \A a : local_peer(t, a) <=> local_peer(s, a)
  BY Zenon, <1>1, PeerByLease
<1> HIDE DEF d
<1>7. CacheOK(t)
  <2> SUFFICES ASSUME NEW i \in Slots
               PROVE  IF d[i].ip = None THEN d[i].left = 0
                      ELSE /\ local_peer(t, d[i].ip) /\ d[i].mac = d[i].ip
                           /\ \A j \in Slots \ {i} : d[j].ip # d[i].ip
    BY ZenonT(30), <1>1, <1>5 DEF CacheOK
  <2>1. CASE i = k
    BY Zenon, <1>3, <1>4, <1>5, <1>6, <2>1
  <2>2. CASE i # k
    <3>1. d[i] = c[i] /\ c[i].ip # ip
      BY <1>4, <1>5, <2>2
    <3>2. \A j \in Slots : d[j].ip = ip \/ d[j].ip = c[j].ip
      BY <1>3, <1>5
    <3> QED BY ZenonT(30), <1>2, <1>6, <3>1, <3>2 DEF CacheOK, c
  <2> QED BY Zenon, <2>1, <2>2
<1>8. LeaseOK(t)
  BY <1>1, <1>6 DEF StackOK, LeaseOK, Same
<1> QED BY <1>1, <1>7, <1>8 DEF StackOK, Same

\* handle_arp remembers a neighbour or does nothing.
LEMMA ArpOK ==
    ASSUME NEW s, StackOK(s), NEW m, m.from \in Host, NEW t, t = handle_arp(s, m)
    PROVE  /\ StackOK(t) /\ Same(s, t)
           /\ t.configured = s.configured /\ t.configuration = s.configuration
           /\ t.left = s.left
<1>1. CASE t = s
  BY <1>1 DEF Same
<1>2. CASE t # s
  <2>1. s.configured /\ local_peer(s, m.from) /\ t = arp_remember(s, m.from, m.from)
    BY Zenon, <1>2 DEF handle_arp
  <2> QED BY ZenonT(40), <2>1, RememberOK
<1> QED BY <1>1, <1>2

\* What handle_ip may change: what an exchange waits for, and, while a server
\* is asked, the offer.
Heard(s, t) ==
    /\ t.busy = s.busy /\ t.dhcp_state = s.dhcp_state /\ t.arp_waiting = s.arp_waiting
    /\ t.configured = s.configured /\ t.configuration = s.configuration
    /\ t.left = s.left
    /\ \/ t.offered = s.offered /\ t.offered_ready = s.offered_ready
       \/ /\ \/ s.dhcp_state = 1
             \/ /\ t.offered.server = s.offered.server
                /\ t.offered.address = s.offered.address
          /\ t.offered \in Offers /\ OfferValid(t.offered)

\* handle_ip, for the answer to a request.
LEMMA AnswerOK ==
    ASSUME NEW s, StackOK(s), NEW r, r.type \in Types, NEW m \in Answers(r),
           NEW t, t = handle_ip(s, m)
    PROVE  StackOK(t) /\ Heard(s, t)
<1>1. CASE t = s
  BY <1>1 DEF Heard
<1>2. CASE t # s
  <2>1. m.type \in {"offer", "ack", "udp", "echo"} /\ (m.type \in {"offer", "ack"} => m.offer \in Offers)
    BY DEF Answers, Types
  <2>2. CASE m.type \in {"offer", "ack"}
    <3>1. t = handle_dhcp(s, m) /\ m.offer \in Offers
      BY <1>2, <2>1, <2>2 DEF handle_ip
    <3>2. OfferValid(m.offer)
      BY <1>2, <3>1 DEF handle_dhcp
    <3>3. CASE s.dhcp_state = 1
      <4>1. t = [s EXCEPT !.offered = m.offer, !.offered_ready = TRUE]
        BY <1>2, <3>1, <3>3 DEF handle_dhcp
      <4>2. /\ DOMAIN t = Fields /\ t.arp_cache = s.arp_cache /\ t.random = s.random
            /\ t.busy = s.busy /\ t.dhcp_state = s.dhcp_state /\ t.arp_waiting = s.arp_waiting
            /\ t.configured = s.configured /\ t.configuration = s.configuration
            /\ t.left = s.left /\ t.offered = m.offer
        BY <4>1 DEF StackOK, Fields
      <4>3. Heard(s, t)
        BY Zenon, <3>1, <3>2, <3>3, <4>2 DEF Heard
      <4> QED BY Zenon, <4>2, <4>3, OtherOK DEF StackOK, LeaseOK
    <3>4. CASE s.dhcp_state # 1
      <4>1. /\ t = [s EXCEPT !.offered = m.offer, !.ack_ready = TRUE, !.heard = m.answers]
            /\ m.offer.server = s.offered.server /\ m.offer.address = s.offered.address
        BY <1>2, <3>1, <3>4 DEF handle_dhcp
      <4>2. DOMAIN t = Fields /\ Heard(s, t) /\ t.arp_cache = s.arp_cache /\ t.random = s.random
        BY <3>1, <3>2, <4>1 DEF StackOK, Fields, Heard
      <4> QED BY Zenon, <4>2, OtherOK DEF Heard, StackOK, LeaseOK
    <3> QED BY <3>3, <3>4
  <2>3. CASE m.type \in {"udp", "echo"}
    <3>1. DOMAIN t = Fields /\ Heard(s, t) /\ t.arp_cache = s.arp_cache /\ t.random = s.random
      BY <1>2, <2>3 DEF handle_ip, handle_udp, handle_echo, StackOK, Fields, Heard
    <3> QED BY Zenon, <3>1, OtherOK DEF Heard, StackOK, LeaseOK
  <2> QED BY <2>1, <2>2, <2>3
<1> QED BY <1>1, <1>2

-----------------------------------------------------------------------------
(* Every step keeps the invariant                                          *)

\* The invariant as the steps use it.
LEMMA InvParts ==
    ASSUME NetInv
    PROVE  /\ StackOK(stack) /\ OpOK(op) /\ Agree(stack, op)
           /\ AskedOK(stack, op, asked) /\ OutOK(stack, out)
           /\ DOMAIN stack = Fields /\ DOMAIN op = OpFields
           /\ stack.configured => Requested(stack.configuration, asked)
BY Zenon DEF NetInv, StackOK, OpOK, AskedOK

\* A step that sends nothing keeps what was said of requests and packets, if the
\* lease is the same or over.
LEMMA QuietOK ==
    ASSUME NetInv, Quiet, LeaseKept(stack, stack'),
           op'.at = "ack" => op.at = "ack" /\ stack'.offered = stack.offered
    PROVE  AskedOK(stack', op', asked') /\ OutOK(stack', out')
<1>1. asked' = asked /\ out' = NoPacket
  BY DEF Quiet
<1> QED BY Zenon, <1>1, InvParts DEF AskedOK, OutOK, LeaseKept

\* An operation that returns leaves the stack idle.
LEMMA FinishKeeps ==
    ASSUME NetInv, NEW s, StackOK(s), s.configured => Requested(s.configuration, asked),
           NEW ok, Finish(s, ok)
    PROVE  NetInv'
<1>1. /\ stack' = [s EXCEPT !.busy = FALSE, !.dhcp_state = 0, !.arp_waiting = None,
                            !.echo_peer = None, !.udp_port = None, !.udp_peer = None,
                            !.heard = NoRequest]
      /\ op' = [op EXCEPT !.at = "idle", !.kind = "none", !.attempt = 0, !.waited = 0,
                          !.frames = 0, !.dest = None, !.request = NoRequest]
      /\ out' = NoPacket /\ asked' = asked
  BY Zenon DEF Finish
<1>2. /\ DOMAIN stack' = Fields /\ stack'.configured = s.configured
      /\ stack'.configuration = s.configuration /\ stack'.left = s.left
      /\ stack'.arp_cache = s.arp_cache /\ stack'.random = s.random
      /\ stack'.dhcp_state = 0
  BY <1>1 DEF StackOK, Fields
<1>3. ~stack'.busy /\ stack'.busy \in BOOLEAN
  <2>1. stack'.busy = FALSE
    BY <1>1 DEF StackOK, Fields
  <2> QED BY Zenon, <2>1
<1>4. /\ DOMAIN op' = OpFields /\ op'.at = "idle" /\ op'.attempt = 0 /\ op'.waited = 0
      /\ op'.frames = 0
  BY <1>1, InvParts DEF OpFields
<1>5. StackOK(stack')
  <2>1. stack'.random \in 0 .. 2^RandomBits - 1
    BY Zenon, <1>2 DEF StackOK
  <2> QED BY <1>2, <2>1, OtherOK
<1>6. OpOK(op')
  BY <1>4, NetAssumption DEF OpOK, Places
<1>7. Agree(stack', op')
  BY Zenon, <1>2, <1>3, <1>4 DEF Agree
<1>8. AskedOK(stack', op', asked') /\ OutOK(stack', out')
  BY <1>1, <1>2, <1>4, InvParts DEF AskedOK, OutOK
<1> QED BY <1>5, <1>6, <1>7, <1>8 DEF NetInv

\* One frame of a poll is counted.
LEMMA FrameCounted ==
    ASSUME NetInv, MoreFrames, op' = [op EXCEPT !.frames = @ + 1]
    PROVE  /\ OpOK(op') /\ op'.at = op.at /\ op'.dest = op.dest
           /\ op.at \notin {"idle", "link", "discover"}
<1>1. /\ DOMAIN op' = OpFields /\ op'.at = op.at /\ op'.dest = op.dest
      /\ op'.attempt = op.attempt /\ op'.waited = op.waited /\ op'.frames = op.frames + 1
  BY InvParts DEF OpFields
<1> QED BY <1>1, InvParts, NetAssumption DEF OpOK, MoreFrames, Polling

\* Hearing the answer to any request, however old.
LEMMA HearAnswerKeeps ==
    ASSUME NetInv, HearAnswer
    PROVE  NetInv'
<1>1. PICK r \in asked : \E m \in Answers(r) : stack' = handle_ip(stack, m)
  BY DEF HearAnswer
<1>2. Quiet /\ MoreFrames /\ op' = [op EXCEPT !.frames = @ + 1]
  BY Zenon DEF HearAnswer
<1>3. /\ OpOK(op') /\ op'.at = op.at /\ op'.dest = op.dest
      /\ op.at \notin {"idle", "link", "discover"}
  BY <1>2, FrameCounted
<1>4. StackOK(stack') /\ Heard(stack, stack')
  <2>1. r.type \in Types
    BY Zenon, InvParts DEF AskedOK
  <2>2. PICK m \in Answers(r) : stack' = handle_ip(stack, m)
    BY <1>1
  <2> QED BY Zenon, <2>1, <2>2, InvParts, AnswerOK
<1>5. Agree(stack', op')
  BY Zenon, <1>3, <1>4, InvParts DEF Agree, Heard
<1>6. AskedOK(stack', op', asked') /\ OutOK(stack', out')
  <2>1. asked' = asked /\ out' = NoPacket
    BY <1>2 DEF Quiet
  <2>2. op.at = "ack" => Requested(stack'.offered, asked)
    <3> SUFFICES ASSUME op.at = "ack" PROVE Requested(stack'.offered, asked)
      OBVIOUS
    <3>1. stack.dhcp_state = 2 /\ Requested(stack.offered, asked)
      BY Zenon, InvParts DEF Agree, AskedOK
    <3>2. /\ stack'.offered.server = stack.offered.server
          /\ stack'.offered.address = stack.offered.address
      BY <1>4, <3>1 DEF Heard
    <3> QED BY Zenon, <3>1, <3>2 DEF Requested
  <2> QED BY Zenon, <1>3, <1>4, <2>1, <2>2, InvParts DEF AskedOK, OutOK, Heard
<1> QED BY <1>3, <1>4, <1>5, <1>6 DEF NetInv

\* Hearing a neighbour, and answering it from the leased address.
LEMMA HearArpKeeps ==
    ASSUME NetInv, HearArp
    PROVE  NetInv'
<1>1. PICK from \in Host, ask \in BOOLEAN, target \in Leased :
         LET m == [from |-> from, ask |-> ask, target |-> target]
             replies == /\ ask
                        /\ stack.configured
                        /\ target = stack.configuration.address
                        /\ local_peer(stack, from)
         IN  /\ stack' = handle_arp(stack, m)
             /\ IF replies
                THEN Sends([kind |-> "arp", source |-> target, dest |-> from, mac |-> from])
                ELSE out' = NoPacket
  BY Zenon DEF HearArp
<1>2. MoreFrames /\ op' = [op EXCEPT !.frames = @ + 1] /\ asked' = asked
  BY Zenon DEF HearArp
<1>3. /\ OpOK(op') /\ op'.at = op.at /\ op'.dest = op.dest
  BY <1>2, FrameCounted
<1>4. /\ StackOK(stack') /\ Same(stack, stack')
      /\ stack'.configured = stack.configured /\ stack'.configuration = stack.configuration
      /\ stack'.left = stack.left
  <2> DEFINE m == [from |-> from, ask |-> ask, target |-> target]
  <2>1. m.from \in Host /\ stack' = handle_arp(stack, m)
    BY Zenon, <1>1
  <2> HIDE DEF m
  <2> QED BY Zenon, <2>1, InvParts, ArpOK
<1>5. Agree(stack', op')
  BY Zenon, <1>3, <1>4, InvParts DEF Agree, Same
<1>6. AskedOK(stack', op', asked')
  BY <1>2, <1>3, <1>4, InvParts DEF AskedOK, Same
<1>7. OutOK(stack', out')
  <2> DEFINE packet == [kind |-> "arp", source |-> target, dest |-> from, mac |-> from]
  <2>1. CASE out' = NoPacket
    BY Zenon, <2>1 DEF OutOK
  <2>2. CASE out' # NoPacket
    <3>1. /\ stack.configured /\ target = stack.configuration.address
          /\ local_peer(stack, from) /\ out' = packet
      BY Zenon, <1>1, <2>2 DEF Sends
    <3>2. packet.source = target /\ packet.dest = from /\ packet.mac = from
      BY Zenon
    <3> HIDE DEF packet
    <3>3. possible_peer(stack', from) /\ NextHop(stack'.configuration, from) = from
      BY Zenon, <1>4, <3>1 DEF possible_peer, local_peer, NextHop
    <3> QED BY Zenon, <1>4, <3>1, <3>2, <3>3 DEF OutOK
  <2> QED BY Zenon, <2>1, <2>2
<1> QED BY Zenon, <1>3, <1>4, <1>5, <1>6, <1>7 DEF NetInv

\* Hearing a ping, and answering it the way it came.
LEMMA HearPingKeeps ==
    ASSUME NetInv, HearPing
    PROVE  NetInv'
<1>1. PICK from \in Host \cup Leased, card \in Host, to \in Leased :
          /\ Reaches(stack, [from |-> from, to |-> to])
          /\ Sends([kind |-> "reply", source |-> stack.configuration.address,
                    dest |-> from, mac |-> card])
  BY Zenon DEF HearPing
<1>2. /\ MoreFrames /\ op' = [op EXCEPT !.frames = @ + 1]
      /\ asked' = asked /\ stack' = stack
  BY Zenon DEF HearPing
<1>3. /\ OpOK(op') /\ op'.at = op.at /\ op'.dest = op.dest
  BY <1>2, FrameCounted
<1>4. stack.configured /\ possible_peer(stack, from)
  BY Zenon, <1>1 DEF Reaches
<1>5. Agree(stack', op') /\ AskedOK(stack', op', asked')
  BY <1>2, <1>3, InvParts DEF Agree, AskedOK
<1>6. OutOK(stack', out')
  <2> DEFINE packet == [kind |-> "reply", source |-> stack.configuration.address,
                        dest |-> from, mac |-> card]
  <2>1. /\ packet.kind = "reply" /\ packet.source = stack.configuration.address
        /\ packet.dest = from
    BY Zenon
  <2>2. out' \in {packet, NoPacket}
    BY Zenon, <1>1 DEF Sends
  <2> HIDE DEF packet
  <2>3. out' # NoPacket => out' = packet
    BY Zenon, <2>2
  <2> QED BY Zenon, <1>2, <1>4, <2>1, <2>3 DEF OutOK
<1> QED BY <1>2, <1>3, <1>5, <1>6, InvParts DEF NetInv

\* The owner goes on polling, or starts to, with a stack that was polled.
LEMMA WaitKeeps ==
    ASSUME NetInv, Quiet, NEW s, StackOK(s), Same(stack, s), LeaseKept(stack, s),
           stack' = Polled(s), OpOK(op'), op'.at = op.at, op'.dest = op.dest
    PROVE  NetInv'
<1>1. /\ StackOK(stack') /\ Same(s, stack') /\ LeaseKept(s, stack')
      /\ stack'.configured => stack'.left > 0
  BY PolledOK
<1>2. Same(stack, stack') /\ LeaseKept(stack, stack')
  BY <1>1 DEF Same, LeaseKept
<1>3. Agree(stack', op')
  BY Zenon, <1>1, <1>2, InvParts DEF Agree, Same, LeaseKept
<1>4. AskedOK(stack', op', asked') /\ OutOK(stack', out')
  BY Zenon, <1>2, QuietOK DEF Same
<1> QED BY <1>1, <1>3, <1>4 DEF NetInv

\* A sleep, and the poll after it.
LEMMA SleepKeeps ==
    ASSUME NetInv, SleepAndPoll
    PROVE  NetInv'
<1>1. /\ StackOK(Later(stack)) /\ Same(stack, Later(stack))
      /\ LeaseKept(stack, Later(stack))
  BY InvParts, LaterOK
<1>2. /\ stack' = Polled(Later(stack)) /\ Quiet
      /\ op' = [op EXCEPT !.waited = @ + 1, !.frames = 0]
  BY Zenon DEF SleepAndPoll
<1>3. /\ DOMAIN op' = OpFields /\ op'.at = op.at /\ op'.dest = op.dest
      /\ op'.attempt = op.attempt /\ op'.waited = op.waited + 1 /\ op'.frames = 0
  BY <1>2, InvParts DEF OpFields
<1>4. OpOK(op')
  <2>1. /\ op.at \in Places /\ op.waited \in Nat
        /\ op.attempt \in Nat /\ (op.attempt < DhcpAttempts \/ op.attempt < ArpAttempts)
    BY Zenon, InvParts DEF OpOK
  <2>2. op.waited + 1 \in Nat /\ 0 \in 0 .. PollFrames
    BY <2>1, NetAssumption
  <2> QED BY Zenon, <1>3, <2>1, <2>2 DEF OpOK
<1> QED BY Zenon, <1>1, <1>2, <1>3, <1>4, WaitKeeps

\* Time between two operations.
LEMMA RestKeeps ==
    ASSUME NetInv, Rest
    PROVE  NetInv'
<1>1. op.at = "idle" /\ stack' = Later(stack) /\ Quiet /\ op' = op
  BY Zenon DEF Rest
<1>2. /\ StackOK(stack') /\ Same(stack, stack') /\ LeaseKept(stack, stack')
  BY <1>1, InvParts, LaterOK
<1>3. Agree(stack', op')
  BY Zenon, <1>1, <1>2, InvParts DEF Agree, Same
<1>4. AskedOK(stack', op', asked') /\ OutOK(stack', out')
  BY Zenon, <1>1, <1>2, QuietOK
<1> QED BY <1>1, <1>2, <1>3, <1>4, InvParts DEF NetInv

\* What Waiting resets.
LEMMA WaitingFacts ==
    ASSUME NetInv, NEW at \in Places, NEW o, o = Waiting(op, at)
    PROVE  /\ DOMAIN o = OpFields /\ o.at = at /\ o.dest = op.dest /\ o.attempt = op.attempt
           /\ o.waited = 0 /\ o.frames = 0 /\ OpOK(o)
<1>1. /\ DOMAIN o = OpFields /\ o.at = at /\ o.dest = op.dest /\ o.attempt = op.attempt
      /\ o.waited = 0 /\ o.frames = 0
  BY InvParts DEF Waiting, OpFields
<1>2. op.attempt \in Nat /\ (op.attempt < DhcpAttempts \/ op.attempt < ArpAttempts)
  BY Zenon, InvParts DEF OpOK
<1>3. 0 \in Nat /\ 0 \in 0 .. PollFrames
  BY NetAssumption
<1> QED BY Zenon, <1>1, <1>2, <1>3 DEF OpOK

\* A status command polls.
LEMMA StatusKeeps ==
    ASSUME NetInv, StatusPoll \/ StatusDone
    PROVE  NetInv'
<1>1. CASE StatusPoll
  <2>1. op.at = "idle" /\ stack' = Polled(stack) /\ op' = Waiting(op, "poll") /\ Quiet
    BY Zenon, <1>1 DEF StatusPoll
  <2>2. op'.at = "poll" /\ OpOK(op')
    BY <2>1, WaitingFacts DEF Places
  <2>3. /\ StackOK(stack') /\ Same(stack, stack') /\ LeaseKept(stack, stack')
        /\ stack'.configured => stack'.left > 0
    BY Zenon, <2>1, InvParts, PolledOK
  <2>4. Agree(stack', op')
    BY Zenon, <2>1, <2>2, <2>3, InvParts DEF Agree, Same
  <2>5. AskedOK(stack', op', asked') /\ OutOK(stack', out')
    BY Zenon, <2>1, <2>2, <2>3, QuietOK
  <2> QED BY <2>2, <2>3, <2>4, <2>5 DEF NetInv
<1>2. CASE StatusDone
  <2>1. op.at = "poll" /\ stack' = stack /\ op' = Waiting(op, "idle") /\ Quiet
    BY Zenon, <1>2 DEF StatusDone
  <2>2. op'.at = "idle" /\ OpOK(op')
    BY <2>1, WaitingFacts DEF Places
  <2>3. Agree(stack', op')
    BY Zenon, <2>1, <2>2, InvParts DEF Agree
  <2>4. AskedOK(stack', op', asked') /\ OutOK(stack', out')
    BY <2>1, <2>2, QuietOK DEF LeaseKept
  <2> QED BY <2>1, <2>2, <2>3, <2>4, InvParts DEF NetInv
<1> QED BY <1>1, <1>2

\* net_dhcp gives the lease up, and waits for a link.
LEMMA DhcpStartKeeps ==
    ASSUME NetInv, net_dhcp
    PROVE  NetInv'
<1> DEFINE s == Unconfigured(stack)
           o == Waiting(op, "link")
<1>1. /\ op.at = "idle" /\ Quiet /\ stack' = [s EXCEPT !.busy = TRUE]
      /\ op' = [o EXCEPT !.kind = "dhcp", !.begun = @ + 1]
  BY Zenon DEF net_dhcp
<1>2. StackOK(s) /\ Same(stack, s) /\ ~s.configured
  BY Zenon, InvParts, UnconfiguredOK
<1>3. /\ DOMAIN o = OpFields /\ o.at = "link" /\ OpOK(o)
  BY WaitingFacts DEF Places
<1> HIDE DEF s, o
<1>4. OpOK(op') /\ op'.at = "link"
  BY <1>1, <1>3 DEF OpOK, OpFields
<1>5. /\ DOMAIN stack' = Fields /\ stack'.configured = s.configured
      /\ stack'.configuration = s.configuration /\ stack'.left = s.left
      /\ stack'.arp_cache = s.arp_cache /\ stack'.random = s.random
      /\ stack'.dhcp_state = s.dhcp_state
  BY <1>1, <1>2 DEF StackOK, Fields
<1>6. stack'.busy = TRUE
  BY <1>1, <1>2 DEF StackOK, Fields
<1>7. StackOK(stack')
  BY Zenon, <1>2, <1>5, OtherOK DEF StackOK
<1>8. stack'.busy \in BOOLEAN /\ stack'.busy
  BY Zenon, <1>6
<1>9. stack'.dhcp_state = 0 /\ ~stack'.configured
  BY <1>1, <1>2, <1>5, InvParts DEF Agree, Same
<1>10. Agree(stack', op')
  BY <1>4, <1>8, <1>9 DEF Agree
<1>11. AskedOK(stack', op', asked') /\ OutOK(stack', out')
  BY <1>1, <1>4, <1>9, QuietOK DEF LeaseKept
<1> QED BY <1>4, <1>7, <1>10, <1>11 DEF NetInv

\* The link is waited for.
LEMMA LinkKeeps ==
    ASSUME NetInv, LinkDown \/ LinkUp \/ NoLink
    PROVE  NetInv'
<1>1. CASE LinkDown
  <2>1. /\ op.at = "link" /\ stack' = Later(stack) /\ Quiet
        /\ op' = [op EXCEPT !.waited = @ + 1]
    BY Zenon, <1>1 DEF LinkDown
  <2>2. op'.at = op.at /\ op'.dest = op.dest /\ OpOK(op')
    BY <2>1, InvParts DEF OpOK, OpFields
  <2>3. /\ StackOK(stack') /\ Same(stack, stack') /\ LeaseKept(stack, stack')
    BY <2>1, InvParts, LaterOK
  <2>4. Agree(stack', op')
    BY <2>1, <2>2, <2>3, InvParts DEF Agree, Same, LeaseKept
  <2>5. AskedOK(stack', op', asked') /\ OutOK(stack', out')
    BY <2>1, <2>2, <2>3, QuietOK
  <2> QED BY <2>2, <2>3, <2>4, <2>5 DEF NetInv
<1>2. CASE LinkUp
  <2>1. op.at = "link" /\ stack' = stack /\ op' = [op EXCEPT !.at = "discover"] /\ Quiet
    BY Zenon, <1>2 DEF LinkUp
  <2>2. op'.at = "discover" /\ OpOK(op')
    BY <2>1, InvParts DEF OpOK, OpFields, Places
  <2>3. Agree(stack', op')
    BY <2>1, <2>2, InvParts DEF Agree
  <2>4. AskedOK(stack', op', asked') /\ OutOK(stack', out')
    BY <2>1, <2>2, QuietOK DEF LeaseKept
  <2> QED BY <2>1, <2>2, <2>3, <2>4, InvParts DEF NetInv
<1>3. CASE NoLink
  <2>1. Finish(stack, FALSE)
    BY Zenon, <1>3 DEF NoLink
  <2> QED BY Zenon, <2>1, InvParts, FinishKeeps
<1> QED BY <1>1, <1>2, <1>3

\* The generator stays in its width.
LEMMA RandomOK ==
    ASSUME NEW s, s.random \in 0 .. 2^RandomBits - 1
    PROVE  random_value(s) \in 0 .. 2^RandomBits - 1
<1> DEFINE n == 2^RandomBits
<1>1. n \in Nat \ {0}
  BY NetAssumption
<1> HIDE DEF n
<1>2. \A a \in Nat : a % n \in 0 .. n - 1
  BY <1>1
<1>3. s.random \in Nat
  <2>1. s.random \in 0 .. n - 1
    BY DEF n
  <2> QED BY <1>1, <2>1
<1>4. 5 * s.random + 3 \in Nat
  BY <1>3
<1>5. (5 * s.random + 3) % n \in 0 .. n - 1
  BY <1>2, <1>4
<1> QED BY <1>5 DEF random_value, n

\* An attempt of net_dhcp that fails is followed by another one or by none.
LEMMA AttemptKeeps ==
    ASSUME NetInv, op.at \in {"discover", "offer", "ack"}, AttemptFails
    PROVE  NetInv'
<1>1. CASE op.attempt + 1 < DhcpAttempts
  <2> DEFINE o == Waiting(op, "discover")
  <2>1. op' = [o EXCEPT !.attempt = @ + 1] /\ Quiet /\ stack' = stack
    BY Zenon, <1>1 DEF AttemptFails
  <2>2. DOMAIN o = OpFields /\ o.at = "discover" /\ OpOK(o) /\ o.attempt = op.attempt
    BY WaitingFacts DEF Places
  <2> HIDE DEF o
  <2>3. op'.at = "discover" /\ OpOK(op')
    BY <1>1, <2>1, <2>2 DEF OpOK, OpFields
  <2>4. Agree(stack', op')
    BY <2>1, <2>3, InvParts DEF Agree
  <2>5. AskedOK(stack', op', asked') /\ OutOK(stack', out')
    BY <2>1, <2>3, QuietOK DEF LeaseKept
  <2> QED BY <2>1, <2>3, <2>4, <2>5, InvParts DEF NetInv
<1>2. CASE ~(op.attempt + 1 < DhcpAttempts)
  <2>1. Finish(stack, FALSE)
    BY Zenon, <1>2 DEF AttemptFails
  <2> QED BY Zenon, <2>1, InvParts, FinishKeeps
<1> QED BY <1>1, <1>2

\* The place of an operation that has asked.
LEMMA AskingFacts ==
    ASSUME NetInv, NEW at \in Places, NEW n, op' = [Waiting(op, at) EXCEPT !.request = n]
    PROVE  OpOK(op') /\ op'.at = at /\ op'.dest = op.dest
<1> DEFINE o == Waiting(op, at)
<1>1. /\ DOMAIN o = OpFields /\ o.at = at /\ o.dest = op.dest /\ OpOK(o)
  BY WaitingFacts
<1> HIDE DEF o
<1>2. op' = [o EXCEPT !.request = n]
  BY DEF o
<1> QED BY <1>1, <1>2 DEF OpOK, OpFields

\* A DISCOVER under a new number.
LEMMA DiscoverKeeps ==
    ASSUME NetInv, Discover
    PROVE  NetInv'
<1> DEFINE v == random_value(stack)
           s == [stack EXCEPT !.random = v, !.xid = v, !.offered_ready = FALSE,
                              !.ack_ready = FALSE, !.dhcp_state = 1]
           q == [type |-> "discover", number |-> Number, xid |-> v]
<1>1. /\ op.at = "discover" /\ stack' = Polled(s) /\ asked' = asked \cup {q}
      /\ op' = [Waiting(op, "offer") EXCEPT !.request = Number]
      /\ out' = NoPacket
  BY Zenon DEF Discover
<1>2. v \in 0 .. 2^RandomBits - 1
  BY InvParts, RandomOK DEF StackOK
<1> HIDE DEF v
<1>3. /\ DOMAIN s = Fields /\ s.configured = stack.configured
      /\ s.configuration = stack.configuration /\ s.left = stack.left
      /\ s.arp_cache = stack.arp_cache /\ s.random = v
      /\ s.dhcp_state = 1 /\ s.busy = stack.busy
  BY InvParts DEF Fields
<1>4. ~s.offered_ready
  BY InvParts DEF Fields
<1>5. q.type = "discover"
  OBVIOUS
<1> HIDE DEF s, q
<1>6. ~stack.configured
  BY <1>1, InvParts DEF Agree
<1>7. StackOK(s)
  BY <1>2, <1>3, <1>6, InvParts, OtherOK
<1>8. stack' = s
  BY <1>1, <1>3, <1>6 DEF Polled
<1>9. OpOK(op') /\ op'.at = "offer"
  BY <1>1, AskingFacts DEF Places
<1>10. Agree(stack', op')
  BY <1>1, <1>3, <1>4, <1>6, <1>8, <1>9, InvParts DEF Agree
<1>11. AskedOK(stack', op', asked') /\ OutOK(stack', out')
  BY <1>1, <1>3, <1>5, <1>6, <1>8, <1>9, InvParts DEF AskedOK, OutOK, Types
<1> QED BY <1>7, <1>8, <1>9, <1>10, <1>11 DEF NetInv

\* A REQUEST for what was offered.
LEMMA RequestKeeps ==
    ASSUME NetInv, Request
    PROVE  NetInv'
<1> DEFINE s == [stack EXCEPT !.dhcp_state = 2]
           q == [type |-> "request", number |-> Number, xid |-> stack.xid,
                 server |-> stack.offered.server, address |-> stack.offered.address]
<1>1. /\ op.at = "offer" /\ stack.offered_ready
      /\ stack' = Polled(s) /\ asked' = asked \cup {q}
      /\ op' = [Waiting(op, "ack") EXCEPT !.request = Number]
      /\ out' = NoPacket
  BY Zenon DEF Request
<1>2. /\ DOMAIN s = Fields /\ s.configured = stack.configured
      /\ s.configuration = stack.configuration /\ s.left = stack.left
      /\ s.arp_cache = stack.arp_cache /\ s.random = stack.random
      /\ s.dhcp_state = 2 /\ s.busy = stack.busy /\ s.offered = stack.offered
  BY InvParts DEF Fields
<1>3. /\ q.type = "request" /\ q.server = stack.offered.server
      /\ q.address = stack.offered.address
  OBVIOUS
<1> HIDE DEF s, q
<1>4. ~stack.configured /\ stack.offered \in Offers /\ OfferValid(stack.offered)
  BY <1>1, InvParts DEF Agree
<1>5. StackOK(s)
  <2>1. StackOK(stack)
    BY InvParts
  <2>2. s.random \in 0 .. 2^RandomBits - 1
    BY Zenon, <1>2, <2>1 DEF StackOK
  <2>3. s.dhcp_state \in 0 .. 2
    BY <1>2
  <2> QED BY Zenon, <1>2, <2>1, <2>2, <2>3, OtherOK
<1>6. stack' = s
  BY <1>1, <1>2, <1>4 DEF Polled
<1>7. OpOK(op') /\ op'.at = "ack"
  BY <1>1, AskingFacts DEF Places
<1>8. Agree(stack', op')
  BY <1>1, <1>2, <1>4, <1>6, <1>7, InvParts DEF Agree
<1>9. Requested(s.offered, asked')
  BY <1>1, <1>2, <1>3 DEF Requested
<1>10. AskedOK(stack', op', asked') /\ OutOK(stack', out')
  BY <1>1, <1>2, <1>3, <1>4, <1>6, <1>7, <1>9, InvParts DEF AskedOK, OutOK, Types
<1> QED BY <1>5, <1>6, <1>7, <1>8, <1>10 DEF NetInv

\* The server confirmed what was requested: the lease begins.
LEMMA BoundKeeps ==
    ASSUME NetInv, Bound
    PROVE  NetInv'
<1> DEFINE f == stack.offered
           s == [stack EXCEPT !.configuration = f, !.left = f.lease, !.configured = TRUE]
<1>1. op.at = "ack" /\ Finish(s, TRUE)
  BY Zenon DEF Bound
<1>2. /\ ~stack.configured /\ f \in Offers /\ OfferValid(f)
      /\ stack.dhcp_state = 2 /\ Requested(f, asked)
  BY <1>1, InvParts DEF Agree, AskedOK
<1>3. stack.arp_cache = EmptyCache
  BY Zenon, <1>2, InvParts DEF StackOK, LeaseOK
<1>4. /\ DOMAIN s = Fields /\ s.configuration = f /\ s.left = f.lease
      /\ s.arp_cache = stack.arp_cache /\ s.random = stack.random
      /\ s.dhcp_state = stack.dhcp_state
  BY InvParts DEF Fields
<1>5. s.configured = TRUE
  BY InvParts DEF Fields
<1>6. s.configured \in BOOLEAN /\ s.configured
  BY Zenon, <1>5
<1> HIDE DEF s
<1>7. CacheOK(s)
  BY Zenon, <1>3, <1>4, EmptyOK
<1>8. local_peer(s, f.gateway)
  BY Zenon, <1>2, <1>4 DEF local_peer, OfferValid
<1>9. StackOK(s)
  BY Zenon, <1>2, <1>4, <1>6, <1>7, <1>8, InvParts, NetAssumption DEF StackOK, LeaseOK
<1>10. s.configured => Requested(s.configuration, asked)
  BY Zenon, <1>2, <1>4
<1> QED BY Zenon, <1>1, <1>9, <1>10, FinishKeeps

\* The start of an exchange polls, so that the lease, if there is one, lives.
LEMMA StartKeeps ==
    ASSUME NetInv, NEW kind, NEW dest, StartExchange(kind, dest)
    PROVE  NetInv'
<1> DEFINE v == random_value(stack)
           d == IF kind = "dns" THEN [stack EXCEPT !.random = v, !.dns_id = v % 2^IdBits]
                ELSE stack
           p == Polled(d)
           o == Waiting(op, "route")
<1>1. /\ op.at = "idle" /\ Quiet /\ stack' = [p EXCEPT !.busy = TRUE]
      /\ op' = [o EXCEPT !.kind = kind, !.dest = dest, !.begun = @ + 1]
  BY Zenon DEF StartExchange
<1>2. v \in 0 .. 2^RandomBits - 1
  BY InvParts, RandomOK DEF StackOK
<1> HIDE DEF v
<1>3. /\ DOMAIN d = Fields /\ d.configured = stack.configured
      /\ d.configuration = stack.configuration /\ d.left = stack.left
      /\ d.arp_cache = stack.arp_cache /\ d.random \in {v, stack.random}
      /\ d.dhcp_state = stack.dhcp_state
  BY InvParts DEF Fields
<1> HIDE DEF d
<1>4. StackOK(d)
  BY Zenon, <1>2, <1>3, InvParts, OtherOK DEF StackOK
<1>5. /\ StackOK(p) /\ Same(d, p) /\ LeaseKept(d, p)
      /\ p.configured => p.left > 0
  BY Zenon, <1>4, PolledOK
<1>6. /\ DOMAIN o = OpFields /\ o.at = "route" /\ OpOK(o)
  BY ZenonT(30), WaitingFacts DEF Places
<1> HIDE DEF p, o
<1>7. OpOK(op') /\ op'.at = "route"
  BY <1>1, <1>6 DEF OpOK, OpFields
<1>8. /\ DOMAIN stack' = Fields /\ stack'.configured = p.configured
      /\ stack'.configuration = p.configuration /\ stack'.left = p.left
      /\ stack'.arp_cache = p.arp_cache /\ stack'.random = p.random
      /\ stack'.dhcp_state = p.dhcp_state
  BY <1>1, <1>5 DEF StackOK, Fields
<1>9. stack'.busy = TRUE
  BY <1>1, <1>5 DEF StackOK, Fields
<1>10. stack'.busy \in BOOLEAN /\ stack'.busy
  BY Zenon, <1>9
<1>11. StackOK(stack')
  BY Zenon, <1>5, <1>8, OtherOK DEF StackOK
<1>12. stack'.dhcp_state = 0 /\ LeaseKept(stack, stack')
  BY <1>1, <1>3, <1>5, <1>8, InvParts DEF Agree, Same, LeaseKept
<1>13. Agree(stack', op')
  BY Zenon, <1>5, <1>7, <1>8, <1>10, <1>12 DEF Agree
<1>14. AskedOK(stack', op', asked') /\ OutOK(stack', out')
  BY <1>1, <1>7, <1>12, QuietOK
<1> QED BY <1>7, <1>11, <1>13, <1>14 DEF NetInv

\* What a question changes: neither the lease, nor the place of the owner.
LEMMA PreparedOK ==
    ASSUME NetInv, NEW s, s = Prepared
    PROVE  /\ StackOK(s) /\ s.configured = stack.configured
           /\ s.configuration = stack.configuration /\ s.left = stack.left
           /\ s.busy = stack.busy /\ s.dhcp_state = stack.dhcp_state
           /\ s.offered = stack.offered /\ s.offered_ready = stack.offered_ready
<1> DEFINE b == [stack EXCEPT !.arp_waiting = None]
           v == random_value(b)
<1>1. /\ DOMAIN b = Fields /\ b.configured = stack.configured
      /\ b.configuration = stack.configuration /\ b.left = stack.left
      /\ b.busy = stack.busy /\ b.dhcp_state = stack.dhcp_state
      /\ b.offered = stack.offered /\ b.offered_ready = stack.offered_ready
      /\ b.arp_cache = stack.arp_cache /\ b.random = stack.random
  BY InvParts DEF Fields
<1>2. \/ \E x : s = [b EXCEPT !.echo_sequence = x, !.echo_peer = op.dest,
                              !.echo_ready = FALSE]
      \/ \E x : s = [b EXCEPT !.random = v, !.udp_port = x,
                              !.udp_peer = op.dest, !.udp_ready = FALSE]
  BY Zenon DEF Prepared
<1> HIDE DEF b
<1>3. v \in 0 .. 2^RandomBits - 1
  BY Zenon, <1>1, InvParts, RandomOK DEF StackOK
<1> HIDE DEF v
<1>4. /\ DOMAIN s = Fields /\ s.configured = b.configured
      /\ s.configuration = b.configuration /\ s.left = b.left
      /\ s.busy = b.busy /\ s.dhcp_state = b.dhcp_state
      /\ s.offered = b.offered /\ s.offered_ready = b.offered_ready
      /\ s.arp_cache = b.arp_cache /\ s.random \in {v, b.random}
  <2>1. CASE \E x : s = [b EXCEPT !.echo_sequence = x, !.echo_peer = op.dest,
                                  !.echo_ready = FALSE]
    BY <1>1, <2>1 DEF Fields
  <2>2. CASE \E x : s = [b EXCEPT !.random = v, !.udp_port = x,
                                  !.udp_peer = op.dest, !.udp_ready = FALSE]
    BY <1>1, <2>2 DEF Fields
  <2> QED BY Zenon, <1>2, <2>1, <2>2
<1>5. StackOK(s)
  BY Zenon, <1>1, <1>3, <1>4, InvParts, OtherOK DEF StackOK
<1> QED BY Zenon, <1>1, <1>4, <1>5

\* An entry with no time left is not one with time left.
LEMMA NoneLeft == \A n : n = 0 => ~(n > 0)
OBVIOUS

\* Where a route was found there is a lease, and the card is that of the next hop.
LEMMA RouteRight ==
    ASSUME NetInv, RouteFound
    PROVE  /\ stack.configured /\ stack.left > 0 /\ op.at \in {"route", "arp"}
           /\ Learned = NextHop(stack.configuration, op.dest)
           /\ possible_peer(stack, op.dest)
<1> DEFINE h == IF op.at = "arp" THEN stack.arp_waiting ELSE Hop
<1>1. op.at \in {"route", "arp"} /\ arp_lookup(stack, h)
  BY DEF RouteFound
<1>2. PICK i \in Known(stack, h) : TRUE
  BY <1>1 DEF arp_lookup
<1>3. \A j \in Known(stack, h) :
         j \in Slots /\ stack.arp_cache[j].ip = h /\ stack.arp_cache[j].left > 0
  BY Zenon DEF Known
<1>4. CacheOK(stack) /\ LeaseOK(stack)
  BY InvParts DEF StackOK
<1>5. stack.configured
  <2> SUFFICES ASSUME ~stack.configured PROVE FALSE
    OBVIOUS
  <2>1. stack.arp_cache = EmptyCache
    BY Zenon, <1>4 DEF LeaseOK
  <2>2. EmptyCache[i] = EmptyEntry /\ EmptyEntry.left = 0
    BY Zenon, <1>2, <1>3 DEF EmptyCache, EmptyEntry
  <2> QED BY <1>2, <1>3, <2>1, <2>2
<1>6. stack.left > 0 /\ h = NextHop(stack.configuration, op.dest)
  BY Zenon, <1>1, <1>5, InvParts DEF Agree, Hop
<1>7. ASSUME NEW j \in Known(stack, h) PROVE stack.arp_cache[j].mac = h
  <2> DEFINE e == stack.arp_cache[j]
  <2>1. j \in Slots /\ e.ip = h /\ e.left > 0
    BY Zenon, <1>3, <1>7
  <2>2. IF e.ip = None THEN e.left = 0 ELSE e.mac = e.ip
    BY Zenon, <1>4, <2>1 DEF CacheOK
  <2> HIDE DEF e
  <2>3. e.mac = h
    BY Zenon, <2>1, <2>2, NoneLeft
  <2> QED BY Zenon, <2>3 DEF e
<1>8. (CHOOSE j \in Known(stack, h) : TRUE) \in Known(stack, h)
  BY <1>2
<1>9. Learned = h
  BY Zenon, <1>7, <1>8 DEF Learned, MacFor
<1>10. local_peer(stack, h)
  <2> DEFINE e == stack.arp_cache[i]
  <2>1. i \in Slots /\ e.ip = h /\ e.left > 0
    BY Zenon, <1>2, <1>3
  <2>2. IF e.ip = None THEN e.left = 0 ELSE local_peer(stack, e.ip)
    BY Zenon, <1>4, <2>1 DEF CacheOK
  <2> HIDE DEF e
  <2> QED BY Zenon, <2>1, <2>2, NoneLeft
<1> HIDE DEF h
<1>11. possible_peer(stack, op.dest)
  BY Zenon, <1>6, <1>10 DEF possible_peer, NextHop
<1> QED BY <1>1, <1>5, <1>6, <1>9, <1>11

\* A ping or a UDP packet leaves from the leased address to the next hop.
LEMMA AskKeeps ==
    ASSUME NetInv, Ask
    PROVE  NetInv'
<1> DEFINE s == Prepared
           at == IF op.kind = "ping" THEN "echo" ELSE "udp"
<1>1. /\ RouteFound /\ stack' = Polled(s) /\ asked' = asked \cup {Question(s)}
      /\ out' = [kind |-> "question", source |-> s.configuration.address,
                 dest |-> op.dest, mac |-> Learned]
      /\ op' = [Waiting(op, at) EXCEPT !.request = Number]
  BY DEF Ask
<1>2. /\ stack.configured /\ stack.left > 0 /\ op.at \in {"route", "arp"}
      /\ Learned = NextHop(stack.configuration, op.dest)
      /\ possible_peer(stack, op.dest)
  BY <1>1, RouteRight
<1>3. /\ StackOK(s) /\ s.configured = stack.configured
      /\ s.configuration = stack.configuration /\ s.left = stack.left
      /\ s.busy = stack.busy /\ s.dhcp_state = stack.dhcp_state
  BY Zenon, PreparedOK
<1>4. Question(s).type \in {"echo", "udp"}
  BY Zenon DEF Question
<1>5. at \in {"echo", "udp"}
  OBVIOUS
<1> HIDE DEF s, at
<1>6. OpOK(op') /\ op'.at \in {"echo", "udp"}
  BY <1>1, <1>5, AskingFacts DEF Places
<1>7. stack' = s
  BY <1>1, <1>2, <1>3, InvParts DEF Polled, StackOK
<1>8. Agree(stack', op')
  BY Zenon, <1>2, <1>3, <1>6, <1>7, InvParts DEF Agree
<1>9. AskedOK(stack', op', asked')
  BY <1>1, <1>3, <1>4, <1>6, <1>7, InvParts DEF AskedOK, Types, Requested
<1>10. OutOK(stack', out')
  <2>1. /\ out'.source = s.configuration.address /\ out'.dest = op.dest
        /\ out'.mac = Learned
    BY <1>1
  <2>2. stack'.configured /\ stack'.configuration = stack.configuration
    BY Zenon, <1>2, <1>3, <1>7
  <2>3. /\ out'.source = stack'.configuration.address
        /\ out'.mac = NextHop(stack'.configuration, out'.dest)
    BY Zenon, <1>2, <1>3, <2>1, <2>2
  <2>4. possible_peer(stack', out'.dest)
    BY Zenon, <1>2, <2>1, <2>2, PeerByLease
  <2> QED BY Zenon, <2>2, <2>3, <2>4 DEF OutOK
<1> QED BY <1>3, <1>6, <1>7, <1>8, <1>9, <1>10 DEF NetInv

\* The next hop is asked for, once and again.
LEMMA NeighbourKeeps ==
    ASSUME NetInv, AskNeighbour \/ NeighbourAgain
    PROVE  NetInv'
<1>1. CASE AskNeighbour
  <2> DEFINE s == [stack EXCEPT !.arp_waiting = Hop]
  <2>1. /\ op.at = "route" /\ stack.configured /\ stack' = Polled(s)
        /\ op' = Waiting(op, "arp") /\ Quiet
    BY <1>1 DEF AskNeighbour, Routable
  <2>2. /\ DOMAIN s = Fields /\ s.configured = stack.configured
        /\ s.configuration = stack.configuration /\ s.left = stack.left
        /\ s.busy = stack.busy /\ s.dhcp_state = stack.dhcp_state
        /\ s.arp_cache = stack.arp_cache /\ s.random = stack.random
        /\ s.arp_waiting = Hop
    BY InvParts DEF Fields
  <2> HIDE DEF s
  <2>3. StackOK(s)
    BY Zenon, <2>2, InvParts, OtherOK DEF StackOK
  <2>4. stack.left > 0
    BY Zenon, <2>1, InvParts DEF Agree
  <2>5. stack' = s
    <3>1. s.left # 0
      BY <2>2, <2>4
    <3> QED BY Zenon, <2>1, <3>1 DEF Polled
  <2>6. op'.at = "arp" /\ op'.dest = op.dest /\ OpOK(op')
    BY Zenon, <2>1, WaitingFacts DEF Places
  <2>7. Agree(stack', op')
    BY Zenon, <2>1, <2>2, <2>4, <2>5, <2>6, InvParts DEF Agree, Hop
  <2>8. LeaseKept(stack, stack')
    BY <2>2, <2>5 DEF LeaseKept
  <2>9. AskedOK(stack', op', asked') /\ OutOK(stack', out')
    BY Zenon, <2>1, <2>6, <2>8, QuietOK
  <2> QED BY <2>3, <2>5, <2>6, <2>7, <2>9 DEF NetInv
<1>2. CASE NeighbourAgain
  <2> DEFINE o == Waiting(op, "arp")
  <2>1. /\ op.at = "arp" /\ stack' = Polled(stack) /\ Quiet
        /\ op.attempt + 1 < ArpAttempts /\ op' = [o EXCEPT !.attempt = @ + 1]
    BY Zenon, <1>2 DEF NeighbourAgain, NeighbourUnheard
  <2>2. /\ DOMAIN o = OpFields /\ o.at = "arp" /\ o.dest = op.dest /\ OpOK(o)
        /\ o.attempt = op.attempt
    BY WaitingFacts DEF Places
  <2> HIDE DEF o
  <2>3. op'.at = op.at /\ op'.dest = op.dest /\ OpOK(op')
    BY <2>1, <2>2 DEF OpOK, OpFields
  <2>4. Same(stack, stack) /\ LeaseKept(stack, stack)
    BY DEF Same, LeaseKept
  <2> QED BY Zenon, <2>1, <2>3, <2>4, InvParts, WaitKeeps
<1> QED BY Zenon, <1>1, <1>2

\* The places where an operation sleeps, or goes back to its caller.
LEMMA LoopKeeps ==
    ASSUME NetInv,
           \/ DhcpWaits \/ NeighbourWaits \/ AnswerWaits
           \/ DiscoverLost \/ RequestLost \/ DhcpGivesUp
           \/ NoRoute \/ AskLost \/ NoNeighbour \/ ExchangeEnds \/ ExchangeGivesUp
    PROVE  NetInv'
<1>1. CASE DhcpWaits \/ NeighbourWaits \/ AnswerWaits
  <2>1. SleepAndPoll
    BY Zenon, <1>1 DEF DhcpWaits, NeighbourWaits, AnswerWaits
  <2> QED BY <2>1, SleepKeeps
<1>2. CASE DiscoverLost \/ RequestLost \/ DhcpGivesUp
  <2>1. op.at \in {"discover", "offer", "ack"} /\ AttemptFails
    BY Zenon, <1>2 DEF DiscoverLost, RequestLost, DhcpGivesUp
  <2> QED BY <2>1, AttemptKeeps
<1>3. CASE NoRoute \/ NoNeighbour \/ ExchangeEnds \/ ExchangeGivesUp
  <2>1. \E ok : Finish(stack, ok)
    BY Zenon, <1>3 DEF NoRoute, NoNeighbour, ExchangeEnds, ExchangeGivesUp
  <2> QED BY Zenon, <2>1, InvParts, FinishKeeps
<1>4. CASE AskLost
  <2>1. Finish(Prepared, FALSE)
    BY Zenon, <1>4 DEF AskLost
  <2>2. StackOK(Prepared) /\ (Prepared.configured => Requested(Prepared.configuration, asked))
    BY PreparedOK, InvParts
  <2> QED BY Zenon, <2>1, <2>2, FinishKeeps
<1> QED BY <1>1, <1>2, <1>3, <1>4

\* A stack that was just initialised.
LEMMA NetInitInv == Init => NetInv
<1> SUFFICES ASSUME Init PROVE NetInv
  BY Zenon
<1>1. /\ DOMAIN stack = Fields /\ stack.configuration = NoOffer /\ stack.left = 0
      /\ stack.random = 0 /\ stack.dhcp_state = 0 /\ stack.arp_cache = EmptyCache
  BY Zenon DEF Init, Fields
<1>2. stack.configured = FALSE /\ stack.busy = FALSE
  BY Zenon DEF Init
<1>3. /\ ~stack.configured /\ stack.configured \in BOOLEAN
      /\ ~stack.busy /\ stack.busy \in BOOLEAN
  BY Zenon, <1>2
<1>4. /\ DOMAIN op = OpFields /\ op.at = "idle" /\ op.attempt = 0 /\ op.waited = 0
      /\ op.frames = 0 /\ asked = {} /\ out = NoPacket
  BY Zenon DEF Init, OpFields
<1>5. 0 \in 0 .. 2^RandomBits - 1
  <2> DEFINE n == 2^RandomBits
  <2>1. n \in Nat \ {0}
    BY Zenon, NetAssumption
  <2> HIDE DEF n
  <2>2. 0 \in 0 .. n - 1
    BY <2>1
  <2> QED BY <2>2 DEF n
<1>6. StackOK(stack)
  <2>1. CacheOK(stack) /\ LeaseOK(stack)
    BY Zenon, <1>1, <1>3, EmptyOK DEF LeaseOK
  <2>2. 0 \in Nat /\ 0 \in 0 .. 2
    OBVIOUS
  <2> QED BY Zenon, <1>1, <1>3, <1>5, <2>1, <2>2 DEF StackOK
<1>7. OpOK(op)
  BY <1>4, NetAssumption DEF OpOK, Places
<1>8. Agree(stack, op) /\ AskedOK(stack, op, asked) /\ OutOK(stack, out)
  BY Zenon, <1>1, <1>3, <1>4 DEF Agree, AskedOK, OutOK
<1> QED BY <1>6, <1>7, <1>8 DEF NetInv

\* Every step of the owner and of the network keeps the invariant.
LEMMA NetStep == NetInv /\ [Next]_vars => NetInv'
<1> SUFFICES ASSUME NetInv, [Next]_vars PROVE NetInv'
  BY Zenon
<1>1. CASE UNCHANGED vars
  <2>1. stack' = stack /\ op' = op /\ asked' = asked /\ out' = out
    BY <1>1 DEF vars
  <2> QED BY <2>1, InvParts DEF NetInv
<1>2. CASE HearAnswer \/ HearArp \/ HearPing
  BY <1>2, HearAnswerKeeps, HearArpKeeps, HearPingKeeps
<1>3. CASE Rest \/ StatusPoll \/ StatusDone \/ net_dhcp
  BY <1>3, RestKeeps, StatusKeeps, DhcpStartKeeps
<1>4. CASE \E kind \in {"ping", "udp", "dns"}, dest \in Host : StartExchange(kind, dest)
  BY Zenon, <1>4, StartKeeps
<1>5. CASE LinkUp \/ LinkDown \/ NoLink
  BY <1>5, LinkKeeps
<1>6. CASE Discover \/ Request \/ Bound
  BY Zenon, <1>6, DiscoverKeeps, RequestKeeps, BoundKeeps
<1>7. CASE Ask \/ AskNeighbour \/ NeighbourAgain
  BY <1>7, AskKeeps, NeighbourKeeps
<1>8. CASE \/ DhcpWaits \/ NeighbourWaits \/ AnswerWaits
           \/ DiscoverLost \/ RequestLost \/ DhcpGivesUp
           \/ NoRoute \/ AskLost \/ NoNeighbour \/ ExchangeEnds \/ ExchangeGivesUp
  BY <1>8, LoopKeeps
<1> QED BY Zenon, <1>1, <1>2, <1>3, <1>4, <1>5, <1>6, <1>7, <1>8 DEF Next, Continue

\* The inductive invariant of the stack (net/stack.c).
THEOREM NetInvariant == Spec => []NetInv
BY NetInitInv, NetStep, PTL DEF Spec

\* The invariant says what is promised of the lease.
LEMMA NetInvHonours == NetInv => ConfigurationOK
<1> SUFFICES ASSUME NetInv PROVE ConfigurationOK
  BY Zenon
<1>1. stack.busy = (op.at \notin {"idle", "poll"})
  <2>1. stack.busy \in BOOLEAN /\ (stack.busy <=> op.at \notin {"idle", "poll"})
    BY Zenon, InvParts DEF Agree
  <2> QED BY Zenon, <2>1
<1>2. StackTypeOK
  BY Zenon, <1>1, InvParts DEF StackTypeOK, StackOK, OpOK
<1>3. CacheOK(stack) /\ LeaseOK(stack)
  BY InvParts DEF StackOK
<1>4. CacheExact
  BY Zenon, <1>3 DEF CacheOK, CacheExact
<1>5. stack.configured =>
        /\ stack.dhcp_state = 0
        /\ \E r \in asked : /\ r.type = "request"
                            /\ r.server = stack.configuration.server
                            /\ r.address = stack.configuration.address
        /\ local_peer(stack, stack.configuration.gateway)
  BY Zenon, <1>3, InvParts DEF LeaseOK, Requested, Agree, OpOK
<1>6. ~stack.configured => stack.configuration = NoOffer /\ stack.arp_cache = EmptyCache
  BY <1>3 DEF LeaseOK
<1> QED BY Zenon, <1>2, <1>4, <1>5, <1>6 DEF ConfigurationOK

\* Whatever is lost, late or repeated, and whenever the lease runs out, the stack
\* uses only what a server confirmed to it on request and keeps neighbours of the
\* leased subnet only; no packet leaves without a lease, from another address than
\* the leased one or for an address of the subnet that no host can have, and no
\* question or ARP reply for another card than the next hop's (net_dhcp, net_poll,
\* arp_remember, route, handle_ip, handle_arp).
THEOREM LeaseAlwaysHonoured == Spec => LeaseHonoured
<1>1. NetInv => PacketOK
  <2> SUFFICES ASSUME NetInv PROVE PacketOK
    BY Zenon
  <2> QED BY Zenon, InvParts DEF OutOK, PacketOK
<1> QED BY <1>1, NetInvariant, NetInvHonours, PTL DEF LeaseHonoured

-----------------------------------------------------------------------------
(* Operations end                                                          *)

\* A sleep takes from the time of its stage.
LEMMA SleepNearer ==
    ASSUME NetInv, op.waited < LinkTime \/ op.waited < WaitTime \/ op.waited < ArpTime,
           op'.at = op.at, op'.attempt = op.attempt, op'.waited = op.waited + 1
    PROVE  Nearer(op, op')
<1>1. op.waited \in Nat
  BY Zenon, InvParts DEF OpOK
<1>2. LinkTime \in Nat /\ WaitTime \in Nat /\ ArpTime \in Nat
  BY Zenon, NetAssumption
<1>3. op.waited + 1 \in op.waited + 1 .. LinkTime + WaitTime + ArpTime
  BY <1>1, <1>2
<1> QED BY Zenon, <1>3 DEF Nearer

\* So does a frame from its poll.
LEMMA FrameNearer ==
    ASSUME NetInv, MoreFrames, op' = [op EXCEPT !.frames = @ + 1]
    PROVE  Nearer(op, op')
<1>1. /\ op'.at = op.at /\ op'.attempt = op.attempt /\ op'.waited = op.waited
      /\ op'.frames = op.frames + 1
  BY InvParts DEF OpFields
<1>2. op.frames + 1 \in op.frames + 1 .. PollFrames
  BY InvParts, NetAssumption DEF OpOK, MoreFrames
<1> QED BY <1>1, <1>2 DEF Nearer

\* A new attempt, which there are only so many of.
LEMMA AttemptNearer ==
    ASSUME NetInv, op.attempt + 1 < DhcpAttempts \/ op.attempt + 1 < ArpAttempts,
           op'.attempt = op.attempt + 1
    PROVE  Nearer(op, op')
<1>1. op.attempt \in Nat
  BY Zenon, InvParts DEF OpOK
<1>2. DhcpAttempts \in Nat /\ ArpAttempts \in Nat
  BY NetAssumption
<1>3. op.attempt + 1 \in op.attempt + 1 .. DhcpAttempts + ArpAttempts
  BY <1>1, <1>2
<1> QED BY Zenon, <1>3 DEF Nearer

\* An operation that returns is over.
LEMMA FinishIdle ==
    ASSUME NetInv, NEW s, NEW ok, Finish(s, ok)
    PROVE  op'.at = "idle"
<1>1. op' = [op EXCEPT !.at = "idle", !.kind = "none", !.attempt = 0, !.waited = 0,
                       !.frames = 0, !.dest = None, !.request = NoRequest]
  BY Zenon DEF Finish
<1> QED BY <1>1, InvParts DEF OpFields

\* AttemptFails starts a later attempt or returns.
LEMMA AttemptFailsNearer ==
    ASSUME NetInv, AttemptFails
    PROVE  op'.at = "idle" \/ Nearer(op, op')
<1>1. CASE op.attempt + 1 < DhcpAttempts
  <2> DEFINE o == Waiting(op, "discover")
  <2>1. op' = [o EXCEPT !.attempt = @ + 1]
    BY Zenon, <1>1 DEF AttemptFails
  <2>2. DOMAIN o = OpFields /\ o.attempt = op.attempt
    BY WaitingFacts DEF Places
  <2> HIDE DEF o
  <2>3. op'.attempt = op.attempt + 1
    BY <2>1, <2>2 DEF OpFields
  <2> QED BY <1>1, <2>3, AttemptNearer
<1>2. CASE ~(op.attempt + 1 < DhcpAttempts)
  <2>1. Finish(stack, FALSE)
    BY Zenon, <1>2 DEF AttemptFails
  <2> QED BY Zenon, <2>1, FinishIdle
<1> QED BY <1>1, <1>2

\* A later stage of the same attempt.
LEMMA StageNearer ==
    ASSUME NetInv, op'.attempt = op.attempt,
           \/ op.at = "link" /\ op'.at = "discover"
           \/ op.at = "discover" /\ op'.at = "offer"
           \/ op.at = "offer" /\ op'.at = "ack"
           \/ op.at = "route" /\ op'.at = "arp"
           \/ op.at \in {"route", "arp"} /\ op'.at \in {"echo", "udp"}
    PROVE  Nearer(op, op')
BY DEF Nearer, Stage

\* Asking goes on to the stage that waits for the answer.
LEMMA AskingNearer ==
    ASSUME NetInv, NEW at \in Places, NEW n, op' = [Waiting(op, at) EXCEPT !.request = n]
    PROVE  op'.at = at /\ op'.attempt = op.attempt
<1> DEFINE o == Waiting(op, at)
<1>1. DOMAIN o = OpFields /\ o.at = at /\ o.attempt = op.attempt
  BY WaitingFacts
<1> HIDE DEF o
<1>2. op' = [o EXCEPT !.request = n]
  BY Zenon DEF o
<1> QED BY <1>1, <1>2 DEF OpFields

\* Every step of an operation returns, or uses up some of what it has.
LEMMA StepNearer ==
    ASSUME NetInv, Next, op.at # "idle"
    PROVE  op'.at = "idle" \/ Nearer(op, op')
<1>0. DOMAIN op = OpFields
  BY InvParts
<1>1. CASE HearAnswer \/ HearArp \/ HearPing
  <2>1. MoreFrames /\ op' = [op EXCEPT !.frames = @ + 1]
    BY Zenon, <1>1 DEF HearAnswer, HearArp, HearPing
  <2> QED BY <2>1, FrameNearer
<1>2. CASE StatusDone
  <2>1. op' = Waiting(op, "idle")
    BY Zenon, <1>2 DEF StatusDone
  <2> QED BY <2>1, WaitingFacts DEF Places
<1>3. CASE LinkUp
  <2>1. op.at = "link" /\ op' = [op EXCEPT !.at = "discover"]
    BY Zenon, <1>3 DEF LinkUp
  <2>2. op'.at = "discover" /\ op'.attempt = op.attempt
    BY <1>0, <2>1 DEF OpFields
  <2> QED BY <2>1, <2>2, StageNearer
<1>4. CASE LinkDown
  <2>1. op.waited < LinkTime /\ op' = [op EXCEPT !.waited = @ + 1]
    BY Zenon, <1>4 DEF LinkDown
  <2>2. op'.at = op.at /\ op'.attempt = op.attempt /\ op'.waited = op.waited + 1
    BY <1>0, <2>1 DEF OpFields
  <2> QED BY <2>1, <2>2, SleepNearer
<1>5. CASE DhcpWaits \/ NeighbourWaits \/ AnswerWaits
  <2>1. /\ op.waited < WaitTime \/ op.waited < ArpTime
        /\ op' = [op EXCEPT !.waited = @ + 1, !.frames = 0]
    BY Zenon, <1>5 DEF DhcpWaits, NeighbourWaits, AnswerWaits, SleepAndPoll
  <2>2. op'.at = op.at /\ op'.attempt = op.attempt /\ op'.waited = op.waited + 1
    BY <1>0, <2>1 DEF OpFields
  <2> QED BY <2>1, <2>2, SleepNearer
<1>6. CASE Discover
  <2>1. op.at = "discover" /\ op' = [Waiting(op, "offer") EXCEPT !.request = Number]
    BY Zenon, <1>6 DEF Discover
  <2>2. op'.at = "offer" /\ op'.attempt = op.attempt
    BY <2>1, AskingNearer DEF Places
  <2> QED BY <2>1, <2>2, StageNearer
<1>7. CASE Request
  <2>1. op.at = "offer" /\ op' = [Waiting(op, "ack") EXCEPT !.request = Number]
    BY Zenon, <1>7 DEF Request
  <2>2. op'.at = "ack" /\ op'.attempt = op.attempt
    BY <2>1, AskingNearer DEF Places
  <2> QED BY <2>1, <2>2, StageNearer
<1>8. CASE Ask
  <2> DEFINE at == IF op.kind = "ping" THEN "echo" ELSE "udp"
  <2>1. at \in {"echo", "udp"} /\ at \in Places
    BY DEF Places
  <2>2. op.at \in {"route", "arp"} /\ op' = [Waiting(op, at) EXCEPT !.request = Number]
    BY Zenon, <1>8 DEF Ask, RouteFound
  <2> HIDE DEF at
  <2>3. op'.at = at /\ op'.attempt = op.attempt
    BY <2>1, <2>2, AskingNearer
  <2> QED BY <2>1, <2>2, <2>3, StageNearer
<1>9. CASE AskNeighbour
  <2>1. op.at = "route" /\ op' = Waiting(op, "arp")
    BY Zenon, <1>9 DEF AskNeighbour
  <2>2. op'.at = "arp" /\ op'.attempt = op.attempt
    BY Zenon, <2>1, WaitingFacts DEF Places
  <2> QED BY Zenon, <2>1, <2>2, StageNearer
<1>10. CASE NeighbourAgain
  <2> DEFINE o == Waiting(op, "arp")
  <2>1. op.attempt + 1 < ArpAttempts /\ op' = [o EXCEPT !.attempt = @ + 1]
    BY Zenon, <1>10 DEF NeighbourAgain
  <2>2. DOMAIN o = OpFields /\ o.attempt = op.attempt
    BY Zenon, WaitingFacts DEF Places
  <2> HIDE DEF o
  <2>3. op'.attempt = op.attempt + 1
    BY <2>1, <2>2 DEF OpFields
  <2> QED BY <2>1, <2>3, AttemptNearer
<1>11. CASE DiscoverLost \/ RequestLost \/ DhcpGivesUp
  <2>1. AttemptFails
    BY Zenon, <1>11 DEF DiscoverLost, RequestLost, DhcpGivesUp
  <2> QED BY <2>1, AttemptFailsNearer
<1>12. CASE \/ NoLink \/ Bound \/ NoRoute \/ AskLost \/ NoNeighbour
            \/ ExchangeEnds \/ ExchangeGivesUp
  <2>1. \E s, ok : Finish(s, ok)
    BY Zenon, <1>12 DEF NoLink, Bound, NoRoute, AskLost, NoNeighbour, ExchangeEnds,
                        ExchangeGivesUp
  <2> QED BY Zenon, <2>1, FinishIdle
<1>13. CASE \/ Rest \/ StatusPoll \/ net_dhcp
            \/ \E kind \in {"ping", "udp", "dns"}, dest \in Host : StartExchange(kind, dest)
  BY Zenon, <1>13 DEF Rest, StatusPoll, net_dhcp, StartExchange
<1> QED BY Zenon, <1>1, <1>2, <1>3, <1>4, <1>5, <1>6, <1>7, <1>8, <1>9, <1>10, <1>11,
                  <1>12, <1>13 DEF Next, Continue

\* No wait, retry or poll of the stack starts over for ever: each step of an
\* operation returns to its caller or takes from a budget that nothing refills
\* (wait_flag, route, net_dhcp, net_poll).
THEOREM OperationsAlwaysEnd == Spec => OperationEnds
<1> DEFINE Step == op.at # "idle" => op'.at = "idle" \/ Nearer(op, op')
<1>1. NetInv /\ [Next]_vars => [Step]_vars
  BY StepNearer
<1> QED BY <1>1, NetInvariant, PTL DEF Spec, OperationEnds

=============================================================================
