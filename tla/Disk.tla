-------------------------------- MODULE Disk --------------------------------
(***************************************************************************)
(* Reads and writes of bytes on a disk: BlockDevice::read and write cut a  *)
(* range of bytes into sectors (core/block_device.cc), and ATADevice moves *)
(* a sector by polling the drive (arch/x86/ata.cc).  The poll loops give   *)
(* up after 100000 turns; the drive knows nothing of that and goes on with *)
(* the command, so that its answer may come while the next request waits.  *)
(*                                                                         *)
(* The drive is external: it is busy from the moment a command is written  *)
(* until it is ready for data, has stored them or has failed; a command to *)
(* a busy drive is ignored, and one to a drive that waits for a transfer   *)
(* ends that transfer.  There is one request at a time, since nothing in   *)
(* the driver gives up the processor.  A position is a u32, so that an LBA *)
(* stays below 2^23 and the four bits that select_drive sends are zero.    *)
(***************************************************************************)
EXTENDS Integers, Sequences, FiniteSetsExt

CONSTANTS Sectors,      \* the number of sectors of the drive
          SECTOR_SIZE,  \* 512
          Ranges,       \* the ranges of bytes that are requested, <<pos, size>>
          Payload,      \* the bytes that are written, from the start of the range
          Blank         \* the byte that the drive holds at first

Bytes == {Blank} \cup {Payload[i] : i \in DOMAIN Payload}
Addresses == 0 .. (Sectors * SECTOR_SIZE) - 1
Sector == [0 .. SECTOR_SIZE - 1 -> Bytes]

ASSUME DiskAssumption ==
  /\ Sectors \in Nat \ {0} /\ SECTOR_SIZE \in Nat \ {0} /\ Payload \in Seq(Bytes)
  /\ \A r \in Ranges : r[1] \in Nat /\ r[2] \in 1 .. Len(Payload)

VARIABLES disk,     \* the bytes on the drive
          drive,    \* what the drive is doing
          req,      \* the request, or the last one
          pc,       \* where ATADevice polls
          piece,    \* which sector of the request it has come to
          xfer,     \* read_blocks or write_blocks
          temp,     \* temp_block
          buffer,   \* the bytes that a read has delivered
          allowed   \* history: what a byte may be, given the requests so far

vars == <<disk, drive, req, pc, piece, xfer, temp, buffer, allowed>>

Commands == {"read", "write", "store", "flush"}

TypeOK ==
  /\ disk \in [Addresses -> Bytes] /\ allowed \in [Addresses -> SUBSET Bytes]
  /\ drive \in [st : {"idle", "busy", "drq", "err"}, cmd : Commands, lba : Nat, buf : Sector]
  /\ req \in [op : {"read", "write"}, pos : Nat, size : Nat, ok : BOOLEAN]
  /\ pc \in {"idle", "select", "data", "finish"} /\ xfer \in {"read", "write"}
  /\ piece \in Nat /\ temp \in Sector
  /\ buffer \in Seq(Bytes) /\ Len(buffer) <= req.size

-------------------------------------------------------------------------------
(* How a range is cut: the k-th sector of request r, the bytes before it,  *)
(* and where in the sector it starts and how far it goes.                  *)

Lba(r, k) == (r.pos \div SECTOR_SIZE) + k
From(r, k) == IF k = 0 THEN r.pos % SECTOR_SIZE ELSE 0
Before(r, k) == IF k = 0 THEN 0 ELSE (k * SECTOR_SIZE) - (r.pos % SECTOR_SIZE)

\* Mutant: the chunk is not cut off at the end of the range.
ChunkWhole(r, k) == SECTOR_SIZE - From(r, k)

Chunk(r, k) == Min({SECTOR_SIZE - From(r, k), r.size - Before(r, k)})
Partial(r, k) == From(r, k) # 0 \/ Chunk(r, k) # SECTOR_SIZE
IsLast(r, k) == Before(r, k) + Chunk(r, k) = r.size

\* Mutant: a sector that is written from its start is not read first.
FirstTransferHead(r, k) == IF r.op = "read" \/ From(r, k) # 0 THEN "read" ELSE "write"

\* A sector that is written in part is read first.
FirstTransfer(r, k) == IF r.op = "read" \/ Partial(r, k) THEN "read" ELSE "write"

\* The sector t with the bytes of the range in place.
Spliced(t, r, k) ==
  [b \in DOMAIN t |-> IF b \in From(r, k) .. From(r, k) + Chunk(r, k) - 1
                      THEN Payload[Before(r, k) + b - From(r, k) + 1] ELSE t[b]]

Covers(r, a) == a \in r.pos .. r.pos + r.size - 1
Written(r, a) == Payload[a - r.pos + 1]

-------------------------------------------------------------------------------
Init ==
  /\ disk = [a \in Addresses |-> Blank] /\ allowed = [a \in Addresses |-> {Blank}]
  /\ temp = [b \in 0 .. SECTOR_SIZE - 1 |-> Blank] /\ buffer = <<>>
  /\ drive = [st |-> "idle", cmd |-> "flush", lba |-> 0, buf |-> temp]
  /\ req = [op |-> "read", pos |-> 0, size |-> 0, ok |-> FALSE]
  /\ pc = "idle" /\ piece = 0 /\ xfer = "read"

\* BlockDevice::read and write are called.
Submit(op, range) ==
  LET r == [op |-> op, pos |-> range[1], size |-> range[2], ok |-> FALSE]
  IN /\ pc = "idle" /\ pc' = "select"
     /\ req' = r /\ piece' = 0 /\ xfer' = FirstTransfer(r, 0) /\ buffer' = <<>>
     /\ allowed' = IF op = "read" THEN allowed
                   ELSE [a \in Addresses |-> allowed[a] \cup IF Covers(r, a) THEN {Written(r, a)} ELSE {}]
     /\ UNCHANGED <<disk, drive, temp>>

\* RETURN_FAILURE, from wherever the request has come to.
Fail == pc' = "idle" /\ UNCHANGED <<disk, drive, req, piece, xfer, temp, buffer, allowed>>

\* The next sector, or RETURN_OK.
Advance ==
  IF IsLast(req, piece)
  THEN /\ pc' = "idle" /\ req' = [req EXCEPT !.ok = TRUE]
       /\ allowed' = IF req.op = "read" THEN allowed
                     ELSE [a \in Addresses |-> IF Covers(req, a) THEN {Written(req, a)} ELSE allowed[a]]
       /\ UNCHANGED <<piece, xfer>>
  ELSE /\ pc' = "select" /\ piece' = piece + 1 /\ xfer' = FirstTransfer(req, piece + 1)
       /\ UNCHANGED <<req, allowed>>

\* A command to the drive, which ignores it while it is busy.
Command(c, l) == drive' = IF drive.st = "busy" THEN drive
                          ELSE [drive EXCEPT !.st = "busy", !.cmd = c, !.lba = l]

\* Mutant: the command is written without a look at the status.
IssueBlindly ==
  /\ pc = "select"
  /\ Command(xfer, Lba(req, piece)) /\ pc' = "data"
  /\ UNCHANGED <<disk, req, piece, xfer, temp, buffer, allowed>>

\* select_drive, wait_busy, and the command.
Issue ==
  /\ pc = "select" /\ drive.st # "busy"
  /\ Command(xfer, Lba(req, piece)) /\ pc' = "data"
  /\ UNCHANGED <<disk, req, piece, xfer, temp, buffer, allowed>>

\* wait_busy gives up.
BusyTimeout == pc \in {"select", "finish"} /\ drive.st = "busy" /\ Fail

\* wait_data_ready, and the sector from the drive: to the caller, or to temp_block
\* for the bytes that a write leaves alone.
ReadSector ==
  /\ pc = "data" /\ xfer = "read" /\ drive.st = "drq"
  /\ drive' = [drive EXCEPT !.st = "idle"]
  /\ IF req.op = "read"
     THEN /\ buffer' = buffer \o [i \in 1 .. Chunk(req, piece) |-> drive.buf[From(req, piece) + i - 1]]
          /\ Advance /\ UNCHANGED <<disk, temp>>
     ELSE /\ temp' = drive.buf /\ xfer' = "write" /\ pc' = "select"
          /\ UNCHANGED <<disk, req, piece, buffer, allowed>>

\* wait_data_ready, and the sector to the drive.
WriteSector ==
  /\ pc = "data" /\ xfer = "write" /\ drive.st = "drq"
  /\ drive' = [drive EXCEPT !.st = "busy", !.cmd = "store", !.buf = Spliced(temp, req, piece)]
  /\ pc' = "finish" /\ UNCHANGED <<disk, req, piece, xfer, temp, buffer, allowed>>

\* Mutant: wait_data_ready only looks for errors.
NoDataError == pc = "data" /\ drive.st = "err" /\ Fail

\* wait_data_ready sees an error, or gives up.
NoData == pc = "data" /\ drive.st # "drq" /\ Fail

\* The sector is stored: flush the cache, whatever comes of it, and go on.
Stored ==
  /\ pc = "finish" /\ drive.st \notin {"busy", "err"}
  /\ Command("flush", drive.lba) /\ Advance
  /\ UNCHANGED <<disk, temp, buffer>>

StoreFailed == pc = "finish" /\ drive.st = "err" /\ Fail

-------------------------------------------------------------------------------
(* The drive.                                                              *)

DriveReady ==
  /\ drive.st = "busy" /\ drive.cmd \in {"read", "write"} /\ drive.lba < Sectors
  /\ drive' = [drive EXCEPT !.st = "drq",
       !.buf = IF drive.cmd = "read" THEN [b \in DOMAIN @ |-> disk[(drive.lba * SECTOR_SIZE) + b]] ELSE @]
  /\ UNCHANGED <<disk, req, pc, piece, xfer, temp, buffer, allowed>>

DriveStores ==
  /\ drive.st = "busy" /\ drive.cmd \in {"store", "flush"}
  /\ drive' = [drive EXCEPT !.st = "idle"]
  /\ disk' = IF drive.cmd = "flush" THEN disk
             ELSE [a \in Addresses |-> IF a \div SECTOR_SIZE = drive.lba
                                       THEN drive.buf[a % SECTOR_SIZE] ELSE disk[a]]
  /\ UNCHANGED <<req, pc, piece, xfer, temp, buffer, allowed>>

DriveFails ==
  /\ drive.st = "busy" /\ drive' = [drive EXCEPT !.st = "err"]
  /\ UNCHANGED <<disk, req, pc, piece, xfer, temp, buffer, allowed>>

Drive == DriveReady \/ DriveStores \/ DriveFails
Driver == Issue \/ BusyTimeout \/ ReadSector \/ WriteSector \/ NoData \/ Stored \/ StoreFailed
Next == (\E op \in {"read", "write"}, r \in Ranges : Submit(op, r)) \/ Driver \/ Drive

\* The poll loops are bounded, so that the driver goes on; the drive need not.
Spec == Init /\ [][Next]_vars /\ WF_vars(Driver)

-------------------------------------------------------------------------------
(* Properties.                                                             *)

\* Every byte on the drive is what the last successful write put there, or what a
\* write that failed after it would have: no write disturbs its neighbours in a
\* sector, and a command that the driver has given up does no harm later.
Durable == \A a \in Addresses : disk[a] \in allowed[a]

\* A read that succeeds has delivered the bytes of its range, even if the drive
\* was still at work on an earlier request when it began.
ReadOK ==
  pc = "idle" /\ req.op = "read" /\ req.ok =>
    buffer = [i \in 1 .. req.size |-> disk[req.pos + i - 1]]

\* A request ends, even if the drive never answers.
RequestEnds == pc # "idle" ~> pc = "idle"
===============================================================================
