------------------------------ MODULE LargeMem ------------------------------
(***************************************************************************)
(* AmlUsbWriteLargeMem and AmlUsbReadLargeMem of UsbRomDrv.cpp: one call   *)
(* copies rom->bufferLen bytes between a host buffer and device memory.    *)
(* The call sends one command over the control endpoint and then moves the *)
(* bytes with bulk transfers.  Either kind of transfer may fail, a failed  *)
(* command may have reached the device all the same, and a bulk transfer   *)
(* may move fewer bytes than asked, none, or some before an error.  The    *)
(* two functions are one machine here: they differ in the sizes they ask   *)
(* for and in when the sequence number advances.                           *)
(***************************************************************************)
EXTENDS Integers

CONSTANTS Byte,       \* the values of a byte
          MemSize,    \* the device memory is 0 .. MemSize - 1
          BulkMax,    \* 0x1000, the longest bulk transfer of a write
          TotalMax,   \* 0x10000, the longest total a write declares
          CallMax,    \* the longest buffer a caller passes (0x10000)
          CmdTries,   \* 4, attempts at the command
          ZeroMax,    \* 5, empty bulk transfers in a row that are tolerated
          MaxSeq      \* bound of the model: no call starts beyond this number

ASSUME SizeAssumption ==
    /\ MemSize \in Nat /\ BulkMax \in Nat \ {0} /\ TotalMax \in Nat \ {0}
    /\ CallMax \in Nat /\ CmdTries \in Nat \ {0} /\ ZeroMax \in Nat
    /\ MaxSeq \in Nat

\* update.cpp passes at most 0x10000 bytes to a call, which is TotalMax.
ASSUME CallAssumption == CallMax <= TotalMax

Dirs == {"write", "read"}
Addr == 0 .. MemSize - 1
Index == 0 .. CallMax - 1

VARIABLES
    mem,       \* device: the memory
    dev,       \* device: the transfer the last accepted command opened
    rom,       \* the request: direction, address, bufferLen
    buffer,    \* rom->buffer
    pc,        \* "idle", "command", "bulk", "end" or "done"
    i,         \* the attempt of the outer loop
    offset,    \* bytes counted as moved
    remain,    \* bytes the inner loop still wants to move
    sizeTo,    \* sizeToSend or sizeToRead: -1 until a command succeeds
    retry,     \* empty bulk transfers in a row
    seqNum,    \* the static WriteSeqNum and ReadSeqNum
    ret        \* what the last call returned

vars == <<mem, dev, rom, buffer, pc, i, offset, remain, sizeTo, retry, seqNum, ret>>

aml_min(m, n) == IF m < n THEN m ELSE n

Roms == {r \in [dir : Dirs, address : 0 .. MemSize, len : 0 .. CallMax] :
            r.address + r.len <= MemSize}

\* The device before the first command: nothing is open.
NoTransfer == [dir |-> "write", ptr |-> 0, left |-> 0, seq |-> -1, used |-> FALSE]

Init ==
    /\ mem \in [Addr -> Byte]
    /\ dev = NoTransfer
    /\ rom = [dir |-> "write", address |-> 0, len |-> 0]
    /\ buffer \in [Index -> Byte]
    /\ pc = "idle"
    /\ i = 0 /\ offset = 0 /\ remain = 0 /\ sizeTo = -1 /\ retry = 0
    /\ seqNum = [d \in Dirs |-> 0]
    /\ ret = 0

-----------------------------------------------------------------------------
\* Entry of either function: the locals, and an empty request skips the loops.
Enter(r) ==
    /\ pc \in {"idle", "done"}
    /\ \A d \in Dirs : seqNum[d] < MaxSeq
    /\ rom' = r
    /\ i' = 0 /\ offset' = 0 /\ remain' = r.len /\ sizeTo' = -1 /\ retry' = 0
    /\ pc' = IF r.len = 0 THEN "end" ELSE "command"
    /\ UNCHANGED <<mem, dev, ret>>

\* A caller fills the buffer with b and calls.
AmlUsbWriteLargeMem(r, b) ==
    /\ r.dir = "write"
    /\ Enter(r)
    /\ buffer' = b
    /\ UNCHANGED seqNum

\* A read takes a new sequence number for the whole call.
AmlUsbReadLargeMem(r) ==
    /\ r.dir = "read"
    /\ Enter(r)
    /\ seqNum' = [seqNum EXCEPT !["read"] = @ + 1]
    /\ UNCHANGED buffer

-----------------------------------------------------------------------------
\* The length of the next bulk transfer.
TransferSizeWholeBlocks ==
    IF rom.dir = "write" THEN BulkMax ELSE aml_min(remain, TotalMax)

TransferSize == IF rom.dir = "write" THEN aml_min(remain, BulkMax)
                                     ELSE aml_min(remain, TotalMax)

\* The total length the command declares: a write caps it, a read does not.
TotalSizeOfBlock == TransferSize

TotalSize == IF rom.dir = "write" THEN aml_min(remain, TotalMax) ELSE rom.len

\* The device accepts a command: it forgets any earlier transfer.
Accept == dev' = [dir |-> rom.dir, ptr |-> rom.address, left |-> TotalSize,
                  seq |-> seqNum[rom.dir], used |-> FALSE]

CommandOk ==
    /\ pc = "command"
    /\ Accept
    /\ sizeTo' = IF rom.dir = "write" THEN TotalSize ELSE TransferSize
    /\ pc' = "bulk"
    /\ UNCHANGED <<mem, buffer, rom, i, offset, remain, retry, seqNum, ret>>

\* The command fails, before or after the device has seen it: break out of the
\* inner loop, and start over until the attempts are used up.
CommandFailForever ==
    /\ pc = "command"
    /\ Accept \/ UNCHANGED dev
    /\ i' = (i + 1) % CmdTries
    /\ remain' = rom.len
    /\ UNCHANGED <<mem, buffer, rom, pc, offset, sizeTo, retry, seqNum, ret>>

CommandFail ==
    /\ pc = "command"
    /\ Accept \/ UNCHANGED dev
    /\ i' = i + 1
    /\ remain' = rom.len
    /\ pc' = IF i + 1 < CmdTries THEN "command" ELSE "end"
    /\ UNCHANGED <<mem, buffer, rom, offset, sizeTo, retry, seqNum, ret>>

-----------------------------------------------------------------------------
\* d bytes pass the bulk endpoint: a write takes them from the buffer at offset
\* and the device stores them where its transfer stands, a read the other way.
Move(d) ==
    /\ mem' = IF rom.dir = "write"
              THEN [a \in Addr |-> IF a \in dev.ptr .. dev.ptr + d - 1
                                   THEN buffer[offset + (a - dev.ptr)] ELSE mem[a]]
              ELSE mem
    /\ buffer' = IF rom.dir = "read"
                 THEN [k \in Index |-> IF k \in offset .. offset + d - 1
                                       THEN mem[dev.ptr + (k - offset)] ELSE buffer[k]]
                 ELSE buffer
    /\ dev' = [dir |-> dev.dir, ptr |-> dev.ptr + d, left |-> dev.left - d,
               seq |-> dev.seq, used |-> TRUE]

\* A write counts every bulk transfer it attempts.
CountBulkNever == UNCHANGED seqNum

CountBulk ==
    seqNum' = IF rom.dir = "write" THEN [seqNum EXCEPT !["write"] = @ + 1] ELSE seqNum

\* The transfer fails: -1, whatever the device has already moved.
BulkErrorRetried(d) ==
    /\ pc = "bulk"
    /\ Move(d)
    /\ CountBulk
    /\ retry' = 0
    /\ i' = i + 1
    /\ remain' = rom.len
    /\ pc' = IF i + 1 < CmdTries THEN "bulk" ELSE "end"
    /\ UNCHANGED <<rom, offset, sizeTo, ret>>

BulkError(d) ==
    /\ pc = "bulk"
    /\ Move(d)
    /\ CountBulk
    /\ retry' = 0
    /\ pc' = "end"
    /\ UNCHANGED <<rom, i, offset, remain, sizeTo, ret>>

\* The transfer succeeds without moving anything: tolerated ZeroMax times in a row.
BulkEmptyOnceMore ==
    /\ pc = "bulk"
    /\ Move(0)
    /\ CountBulk
    /\ retry' = retry + 1
    /\ pc' = IF retry > ZeroMax THEN "end" ELSE "bulk"
    /\ UNCHANGED <<rom, i, offset, remain, sizeTo, ret>>

BulkEmpty ==
    /\ pc = "bulk"
    /\ Move(0)
    /\ CountBulk
    /\ retry' = retry + 1
    /\ pc' = IF retry + 1 > ZeroMax THEN "end" ELSE "bulk"
    /\ UNCHANGED <<rom, i, offset, remain, sizeTo, ret>>

\* The transfer moves d bytes, perhaps fewer than asked (a timeout with some
\* data is a short success, usb_bulk_io).
BulkMoveWhole(d) ==
    /\ pc = "bulk"
    /\ Move(d)
    /\ CountBulk
    /\ retry' = 0
    /\ offset' = offset + TransferSize
    /\ remain' = remain - TransferSize
    /\ pc' = IF remain' = 0 THEN "end" ELSE "bulk"
    /\ UNCHANGED <<rom, i, sizeTo, ret>>

BulkMove(d) ==
    /\ pc = "bulk"
    /\ Move(d)
    /\ CountBulk
    /\ retry' = 0
    /\ offset' = offset + d
    /\ remain' = remain - d
    /\ pc' = IF remain' = 0 THEN "end" ELSE "bulk"
    /\ UNCHANGED <<rom, i, sizeTo, ret>>

\* The end label: close the device, report offset, compare it with bufferLen.
\* The locals go out of scope.
FinishUnchecked ==
    /\ pc = "end"
    /\ ret' = IF sizeTo # -1 \/ rom.len = 0 THEN 0 ELSE -6
    /\ pc' = "done"
    /\ i' = 0 /\ remain' = 0 /\ sizeTo' = -1 /\ retry' = 0
    /\ UNCHANGED <<mem, dev, rom, buffer, offset, seqNum>>

Finish ==
    /\ pc = "end"
    /\ ret' = IF rom.len = offset THEN 0 ELSE -6
    /\ pc' = "done"
    /\ i' = 0 /\ remain' = 0 /\ sizeTo' = -1 /\ retry' = 0
    /\ UNCHANGED <<mem, dev, rom, buffer, offset, seqNum>>

-----------------------------------------------------------------------------
\* One step of a call that is under way.
Driver ==
    \/ CommandOk
    \/ CommandFail
    \/ \E d \in 0 .. TransferSize : BulkError(d)
    \/ BulkEmpty
    \/ \E d \in 1 .. TransferSize : BulkMove(d)
    \/ Finish

Next ==
    \/ \E r \in Roms, b \in [Index -> Byte] : AmlUsbWriteLargeMem(r, b)
    \/ \E r \in Roms : AmlUsbReadLargeMem(r)
    \/ Driver

Spec == Init /\ [][Next]_vars

\* Every libusb transfer has a timeout (30 s, 50 s), so a call keeps going.
FairSpec == Spec /\ WF_vars(Driver)

-----------------------------------------------------------------------------
\* The values of the variables: i, offset, remain and retry stay in their ranges.
TypeOK ==
    /\ mem \in [Addr -> Byte]
    /\ dev \in [dir : Dirs, ptr : Nat, left : Int, seq : Int, used : BOOLEAN]
    /\ rom \in Roms
    /\ buffer \in [Index -> Byte]
    /\ pc \in {"idle", "command", "bulk", "end", "done"}
    /\ i \in 0 .. CmdTries
    /\ offset \in 0 .. CallMax
    /\ remain \in 0 .. CallMax
    /\ sizeTo \in {-1} \cup 1 .. CallMax
    /\ retry \in 0 .. ZeroMax + 1
    /\ seqNum \in [Dirs -> Nat]
    /\ ret \in {0, -6}

\* The n bytes at the start of the request are the same on both sides.
SameUpTo(n) == \A k \in 0 .. n - 1 : buffer[k] = mem[rom.address + k]

\* Every byte the call counts (*rom->pDataSize) is in its place, after any mix
\* of repeated commands and short, empty and failed transfers: in particular
\* the outer loop, which resets remain and not offset, never starts over once
\* bytes have moved.  A call that returns 0 has counted them all.
CountedBytesInPlace ==
    /\ SameUpTo(offset)
    /\ pc = "done" /\ ret = 0 => offset = rom.len

\* A bulk transfer never exceeds what is left of the length its command
\* declared, and device and host agree on the next byte.
WithinDeclared ==
    pc = "bulk" => /\ TransferSize <= dev.left
                   /\ dev.ptr = rom.address + offset
                   /\ dev.dir = rom.dir

\* No step touches a byte outside the requested range, on either side, and a
\* read never changes device memory, nor a write the host buffer.
OutsideUntouched ==
    [][pc \notin {"idle", "done"} =>
        /\ \A a \in Addr : mem'[a] # mem[a] =>
              rom.dir = "write" /\ a \in rom.address .. rom.address + rom.len - 1
        /\ \A k \in Index : buffer'[k] # buffer[k] =>
              rom.dir = "read" /\ k < rom.len]_vars

\* A command never carries the sequence number of the previous transfer of its
\* direction that bulk data was attempted on: only a repetition of a command
\* that came to nothing looks the same to the device.
FreshSequenceNumber ==
    [][(dev'.seq = dev.seq /\ dev'.dir = dev.dir /\ dev.used) => dev'.used]_vars

\* Every call returns: four commands, and six empty transfers between two that
\* move a byte, are the most it makes.
CallReturns == (pc = "command") ~> (pc = "done")

\* The promise to the caller.
Abstract == INSTANCE Transfer WITH
    job <- rom,
    moved <- offset,
    phase <- CASE pc \in {"command", "bulk"} -> "busy"
               [] pc = "end" -> IF offset = rom.len THEN "busy" ELSE "failing"
               [] OTHER -> pc

\* A call implements Transfer.
ImplementsTransfer == Abstract!Spec

=============================================================================
