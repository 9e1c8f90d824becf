------------------------------- MODULE MemCmd -------------------------------
(***************************************************************************)
(* update_sub_cmd_read_write (update.cpp): "write" copies a range of a     *)
(* file to device memory and "cwr" does so in control transfers of 64      *)
(* bytes; "dump" and "read" copy a range of device memory to a file or to  *)
(* the terminal.  Each works chunk by chunk; the chunks of write, dump and *)
(* read are calls of LargeMem.                                             *)
(***************************************************************************)
EXTENDS LargeMem, Sequences

CONSTANTS FileLen,    \* the length of the file to be written
          CtrlMax,    \* 0x40, the chunk of cwr
          SmallMax,   \* 0x200, the largest chunk of read
          Word        \* 2^32, unsigned int wraps here

ASSUME MemCmdAssumption ==
    /\ FileLen \in Nat /\ CtrlMax \in Nat \ {0} /\ SmallMax \in Nat \ {0}
    /\ Word \in Nat /\ FileLen + 1 < Word /\ MemSize < Word

\* The chunk sizes of the two functions are no longer than the buffer they share
\* (update.cpp: 0x10000, 0x1000, 0x200 and 0x40 bytes of 0x10000).
ASSUME ChunkAssumption ==
    /\ TotalMax <= CallMax /\ BulkMax <= TotalMax
    /\ SmallMax <= CallMax /\ CtrlMax <= CallMax

VARIABLES
    cmd,            \* "write", "cwr", "dump", "read", or burn's; "none" before
    file,           \* the bytes of the file to be written
    out,            \* the bytes of the dump file
    dumpStream,     \* the dump file is open
    args,           \* what the user asked for: addr, size, skip
    cpc,            \* "start", "chunk", "driver" or "exit", and burn's "frame"
    transferSize,   \* bytes still to be transferred
    address,        \* rom.address of the next chunk
    fpos,           \* the position of the file
    nBytes,         \* bytes written so far
    bulkSize,       \* the chunk under way
    cret            \* what the command returns, 1 before

cmdvars == <<cmd, file, out, dumpStream, args, cpc, transferSize, address, fpos,
             nBytes, bulkSize, cret>>
allvars == <<vars, cmdvars>>

CmdInit ==
    /\ Init
    /\ file \in [0 .. FileLen - 1 -> Byte]
    /\ cmd = "none" /\ out = <<>> /\ dumpStream = FALSE
    /\ args = [addr |-> 0, size |-> 0, skip |-> 0]
    /\ cpc = "start"
    /\ transferSize = 0 /\ address = 0 /\ fpos = 0 /\ nBytes = 0 /\ bulkSize = 0
    /\ cret = 1

Exit(code) ==
    /\ cret' = code
    /\ cpc' = "exit"

-----------------------------------------------------------------------------
\* The bytes a write transfers: the size given, or the rest of the file, whose
\* length is ftell - skip in unsigned arithmetic.
WriteSizeSigned(a) == IF a.size # 0 THEN a.size ELSE FileLen - a.skip

WriteSize(a) == IF a.size # 0 THEN a.size ELSE (FileLen - a.skip) % Word

StartWrite(c, a) ==
    /\ cpc = "start"
    /\ c \in {"write", "cwr"}
    /\ cmd' = c
    /\ args' = a
    /\ transferSize' = WriteSize(a)
    /\ address' = a.addr
    /\ fpos' = a.skip
    /\ nBytes' = 0
    /\ cpc' = "chunk"
    /\ UNCHANGED <<vars, file, out, dumpStream, bulkSize, cret>>

\* -689
OpenFail(c) ==
    /\ cpc = "start"
    /\ c \in {"write", "cwr"}
    /\ cmd' = c
    /\ Exit(-689)
    /\ UNCHANGED <<vars, file, out, dumpStream, args, transferSize, address, fpos, nBytes,
                   bulkSize>>

\* The dump file is optional, and one that cannot be opened counts as not given.
StartDump(c, a, opened) ==
    /\ cpc = "start"
    /\ c \in {"dump", "read"}
    /\ cmd' = c
    /\ args' = a
    /\ dumpStream' = opened
    /\ transferSize' = a.size
    /\ address' = a.addr
    /\ cpc' = "chunk"
    /\ UNCHANGED <<vars, file, out, fpos, nBytes, bulkSize, cret>>

-----------------------------------------------------------------------------
\* fread returns n bytes of the file, as many as there are unless it fails.
Readable == IF fpos >= FileLen THEN 0 ELSE FileLen - fpos

WriteChunk == aml_min(transferSize, IF cmd = "cwr" THEN CtrlMax ELSE TotalMax)

Buffer(n) == [k \in Index |-> IF k < n THEN file[fpos + k] ELSE buffer[k]]

\* -734: the file ends early, or reading it fails.
ReadFileFailIgnored ==
    /\ cpc = "chunk" /\ cmd \in {"write", "cwr"} /\ transferSize # 0
    /\ UNCHANGED allvars

ReadFileFail ==
    /\ cpc = "chunk" /\ cmd \in {"write", "cwr"} /\ transferSize # 0
    /\ Exit(-734)
    /\ UNCHANGED <<vars, cmd, file, out, dumpStream, args, transferSize, address, fpos,
                   nBytes, bulkSize>>

NextWrite ==
    /\ cpc = "chunk" /\ cmd = "write" /\ transferSize # 0
    /\ WriteChunk <= Readable
    /\ bulkSize' = WriteChunk
    /\ AmlUsbWriteLargeMem([dir |-> "write", address |-> address, len |-> WriteChunk],
                           Buffer(WriteChunk))
    /\ fpos' = fpos + WriteChunk
    /\ cpc' = "driver"
    /\ UNCHANGED <<cmd, file, out, dumpStream, args, transferSize, address, nBytes, cret>>

\* The bookkeeping after a chunk is written.
AdvanceInPlace(n) ==
    /\ transferSize' = transferSize - n
    /\ nBytes' = nBytes + n
    /\ UNCHANGED address

Advance(n) ==
    /\ transferSize' = transferSize - n
    /\ address' = address + n
    /\ nBytes' = nBytes + n

NextWriteUnchecked ==
    /\ cpc = "driver" /\ cmd = "write" /\ pc = "done"
    /\ Advance(bulkSize) /\ cpc' = "chunk" /\ UNCHANGED cret
    /\ UNCHANGED <<vars, cmd, file, out, dumpStream, args, fpos, bulkSize>>

Written ==
    /\ cpc = "driver" /\ cmd = "write" /\ pc = "done"
    /\ IF ret = 0
       THEN Advance(bulkSize) /\ cpc' = "chunk" /\ UNCHANGED cret
       ELSE Exit(-735) /\ UNCHANGED <<transferSize, address, nBytes>>
    /\ UNCHANGED <<vars, cmd, file, out, dumpStream, args, fpos, bulkSize>>

\* AmlUsbCtrlWr: one control transfer stores the chunk...
CtrlWrite(n) ==
    /\ buffer' = Buffer(n)
    /\ mem' = [a \in Addr |-> IF a \in address .. address + n - 1
                              THEN file[fpos + (a - address)] ELSE mem[a]]
    /\ UNCHANGED <<dev, rom, pc, i, offset, remain, sizeTo, retry, seqNum, ret>>

CwrOk ==
    /\ cpc = "chunk" /\ cmd = "cwr" /\ transferSize # 0
    /\ WriteChunk <= Readable
    /\ CtrlWrite(WriteChunk)
    /\ Advance(WriteChunk)
    /\ fpos' = fpos + WriteChunk
    /\ UNCHANGED <<cmd, file, out, dumpStream, args, cpc, bulkSize, cret>>

\* ... or fails, with any part of it stored.
CwrFail ==
    /\ cpc = "chunk" /\ cmd = "cwr" /\ transferSize # 0
    /\ WriteChunk <= Readable
    /\ \E n \in 0 .. WriteChunk : CtrlWrite(n)
    /\ fpos' = fpos + WriteChunk
    /\ Exit(-735)
    /\ UNCHANGED <<cmd, file, out, dumpStream, args, transferSize, address, nBytes, bulkSize>>

WriteComplete ==
    /\ cpc = "chunk" /\ cmd \in {"write", "cwr"} /\ transferSize = 0
    /\ Exit(0)
    /\ UNCHANGED <<vars, cmd, file, out, dumpStream, args, transferSize, address, fpos,
                   nBytes, bulkSize>>

-----------------------------------------------------------------------------
\* read asks for at most SmallMax bytes, dump for 0x10000 or 0x1000 when it can.
DumpChunk ==
    IF cmd = "dump" /\ transferSize >= TotalMax THEN TotalMax
    ELSE IF cmd = "dump" /\ transferSize >= BulkMax THEN BulkMax
    ELSE aml_min(transferSize, SmallMax)

NextDump ==
    /\ cpc = "chunk" /\ cmd \in {"dump", "read"} /\ transferSize # 0
    /\ bulkSize' = DumpChunk
    /\ AmlUsbReadLargeMem([dir |-> "read", address |-> address, len |-> DumpChunk])
    /\ cpc' = "driver"
    /\ UNCHANGED <<cmd, file, out, dumpStream, args, transferSize, address, fpos, nBytes, cret>>

\* -639: the dump file stays as it is.
DumpFail ==
    /\ cpc = "driver" /\ cmd \in {"dump", "read"} /\ pc = "done" /\ ret # 0
    /\ Exit(-639)
    /\ UNCHANGED <<vars, cmd, file, out, dumpStream, args, transferSize, address, fpos,
                   nBytes, bulkSize>>

\* The chunk is printed, or appended to the file.
DumpedInPlace ==
    /\ cpc = "driver" /\ cmd \in {"dump", "read"} /\ pc = "done" /\ ret = 0
    /\ out' = IF dumpStream THEN out \o [k \in 1 .. bulkSize |-> buffer[k - 1]] ELSE out
    /\ transferSize' = transferSize - offset
    /\ cpc' = "chunk"
    /\ UNCHANGED <<vars, cmd, file, dumpStream, args, address, fpos, nBytes, bulkSize, cret>>

Dumped ==
    /\ cpc = "driver" /\ cmd \in {"dump", "read"} /\ pc = "done" /\ ret = 0
    /\ out' = IF dumpStream THEN out \o [k \in 1 .. bulkSize |-> buffer[k - 1]] ELSE out
    /\ transferSize' = transferSize - offset
    /\ address' = address + offset
    /\ cpc' = "chunk"
    /\ UNCHANGED <<vars, cmd, file, dumpStream, args, fpos, nBytes, bulkSize, cret>>

\* fwrite writes n bytes of the chunk only: the loop ends with ret = -648, which
\* the assignment after the loop overwrites.
ShortWrite(n) ==
    /\ cpc = "driver" /\ cmd \in {"dump", "read"} /\ pc = "done" /\ ret = 0
    /\ dumpStream /\ n < bulkSize
    /\ out' = out \o [k \in 1 .. n |-> buffer[k - 1]]
    /\ dumpStream' = FALSE
    /\ Exit(0)
    /\ UNCHANGED <<vars, cmd, file, args, transferSize, address, fpos, nBytes, bulkSize>>

DumpComplete ==
    /\ cpc = "chunk" /\ cmd \in {"dump", "read"} /\ transferSize = 0
    /\ dumpStream' = FALSE
    /\ Exit(0)
    /\ UNCHANGED <<vars, cmd, file, out, args, transferSize, address, fpos, nBytes, bulkSize>>

\* fclose, whose result is not looked at, fails to write what stdio still holds:
\* the file ends after n bytes.
CloseLoses(n) ==
    /\ cpc = "chunk" /\ cmd \in {"dump", "read"} /\ transferSize = 0
    /\ dumpStream /\ n < Len(out)
    /\ out' = SubSeq(out, 1, n)
    /\ dumpStream' = FALSE
    /\ Exit(0)
    /\ UNCHANGED <<vars, cmd, file, args, transferSize, address, fpos, nBytes, bulkSize>>

-----------------------------------------------------------------------------
\* The requests: a range of device memory, and any position in the file.
ArgSet ==
    {a \in [addr : 0 .. MemSize, size : 0 .. MemSize, skip : 0 .. FileLen + 1] :
        a.addr + a.size <= MemSize}

WriteArgs ==
    {a \in ArgSet : a.skip <= FileLen => a.addr + WriteSize(a) <= MemSize}

Command ==
    \/ ReadFileFail \/ NextWrite \/ Written \/ CwrOk \/ CwrFail \/ WriteComplete
    \/ NextDump \/ DumpFail \/ Dumped
    \/ \E n \in 0 .. TotalMax : ShortWrite(n)
    \/ DumpComplete
    \/ \E n \in 0 .. Len(out) : CloseLoses(n)

CmdNext ==
    \/ \E c \in {"write", "cwr"}, a \in WriteArgs : StartWrite(c, a)
    \/ \E c \in {"write", "cwr"} : OpenFail(c)
    \/ \E c \in {"dump", "read"}, a \in {x \in ArgSet : x.skip = 0}, o \in BOOLEAN :
          StartDump(c, a, o)
    \/ Command
    \/ Driver /\ UNCHANGED cmdvars

-----------------------------------------------------------------------------
\* The values of the variables: addresses, sizes and the file position stay in range.
CmdTypeOK ==
    /\ TypeOK
    /\ cmd \in {"none", "write", "cwr", "dump", "read", "burn"}
    /\ file \in [0 .. FileLen - 1 -> Byte]
    /\ out \in Seq(Byte)
    /\ dumpStream \in BOOLEAN
    /\ args \in ArgSet
    /\ cpc \in {"start", "chunk", "driver", "exit"} \/ (cmd = "burn" /\ cpc = "frame")
    /\ transferSize \in 0 .. Word - 1
    /\ address \in 0 .. MemSize
    /\ fpos \in 0 .. FileLen + 1
    /\ nBytes \in 0 .. MemSize
    /\ bulkSize \in 0 .. CallMax
    /\ cmd # "burn" => cret \in {1, 0, -639, -689, -734, -735}

\* A write or cwr that returns 0 has put the range of the file the user named
\* into memory, whatever was retried; a range that starts behind the end of the
\* file is refused.
WriteDelivers ==
    cpc = "exit" /\ cmd \in {"write", "cwr"} /\ cret = 0 =>
        /\ args.skip <= FileLen
        /\ \A k \in 0 .. WriteSize(args) - 1 : mem[args.addr + k] = file[args.skip + k]

\* The bytes the dump file holds are those of the range, in order, on every
\* path out of the command.
DumpIsPrefix ==
    \A k \in 1 .. Len(out) : k <= args.size /\ out[k] = mem[args.addr + k - 1]

\* A started command ends.
CommandEnds == (cpc = "chunk") ~> (cpc = "exit")

\* The message of the failed fwrite is an error: a dump to a file that returns
\* 0 is complete.
DumpZeroMeansComplete ==
    [][cpc' = "exit" /\ cpc # "exit" /\ cret' = 0 /\ dumpStream => Len(out') = args.size]_allvars

=============================================================================
