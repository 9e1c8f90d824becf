---------------------------- MODULE Burn_proofs ----------------------------
(***************************************************************************)
(* Proofs about the commands write, cwr, dump, read and burn (MemCmd and   *)
(* Burn) for every memory, file, request and limit.  Between a chunk and   *)
(* the next the commands run calls of LargeMem: what is proved of a call   *)
(* in LargeMem_proofs is used here and not proved again.                   *)
(***************************************************************************)
EXTENDS Burn, LargeMem_proofs, SequenceTheorems

\* Where the command stands: the driver works only between the call and its
\* return, a cwr never calls it, and nothing is returned before the end.
PhaseInv ==
    /\ cpc = "start" <=> cmd = "none"
    /\ cpc = "start" => pc = "idle" /\ nBytes = 0
    /\ cpc # "driver" => pc \in {"idle", "done"}
    /\ cpc = "driver" => pc # "idle"
    /\ cpc # "exit" => cret = 1
    /\ cmd = "cwr" => pc = "idle" /\ cpc # "driver"
    /\ cmd \notin {"dump", "read"} => out = <<>>
    /\ frames = 0

\* The n bytes of m from a on are those of f from s on.
Same(m, a, f, s, n) == \A k \in 0 .. n - 1 : m[a + k] = f[s + k]

\* The first n bytes of the range are those of the file.
FileInPlace(n) == Same(mem, args.addr, file, args.skip, n)

\* The call under way writes the next chunk of the file to the next address.
Sent ==
    /\ rom = [dir |-> "write", address |-> address, len |-> bulkSize]
    /\ bulkSize \in 1 .. transferSize
    /\ \A k \in 0 .. bulkSize - 1 : buffer[k] = file[args.skip + nBytes + k]

\* The counters of write and cwr agree with each other, with the file position and
\* with memory; a range behind the end of the file never gets to a chunk.
WriteInv ==
    cmd \in {"write", "cwr"} =>
        /\ cpc \in {"chunk", "driver"} =>
              /\ address = args.addr + nBytes
              /\ args.skip <= FileLen => /\ nBytes + transferSize = WriteSize(args)
                                         /\ args.addr + WriteSize(args) <= MemSize
              /\ args.skip > FileLen => nBytes = 0 /\ transferSize # 0 /\ cpc = "chunk"
              /\ FileInPlace(nBytes)
              /\ fpos = args.skip + nBytes + (IF cpc = "driver" THEN bulkSize ELSE 0)
        /\ cpc = "driver" => Sent
        /\ cpc = "exit" /\ cret = 0 => args.skip <= FileLen /\ FileInPlace(WriteSize(args))

\* The counters of dump and read agree with the length of the dump file.
DumpInv ==
    cmd \in {"dump", "read"} =>
        /\ cpc \in {"chunk", "driver"} =>
              /\ transferSize <= args.size
              /\ address = args.addr + (args.size - transferSize)
              /\ IF dumpStream THEN Len(out) = args.size - transferSize ELSE out = <<>>
        /\ cpc = "driver" => /\ rom = [dir |-> "read", address |-> address, len |-> bulkSize]
                             /\ bulkSize \in 1 .. transferSize

\* burn stands at its first chunk until it ends.
BurnInv ==
    cmd = "burn" =>
        /\ nBytes = 0
        /\ cpc # "exit" => /\ args.addr = Base /\ args.skip = 0 /\ args.size <= FileLen
                           /\ address = Base /\ transferSize = args.size
        /\ cpc \in {"driver", "frame"} => bulkSize = aml_min(args.size, ChunkMax) /\ Sent
        /\ cpc = "frame" \/ (cpc = "exit" /\ cret = -2) =>
              \A k \in 0 .. aml_min(args.size, ChunkMax) - 1 : mem[Base + k] = file[k]
        /\ cpc = "exit" /\ cret >= 0 => args.size = 0

\* The inductive invariant of the commands, with that of the driver.
CmdInv ==
    /\ IInv /\ CmdTypeOK
    /\ PhaseInv /\ WriteInv /\ DumpInv /\ DumpIsPrefix /\ BurnInv

-----------------------------------------------------------------------------
\* The remainder of numbers that need none, and of -1.
LEMMA Remainder ==
    /\ \A x \in 0 .. Word - 1 : x % Word = x
    /\ (-1) % Word = Word - 1
BY MemCmdAssumption

\* What a write is to transfer: for a range that starts in the file, as much as the
\* user means; for one that starts behind it never nothing (ftell - skip wraps).
LEMMA SizeToWrite ==
    ASSUME NEW a \in WriteArgs
    PROVE  /\ WriteSize(a) \in 0 .. Word - 1
           /\ a.skip <= FileLen => a.addr + WriteSize(a) <= MemSize
           /\ a.skip > FileLen => WriteSize(a) # 0
<1>1. /\ a.addr \in 0 .. MemSize /\ a.size \in 0 .. MemSize /\ a.skip \in 0 .. FileLen + 1
      /\ a.skip <= FileLen => a.addr + WriteSize(a) <= MemSize
  BY DEF WriteArgs, ArgSet
<1>2. CASE a.size # 0
  BY <1>1, <1>2, MemCmdAssumption, SizeAssumption DEF WriteSize
<1>3. CASE a.size = 0 /\ a.skip <= FileLen
  <2>1. FileLen - a.skip \in 0 .. Word - 1
    BY <1>1, <1>3, MemCmdAssumption
  <2>2. WriteSize(a) = FileLen - a.skip
    BY <1>3, <2>1, Remainder DEF WriteSize
  <2> QED  BY <1>1, <1>3, <2>1, <2>2, MemCmdAssumption
<1>4. CASE a.size = 0 /\ a.skip > FileLen
  <2>1. FileLen - a.skip = -1
    BY <1>1, <1>4, MemCmdAssumption
  <2>2. WriteSize(a) = Word - 1
    BY <1>4, <2>1, Remainder DEF WriteSize
  <2> QED  BY <1>1, <1>4, <2>2, MemCmdAssumption
<1> QED  BY <1>1, <1>2, <1>3, <1>4, MemCmdAssumption, SizeAssumption

\* A chunk is some of what is left and fits the buffer.
LEMMA Chunks ==
    ASSUME CmdTypeOK, transferSize # 0
    PROVE  /\ WriteChunk \in 1 .. transferSize /\ WriteChunk <= CallMax
           /\ DumpChunk \in 1 .. transferSize /\ DumpChunk <= CallMax
<1>1. transferSize \in Nat /\ transferSize > 0
  BY MemCmdAssumption DEF CmdTypeOK
<1>2. /\ WriteChunk \in 1 .. transferSize /\ WriteChunk <= CallMax
  BY <1>1, MemCmdAssumption, ChunkAssumption, SizeAssumption DEF WriteChunk, aml_min
<1>3. /\ DumpChunk \in 1 .. transferSize /\ DumpChunk <= CallMax
  BY <1>1, MemCmdAssumption, ChunkAssumption, SizeAssumption DEF DumpChunk, aml_min
<1> QED  BY <1>2, <1>3

\* What the driver holds is held while it rests.
LEMMA DriverRests == IInv /\ UNCHANGED vars => IInv'
BY NextInv

\* A call starts in order and goes on to do what it was asked to do.
LEMMA WriteStarts ==
    ASSUME IInv, NEW r \in Roms, NEW b \in [Index -> Byte], AmlUsbWriteLargeMem(r, b)
    PROVE  IInv' /\ mem' = mem /\ rom' = r /\ buffer' = b /\ pc' # "idle"
<1>1. IInv'
  BY NextInv DEF Next
<1> QED  BY <1>1 DEF AmlUsbWriteLargeMem, Enter

LEMMA ReadStarts ==
    ASSUME IInv, NEW r \in Roms, AmlUsbReadLargeMem(r)
    PROVE  IInv' /\ mem' = mem /\ rom' = r /\ pc' # "idle"
<1>1. IInv'
  BY NextInv DEF Next
<1> QED  BY <1>1 DEF AmlUsbReadLargeMem, Enter

\* A step of the driver belongs to the call under way: it keeps the request, and what
\* it changes is on the side the request names and in its range.
LEMMA DriverWorks ==
    ASSUME IInv, Driver
    PROVE  /\ IInv' /\ rom' = rom
           /\ pc \notin {"idle", "done"} /\ pc' # "idle"
           /\ \A a \in Addr : mem'[a] # mem[a] =>
                 rom.dir = "write" /\ a \in rom.address .. rom.address + rom.len - 1
           /\ rom.dir = "write" => buffer' = buffer
           /\ rom.dir = "read" => mem' = mem
<1>1. IInv'
  BY NextInv DEF Next
<1>2. pc \notin {"idle", "done"} /\ pc' # "idle" /\ rom' = rom
  BY DEF Driver, CommandOk, CommandFail, BulkError, BulkEmpty, BulkMove, Finish
<1>3. \/ mem' = mem /\ buffer' = buffer
      \/ \E d \in Int : Move(d)
  <2>1. \A d \in 0 .. TransferSize : d \in Int
    OBVIOUS
  <2>2. \A d \in 1 .. TransferSize : d \in Int
    OBVIOUS
  <2> QED  BY <2>1, <2>2 DEF Driver, CommandOk, CommandFail, BulkError, BulkEmpty, BulkMove, Finish
<1>4. /\ rom.dir = "write" => buffer' = buffer
      /\ rom.dir = "read" => mem' = mem
  BY <1>3 DEF Move
<1>5. \A a \in Addr : mem'[a] # mem[a] =>
         rom.dir = "write" /\ a \in rom.address .. rom.address + rom.len - 1
  BY <1>2, StepTouches DEF Next
<1> QED  BY <1>1, <1>2, <1>4, <1>5

\* The program starts with no command.
LEMMA CmdInitInv == BurnInit => CmdInv
<1> SUFFICES ASSUME BurnInit PROVE CmdInv
  OBVIOUS
<1>1. IInv
  BY InitInv DEF BurnInit, CmdInit
<1>2. args \in ArgSet
  BY SizeAssumption, MemCmdAssumption DEF BurnInit, CmdInit, ArgSet
<1>3. CmdTypeOK
  <2>1. TypeOK
    BY <1>1 DEF IInv
  <2>2. 0 \in 0 .. Word - 1 /\ 0 \in 0 .. MemSize /\ 0 \in 0 .. FileLen + 1 /\ 0 \in 0 .. CallMax
    BY SizeAssumption, MemCmdAssumption
  <2>3. out \in Seq(Byte)
    BY EmptySeq DEF BurnInit, CmdInit
  <2>4. dumpStream \in BOOLEAN
    BY DEF BurnInit, CmdInit
  <2>5. cmd = "none" /\ cpc = "start" /\ cret = 1 /\ file \in [0 .. FileLen - 1 -> Byte]
    BY DEF BurnInit, CmdInit
  <2>6. transferSize = 0 /\ address = 0 /\ fpos = 0 /\ nBytes = 0 /\ bulkSize = 0
    BY DEF BurnInit, CmdInit
  <2> QED  BY <1>2, <2>1, <2>2, <2>3, <2>4, <2>5, <2>6 DEF CmdTypeOK
<1>4. PhaseInv
  BY DEF BurnInit, CmdInit, Init, PhaseInv
<1>5. WriteInv /\ DumpInv /\ BurnInv /\ DumpIsPrefix
  BY DEF BurnInit, CmdInit, WriteInv, DumpInv, BurnInv, DumpIsPrefix
<1> QED  BY <1>1, <1>3, <1>4, <1>5 DEF CmdInv

\* A step that leaves the driver alone keeps its invariant and the memory.
LEMMA Resting == ASSUME CmdInv, UNCHANGED vars
                 PROVE  IInv' /\ TypeOK' /\ mem' = mem /\ buffer' = buffer /\ rom' = rom
                           /\ pc' = pc /\ ret' = ret /\ offset' = offset
<1>1. IInv'
  BY DriverRests DEF CmdInv
<1> QED  BY <1>1 DEF IInv, vars

\* The start of a command: write and cwr,
LEMMA StartWriteInv ==
    ASSUME CmdInv, NEW c \in {"write", "cwr"}, NEW a \in WriteArgs, StartWrite(c, a),
           UNCHANGED frames
    PROVE  CmdInv'
<1>1. IInv' /\ TypeOK' /\ pc' = pc
  BY Resting DEF StartWrite
<1>2. pc = "idle" /\ out = <<>> /\ cret = 1 /\ frames = 0
  BY DEF CmdInv, PhaseInv, StartWrite
<1>3. a \in ArgSet
  BY DEF WriteArgs
<1>4. /\ a.addr \in 0 .. MemSize /\ a.skip \in 0 .. FileLen + 1
  BY <1>3 DEF ArgSet
<1>5. /\ WriteSize(a) \in 0 .. Word - 1
      /\ a.skip <= FileLen => a.addr + WriteSize(a) <= MemSize
      /\ a.skip > FileLen => WriteSize(a) # 0
  BY SizeToWrite
<1>6. CmdTypeOK'
  BY <1>1, <1>2, <1>3, <1>4, <1>5, SizeAssumption DEF StartWrite, CmdTypeOK, CmdInv
<1>7. PhaseInv'
  BY <1>1, <1>2 DEF StartWrite, PhaseInv
<1>8. WriteInv'
  <2>1. WriteSize(args)' = WriteSize(a)
    BY DEF StartWrite, WriteSize
  <2> QED  BY <1>4, <1>5, <2>1, MemCmdAssumption DEF StartWrite, WriteInv, FileInPlace, Same
<1>9. DumpInv' /\ BurnInv' /\ DumpIsPrefix'
  BY <1>2 DEF StartWrite, DumpInv, BurnInv, DumpIsPrefix
<1> QED  BY <1>1, <1>6, <1>7, <1>8, <1>9 DEF CmdInv

\* dump and read,
LEMMA StartDumpInv ==
    ASSUME CmdInv, NEW c \in {"dump", "read"}, NEW a \in ArgSet, NEW o \in BOOLEAN,
           StartDump(c, a, o), UNCHANGED frames
    PROVE  CmdInv'
<1>1. IInv' /\ TypeOK' /\ pc' = pc
  BY Resting DEF StartDump
<1>2. pc = "idle" /\ out = <<>> /\ cret = 1 /\ nBytes = 0 /\ frames = 0
  BY DEF CmdInv, PhaseInv, StartDump
<1>3. a.addr \in 0 .. MemSize /\ a.size \in 0 .. MemSize
  BY DEF ArgSet
<1>4. CmdTypeOK'
  BY <1>1, <1>2, <1>3, SizeAssumption, MemCmdAssumption DEF StartDump, CmdTypeOK, CmdInv
<1>5. PhaseInv'
  BY <1>1, <1>2 DEF StartDump, PhaseInv
<1>6. DumpInv'
  BY <1>2, <1>3 DEF StartDump, DumpInv
<1>7. WriteInv' /\ BurnInv' /\ DumpIsPrefix'
  BY <1>2 DEF StartDump, WriteInv, BurnInv, DumpIsPrefix
<1> QED  BY <1>1, <1>4, <1>5, <1>6, <1>7 DEF CmdInv

\* and burn.
LEMMA BurnOpenInv ==
    ASSUME CmdInv, NEW n \in 0 .. FileLen, BurnOpen(n)
    PROVE  CmdInv'
<1>1. IInv' /\ TypeOK' /\ pc' = pc
  BY Resting DEF BurnOpen
<1>2. pc = "idle" /\ out = <<>> /\ cret = 1 /\ nBytes = 0 /\ frames = 0
  BY DEF CmdInv, PhaseInv, BurnOpen
<1>3. args' \in ArgSet
  BY SizeAssumption, MemCmdAssumption, BurnAssumption DEF BurnOpen, ArgSet
<1>4. CmdTypeOK'
  BY <1>1, <1>2, <1>3, SizeAssumption, MemCmdAssumption, BurnAssumption
     DEF BurnOpen, CmdTypeOK, CmdInv
<1>5. PhaseInv'
  BY <1>1, <1>2 DEF BurnOpen, PhaseInv
<1>6. WriteInv' /\ DumpInv' /\ BurnInv' /\ DumpIsPrefix'
  BY <1>2 DEF BurnOpen, WriteInv, DumpInv, BurnInv, DumpIsPrefix
<1> QED  BY <1>1, <1>4, <1>5, <1>6 DEF CmdInv

-----------------------------------------------------------------------------
\* The ends of a command that has nothing more to do with memory: a file that cannot
\* be opened or read, a failed chunk, an empty image.
LEMMA FailedEndInv ==
    ASSUME CmdInv, UNCHANGED <<vars, frames, file, out, args, transferSize, address, fpos, nBytes,
                               bulkSize>>,
           cpc' = "exit", cmd' \in {"write", "cwr", "dump", "read", "burn"},
           cmd' # cmd => cpc = "start", cpc # "driver" \/ pc = "done",
           cret' \in Int, cret' < 0, dumpStream' \in BOOLEAN,
           cmd' = "burn" => cret' # -2,
           cmd' # "burn" => cret' \in {-639, -689, -734, -735}
    PROVE  CmdInv'
<1>1. IInv' /\ TypeOK' /\ mem' = mem /\ pc' = pc
  BY Resting
<1>2. pc \in {"idle", "done"}
  BY DEF CmdInv, PhaseInv
<1>3. cmd = "none" => out = <<>> /\ nBytes = 0 /\ pc = "idle"
  BY DEF CmdInv, PhaseInv
<1>4. CmdTypeOK'
  BY <1>1 DEF CmdInv, CmdTypeOK
<1>5. PhaseInv'
  BY <1>1, <1>2, <1>3 DEF CmdInv, PhaseInv
<1>6. DumpIsPrefix'
  BY <1>1 DEF CmdInv, DumpIsPrefix
<1>7. BurnInv'
  BY <1>1, <1>3 DEF CmdInv, BurnInv, PhaseInv
<1>8. WriteInv' /\ DumpInv'
  BY DEF WriteInv, DumpInv
<1> QED  BY <1>1, <1>4, <1>5, <1>6, <1>7, <1>8 DEF CmdInv

LEMMA CommandFailsInv ==
    ASSUME CmdInv, UNCHANGED frames,
           \/ \E c \in {"write", "cwr"} : OpenFail(c)
           \/ ReadFileFail
           \/ DumpFail
    PROVE  CmdInv'
<1>1. dumpStream \in BOOLEAN
  BY DEF CmdInv, CmdTypeOK
<1>2. ASSUME NEW c \in {"write", "cwr"}, OpenFail(c)
      PROVE  CmdInv'
  BY <1>1, <1>2, FailedEndInv DEF OpenFail, Exit
<1>3. CASE ReadFileFail
  BY <1>1, <1>3, FailedEndInv DEF ReadFileFail, Exit
<1>4. CASE DumpFail
  BY <1>1, <1>4, FailedEndInv DEF DumpFail, Exit
<1> QED  BY <1>2, <1>3, <1>4

\* burn returns -25, -16, what the driver returned, or the code of the frame.
LEMMA BurnFailsInv ==
    ASSUME CmdInv, BurnOpenFail \/ BurnReadFail \/ WriteFail
    PROVE  CmdInv'
<1>1. dumpStream \in BOOLEAN /\ ret \in {0, -6}
  BY DEF CmdInv, CmdTypeOK, TypeOK
<1>2. CASE BurnOpenFail
  BY <1>1, <1>2, FailedEndInv DEF BurnOpenFail, Exit
<1>3. CASE BurnReadFail
  BY <1>1, <1>3, FailedEndInv DEF BurnReadFail, Exit
<1>4. CASE WriteFail
  BY <1>1, <1>4, FailedEndInv DEF WriteFail, Exit
<1> QED  BY <1>2, <1>3, <1>4

\* A write that has nothing left has written what it was asked for.
LEMMA WriteCompleteInv ==
    ASSUME CmdInv, WriteComplete, UNCHANGED frames
    PROVE  CmdInv'
<1>1. IInv' /\ TypeOK' /\ mem' = mem /\ pc' = pc
  BY Resting DEF WriteComplete
<1>2. cmd \in {"write", "cwr"} /\ cpc = "chunk" /\ transferSize = 0
  BY DEF WriteComplete
<1>3. CmdTypeOK'
  BY <1>1 DEF WriteComplete, Exit, CmdInv, CmdTypeOK
<1>4. PhaseInv'
  BY <1>1 DEF WriteComplete, Exit, CmdInv, PhaseInv
<1>5. WriteInv'
  <2>0. args.skip \in Int /\ FileLen \in Int
    BY MemCmdAssumption DEF CmdInv, CmdTypeOK, ArgSet
  <2>1. args.skip <= FileLen /\ FileInPlace(nBytes) /\ nBytes + transferSize = WriteSize(args)
    BY <1>2, <2>0 DEF CmdInv, WriteInv
  <2>2. nBytes \in Int
    BY DEF CmdInv, CmdTypeOK
  <2>3. nBytes = WriteSize(args)
    BY <1>2, <2>1, <2>2
  <2> QED  BY <1>1, <2>1, <2>3 DEF WriteComplete, Exit, WriteInv, FileInPlace, WriteSize
<1>6. DumpIsPrefix'
  BY <1>1 DEF WriteComplete, CmdInv, DumpIsPrefix
<1>7. DumpInv' /\ BurnInv'
  BY DEF WriteComplete, DumpInv, BurnInv
<1> QED  BY <1>1, <1>3, <1>4, <1>5, <1>6, <1>7 DEF CmdInv

\* An empty image is burned with nothing done.
LEMMA AllBurnedInv ==
    ASSUME CmdInv, AllBurned
    PROVE  CmdInv'
<1>1. IInv' /\ TypeOK' /\ mem' = mem /\ pc' = pc
  BY Resting DEF AllBurned
<1>2. cmd = "burn" /\ cpc = "chunk" /\ transferSize = 0
  BY DEF AllBurned
<1>3. nBytes = 0 /\ args.size = 0
  BY <1>2 DEF CmdInv, BurnInv
<1>4. CmdTypeOK'
  BY <1>1, <1>2 DEF AllBurned, Exit, CmdInv, CmdTypeOK
<1>5. PhaseInv'
  BY <1>1, <1>2 DEF AllBurned, Exit, CmdInv, PhaseInv
<1>6. BurnInv'
  BY <1>3 DEF AllBurned, Exit, BurnInv
<1>7. DumpIsPrefix'
  BY <1>1 DEF AllBurned, CmdInv, DumpIsPrefix
<1>8. WriteInv' /\ DumpInv'
  BY <1>2 DEF AllBurned, WriteInv, DumpInv
<1> QED  BY <1>1, <1>4, <1>5, <1>6, <1>7, <1>8 DEF CmdInv

-----------------------------------------------------------------------------
\* What is known at a chunk of write or cwr that the file can supply: the range starts
\* in the file, and the chunk stays in the range, the file and the buffer.
LEMMA ChunkToWrite ==
    ASSUME CmdInv, cpc = "chunk", cmd \in {"write", "cwr"}, transferSize # 0,
           WriteChunk <= Readable
    PROVE  /\ args.skip <= FileLen /\ args.addr \in 0 .. MemSize /\ args.skip \in Nat
           /\ nBytes \in Nat /\ transferSize \in Nat
           /\ WriteChunk \in 1 .. transferSize /\ WriteChunk <= CallMax
           /\ fpos = args.skip + nBytes /\ fpos + WriteChunk <= FileLen
           /\ address = args.addr + nBytes /\ address + WriteChunk <= MemSize
           /\ nBytes + transferSize = WriteSize(args)
           /\ args.addr + WriteSize(args) <= MemSize
           /\ FileInPlace(nBytes)
<1>1. /\ args.addr \in 0 .. MemSize /\ args.skip \in 0 .. FileLen + 1
      /\ nBytes \in Nat /\ transferSize \in Nat /\ fpos \in Nat
  BY SizeAssumption, MemCmdAssumption DEF CmdInv, CmdTypeOK, ArgSet
<1>2. WriteChunk \in 1 .. transferSize /\ WriteChunk <= CallMax
  BY Chunks DEF CmdInv
<1>3. fpos + WriteChunk <= FileLen
  BY <1>1, <1>2, MemCmdAssumption DEF Readable
<1>4. /\ address = args.addr + nBytes /\ fpos = args.skip + nBytes /\ FileInPlace(nBytes)
      /\ args.skip <= FileLen => /\ nBytes + transferSize = WriteSize(args)
                                 /\ args.addr + WriteSize(args) <= MemSize
  BY <1>1 DEF CmdInv, WriteInv
<1>5. args.skip <= FileLen
  BY <1>1, <1>2, <1>3, <1>4, MemCmdAssumption
<1>6. address + WriteChunk <= MemSize
  BY <1>1, <1>2, <1>4, <1>5, SizeAssumption
<1> QED  BY <1>1, <1>2, <1>3, <1>4, <1>5, <1>6

\* The buffer of a chunk holds bytes, and those of the file come first.
LEMMA BufferFilled ==
    ASSUME CmdInv, NEW n \in Nat, n <= CallMax, fpos + n <= FileLen
    PROVE  /\ Buffer(n) \in [Index -> Byte]
           /\ \A k \in 0 .. n - 1 : Buffer(n)[k] = file[fpos + k]
<1>1. fpos \in Nat /\ file \in [0 .. FileLen - 1 -> Byte] /\ buffer \in [Index -> Byte]
  BY MemCmdAssumption DEF CmdInv, CmdTypeOK, TypeOK
<1>2. ASSUME NEW k \in Index
      PROVE  (IF k < n THEN file[fpos + k] ELSE buffer[k]) \in Byte
  <2>1. k < n => fpos + k \in 0 .. FileLen - 1
    BY <1>1, SizeAssumption, MemCmdAssumption DEF Index
  <2> QED  BY <1>1, <2>1
<1>3. \A k \in 0 .. n - 1 : k \in Index /\ k < n
  BY SizeAssumption DEF Index
<1> QED  BY <1>2, <1>3 DEF Buffer

\* write reads a chunk and calls the driver.
LEMMA NextWriteInv ==
    ASSUME CmdInv, NextWrite, UNCHANGED frames
    PROVE  CmdInv'
<1> DEFINE n == WriteChunk
           r == [dir |-> "write", address |-> address, len |-> n]
<1>1. /\ cpc = "chunk" /\ cmd = "write" /\ transferSize # 0 /\ n <= Readable
      /\ cpc' = "driver" /\ bulkSize' = n /\ fpos' = fpos + n
      /\ AmlUsbWriteLargeMem(r, Buffer(n))
      /\ UNCHANGED <<cmd, file, out, dumpStream, args, transferSize, address, nBytes, cret>>
  BY DEF NextWrite
<1>2. /\ args.skip <= FileLen /\ args.addr \in 0 .. MemSize /\ args.skip \in Nat
      /\ nBytes \in Nat /\ transferSize \in Nat
      /\ n \in 1 .. transferSize /\ n <= CallMax
      /\ fpos = args.skip + nBytes /\ fpos + n <= FileLen
      /\ address = args.addr + nBytes /\ address + n <= MemSize
      /\ nBytes + transferSize = WriteSize(args)
      /\ args.addr + WriteSize(args) <= MemSize
      /\ FileInPlace(nBytes)
  BY <1>1, ChunkToWrite
<1> HIDE DEF n
<1>3. n \in Nat
  BY <1>2
<1>4. /\ Buffer(n) \in [Index -> Byte]
      /\ \A k \in 0 .. n - 1 : Buffer(n)[k] = file[fpos + k]
  BY <1>2, <1>3, BufferFilled
<1>5. r \in Roms
  BY <1>2, <1>3, SizeAssumption DEF Roms, Dirs
<1>6. IInv' /\ mem' = mem /\ rom' = r /\ buffer' = Buffer(n) /\ pc' # "idle"
  BY <1>1, <1>4, <1>5, WriteStarts DEF CmdInv
<1>7. CmdTypeOK'
  <2>1. TypeOK'
    BY <1>6 DEF IInv
  <2>2. fpos' \in 0 .. FileLen + 1 /\ bulkSize' \in 0 .. CallMax
    BY <1>1, <1>2, MemCmdAssumption
  <2> QED  BY <1>1, <2>1, <2>2 DEF CmdInv, CmdTypeOK
<1>8. PhaseInv'
  BY <1>1, <1>6 DEF CmdInv, PhaseInv
<1>9. Sent'
  BY <1>1, <1>2, <1>4, <1>6 DEF Sent
<1>10. WriteInv'
  <2>1. WriteSize(args)' = WriteSize(args) /\ FileInPlace(nBytes)'
    BY <1>1, <1>2, <1>6 DEF WriteSize, FileInPlace
  <2> QED  BY <1>1, <1>2, <1>9, <2>1, MemCmdAssumption DEF WriteInv
<1>11. DumpIsPrefix'
  BY <1>1, <1>6 DEF CmdInv, DumpIsPrefix
<1>12. DumpInv' /\ BurnInv'
  BY <1>1 DEF DumpInv, BurnInv
<1> QED  BY <1>6, <1>7, <1>8, <1>10, <1>11, <1>12 DEF CmdInv

\* A call that returned 0 has put the chunk it was given in its place.
LEMMA ChunkInPlace ==
    ASSUME CmdInv, pc = "done", ret = 0, Sent
    PROVE  Same(mem, address, file, args.skip + nBytes, bulkSize)
BY DEF CmdInv, IInv, LoopInv, CountedBytesInPlace, SameUpTo, Sent, Same

\* ... which joins the bytes in place before it.
LEMMA JoinsThoseBefore ==
    ASSUME NEW n \in Nat, NEW d \in Nat, NEW a \in Nat, NEW s \in Nat, NEW m, NEW f,
           Same(m, a, f, s, n), Same(m, a + n, f, s + n, d)
    PROVE  Same(m, a, f, s, n + d)
<1> SUFFICES ASSUME NEW k \in 0 .. n + d - 1 PROVE m[a + k] = f[s + k]
  BY DEF Same
<1>1. CASE k < n
  BY <1>1 DEF Same
<1>2. CASE k >= n
  <2>1. PICK j \in 0 .. d - 1 : k = n + j
    <3>1. k - n \in 0 .. d - 1 /\ k = n + (k - n)
      BY <1>2
    <3> QED  BY <3>1
  <2>2. m[a + n + j] = f[s + n + j]
    BY DEF Same
  <2>3. a + k = a + n + j /\ s + k = s + n + j
    BY <2>1
  <2> QED  BY <2>2, <2>3
<1> QED  BY <1>1, <1>2

\* The bytes the driver has put in place belong to the next chunk; the next one starts
\* behind them, and a chunk that failed ends the command.
LEMMA WrittenInv ==
    ASSUME CmdInv, Written, UNCHANGED frames
    PROVE  CmdInv'
<1>1. IInv' /\ TypeOK' /\ mem' = mem /\ pc' = pc
  BY Resting DEF Written
<1>2. /\ cmd = "write" /\ cpc = "driver" /\ pc = "done"
      /\ UNCHANGED <<cmd, file, out, dumpStream, args, fpos, bulkSize>>
  BY DEF Written
<1>3. /\ args.addr \in 0 .. MemSize /\ args.skip \in 0 .. FileLen + 1
      /\ nBytes \in Nat /\ transferSize \in 0 .. Word - 1
  BY SizeAssumption DEF CmdInv, CmdTypeOK, ArgSet
<1>4. /\ args.skip <= FileLen /\ address = args.addr + nBytes
      /\ nBytes + transferSize = WriteSize(args) /\ args.addr + WriteSize(args) <= MemSize
      /\ FileInPlace(nBytes) /\ fpos = args.skip + nBytes + bulkSize
      /\ Sent /\ bulkSize \in 1 .. transferSize
  BY <1>2, <1>3, MemCmdAssumption DEF CmdInv, WriteInv, Sent
<1>5. CASE ret # 0
  <2>1. cpc' = "exit" /\ cret' = -735 /\ UNCHANGED <<transferSize, address, nBytes>>
    BY <1>5 DEF Written, Exit
  <2> QED
    BY <1>2, <2>1, FailedEndInv DEF Written, CmdInv, CmdTypeOK
<1>6. CASE ret = 0
  <2>1. /\ transferSize' = transferSize - bulkSize
        /\ address' = address + bulkSize /\ nBytes' = nBytes + bulkSize
        /\ cpc' = "chunk" /\ cret' = cret
    BY <1>6 DEF Written, Advance
  <2>2. FileInPlace(nBytes)'
    <3>1. Same(mem, address, file, args.skip + nBytes, bulkSize)
      BY <1>2, <1>4, <1>6, ChunkInPlace
    <3>2. Same(mem, args.addr, file, args.skip, nBytes)
      BY <1>4 DEF FileInPlace
    <3>3. /\ args.addr \in Nat /\ args.skip \in Nat /\ bulkSize \in Nat
          /\ nBytes \in Nat /\ address = args.addr + nBytes
      BY <1>3, <1>4, SizeAssumption, MemCmdAssumption
    <3>4. Same(mem, args.addr, file, args.skip, nBytes + bulkSize)
      BY <3>1, <3>2, <3>3, JoinsThoseBefore
    <3>5. nBytes' = nBytes + bulkSize /\ mem' = mem /\ args' = args /\ file' = file
      BY <1>1, <1>2, <2>1
    <3> QED  BY <3>4, <3>5 DEF FileInPlace
  <2>3. CmdTypeOK'
    <3>1. /\ transferSize' \in 0 .. Word - 1 /\ address' \in 0 .. MemSize
          /\ nBytes' \in 0 .. MemSize
      BY <1>3, <1>4, <2>1, SizeAssumption, MemCmdAssumption
    <3> QED  BY <1>1, <1>2, <2>1, <3>1 DEF CmdInv, CmdTypeOK
  <2>4. PhaseInv'
    BY <1>1, <1>2, <2>1 DEF CmdInv, PhaseInv
  <2>5. WriteInv'
    <3>1. WriteSize(args)' = WriteSize(args)
      BY <1>2 DEF WriteSize
    <3> QED  BY <1>2, <1>3, <1>4, <2>1, <2>2, <3>1, MemCmdAssumption DEF WriteInv
  <2>6. DumpIsPrefix'
    BY <1>1, <1>2 DEF CmdInv, DumpIsPrefix
  <2>7. DumpInv' /\ BurnInv'
    BY <1>2 DEF DumpInv, BurnInv
  <2> QED  BY <1>1, <2>3, <2>4, <2>5, <2>6, <2>7 DEF CmdInv
<1> QED  BY <1>5, <1>6

\* A control transfer of n bytes leaves the driver as it was and fills the range with
\* the next bytes of the file, touching no byte before them.
LEMMA CtrlWriteStores ==
    ASSUME CmdInv, cpc = "chunk", cmd = "cwr", transferSize # 0, WriteChunk <= Readable,
           NEW n \in 0 .. WriteChunk, CtrlWrite(n)
    PROVE  /\ IInv'
           /\ Same(mem', args.addr, file, args.skip, nBytes + n)
           /\ \A a \in Addr : mem'[a] # mem[a] =>
                 a \in args.addr + nBytes .. args.addr + WriteSize(args) - 1
<1>1. /\ args.addr \in Nat /\ args.skip \in Nat /\ nBytes \in Nat /\ transferSize \in Nat
      /\ n \in Nat /\ n <= transferSize /\ n <= CallMax
      /\ fpos = args.skip + nBytes /\ fpos + n <= FileLen
      /\ address = args.addr + nBytes /\ address + n <= MemSize
      /\ nBytes + transferSize = WriteSize(args)
  BY ChunkToWrite, SizeAssumption, MemCmdAssumption
<1>2. Same(mem, args.addr, file, args.skip, nBytes)
  BY ChunkToWrite DEF FileInPlace
<1>3. /\ pc = "idle" /\ IInv /\ offset = 0
      /\ file \in [0 .. FileLen - 1 -> Byte] /\ mem \in [Addr -> Byte]
  BY DEF CmdInv, PhaseInv, IInv, LoopInv, CmdTypeOK, TypeOK
<1>4. /\ mem' = [a \in Addr |-> IF a \in address .. address + n - 1
                                THEN file[fpos + (a - address)] ELSE mem[a]]
      /\ buffer' = Buffer(n)
      /\ UNCHANGED <<dev, rom, pc, i, offset, remain, sizeTo, retry, seqNum, ret>>
  BY DEF CtrlWrite
<1>5. IInv'
  <2>1. buffer' \in [Index -> Byte]
    BY <1>1, <1>4, BufferFilled
  <2>2. mem' \in [Addr -> Byte]
    <3> SUFFICES ASSUME NEW a \in Addr, a \in address .. address + n - 1
                 PROVE  file[fpos + (a - address)] \in Byte
      BY <1>3, <1>4
    <3>1. fpos + (a - address) \in 0 .. FileLen - 1
      BY <1>1, MemCmdAssumption
    <3> QED  BY <1>3, <3>1
  <2>3. TypeOK'
    BY <1>3, <1>4, <2>1, <2>2 DEF IInv, TypeOK
  <2>4. LoopInv' /\ SeqInv' /\ CountedBytesInPlace'
    BY <1>3, <1>4 DEF IInv, LoopInv, SeqInv, CountedBytesInPlace, SameUpTo
  <2> QED  BY <2>3, <2>4 DEF IInv
<1>6. Same(mem', args.addr, file, args.skip, nBytes + n)
  <2>1. ASSUME NEW k \in 0 .. nBytes - 1
        PROVE  mem'[args.addr + k] = file[args.skip + k]
    <3>1. args.addr + k \in Addr /\ args.addr + k \notin address .. address + n - 1
      BY <1>1, SizeAssumption DEF Addr
    <3> QED  BY <1>2, <1>4, <3>1 DEF Same
  <2>2. ASSUME NEW k \in 0 .. n - 1
        PROVE  mem'[args.addr + nBytes + k] = file[args.skip + nBytes + k]
    <3>1. /\ address + k \in Addr /\ address + k \in address .. address + n - 1
          /\ fpos + ((address + k) - address) = args.skip + nBytes + k
      BY <1>1, SizeAssumption DEF Addr
    <3>2. mem'[address + k] = file[args.skip + nBytes + k]
      BY <1>4, <3>1
    <3> QED  BY <1>1, <3>2
  <2>3. /\ Same(mem', args.addr, file, args.skip, nBytes)
        /\ Same(mem', args.addr + nBytes, file, args.skip + nBytes, n)
    BY <2>1, <2>2 DEF Same
  <2>4. /\ args.addr \in Nat /\ args.skip \in Nat /\ nBytes \in Nat /\ n \in Nat
    BY <1>1
  <2> QED  BY <2>3, <2>4, JoinsThoseBefore
<1>7. \A a \in Addr : mem'[a] # mem[a] =>
         a \in args.addr + nBytes .. args.addr + WriteSize(args) - 1
  <2> SUFFICES ASSUME NEW a \in Addr, mem'[a] # mem[a]
               PROVE  a \in args.addr + nBytes .. args.addr + WriteSize(args) - 1
    OBVIOUS
  <2>1. a \in address .. address + n - 1
    BY <1>4
  <2> QED  BY <1>1, <2>1
<1> QED  BY <1>5, <1>6, <1>7

\* cwr sends one chunk, which is stored or fails the command.
LEMMA CwrOkInv ==
    ASSUME CmdInv, CwrOk, UNCHANGED frames
    PROVE  CmdInv'
<1> DEFINE n == WriteChunk
<1>1. /\ cpc = "chunk" /\ cmd = "cwr" /\ transferSize # 0 /\ n <= Readable
      /\ CtrlWrite(n)
      /\ transferSize' = transferSize - n /\ address' = address + n /\ nBytes' = nBytes + n
      /\ fpos' = fpos + n
      /\ UNCHANGED <<cmd, file, out, dumpStream, args, cpc, bulkSize, cret>>
  BY DEF CwrOk, Advance
<1>2. /\ args.skip <= FileLen /\ args.addr \in 0 .. MemSize /\ args.skip \in Nat
      /\ nBytes \in Nat /\ transferSize \in Nat
      /\ n \in 1 .. transferSize
      /\ fpos = args.skip + nBytes /\ fpos + n <= FileLen
      /\ address = args.addr + nBytes /\ address + n <= MemSize
      /\ nBytes + transferSize = WriteSize(args)
      /\ args.addr + WriteSize(args) <= MemSize
  BY <1>1, ChunkToWrite
<1>3. n \in 0 .. n
  BY <1>2
<1>4. IInv' /\ Same(mem', args.addr, file, args.skip, nBytes + n)
  BY <1>1, <1>3, CtrlWriteStores
<1> HIDE DEF n
<1>5. CmdTypeOK'
  <2>1. TypeOK'
    BY <1>4 DEF IInv
  <2>2. transferSize \in 0 .. Word - 1
    BY DEF CmdInv, CmdTypeOK
  <2>3. /\ transferSize' \in 0 .. Word - 1 /\ address' \in 0 .. MemSize
        /\ fpos' \in 0 .. FileLen + 1 /\ nBytes' \in 0 .. MemSize
    BY <1>1, <1>2, <2>2, MemCmdAssumption, SizeAssumption
  <2> QED  BY <1>1, <2>1, <2>3 DEF CmdInv, CmdTypeOK
<1>6. PhaseInv'
  BY <1>1 DEF CtrlWrite, CmdInv, PhaseInv
<1>7. WriteInv'
  <2>1. WriteSize(args)' = WriteSize(args)
    BY <1>1 DEF WriteSize
  <2>2. FileInPlace(nBytes)'
    BY <1>1, <1>4 DEF FileInPlace
  <2> QED  BY <1>1, <1>2, <2>1, <2>2, MemCmdAssumption DEF WriteInv
<1>8. DumpIsPrefix'
  <2>1. out' = <<>>
    BY <1>1 DEF CmdInv, PhaseInv
  <2> QED  BY <2>1 DEF DumpIsPrefix
<1>9. DumpInv' /\ BurnInv'
  BY <1>1 DEF DumpInv, BurnInv
<1> QED  BY <1>4, <1>5, <1>6, <1>7, <1>8, <1>9 DEF CmdInv

LEMMA CwrFailInv ==
    ASSUME CmdInv, CwrFail, UNCHANGED frames
    PROVE  CmdInv'
<1>1. /\ cpc = "chunk" /\ cmd = "cwr" /\ transferSize # 0 /\ WriteChunk <= Readable
      /\ fpos' = fpos + WriteChunk /\ cpc' = "exit" /\ cret' = -735
      /\ UNCHANGED <<cmd, file, out, dumpStream, args, transferSize, address, nBytes, bulkSize>>
  BY DEF CwrFail, Exit
<1>2. PICK n \in 0 .. WriteChunk : CtrlWrite(n)
  BY DEF CwrFail
<1>3. IInv'
  BY <1>1, <1>2, CtrlWriteStores
<1>4. WriteChunk \in Nat /\ fpos \in Nat /\ fpos + WriteChunk <= FileLen
  BY <1>1, ChunkToWrite
<1>5. CmdTypeOK'
  <2>1. TypeOK'
    BY <1>3 DEF IInv
  <2>2. fpos' \in 0 .. FileLen + 1
    BY <1>1, <1>4, MemCmdAssumption
  <2> QED  BY <1>1, <2>1, <2>2 DEF CmdInv, CmdTypeOK
<1>6. PhaseInv'
  BY <1>1, <1>2 DEF CtrlWrite, CmdInv, PhaseInv
<1>7. DumpIsPrefix'
  <2>1. out' = <<>>
    BY <1>1 DEF CmdInv, PhaseInv
  <2> QED  BY <2>1 DEF DumpIsPrefix
<1>8. WriteInv' /\ DumpInv' /\ BurnInv'
  BY <1>1 DEF WriteInv, DumpInv, BurnInv
<1> QED  BY <1>3, <1>5, <1>6, <1>7, <1>8 DEF CmdInv

-----------------------------------------------------------------------------
\* dump and read ask the driver for the next chunk.
LEMMA NextDumpInv ==
    ASSUME CmdInv, NextDump, UNCHANGED frames
    PROVE  CmdInv'
<1> DEFINE n == DumpChunk
           r == [dir |-> "read", address |-> address, len |-> n]
<1>1. /\ cpc = "chunk" /\ cmd \in {"dump", "read"} /\ transferSize # 0
      /\ cpc' = "driver" /\ bulkSize' = n
      /\ AmlUsbReadLargeMem(r)
      /\ UNCHANGED <<cmd, file, out, dumpStream, args, transferSize, address, fpos, nBytes, cret>>
  BY DEF NextDump
<1>2. /\ n \in 1 .. transferSize /\ n <= CallMax
  BY <1>1, Chunks DEF CmdInv
<1>3. /\ args.addr \in Nat /\ args.size \in Nat /\ args.addr + args.size <= MemSize
      /\ transferSize \in Nat /\ transferSize <= args.size
      /\ address = args.addr + (args.size - transferSize)
  BY <1>1, SizeAssumption, MemCmdAssumption DEF CmdInv, CmdTypeOK, ArgSet, DumpInv
<1> HIDE DEF n
<1>4. r \in Roms
  BY <1>2, <1>3, SizeAssumption DEF Roms, Dirs
<1>5. IInv' /\ mem' = mem /\ rom' = r /\ pc' # "idle"
  BY <1>1, <1>4, ReadStarts DEF CmdInv
<1>6. CmdTypeOK'
  <2>1. TypeOK'
    BY <1>5 DEF IInv
  <2>2. bulkSize' \in 0 .. CallMax
    BY <1>1, <1>2, SizeAssumption
  <2> QED  BY <1>1, <2>1, <2>2 DEF CmdInv, CmdTypeOK
<1>7. PhaseInv'
  BY <1>1, <1>5 DEF CmdInv, PhaseInv
<1>8. DumpInv'
  BY <1>1, <1>2, <1>5 DEF CmdInv, DumpInv
<1>9. DumpIsPrefix'
  BY <1>1, <1>5 DEF CmdInv, DumpIsPrefix
<1>10. WriteInv' /\ BurnInv'
  BY <1>1 DEF WriteInv, BurnInv
<1> QED  BY <1>5, <1>6, <1>7, <1>8, <1>9, <1>10 DEF CmdInv

\* A chunk the driver read, or its first n bytes, continues the dump file.
LEMMA ChunkContinues ==
    ASSUME CmdInv, cpc = "driver", cmd \in {"dump", "read"}, pc = "done", ret = 0,
           dumpStream, NEW n \in 0 .. bulkSize
    PROVE  LET o == out \o [k \in 1 .. n |-> buffer[k - 1]]
           IN  /\ o \in Seq(Byte)
               /\ Len(o) = args.size - transferSize + n
               /\ \A k \in 1 .. Len(o) : k <= args.size /\ o[k] = mem[args.addr + k - 1]
<1> DEFINE c == [k \in 1 .. n |-> buffer[k - 1]]
           o == out \o c
<1>1. /\ rom = [dir |-> "read", address |-> address, len |-> bulkSize]
      /\ bulkSize \in 1 .. transferSize /\ transferSize <= args.size
      /\ address = args.addr + (args.size - transferSize)
      /\ Len(out) = args.size - transferSize
  BY DEF CmdInv, DumpInv
<1>2. /\ args.addr \in Nat /\ args.size \in Nat /\ transferSize \in Nat
      /\ bulkSize \in Nat /\ bulkSize <= CallMax
      /\ out \in Seq(Byte) /\ buffer \in [Index -> Byte]
  BY SizeAssumption, MemCmdAssumption DEF CmdInv, CmdTypeOK, TypeOK, ArgSet
<1>3. \A k \in 0 .. bulkSize - 1 : buffer[k] = mem[address + k]
  BY <1>1 DEF CmdInv, IInv, LoopInv, CountedBytesInPlace, SameUpTo
<1>4. n \in Nat /\ \A k \in 1 .. n : k - 1 \in Index /\ k - 1 \in 0 .. bulkSize - 1
  BY <1>2, SizeAssumption DEF Index
<1>5. c \in Seq(Byte) /\ Len(c) = n /\ \A k \in 1 .. n : c[k] = buffer[k - 1]
  <2>1. c \in [1 .. n -> Byte]
    BY <1>2, <1>4
  <2> QED  BY <1>4, <2>1
<1> HIDE DEF c
<1>6. /\ o \in Seq(Byte) /\ Len(o) = Len(out) + n
      /\ \A k \in 1 .. Len(out) + n : o[k] = IF k <= Len(out) THEN out[k] ELSE c[k - Len(out)]
  BY <1>2, <1>5, ConcatProperties
<1> HIDE DEF o
<1>7. PICK l \in Nat : l = Len(out)
  BY <1>2, LenProperties
<1>8. ASSUME NEW k \in 1 .. l + n
      PROVE  k <= args.size /\ o[k] = mem[args.addr + k - 1]
  <2>1. k <= args.size
    BY <1>1, <1>2, <1>4, <1>7
  <2>2. CASE k <= l
    BY <1>4, <1>6, <1>7, <2>1, <2>2 DEF CmdInv, DumpIsPrefix
  <2>3. CASE k > l
    <3>1. PICK j \in 1 .. n : j = k - l
      BY <1>4, <2>3
    <3>2. o[k] = c[j]
      BY <1>6, <1>7, <2>3, <3>1
    <3>3. c[j] = mem[address + (j - 1)]
      BY <1>3, <1>4, <1>5
    <3>4. address = args.addr + l /\ k \in Int /\ j \in Int
      BY <1>1, <1>4, <1>7
    <3>5. address + (j - 1) = args.addr + k - 1
      BY <1>2, <3>1, <3>4
    <3> QED  BY <2>1, <3>2, <3>3, <3>5
  <2> QED  BY <2>2, <2>3, <1>4, <1>7
<1> QED  BY <1>1, <1>6, <1>7, <1>8 DEF o, c

\* A chunk that was read is printed or appended, and the next one starts behind it.
LEMMA DumpedInv ==
    ASSUME CmdInv, Dumped, UNCHANGED frames
    PROVE  CmdInv'
<1>1. IInv' /\ TypeOK' /\ mem' = mem /\ pc' = pc
  BY Resting DEF Dumped
<1>2. /\ cpc = "driver" /\ cmd \in {"dump", "read"} /\ pc = "done" /\ ret = 0
      /\ out' = IF dumpStream THEN out \o [k \in 1 .. bulkSize |-> buffer[k - 1]] ELSE out
      /\ transferSize' = transferSize - offset /\ address' = address + offset
      /\ cpc' = "chunk"
      /\ UNCHANGED <<cmd, file, dumpStream, args, fpos, nBytes, bulkSize, cret>>
  BY DEF Dumped
<1>3. /\ offset = bulkSize /\ bulkSize \in 1 .. transferSize /\ transferSize <= args.size
      /\ address = args.addr + (args.size - transferSize)
      /\ ~ dumpStream => out = <<>>
  BY <1>2 DEF CmdInv, DumpInv, IInv, LoopInv
<1>4. /\ args.addr \in Nat /\ args.size \in Nat /\ args.addr + args.size <= MemSize
      /\ transferSize \in 0 .. Word - 1 /\ bulkSize \in Nat
  BY SizeAssumption DEF CmdInv, CmdTypeOK, ArgSet
<1>5. /\ out' \in Seq(Byte)
      /\ IF dumpStream THEN Len(out') = args.size - transferSize + bulkSize ELSE out' = <<>>
      /\ \A k \in 1 .. Len(out') : k <= args.size /\ out'[k] = mem[args.addr + k - 1]
  <2>1. CASE dumpStream
    <3>1. bulkSize \in 0 .. bulkSize
      BY <1>4
    <3>2. out' = out \o [k \in 1 .. bulkSize |-> buffer[k - 1]]
      BY <1>2, <2>1
    <3>3. cpc = "driver" /\ cmd \in {"dump", "read"} /\ pc = "done" /\ ret = 0
      BY <1>2
    <3> QED  BY <2>1, <3>1, <3>2, <3>3, ChunkContinues
  <2>2. CASE ~ dumpStream
    <3>1. out' = <<>> /\ out' = out
      BY <1>2, <1>3, <2>2
    <3> QED  BY <2>2, <3>1, EmptySeq DEF CmdInv, DumpIsPrefix, CmdTypeOK
  <2> QED  BY <2>1, <2>2
<1>6. CmdTypeOK'
  <2>1. transferSize' = transferSize - bulkSize /\ address' = address + bulkSize
    BY <1>2, <1>3
  <2>2. transferSize' \in 0 .. Word - 1
    BY <1>3, <1>4, <2>1, MemCmdAssumption
  <2>3. address' \in 0 .. MemSize
    <3>1. PICK a \in Nat, s \in Nat, t \in Nat, b \in Nat :
             a = args.addr /\ s = args.size /\ t = transferSize /\ b = bulkSize
      BY <1>3, <1>4, MemCmdAssumption
    <3>2. a + s <= MemSize /\ b <= t /\ t <= s /\ address' = (a + (s - t)) + b
      BY <1>3, <1>4, <2>1, <3>1
    <3> QED  BY <3>2, SizeAssumption
  <2> QED  BY <1>1, <1>2, <1>5, <2>2, <2>3 DEF CmdInv, CmdTypeOK
<1>7. PhaseInv'
  BY <1>1, <1>2 DEF CmdInv, PhaseInv
<1>8. DumpInv'
  <2>0. transferSize' = transferSize - bulkSize /\ address' = address + bulkSize
    BY <1>2, <1>3
  <2>1. /\ transferSize' <= args.size
        /\ address' = args.addr + (args.size - transferSize')
        /\ args.size - transferSize' = args.size - transferSize + bulkSize
    BY <1>3, <1>4, <2>0
  <2> QED  BY <1>2, <1>5, <2>1 DEF DumpInv
<1>9. DumpIsPrefix'
  BY <1>1, <1>2, <1>5 DEF DumpIsPrefix
<1>10. WriteInv' /\ BurnInv'
  BY <1>2 DEF WriteInv, BurnInv
<1> QED  BY <1>1, <1>6, <1>7, <1>8, <1>9, <1>10 DEF CmdInv

\* The end of a dump, on every path: what the file holds stays a prefix of the range.
LEMMA DumpEndInv ==
    ASSUME CmdInv, cmd \in {"dump", "read"}, cpc # "driver" \/ pc = "done",
           UNCHANGED <<vars, frames, cmd, file, args, transferSize, address, fpos, nBytes, bulkSize>>,
           cpc' = "exit", cret' = 0, dumpStream' \in BOOLEAN,
           out' \in Seq(Byte),
           \A k \in 1 .. Len(out') : k <= args.size /\ out'[k] = mem[args.addr + k - 1]
    PROVE  CmdInv'
<1>1. IInv' /\ TypeOK' /\ mem' = mem /\ pc' = pc
  BY Resting
<1>2. CmdTypeOK'
  BY <1>1 DEF CmdInv, CmdTypeOK
<1>3. PhaseInv'
  BY <1>1 DEF CmdInv, PhaseInv
<1>4. DumpIsPrefix'
  BY <1>1 DEF DumpIsPrefix
<1>5. WriteInv' /\ DumpInv' /\ BurnInv'
  BY DEF WriteInv, DumpInv, BurnInv
<1> QED  BY <1>1, <1>2, <1>3, <1>4, <1>5 DEF CmdInv

LEMMA DumpEndsInv ==
    ASSUME CmdInv, UNCHANGED frames,
           \/ \E n \in 0 .. TotalMax : ShortWrite(n)
           \/ DumpComplete
           \/ \E n \in 0 .. Len(out) : CloseLoses(n)
    PROVE  CmdInv'
<1>1. /\ out \in Seq(Byte) /\ Len(out) \in Nat
      /\ \A k \in 1 .. Len(out) : k <= args.size /\ out[k] = mem[args.addr + k - 1]
  BY LenProperties DEF CmdInv, CmdTypeOK, DumpIsPrefix
<1>2. ASSUME NEW n \in 0 .. TotalMax, ShortWrite(n)
      PROVE  CmdInv'
  <2>1. n \in 0 .. bulkSize
    BY <1>2, SizeAssumption DEF ShortWrite, CmdInv, CmdTypeOK
  <2>2. /\ out' \in Seq(Byte)
        /\ \A k \in 1 .. Len(out') : k <= args.size /\ out'[k] = mem[args.addr + k - 1]
    BY <1>2, <2>1, ChunkContinues DEF ShortWrite
  <2> QED  BY <1>2, <2>2, DumpEndInv DEF ShortWrite, Exit
<1>3. CASE DumpComplete
  BY <1>1, <1>3, DumpEndInv DEF DumpComplete, Exit
<1>4. ASSUME NEW n \in 0 .. Len(out), CloseLoses(n)
      PROVE  CmdInv'
  <2>1. \A k \in 1 .. n : out[k] \in Byte
    BY <1>1, ElementOfSeq
  <2>2. /\ SubSeq(out, 1, n) \in Seq(Byte) /\ Len(SubSeq(out, 1, n)) = n
        /\ \A k \in 1 .. n : SubSeq(out, 1, n)[k] = out[k]
    BY <1>1, <2>1, SubSeqProperties
  <2>3. out' = SubSeq(out, 1, n) /\ \A k \in 1 .. n : k \in 1 .. Len(out)
    BY <1>1, <1>4 DEF CloseLoses
  <2>4. Len(out') = n /\ \A k \in 1 .. n : out'[k] = out[k]
    BY <2>2, <2>3
  <2>5. /\ out' \in Seq(Byte)
        /\ \A k \in 1 .. Len(out') : k <= args.size /\ out'[k] = mem[args.addr + k - 1]
    BY <1>1, <2>2, <2>3, <2>4
  <2> QED  BY <1>4, <2>5, DumpEndInv DEF CloseLoses, Exit
<1> QED  BY <1>1, <1>2, <1>3, <1>4

-----------------------------------------------------------------------------
\* burn reads its first chunk and calls the driver.
LEMMA NextChunkInv ==
    ASSUME CmdInv, NextChunk
    PROVE  CmdInv'
<1> DEFINE n == aml_min(transferSize, ChunkMax)
           r == [dir |-> "write", address |-> address, len |-> n]
           b == [k \in Index |-> IF k < n THEN file[nBytes + k] ELSE buffer[k]]
<1>1. /\ cmd = "burn" /\ cpc = "chunk" /\ transferSize # 0
      /\ bulkSize' = n /\ AmlUsbWriteLargeMem(r, b) /\ cpc' = "driver"
      /\ UNCHANGED <<cmd, file, out, dumpStream, args, transferSize, address, fpos, nBytes, cret,
                     frames>>
  BY DEF NextChunk
<1>2. /\ nBytes = 0 /\ args.skip = 0 /\ args.addr = Base /\ address = Base
      /\ transferSize = args.size /\ args.size <= FileLen
      /\ transferSize \in Nat
  BY <1>1, MemCmdAssumption DEF CmdInv, BurnInv, CmdTypeOK
<1>3. n \in 1 .. transferSize /\ n <= CallMax /\ n = aml_min(args.size, ChunkMax)
  BY <1>1, <1>2, BurnAssumption, SizeAssumption DEF aml_min
<1> HIDE DEF n
<1>4. b \in [Index -> Byte] /\ \A k \in 0 .. n - 1 : b[k] = file[0 + 0 + k]
  <2>1. file \in [0 .. FileLen - 1 -> Byte] /\ buffer \in [Index -> Byte]
    BY DEF CmdInv, CmdTypeOK, TypeOK
  <2>2. ASSUME NEW k \in Index
        PROVE  (IF k < n THEN file[nBytes + k] ELSE buffer[k]) \in Byte
    <3>1. k < n => nBytes + k \in 0 .. FileLen - 1
      BY <1>2, <1>3, SizeAssumption, MemCmdAssumption DEF Index
    <3> QED  BY <2>1, <3>1
  <2>3. \A k \in 0 .. n - 1 : k \in Index /\ k < n /\ nBytes + k = 0 + 0 + k
    BY <1>2, <1>3, SizeAssumption DEF Index
  <2> QED  BY <2>2, <2>3
<1>5. r \in Roms
  BY <1>2, <1>3, BurnAssumption, SizeAssumption, MemCmdAssumption DEF Roms, Dirs
<1> HIDE DEF b
<1>6. IInv' /\ mem' = mem /\ rom' = r /\ buffer' = b /\ pc' # "idle"
  BY <1>1, <1>4, <1>5, WriteStarts DEF CmdInv
<1>7. CmdTypeOK'
  <2>1. TypeOK'
    BY <1>6 DEF IInv
  <2>2. bulkSize' \in 0 .. CallMax
    BY <1>1, <1>2, <1>3, SizeAssumption
  <2> QED  BY <1>1, <2>1, <2>2 DEF CmdInv, CmdTypeOK
<1>8. PhaseInv'
  BY <1>1, <1>6 DEF CmdInv, PhaseInv
<1>9. Sent'
  BY <1>1, <1>2, <1>3, <1>4, <1>6 DEF Sent
<1>10. BurnInv'
  <2>1. aml_min(args.size, ChunkMax)' = aml_min(args.size, ChunkMax)
    BY <1>1 DEF aml_min
  <2> QED  BY <1>1, <1>2, <1>3, <1>9, <2>1 DEF BurnInv
<1>11. DumpIsPrefix'
  BY <1>1, <1>6 DEF CmdInv, DumpIsPrefix
<1>12. WriteInv' /\ DumpInv'
  BY <1>1 DEF WriteInv, DumpInv
<1> QED  BY <1>6, <1>7, <1>8, <1>10, <1>11, <1>12 DEF CmdInv

\* The first chunk is in memory when the frame is to be sent,
LEMMA ChunkWrittenInv ==
    ASSUME CmdInv, ChunkWritten
    PROVE  CmdInv'
<1>1. IInv' /\ TypeOK' /\ mem' = mem /\ pc' = pc /\ buffer' = buffer /\ rom' = rom
  BY Resting DEF ChunkWritten
<1>2. /\ cmd = "burn" /\ cpc = "driver" /\ pc = "done" /\ ret = 0 /\ cpc' = "frame"
      /\ UNCHANGED <<cmd, file, out, dumpStream, args, transferSize, address, fpos, nBytes,
                     bulkSize, cret, frames>>
  BY DEF ChunkWritten
<1>3. /\ Sent /\ nBytes = 0 /\ args.skip = 0 /\ address = Base
      /\ bulkSize = aml_min(args.size, ChunkMax)
  BY <1>2 DEF CmdInv, BurnInv
<1>4. \A k \in 0 .. bulkSize - 1 : mem[Base + k] = file[k]
  <2>1. Same(mem, Base, file, 0 + 0, bulkSize)
    BY <1>2, <1>3, ChunkInPlace
  <2> QED  BY <2>1 DEF Same
<1>5. CmdTypeOK'
  BY <1>1, <1>2 DEF CmdInv, CmdTypeOK
<1>6. PhaseInv'
  BY <1>1, <1>2 DEF CmdInv, PhaseInv
<1>7. BurnInv'
  <2>1. aml_min(args.size, ChunkMax)' = aml_min(args.size, ChunkMax)
    BY <1>2 DEF aml_min
  <2>2. Sent'
    BY <1>1, <1>2, <1>3 DEF Sent
  <2> QED  BY <1>1, <1>2, <1>3, <1>4, <2>1, <2>2 DEF CmdInv, BurnInv
<1>8. DumpIsPrefix'
  BY <1>1, <1>2 DEF CmdInv, DumpIsPrefix
<1>9. WriteInv' /\ DumpInv'
  BY <1>2 DEF WriteInv, DumpInv
<1> QED  BY <1>1, <1>5, <1>6, <1>7, <1>8, <1>9 DEF CmdInv

\* which the handler refuses: 88 bytes are not the 68 it takes.
LEMMA FrameInv ==
    ASSUME CmdInv, NEW r \in {0, -2}, Frame(r)
    PROVE  CmdInv'
<1>1. r = -2 /\ ~ FrameTaken
  BY BurnAssumption DEF Frame, FrameTaken
<1>2. /\ cmd = "burn" /\ cpc = "frame" /\ cpc' = "exit" /\ cret' = -2
      /\ UNCHANGED <<vars, cmd, file, out, dumpStream, args, transferSize, address, fpos, nBytes,
                     bulkSize, frames>>
  BY <1>1 DEF Frame, Exit
<1>3. IInv' /\ TypeOK' /\ mem' = mem /\ pc' = pc
  BY <1>2, Resting
<1>4. CmdTypeOK'
  BY <1>2, <1>3 DEF CmdInv, CmdTypeOK
<1>5. PhaseInv'
  BY <1>2, <1>3 DEF CmdInv, PhaseInv
<1>6. BurnInv'
  <2>1. aml_min(args.size, ChunkMax)' = aml_min(args.size, ChunkMax)
    BY <1>2 DEF aml_min
  <2> QED  BY <1>2, <1>3, <2>1 DEF CmdInv, BurnInv
<1>7. DumpIsPrefix'
  BY <1>2, <1>3 DEF CmdInv, DumpIsPrefix
<1>8. WriteInv' /\ DumpInv'
  BY <1>2 DEF WriteInv, DumpInv
<1> QED  BY <1>3, <1>4, <1>5, <1>6, <1>7, <1>8 DEF CmdInv

-----------------------------------------------------------------------------
\* What a command may change while the driver works, in the terms of the command: a
\* write the chunk under way, a dump nothing.
LEMMA DriverWritable ==
    ASSUME CmdInv, Driver
    PROVE  /\ cpc = "driver"
           /\ \A a \in Addr : mem'[a] # mem[a] =>
                 /\ cmd \in {"write", "burn"}
                 /\ a \in args.addr + nBytes .. args.addr + nBytes + bulkSize - 1
                 /\ a \in Writable
<1>1. cpc = "driver"
  BY DriverWorks DEF CmdInv, PhaseInv
<1>2. cmd \in {"write", "dump", "read", "burn"}
  BY <1>1 DEF CmdInv, CmdTypeOK, PhaseInv
<1>3. /\ args.addr \in Nat /\ nBytes \in Nat /\ bulkSize \in Nat /\ transferSize \in Nat
      /\ args.skip \in Nat
  BY SizeAssumption, MemCmdAssumption DEF CmdInv, CmdTypeOK, ArgSet
<1>4. /\ \A a \in Addr : mem'[a] # mem[a] =>
            rom.dir = "write" /\ a \in rom.address .. rom.address + rom.len - 1
      /\ rom.dir = "read" => mem' = mem
  BY DriverWorks DEF CmdInv
<1>5. CASE cmd = "write"
  <2>1. /\ rom = [dir |-> "write", address |-> args.addr + nBytes, len |-> bulkSize]
        /\ bulkSize <= transferSize /\ nBytes + transferSize = WriteSize(args)
    BY <1>1, <1>3, <1>5, MemCmdAssumption DEF CmdInv, WriteInv, Sent
  <2>2. ASSUME NEW a \in Addr, mem'[a] # mem[a]
        PROVE  /\ a \in args.addr + nBytes .. args.addr + nBytes + bulkSize - 1
               /\ a \in args.addr + nBytes .. args.addr + WriteSize(args) - 1
    <3>1. a \in args.addr + nBytes .. args.addr + nBytes + bulkSize - 1
      BY <1>4, <2>1, <2>2
    <3> QED  BY <1>3, <2>1, <3>1
  <2>3. Writable = args.addr + nBytes .. args.addr + WriteSize(args) - 1
    BY <1>5 DEF Writable
  <2> QED  BY <1>1, <1>5, <2>2, <2>3
<1>6. CASE cmd = "burn"
  <2>1. /\ rom = [dir |-> "write", address |-> Base, len |-> bulkSize]
        /\ args.addr = Base /\ nBytes = 0 /\ bulkSize = aml_min(args.size, ChunkMax)
    BY <1>1, <1>6 DEF CmdInv, BurnInv, Sent
  <2>2. bulkSize <= ChunkMax
    BY <2>1, BurnAssumption, SizeAssumption DEF aml_min, CmdInv, CmdTypeOK, ArgSet
  <2>3. ASSUME NEW a \in Addr, mem'[a] # mem[a]
        PROVE  /\ a \in args.addr + nBytes .. args.addr + nBytes + bulkSize - 1
               /\ a \in Base .. Base + ChunkMax - 1
    <3>1. a \in Base .. Base + bulkSize - 1
      BY <1>4, <2>1, <2>3
    <3> QED  BY <1>3, <2>1, <2>2, <3>1, BurnAssumption
  <2>4. Writable = Base .. Base + ChunkMax - 1
    BY <1>6 DEF Writable
  <2> QED  BY <1>1, <1>6, <2>3, <2>4
<1>7. CASE cmd \in {"dump", "read"}
  <2>1. rom.dir = "read"
    BY <1>1, <1>7 DEF CmdInv, DumpInv
  <2> QED  BY <1>1, <1>4, <2>1
<1> QED  BY <1>2, <1>5, <1>6, <1>7

\* A step of the driver leaves the command where it is, with the bytes it counts.
LEMMA DriverStepInv ==
    ASSUME CmdInv, Driver, UNCHANGED <<cmdvars, frames>>
    PROVE  CmdInv'
<1>1. /\ IInv' /\ rom' = rom /\ pc' # "idle" /\ cpc = "driver"
      /\ rom.dir = "write" => buffer' = buffer
      /\ rom.dir = "read" => mem' = mem
  BY DriverWorks, DriverWritable DEF CmdInv
<1>2. UNCHANGED <<cmd, file, out, dumpStream, args, cpc, transferSize, address, fpos, nBytes,
                  bulkSize, cret, frames>>
  BY DEF cmdvars
<1>3. CmdTypeOK'
  BY <1>1, <1>2 DEF CmdInv, CmdTypeOK, IInv
<1>4. PhaseInv'
  BY <1>1, <1>2 DEF CmdInv, PhaseInv
<1>5. Sent => Sent'
  BY <1>1, <1>2 DEF Sent
<1>6. WriteInv'
  <2> SUFFICES ASSUME cmd = "write" PROVE WriteInv'
    BY <1>1, <1>2 DEF WriteInv, CmdInv, PhaseInv
  <2>1. /\ args.addr \in Nat /\ args.skip \in Nat /\ nBytes \in Nat /\ transferSize \in Nat
    BY SizeAssumption, MemCmdAssumption DEF CmdInv, CmdTypeOK, ArgSet
  <2>2. /\ args.skip <= FileLen /\ FileInPlace(nBytes) /\ Sent
        /\ nBytes + transferSize = WriteSize(args) /\ args.addr + WriteSize(args) <= MemSize
    BY <1>1, <2>1, MemCmdAssumption DEF CmdInv, WriteInv
  <2>3. FileInPlace(nBytes)'
    <3>1. ASSUME NEW k \in 0 .. nBytes - 1
          PROVE  mem'[args.addr + k] = mem[args.addr + k]
      <4>0. bulkSize \in Nat /\ bulkSize >= 1 /\ bulkSize <= transferSize
        BY <2>1, <2>2 DEF Sent
      <4>1. args.addr + k \in Addr
        BY <2>1, <2>2, <4>0, SizeAssumption DEF Addr
      <4>2. args.addr + k \notin args.addr + nBytes .. args.addr + nBytes + bulkSize - 1
        BY <2>1
      <4> QED  BY <4>1, <4>2, DriverWritable
    <3> QED  BY <1>2, <2>2, <3>1 DEF FileInPlace, Same
  <2>4. WriteSize(args)' = WriteSize(args)
    BY <1>2 DEF WriteSize
  <2> QED  BY <1>1, <1>2, <1>5, <2>2, <2>3, <2>4 DEF CmdInv, WriteInv
<1>7. DumpInv'
  BY <1>1, <1>2 DEF CmdInv, DumpInv
<1>8. DumpIsPrefix'
  <2>1. CASE cmd \in {"dump", "read"}
    <3>1. mem' = mem
      BY <1>1, <2>1 DEF CmdInv, DumpInv
    <3> QED  BY <1>2, <3>1 DEF CmdInv, DumpIsPrefix
  <2>2. CASE cmd \notin {"dump", "read"}
    <3>1. out' = <<>>
      BY <1>2, <2>2 DEF CmdInv, PhaseInv
    <3> QED  BY <3>1 DEF DumpIsPrefix
  <2> QED  BY <2>1, <2>2
<1>9. BurnInv'
  <2>1. aml_min(args.size, ChunkMax)' = aml_min(args.size, ChunkMax)
    BY <1>2 DEF aml_min
  <2> QED  BY <1>1, <1>2, <1>5, <2>1 DEF CmdInv, BurnInv
<1> QED  BY <1>1, <1>3, <1>4, <1>6, <1>7, <1>8, <1>9 DEF CmdInv

-----------------------------------------------------------------------------
\* Every step preserves the invariant.
LEMMA BurnNextInv == CmdInv /\ [BurnNext]_burnvars => CmdInv'
<1> SUFFICES ASSUME CmdInv, [BurnNext]_burnvars PROVE CmdInv'
  OBVIOUS
<1>1. ASSUME CmdNext, UNCHANGED frames PROVE CmdInv'
  <2>1. CASE Command
    BY <1>1, <2>1, CommandFailsInv, NextWriteInv, WrittenInv, CwrOkInv, CwrFailInv,
       WriteCompleteInv, NextDumpInv, DumpedInv, DumpEndsInv DEF Command
  <2>2. ASSUME NEW c \in {"dump", "read"}, NEW a \in {x \in ArgSet : x.skip = 0},
               NEW o \in BOOLEAN, StartDump(c, a, o)
        PROVE  CmdInv'
    BY <1>1, <2>2, StartDumpInv
  <2>3. ASSUME Driver, UNCHANGED cmdvars PROVE CmdInv'
    BY <1>1, <2>3, DriverStepInv
  <2> QED
    BY <1>1, <2>1, <2>2, <2>3, StartWriteInv, CommandFailsInv DEF CmdNext
<1>2. CASE BurnCommand
  BY <1>2, BurnFailsInv, BurnOpenInv, AllBurnedInv, NextChunkInv, ChunkWrittenInv, FrameInv
     DEF BurnCommand
<1>3. CASE UNCHANGED burnvars
  <2>1. UNCHANGED vars /\ UNCHANGED <<cmd, file, out, dumpStream, args, cpc, transferSize, address,
                                     fpos, nBytes, bulkSize, cret, frames>>
    BY <1>3 DEF burnvars, allvars, cmdvars
  <2>2. IInv' /\ TypeOK' /\ mem' = mem /\ buffer' = buffer /\ rom' = rom /\ pc' = pc
    BY <2>1, Resting
  <2>3. CmdTypeOK' /\ PhaseInv' /\ DumpInv' /\ DumpIsPrefix'
    BY <2>1, <2>2 DEF CmdInv, CmdTypeOK, PhaseInv, DumpInv, DumpIsPrefix
  <2>4. WriteInv' /\ BurnInv'
    BY <2>1, <2>2 DEF CmdInv, WriteInv, BurnInv, Sent, FileInPlace, Same, WriteSize, aml_min
  <2> QED  BY <2>2, <2>3, <2>4 DEF CmdInv
<1> QED  BY <1>1, <1>2, <1>3 DEF BurnNext

\* The invariant of the commands holds in every reachable state.
THEOREM CmdInvariant == BurnSpec => []CmdInv
BY CmdInitInv, BurnNextInv, PTL DEF BurnSpec

\* Addresses, sizes, the file position and the return codes of
\* update_sub_cmd_read_write and AmlUsbburn keep their ranges.
THEOREM CmdTypeCorrect == BurnSpec => []CmdTypeOK
<1>1. CmdInv => CmdTypeOK
  BY DEF CmdInv
<1> QED  BY <1>1, CmdInvariant, PTL

\* A write or cwr that returns 0 has delivered the range of the file the user named.
THEOREM WriteDelivered == BurnSpec => []WriteDelivers
<1>1. CmdInv => WriteDelivers
  BY DEF CmdInv, WriteInv, WriteDelivers, FileInPlace, Same
<1> QED  BY <1>1, CmdInvariant, PTL

\* The dump file holds the start of the range, in order, on every path.
THEOREM DumpInOrder == BurnSpec => []DumpIsPrefix
<1>1. CmdInv => DumpIsPrefix
  BY DEF CmdInv
<1> QED  BY <1>1, CmdInvariant, PTL

\* burn never gets past its first frame, and -2 leaves the first chunk in memory.
THEOREM BurnStops == BurnSpec => []BurnStopsAtFrame
<1>1. CmdInv => BurnStopsAtFrame
  BY DEF CmdInv, BurnInv, PhaseInv, BurnStopsAtFrame
<1> QED  BY <1>1, CmdInvariant, PTL

\* No command changes memory outside what is still to be written of its range.
THEOREM NothingOutside == BurnSpec => WriteStaysInRange
<1>1. CmdInv /\ [BurnNext]_burnvars =>
        [\A a \in Addr : mem'[a] # mem[a] => a \in Writable]_burnvars
  <2> SUFFICES ASSUME CmdInv, BurnNext, mem' # mem
               PROVE  \A a \in Addr : mem'[a] # mem[a] => a \in Writable
    BY DEF burnvars, allvars, vars
  <2>1. CASE Driver
    BY <2>1, DriverWritable
  <2>2. CASE CwrOk \/ CwrFail
    <3>1. /\ cpc = "chunk" /\ cmd = "cwr" /\ transferSize # 0 /\ WriteChunk <= Readable
          /\ \E n \in 0 .. WriteChunk : CtrlWrite(n)
      <4>1. CASE CwrOk
        <5>1. WriteChunk \in 0 .. WriteChunk
          BY <4>1, Chunks DEF CwrOk, CmdInv
        <5> QED  BY <4>1, <5>1 DEF CwrOk
      <4>2. CASE CwrFail
        BY <4>2 DEF CwrFail
      <4> QED  BY <2>2, <4>1, <4>2
    <3>2. \A a \in Addr : mem'[a] # mem[a] =>
             a \in args.addr + nBytes .. args.addr + WriteSize(args) - 1
      BY <3>1, CtrlWriteStores
    <3> QED  BY <3>1, <3>2 DEF Writable
  <2>3. CASE ~ (Driver \/ CwrOk \/ CwrFail)
    <3>1. mem' = mem
      <4>1. BurnCommand => mem' = mem
        BY DEF BurnCommand, BurnOpenFail, BurnOpen, AllBurned, BurnReadFail, NextChunk, WriteFail,
               ChunkWritten, Frame, AmlUsbWriteLargeMem, Enter, vars
      <4>2. CmdNext => mem' = mem
        BY <2>3
           DEF CmdNext, StartWrite, OpenFail, StartDump, Command, ReadFileFail, NextWrite, Written,
               WriteComplete, NextDump, DumpFail, Dumped, ShortWrite, DumpComplete, CloseLoses,
               AmlUsbWriteLargeMem, AmlUsbReadLargeMem, Enter, vars
      <4> QED  BY <4>1, <4>2 DEF BurnNext
    <3> QED  BY <3>1
  <2> QED  BY <2>1, <2>2, <2>3
<1> QED  BY <1>1, CmdInvariant, PTL DEF BurnSpec, WriteStaysInRange

-----------------------------------------------------------------------------
\* What a command has left to do: its own end, the bytes still to be transferred, the
\* steps of the chunk under way, and what the call of the driver has left.
CmdPhase == CASE cpc = "start" -> 2 [] cpc = "exit" -> 0 [] OTHER -> 1
CmdSpot == CASE cpc = "chunk" -> 2 [] cpc = "driver" -> 1 [] OTHER -> 0

CmdRemaining ==
    <<CmdPhase, transferSize, CmdSpot, Phase, CmdTries - i, remain, ZeroMax + 1 - retry>>

LEMMA LeadFalls ==
    ASSUME NEW p, NEW q, NEW r, NEW p2, NEW q2, NEW r2,
           NEW u, NEW v, NEW w, NEW x, NEW u2, NEW v2, NEW w2, NEW x2,
           \/ p2 < p
           \/ p2 = p /\ q2 < q
           \/ p2 = p /\ q2 = q /\ r2 < r
    PROVE  Below(<<p2, q2, r2, u2, v2, w2, x2>>, <<p, q, r, u, v, w, x>>)
<1> DEFINE l == <<p2, q2, r2, u2, v2, w2, x2>>
           m == <<p, q, r, u, v, w, x>>
<1>1. CASE p2 < p
  <2>1. 1 \in 1 .. Len(m) /\ l[1] < m[1] /\ \A j \in 1 .. 1 - 1 : l[j] = m[j]
    BY <1>1
  <2> QED  BY <2>1 DEF Below
<1>2. CASE p2 = p /\ q2 < q
  <2>1. 2 \in 1 .. Len(m) /\ l[2] < m[2] /\ \A j \in 1 .. 2 - 1 : l[j] = m[j]
    BY <1>2
  <2> QED  BY <2>1 DEF Below
<1>3. CASE p2 = p /\ q2 = q /\ r2 < r
  <2>1. 3 \in 1 .. Len(m) /\ l[3] < m[3] /\ \A j \in 1 .. 3 - 1 : l[j] = m[j]
    BY <1>3
  <2> QED  BY <2>1 DEF Below
<1> QED  BY <1>1, <1>2, <1>3

LEMMA RestFalls ==
    ASSUME NEW p, NEW q, NEW r,
           NEW u, NEW v, NEW w, NEW x, NEW u2, NEW v2, NEW w2, NEW x2,
           \/ u2 < u
           \/ u2 = u /\ v2 < v
           \/ u2 = u /\ v2 = v /\ w2 < w
           \/ u2 = u /\ v2 = v /\ w2 = w /\ x2 < x
    PROVE  Below(<<p, q, r, u2, v2, w2, x2>>, <<p, q, r, u, v, w, x>>)
<1> DEFINE l == <<p, q, r, u2, v2, w2, x2>>
           m == <<p, q, r, u, v, w, x>>
<1>1. CASE u2 < u
  <2>1. 4 \in 1 .. Len(m) /\ l[4] < m[4] /\ \A j \in 1 .. 4 - 1 : l[j] = m[j]
    BY <1>1
  <2> QED  BY <2>1 DEF Below
<1>2. CASE u2 = u /\ v2 < v
  <2>1. 5 \in 1 .. Len(m) /\ l[5] < m[5] /\ \A j \in 1 .. 5 - 1 : l[j] = m[j]
    BY <1>2
  <2> QED  BY <2>1 DEF Below
<1>3. CASE u2 = u /\ v2 = v /\ w2 < w
  <2>1. 6 \in 1 .. Len(m) /\ l[6] < m[6] /\ \A j \in 1 .. 6 - 1 : l[j] = m[j]
    BY <1>3
  <2> QED  BY <2>1 DEF Below
<1>4. CASE u2 = u /\ v2 = v /\ w2 = w /\ x2 < x
  <2>1. 7 \in 1 .. Len(m) /\ l[7] < m[7] /\ \A j \in 1 .. 7 - 1 : l[j] = m[j]
    BY <1>4
  <2> QED  BY <2>1 DEF Below
<1> QED  BY <1>1, <1>2, <1>3, <1>4

\* Each step of a command that is not one of the driver brings its end nearer.
LEMMA CommandFalls ==
    ASSUME CmdInv, BurnNext, ~(Driver /\ UNCHANGED cmdvars)
    PROVE  \/ CmdPhase' < CmdPhase
           \/ CmdPhase' = CmdPhase /\ transferSize' < transferSize
           \/ CmdPhase' = CmdPhase /\ transferSize' = transferSize /\ CmdSpot' < CmdSpot
<1>1. /\ transferSize \in Nat /\ CmdTypeOK /\ PhaseInv /\ WriteInv /\ DumpInv /\ BurnInv
      /\ cpc \in {"start", "chunk", "driver", "frame", "exit"}
  BY MemCmdAssumption DEF CmdInv, CmdTypeOK
<1>2. cpc # "exit" /\ cpc' = "exit" => CmdPhase' < CmdPhase
  BY DEF CmdPhase
<1>3. cpc = "start" /\ cpc' = "chunk" => CmdPhase' < CmdPhase
  BY DEF CmdPhase
<1>4. \/ cpc = "chunk" /\ cpc' = "driver"
      \/ cpc = "driver" /\ cpc' = "frame"
      => CmdPhase' = CmdPhase /\ CmdSpot' < CmdSpot
  BY DEF CmdPhase, CmdSpot
<1>5. cpc \in {"chunk", "driver"} /\ cpc' = "chunk" => CmdPhase' = CmdPhase
  BY DEF CmdPhase
<1>6. CASE \/ \E c \in {"write", "cwr"}, a \in WriteArgs : StartWrite(c, a)
           \/ \E c \in {"dump", "read"}, a \in {y \in ArgSet : y.skip = 0}, o \in BOOLEAN :
                 StartDump(c, a, o)
           \/ \E n \in 0 .. FileLen : BurnOpen(n)
  BY <1>3, <1>6 DEF StartWrite, StartDump, BurnOpen
<1>7. CASE (\E c \in {"write", "cwr"} : OpenFail(c)) \/ BurnOpenFail
  BY <1>2, <1>7 DEF OpenFail, BurnOpenFail, Exit
<1>8. CASE \/ ReadFileFail \/ CwrFail \/ WriteComplete \/ DumpFail \/ DumpComplete
           \/ (\E n \in 0 .. TotalMax : ShortWrite(n)) \/ \E n \in 0 .. Len(out) : CloseLoses(n)
  BY <1>2, <1>8
     DEF ReadFileFail, CwrFail, WriteComplete, DumpFail, DumpComplete, ShortWrite, CloseLoses, Exit
<1>9. CASE AllBurned \/ BurnReadFail \/ WriteFail
  BY <1>2, <1>9 DEF AllBurned, BurnReadFail, WriteFail, Exit
<1>10. CASE NextWrite \/ NextDump \/ NextChunk
  BY <1>4, <1>10 DEF NextWrite, NextDump, NextChunk
<1>11. CASE Written
  <2>1. bulkSize \in 1 .. transferSize
    BY <1>1, <1>11 DEF Written, WriteInv, Sent
  <2> QED  BY <1>1, <1>2, <1>5, <1>11, <2>1 DEF Written, Advance, Exit
<1>12. CASE CwrOk
  <2>1. WriteChunk \in 1 .. transferSize
    BY <1>1, <1>12, SizeAssumption, MemCmdAssumption DEF CwrOk, WriteChunk, aml_min
  <2> QED  BY <1>1, <1>5, <1>12, <2>1 DEF CwrOk, Advance
<1>13. CASE Dumped
  <2>1. bulkSize \in 1 .. transferSize /\ offset = bulkSize
    BY <1>1, <1>13 DEF Dumped, DumpInv, CmdInv, IInv, LoopInv
  <2> QED  BY <1>1, <1>5, <1>13, <2>1 DEF Dumped
<1>14. CASE ChunkWritten
  BY <1>4, <1>14 DEF ChunkWritten
<1>15. CASE \E r \in {0, -2} : Frame(r)
  <2>1. ~FrameTaken
    BY BurnAssumption DEF FrameTaken
  <2>2. cpc = "frame" /\ cpc' = "exit"
    BY <1>15, <2>1 DEF Frame, Exit
  <2> QED  BY <1>2, <2>2
<1> QED
  BY <1>6, <1>7, <1>8, <1>9, <1>10, <1>11, <1>12, <1>13, <1>14, <1>15
     DEF BurnNext, BurnCommand, CmdNext, Command

\* A command comes to its end after finitely many steps, for every size, file and retry
\* limit and whatever its transfers do: each step takes the seven numbers down, in
\* lexicographic order, and none of them below 0 (the chunk loops of
\* update_sub_cmd_read_write and AmlUsbburn over the loops of the driver).
THEOREM CommandProgress ==
    BurnSpec => /\ [](CmdRemaining \in Nat \X Nat \X Nat \X Nat \X Nat \X Nat \X Nat)
                /\ [][Below(CmdRemaining', CmdRemaining)]_burnvars
<1>1. CmdInv => CmdRemaining \in Nat \X Nat \X Nat \X Nat \X Nat \X Nat \X Nat
  <2> SUFFICES ASSUME CmdInv PROVE CmdRemaining \in Nat \X Nat \X Nat \X Nat \X Nat \X Nat \X Nat
    OBVIOUS
  <2>1. CmdPhase \in Nat /\ CmdSpot \in Nat /\ Phase \in Nat
    BY DEF CmdPhase, CmdSpot, Phase
  <2>2. transferSize \in Nat /\ CmdTries - i \in Nat /\ remain \in Nat /\ ZeroMax + 1 - retry \in Nat
    BY SizeAssumption, MemCmdAssumption DEF CmdInv, CmdTypeOK, TypeOK
  <2> QED  BY <2>1, <2>2 DEF CmdRemaining
<1>2. CmdInv /\ [BurnNext]_burnvars => [Below(CmdRemaining', CmdRemaining)]_burnvars
  <2> SUFFICES ASSUME CmdInv, BurnNext PROVE Below(CmdRemaining', CmdRemaining)
    OBVIOUS
  <2>1. CASE Driver /\ UNCHANGED cmdvars
    <3>1. CmdPhase' = CmdPhase /\ transferSize' = transferSize /\ CmdSpot' = CmdSpot
      BY <2>1 DEF cmdvars, CmdPhase, CmdSpot
    <3> QED  BY <2>1, <3>1, DriverFalls, RestFalls DEF CmdRemaining, CmdInv
  <2>2. CASE ~(Driver /\ UNCHANGED cmdvars)
    BY <2>2, CommandFalls, LeadFalls DEF CmdRemaining
  <2> QED  BY <2>1, <2>2
<1> QED  BY <1>1, <1>2, CmdInvariant, PTL DEF BurnSpec

=============================================================================
