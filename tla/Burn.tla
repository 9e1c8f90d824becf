-------------------------------- MODULE Burn --------------------------------
(***************************************************************************)
(* The command burn, beside those of MemCmd: AmlUsbburn (UsbRomDrv.cpp)    *)
(* writes a file to device memory chunk by chunk, and after each chunk     *)
(* AmlUsbBurnWrite tells the board to burn it with a frame of 88 bytes.    *)
(* The frame goes through AmlUsbTplCmd, whose handler (AmlLibusb.cpp)      *)
(* takes frames of 68 bytes only, so the command ends after the first      *)
(* chunk has been written to memory and before anything is burned.         *)
(***************************************************************************)
EXTENDS MemCmd

CONSTANTS ChunkMax,   \* 0x2000, bulkSize of the caller
          Base,       \* 0x49000000, where the first chunk goes
          FrameLen,   \* 88, the frame of AmlUsbBurnWrite
          TplLen      \* 68, the frame the handler takes

ASSUME BurnAssumption ==
    /\ ChunkMax \in Nat \ {0} /\ Base \in Nat
    /\ ChunkMax <= CallMax /\ Base + FileLen <= MemSize
    /\ FrameLen \in Nat /\ TplLen \in Nat /\ FrameLen # TplLen

VARIABLES
    frames      \* device: frames it has received

\* Of the variables of MemCmd, transferSize is fileSize, nBytes is offset (the bytes
\* that count as burned) and bulkSize the length of the chunk under way.
burnvars == <<allvars, frames>>

BurnInit == CmdInit /\ frames = 0

\* -25: the file cannot be opened.
BurnOpenFail ==
    /\ cpc = "start"
    /\ cmd' = "burn"
    /\ Exit(-25)
    /\ UNCHANGED <<vars, file, out, dumpStream, args, transferSize, address, fpos, nBytes,
                   bulkSize, frames>>

\* The file has n bytes, the first n of the model's.
BurnOpen(n) ==
    /\ cpc = "start"
    /\ cmd' = "burn"
    /\ args' = [addr |-> Base, size |-> n, skip |-> 0]
    /\ transferSize' = n
    /\ address' = Base
    /\ cpc' = "chunk"
    /\ UNCHANGED <<vars, file, out, dumpStream, fpos, nBytes, bulkSize, cret, frames>>

\* The loop ends when nothing is left; the result is the number of bytes burned.
AllBurned ==
    /\ cmd = "burn" /\ cpc = "chunk" /\ transferSize = 0
    /\ Exit(nBytes)
    /\ UNCHANGED <<vars, cmd, file, out, dumpStream, args, transferSize, address, fpos, nBytes,
                   bulkSize, frames>>

\* -16
BurnReadFail ==
    /\ cmd = "burn" /\ cpc = "chunk" /\ transferSize # 0
    /\ Exit(-16)
    /\ UNCHANGED <<vars, cmd, file, out, dumpStream, args, transferSize, address, fpos, nBytes,
                   bulkSize, frames>>

\* The next chunk is read at the file position nBytes and written to memory.
NextChunk ==
    /\ cmd = "burn" /\ cpc = "chunk" /\ transferSize # 0
    /\ bulkSize' = aml_min(transferSize, ChunkMax)
    /\ AmlUsbWriteLargeMem([dir |-> "write", address |-> address, len |-> bulkSize'],
                           [k \in Index |-> IF k < bulkSize' THEN file[nBytes + k]
                                                             ELSE buffer[k]])
    /\ cpc' = "driver"
    /\ UNCHANGED <<cmd, file, out, dumpStream, args, transferSize, address, fpos, nBytes, cret,
                   frames>>

WriteFail ==
    /\ cmd = "burn" /\ cpc = "driver" /\ pc = "done" /\ ret # 0
    /\ Exit(ret)
    /\ UNCHANGED <<vars, cmd, file, out, dumpStream, args, transferSize, address, fpos, nBytes,
                   bulkSize, frames>>

\* A written chunk whose result is not looked at.
ChunkWrittenUnchecked ==
    /\ cmd = "burn" /\ cpc = "driver" /\ pc = "done"
    /\ cpc' = "frame"
    /\ UNCHANGED <<vars, cmd, file, out, dumpStream, args, transferSize, address, fpos, nBytes,
                   bulkSize, cret, frames>>

ChunkWritten ==
    /\ cmd = "burn" /\ cpc = "driver" /\ pc = "done" /\ ret = 0
    /\ cpc' = "frame"
    /\ UNCHANGED <<vars, cmd, file, out, dumpStream, args, transferSize, address, fpos, nBytes,
                   bulkSize, cret, frames>>

\* AmlUsbTplCmd: the handler refuses a frame of another length before it makes
\* a transfer, which otherwise succeeds or fails.
FrameTakenAtLeast == FrameLen >= TplLen

FrameTaken == FrameLen = TplLen

FrameUncheckedWhole(r) ==
    /\ cmd = "burn" /\ cpc = "frame" /\ r = -2
    /\ transferSize' = transferSize - bulkSize
    /\ address' = address + ChunkMax
    /\ nBytes' = nBytes + bulkSize
    /\ cpc' = "chunk"
    /\ UNCHANGED <<vars, cmd, file, out, dumpStream, args, fpos, bulkSize, cret, frames>>

Frame(r) ==
    /\ cmd = "burn" /\ cpc = "frame"
    /\ r = -2 \/ FrameTaken
    /\ frames' = IF FrameTaken THEN frames + 1 ELSE frames
    /\ IF r = 0
       THEN Advance(offset) /\ cpc' = "chunk" /\ UNCHANGED cret
       ELSE Exit(r) /\ UNCHANGED <<transferSize, address, nBytes>>
    /\ UNCHANGED <<vars, cmd, file, out, dumpStream, args, fpos, bulkSize>>

-----------------------------------------------------------------------------
BurnCommand ==
    \/ BurnOpenFail \/ (\E n \in 0 .. FileLen : BurnOpen(n)) \/ AllBurned \/ BurnReadFail \/ NextChunk
    \/ WriteFail \/ ChunkWritten \/ (\E r \in {0, -2} : Frame(r))

\* The program runs one command: write, cwr, dump, read or burn.
BurnNext ==
    \/ CmdNext /\ UNCHANGED frames
    \/ BurnCommand

BurnSpec == BurnInit /\ [][BurnNext]_burnvars

\* The program is sequential and its transfers have timeouts.
BurnFairSpec == BurnSpec /\ WF_burnvars(BurnNext)

-----------------------------------------------------------------------------
\* burn writes to memory at most the first chunk, and of it what the file holds; no
\* frame reaches the board, and only an empty file makes it return a number that is
\* not negative.  -2 says that the frame was not sent, and not that nothing was
\* written: the whole first chunk is in memory then.
BurnStopsAtFrame ==
    cmd = "burn" =>
        /\ frames = 0 /\ nBytes = 0
        /\ cpc = "exit" /\ cret >= 0 => args.size = 0
        /\ cpc \in {"driver", "frame"} =>
              address = Base /\ bulkSize = aml_min(args.size, ChunkMax)
        /\ cpc = "exit" /\ cret = -2 =>
              \A k \in 0 .. aml_min(args.size, ChunkMax) - 1 : mem[Base + k] = file[k]

\* The memory a command may change: a write none before what it counts as written,
\* burn the first chunk, dump and read none.
Writable ==
    CASE cmd \in {"write", "cwr"} -> args.addr + nBytes .. args.addr + WriteSize(args) - 1
      [] cmd = "burn" -> Base .. Base + ChunkMax - 1
      [] OTHER -> {}

\* A failed write leaves what it counted in place, and no command touches anything
\* outside its range, whatever fails or is retried.
WriteStaysInRange == [][\A a \in Addr : mem'[a] # mem[a] => a \in Writable]_burnvars

=============================================================================
