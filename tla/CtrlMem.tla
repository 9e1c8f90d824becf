------------------------------ MODULE CtrlMem ------------------------------
(***************************************************************************)
(* Device memory over the control endpoint, at most 64 bytes in a          *)
(* transfer.  rreg (update_sub_cmd_run_and_rreg, update.cpp) dumps a range *)
(* with one call of Aml_Libusb_Ctrl_RdWr (AmlLibusb.cpp) for each 1 MiB,   *)
(* wreg writes one register with a single call; AmlUsbReadMemCtr and       *)
(* AmlUsbWriteMemCtr (UsbRomDrv.cpp) are the same loop over packets with   *)
(* another way to report its end.  A read may end early (a short data      *)
(* stage is no error on USB) and either direction may fail part way.       *)
(***************************************************************************)
EXTENDS CtrlCmd

CONSTANTS Byte,        \* the values of a byte of device memory
          Junk,        \* a byte of a fresh buffer: new char[] sets none
          MemSize,     \* the device memory is 0 .. MemSize - 1
          PacketMax,   \* 64, the longest control transfer
          BulkMax,     \* 0x100000, the buffer of rreg
          RegLen,      \* 4, the length of a register
          Ranges,      \* the ranges a user asks for
          Memories,    \* what may be in device memory
          Inputs       \* what may be written to it

ASSUME CtrlAssumption ==
    /\ Junk \notin Byte
    /\ MemSize \in Nat /\ PacketMax \in Nat \ {0} /\ BulkMax \in Nat \ {0}
    /\ RegLen \in 0 .. BulkMax
    /\ Ranges \subseteq [addr : 0 .. MemSize, size : 0 .. MemSize]
    /\ \A r \in Ranges : r.addr + r.size <= MemSize
    /\ Memories # {} /\ Memories \subseteq [0 .. MemSize - 1 -> Byte]
    /\ Inputs \subseteq [0 .. BulkMax - 1 -> Byte]

MemCmds == {"rreg", "wreg", "ReadMemCtr", "WriteMemCtr"}
Reading == {"rreg", "ReadMemCtr"}
Addr == 0 .. MemSize - 1
Index == 0 .. BulkMax - 1

VARIABLES
    mem,         \* device: the memory
    range,       \* what it was asked for: addr and size
    saving,      \* rreg writes to a file, rather than to the terminal
    buffer,      \* the buffer of the caller
    out,         \* bytes of the file
    offset,      \* bytes of the calls that have returned
    bulkSize,    \* length of the call under way
    processed,   \* bytes of the call that count as moved
    failed,      \* its last control transfer failed
    moved,       \* *pDataSize of AmlUsbReadMemCtr
    unseen       \* history: mishaps the code has not looked at

memvars == <<mem, cmd, range, saving, buffer, out, pc, offset, bulkSize, processed,
          failed, moved, ret, unseen>>

MemInit ==
    /\ mem \in Memories
    /\ cmd \in MemCmds
    /\ range = [addr |-> 0, size |-> 0] /\ saving = FALSE
    /\ buffer = [k \in Index |-> Junk]
    /\ out = <<>>
    /\ pc = "start"
    /\ offset = 0 /\ bulkSize = 0 /\ processed = 0 /\ failed = FALSE /\ moved = 0
    /\ ret = 1
    /\ unseen = {}

\* Entry of Aml_Libusb_Ctrl_RdWr and of the two Ctr functions.
CallStale(n) ==
    /\ bulkSize' = n
    /\ failed' = FALSE
    /\ pc' = "packet"
    /\ UNCHANGED processed

Call(n) ==
    /\ bulkSize' = n
    /\ processed' = 0
    /\ failed' = FALSE
    /\ pc' = "packet"

-----------------------------------------------------------------------------
\* The file of rreg is optional, and one that cannot be opened counts as not given.
StartRreg(a, opened) ==
    /\ pc = "start"
    /\ cmd = "rreg" /\ range' = a /\ saving' = opened
    /\ pc' = "bulk"
    /\ UNCHANGED <<mem, cmd, buffer, out, offset, bulkSize, processed, failed, moved, ret, unseen>>

\* The others fill their buffer, if they write, and make one call.
StartCall(a, b) ==
    /\ pc = "start"
    /\ cmd \in MemCmds \ {"rreg"}
    /\ cmd = "wreg" => a.size = RegLen
    /\ a.size <= BulkMax
    /\ range' = a
    /\ buffer' = IF cmd \in Reading THEN buffer ELSE b
    /\ Call(a.size)
    /\ UNCHANGED <<mem, cmd, saving, out, offset, moved, ret, unseen>>

\* The loop of rreg over pieces of 1 MiB.
NextBulk ==
    /\ pc = "bulk" /\ offset < range.size
    /\ Call(aml_min(range.size - offset, BulkMax))
    /\ UNCHANGED <<mem, cmd, range, saving, buffer, out, offset, moved, ret, unseen>>

-----------------------------------------------------------------------------
\* The next control transfer asks for this many bytes at this address.
PacketFull == PacketMax

Packet == aml_min(bulkSize - processed, PacketMax)

PacketAddr == range.addr + offset + processed

\* n bytes pass the control endpoint.
MoveToStart(n) ==
    IF cmd \in Reading
    THEN /\ buffer' = [k \in Index |-> IF k < n THEN mem[PacketAddr + k] ELSE buffer[k]]
         /\ UNCHANGED mem
    ELSE /\ mem' = [a \in Addr |-> IF a \in PacketAddr .. PacketAddr + n - 1
                                   THEN buffer[a - PacketAddr] ELSE mem[a]]
         /\ UNCHANGED buffer

Move(n) ==
    IF cmd \in Reading
    THEN /\ buffer' = [k \in Index |-> IF k \in processed .. processed + n - 1
                                       THEN mem[PacketAddr + (k - processed)] ELSE buffer[k]]
         /\ UNCHANGED mem
    ELSE /\ mem' = [a \in Addr |-> IF a \in PacketAddr .. PacketAddr + n - 1
                                   THEN buffer[processed + (a - PacketAddr)] ELSE mem[a]]
         /\ UNCHANGED buffer

\* Any result that is not negative counts for the whole packet.
PacketOk(n) ==
    /\ pc = "packet" /\ processed < bulkSize
    /\ cmd \notin Reading => n = Packet
    /\ Move(n)
    /\ processed' = processed + Packet
    /\ unseen' = IF n < Packet THEN unseen \cup {"short"} ELSE unseen
    /\ UNCHANGED <<cmd, range, saving, out, pc, offset, bulkSize, failed, moved, ret>>

\* A negative result ends the call, whatever was moved; without BUGFIX it did not
\* in Aml_Libusb_Ctrl_RdWr.
PacketFailSkipped(n) ==
    /\ pc = "packet" /\ processed < bulkSize
    /\ Move(n)
    /\ failed' = TRUE
    /\ processed' = processed + Packet
    /\ UNCHANGED <<cmd, range, saving, out, pc, offset, bulkSize, moved, ret, unseen>>

PacketFailForever(n) ==
    /\ pc = "packet" /\ processed < bulkSize
    /\ Move(n)
    /\ failed' = ~failed
    /\ UNCHANGED <<cmd, range, saving, out, pc, offset, bulkSize, processed, moved, ret,
                   unseen>>

PacketFail(n) ==
    /\ pc = "packet" /\ processed < bulkSize
    /\ Move(n)
    /\ failed' = TRUE
    /\ pc' = "return"
    /\ UNCHANGED <<cmd, range, saving, out, offset, bulkSize, processed, moved, ret, unseen>>

CallDone ==
    /\ pc = "packet" /\ processed = bulkSize
    /\ pc' = "return"
    /\ UNCHANGED <<mem, cmd, range, saving, buffer, out, offset, bulkSize, processed, failed,
                   moved, ret, unseen>>

-----------------------------------------------------------------------------
\* rreg has got its piece: n bytes of it reach the file, all of them unless fwrite
\* fails, whose result is not looked at.
Saved(n) ==
    /\ pc = "return" /\ cmd = "rreg" /\ ~failed
    /\ n = bulkSize \/ saving
    /\ out' = IF saving THEN out \o [k \in 1 .. n |-> buffer[k - 1]] ELSE out
    /\ unseen' = IF n < bulkSize THEN unseen \cup {"fwrite"} ELSE unseen
    /\ offset' = offset + bulkSize
    /\ pc' = "bulk"
    /\ UNCHANGED <<mem, cmd, range, saving, buffer, bulkSize, processed, failed, moved, ret>>

RregFail ==
    /\ pc = "return" /\ cmd = "rreg" /\ failed
    /\ Exit(-646)
    /\ UNCHANGED <<mem, cmd, range, saving, buffer, out, offset, bulkSize, processed, failed,
                   moved, unseen>>

RregDone ==
    /\ pc = "bulk" /\ offset >= range.size
    /\ Exit(0)
    /\ UNCHANGED <<mem, cmd, range, saving, buffer, out, offset, bulkSize, processed, failed,
                   moved, unseen>>

\* The other three end with their only call.  AmlUsbReadMemCtr reports what counts as
\* read; AmlUsbWriteMemCtr alone returns 1 for success.
Result ==
    CASE cmd = "wreg" -> IF failed THEN -646 ELSE 0
      [] cmd = "ReadMemCtr" -> IF processed = bulkSize THEN 0 ELSE -1
      [] cmd = "WriteMemCtr" -> IF processed = bulkSize THEN 1 ELSE 0

CallReturnsRest ==
    /\ pc = "return" /\ cmd # "rreg"
    /\ moved' = IF cmd = "ReadMemCtr" THEN bulkSize - processed ELSE moved
    /\ Exit(Result)
    /\ UNCHANGED <<mem, cmd, range, saving, buffer, out, offset, bulkSize, processed, failed,
                   unseen>>

CallReturns ==
    /\ pc = "return" /\ cmd # "rreg"
    /\ moved' = IF cmd = "ReadMemCtr" THEN processed ELSE moved
    /\ Exit(Result)
    /\ UNCHANGED <<mem, cmd, range, saving, buffer, out, offset, bulkSize, processed, failed,
                   unseen>>

-----------------------------------------------------------------------------
Program ==
    \/ NextBulk
    \/ \E n \in 0 .. Packet : PacketOk(n) \/ PacketFail(n)
    \/ CallDone
    \/ \E n \in 0 .. bulkSize : Saved(n)
    \/ RregFail \/ RregDone \/ CallReturns

MemNext ==
    \/ \E a \in Ranges, o \in BOOLEAN : StartRreg(a, o)
    \/ \E a \in Ranges, b \in Inputs : StartCall(a, b)
    \/ Program

-----------------------------------------------------------------------------
\* The values of the variables; a call never counts more than its length.
MemTypeOK ==
    /\ mem \in [Addr -> Byte]
    /\ range \in Ranges \cup {[addr |-> 0, size |-> 0]} /\ saving \in BOOLEAN
    /\ buffer \in [Index -> Byte \cup {Junk}]
    /\ out \in Seq(Byte \cup {Junk})
    /\ cmd \in MemCmds => /\ pc \in {"start", "bulk", "packet", "return", "exit"}
                          /\ ret \in {1, 0, -1, -646}
    /\ offset \in 0 .. range.size
    /\ bulkSize \in 0 .. BulkMax /\ processed \in 0 .. bulkSize
    /\ failed \in BOOLEAN /\ moved \in 0 .. BulkMax
    /\ unseen \subseteq {"short", "fwrite"}

Succeeded ==
    pc = "exit" /\ cmd \in MemCmds /\ ret = (IF cmd = "WriteMemCtr" THEN 1 ELSE 0)

\* The range that was asked for, on the side it was to be copied to, is the same
\* as on the other: what every one of the four operations is for.
Copied ==
    CASE cmd = "rreg" -> saving => /\ Len(out) = range.size
                                   /\ \A k \in 1 .. range.size : out[k] = mem[range.addr + k - 1]
      [] OTHER -> \A k \in 0 .. range.size - 1 : buffer[k] = mem[range.addr + k]

\* Bytes that AmlUsbReadMemCtr does not count as read were not read: the buffer
\* beyond *pDataSize holds at most the part of one failed packet.
CountCoversRead ==
    pc = "exit" /\ cmd = "ReadMemCtr" =>
        \A k \in Index : k >= moved + PacketMax => buffer[k] = Junk

\* Success is told from failure on every path: an operation that reports success
\* has copied its range, over any number of pieces and packets, unless a read
\* came up short or fwrite failed, which the code does not look at.  One that
\* fails counts what it did copy.
SuccessMeansCopied == (Succeeded /\ unseen = {} => Copied) /\ CountCoversRead

\* What a short packet leaves in the file is never a byte of another range: it is
\* the byte of its place, one that an earlier piece left at the same offset of the
\* buffer, or one the fresh buffer held.
FileByteOrigin ==
    "fwrite" \notin unseen =>
        \A k \in 1 .. Len(out) :
            \/ out[k] = Junk
            \/ \E j \in 0 .. k - 1 : /\ (k - 1 - j) % BulkMax = 0
                                     /\ out[k] = mem[range.addr + j]

\* A reading operation changes no memory and a writing one only its range, also
\* when a packet fails.
WritesInRange ==
    [][\A a \in Addr : mem'[a] # mem[a] =>
          cmd \notin Reading /\ a \in range.addr .. range.addr + range.size - 1]_memvars

=============================================================================
