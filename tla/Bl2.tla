-------------------------------- MODULE Bl2 --------------------------------
(***************************************************************************)
(* bl2_boot and bl2_test (AmlLibusb.cpp): the second boot stage asks for   *)
(* ranges of the FIP image with command blocks (CBW), the host answers     *)
(* each with a status word (CSW), sends the range in chunks of 64 KiB,     *)
(* each announced with CMD4 and answered by a CSW, and closes with a       *)
(* block that carries the checksum.  bl2_boot serves requests until the    *)
(* stage reports its end or an error, bl2_test serves one.  A byte of the  *)
(* image is its position, so that every misplaced byte shows.              *)
(***************************************************************************)
EXTENDS Integers, Sequences

CONSTANTS FileLen,      \* the length of the image
          ChunkMax,     \* 0x10000
          Sector,       \* 512, the unit of the offset in CMD4
          ValueWord,    \* 2^16, wValue wraps here
          RequestMax,   \* the longest range the stage asks for
          MaxRequests   \* bound of the model: requests in one run

ASSUME Bl2Assumption ==
    /\ FileLen \in Nat /\ ChunkMax \in Nat \ {0} /\ Sector \in Nat \ {0}
    /\ ValueWord \in Nat \ {0} /\ RequestMax \in Nat \ {0} /\ MaxRequests \in Nat
    /\ ChunkMax % Sector = 0

\* A FIP image is far below the 32 MiB at which the offset in CMD4 wraps.
ASSUME FipAssumption == RequestMax <= ValueWord * Sector

VARIABLES
    mode,         \* "boot" or "test"
    pc,           \* the next step of the host
    cmd,          \* the last CBW: "download", "unsupported", "end" or "error"
    req,          \* its parameters: offset, dataSize, doCksum
    dataOffset,   \* offset of the chunk within the range
    fpos,         \* the position of the image file
    buf,          \* the chunk in the buffer
    cksum,        \* the bytes summed so far
    announced,    \* device: place and length of the last CMD4
    stored,       \* device: the range as received, -1 where nothing was
    requests,     \* CBWs of the run
    ret           \* what the command returns, 1 before

vars == <<mode, pc, cmd, req, dataOffset, fpos, buf, cksum, announced, stored, requests, ret>>

Place == 0 .. RequestMax - 1
NoReq == [offset |-> 0, dataSize |-> 0, doCksum |-> FALSE]
Empty == [k \in Place |-> -1]

Init ==
    /\ mode \in {"boot", "test"}
    /\ pc = "open"
    /\ cmd = "none"
    /\ req = NoReq
    /\ dataOffset = 0 /\ fpos = 0 /\ buf = <<>> /\ cksum = <<>>
    /\ announced = [at |-> 0, len |-> 0]
    /\ stored = Empty
    /\ requests = 0
    /\ ret = 1

\* The end label: bl2_boot has one code for each function that failed.
Exit(bootCode, testCode) ==
    /\ ret' = IF mode = "boot" THEN bootCode ELSE testCode
    /\ pc' = "exit"

hostdata == <<mode, cmd, req, dataOffset, fpos, buf, cksum>>
device == <<announced, stored, requests>>

Open ==
    /\ pc = "open"
    /\ \/ pc' = "start" /\ UNCHANGED ret
       \/ Exit(-1165, -874)
    /\ UNCHANGED <<hostdata, device>>

-----------------------------------------------------------------------------
\* _Aml_Libusb_bl2_cmd_parser: ask for a command block...
Start ==
    /\ pc = "start"
    /\ \/ pc' = "cbw" /\ UNCHANGED ret
       \/ Exit(-1173, -885)
    /\ UNCHANGED <<hostdata, device>>

\* ... and read it: bl2_boot looks at the parameters of a download only.  A new
\* request starts a new range on the device.
Cbw(c, r) ==
    /\ pc = "cbw"
    /\ requests < MaxRequests
    /\ cmd' = c
    /\ req' = IF c = "download" \/ mode = "test" THEN r ELSE NoReq
    /\ stored' = Empty
    /\ requests' = requests + 1
    /\ IF mode = "test" /\ c \in {"end", "error"}
       THEN Exit(0, -904)
       ELSE pc' = "ack" /\ UNCHANGED ret
    /\ UNCHANGED <<mode, dataOffset, fpos, buf, cksum, announced>>

CbwFail ==
    /\ pc = "cbw"
    /\ Exit(-1173, -896)
    /\ UNCHANGED <<hostdata, device>>

\* The CSW that answers the block, OKAY or FAIL, then what the command means: a
\* download starts at the offset asked for, an end or an error leaves the loop
\* with 0, and an unsupported command leaves ret as the parser set it, also 0.
Ack ==
    /\ pc = "ack"
    /\ IF cmd = "download" \/ mode = "test"
       THEN /\ pc' = "cmd4"
            /\ dataOffset' = 0 /\ fpos' = req.offset /\ cksum' = <<>>
            /\ UNCHANGED ret
       ELSE Exit(0, 0) /\ UNCHANGED <<dataOffset, fpos, cksum>>
    /\ UNCHANGED <<mode, cmd, req, buf, device>>

AckFail ==
    /\ pc = "ack"
    /\ Exit(-1173, -911)
    /\ UNCHANGED <<hostdata, device>>

-----------------------------------------------------------------------------
\* _Aml_Libusb_bl2_secure_download: the next chunk, 0 after the last.
BulkSize ==
    IF req.dataSize - dataOffset < ChunkMax THEN req.dataSize - dataOffset ELSE ChunkMax

MoreChunksInclusive == dataOffset <= req.dataSize

MoreChunks == dataOffset < req.dataSize

\* Each chunk is announced: wValue counts sectors, wIndex is the length less one.
CmdFourUnscaled ==
    /\ pc = "cmd4" /\ MoreChunks
    /\ announced' = [at |-> ((req.offset \div Sector) % ValueWord) * Sector, len |-> BulkSize]
    /\ pc' = "fread"
    /\ UNCHANGED <<hostdata, stored, requests, ret>>

CmdFour ==
    /\ pc = "cmd4" /\ MoreChunks
    /\ announced' = [at |-> ((dataOffset \div Sector) % ValueWord) * Sector, len |-> BulkSize]
    /\ pc' = "fread"
    /\ UNCHANGED <<hostdata, stored, requests, ret>>

CmdFourFail ==
    /\ pc = "cmd4" /\ MoreChunks
    /\ Exit(-1188, -926)
    /\ UNCHANGED <<hostdata, device>>

\* The file position is set once for the range; fread advances it.
FreadUnchecked ==
    /\ pc = "fread"
    /\ buf' = [k \in 1 .. BulkSize |-> fpos + k - 1]
    /\ fpos' = fpos + BulkSize
    /\ pc' = "data"
    /\ UNCHANGED <<mode, cmd, req, dataOffset, cksum, device, ret>>

Fread ==
    /\ pc = "fread"
    /\ fpos + BulkSize <= FileLen
    /\ buf' = [k \in 1 .. BulkSize |-> fpos + k - 1]
    /\ fpos' = fpos + BulkSize
    /\ pc' = "data"
    /\ UNCHANGED <<mode, cmd, req, dataOffset, cksum, device, ret>>

FreadFail ==
    /\ pc = "fread"
    /\ Exit(-1188, -932)
    /\ UNCHANGED <<hostdata, device>>

\* The first n bytes of the buffer arrive where CMD4 said.
Store(n) ==
    stored' = [k \in Place |-> IF k \in announced.at .. announced.at + n - 1
                               THEN buf[k - announced.at + 1] ELSE stored[k]]

Data ==
    /\ pc = "data"
    /\ Store(Len(buf))
    /\ pc' = "csw"
    /\ UNCHANGED <<hostdata, announced, requests, ret>>

\* An error or a short transfer.
DataFail ==
    /\ pc = "data"
    /\ \E n \in 0 .. Len(buf) : Store(n)
    /\ Exit(-1188, -938)
    /\ UNCHANGED <<hostdata, announced, requests>>

\* The CSW of the chunk is OKAY: sum it and go on.
CswSumsEarly ==
    /\ pc = "csw"
    /\ cksum' = buf
    /\ dataOffset' = dataOffset + ChunkMax
    /\ pc' = "cmd4"
    /\ UNCHANGED <<mode, cmd, req, fpos, buf, device, ret>>

Csw ==
    /\ pc = "csw"
    /\ cksum' = IF req.doCksum \/ mode = "test" THEN cksum \o buf ELSE cksum
    /\ dataOffset' = dataOffset + ChunkMax
    /\ pc' = "cmd4"
    /\ UNCHANGED <<mode, cmd, req, fpos, buf, device, ret>>

\* It is FAIL, short, or does not come.
CswFailRetried ==
    /\ pc = "csw"
    /\ pc' = "data"
    /\ UNCHANGED <<hostdata, device, ret>>

CswFail ==
    /\ pc = "csw"
    /\ Exit(-1188, -946)
    /\ UNCHANGED <<hostdata, device>>

-----------------------------------------------------------------------------
\* After the last chunk CMD4 and a block with the checksum...
Sum ==
    /\ pc = "cmd4" /\ ~MoreChunks
    /\ \/ pc' = "verdict" /\ UNCHANGED ret
       \/ \E code \in {-959, -969} : Exit(-1188, code)
    /\ UNCHANGED <<hostdata, device>>

\* ... and a CSW that is printed and not acted on.
Verdict ==
    /\ pc = "verdict"
    /\ IF mode = "boot" THEN pc' = "start" /\ UNCHANGED ret ELSE Exit(0, 0)
    /\ UNCHANGED <<hostdata, device>>

-----------------------------------------------------------------------------
Reqs == [offset : 0 .. FileLen, dataSize : 0 .. RequestMax, doCksum : BOOLEAN]

Cmds == {"download", "unsupported", "end", "error"}

Download ==
    \/ CmdFour \/ CmdFourFail \/ Fread \/ FreadFail \/ Data \/ DataFail \/ Csw \/ CswFail
    \/ Sum \/ Verdict

Next ==
    \/ Open \/ Start
    \/ \E c \in Cmds, r \in Reqs : Cbw(c, r)
    \/ CbwFail \/ Ack \/ AckFail
    \/ Download

Spec == Init /\ [][Next]_vars

\* The transfers of a download have timeouts.
FairSpec == Spec /\ WF_vars(Download)

-----------------------------------------------------------------------------
\* The values of the variables: no position beyond the file or the range.
TypeOK ==
    /\ mode \in {"boot", "test"}
    /\ pc \in {"open", "start", "cbw", "ack", "cmd4", "fread", "data", "csw", "verdict", "exit"}
    /\ cmd \in Cmds \cup {"none"}
    /\ req \in Reqs
    /\ dataOffset \in 0 .. RequestMax + ChunkMax - 1
    /\ fpos \in 0 .. FileLen
    /\ buf \in Seq(0 .. FileLen - 1) /\ Len(buf) <= ChunkMax
    /\ cksum \in Seq(0 .. FileLen - 1) /\ Len(cksum) <= RequestMax
    /\ announced \in [at : Place, len : 0 .. ChunkMax]
    /\ stored \in [Place -> -1 .. FileLen - 1]
    /\ requests \in 0 .. MaxRequests
    /\ ret \in {1, 0, -1165, -1173, -1188, -874, -885, -896, -904, -911, -926, -932, -938,
                -946, -959, -969}

Requested == [k \in Place |-> IF k < req.dataSize THEN req.offset + k ELSE -1]

\* When the checksum block is sent the stage holds exactly the range it asked
\* for, every byte in its place: chunk by chunk with a file position that only
\* fread moves, a last chunk that may be short, and an offset in sectors.  The
\* checksum in that block, whenever one is asked for, covers each of these bytes
\* once and in order.  On the way the stage never receives more bytes, or fewer,
\* than CMD4 announced, also when the file is shorter than the range.
DeliveredAsRequested ==
    /\ pc = "csw" => announced.len = Len(buf) /\ Len(buf) > 0
    /\ pc = "verdict" => stored = Requested
    /\ pc = "verdict" /\ (req.doCksum \/ mode = "test") =>
          cksum = [k \in 1 .. req.dataSize |-> stored[k - 1]]

\* A download that was acknowledged comes to its end.
DownloadEnds == (pc = "cmd4") ~> (pc \in {"start", "exit"})

\* "boot fip format u-boot.bin": 0 means that the stage reported its end.
BootZeroMeansEnd == pc = "exit" /\ mode = "boot" /\ ret = 0 => cmd = "end"

=============================================================================
