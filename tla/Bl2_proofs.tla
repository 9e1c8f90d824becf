----------------------------- MODULE Bl2_proofs -----------------------------
(***************************************************************************)
(* Proofs about Bl2 for every image, chunk size, sector and range, and     *)
(* about the sums of Checksum for every buffer.                            *)
(***************************************************************************)
EXTENDS Bl2, Checksum, Progress, SequenceTheorems, TLAPS

\* Bytes of the range that have arrived when the loop is at dataOffset.
Done == IF dataOffset < req.dataSize THEN dataOffset ELSE req.dataSize

\* The stage holds the first n bytes of its range, each in its place, and nothing else.
Holds(n) == \A k \in Place : stored[k] = IF k < n THEN req.offset + k ELSE -1

\* The checksum, when one is asked for, covers the first n bytes in order.
Summed(n) ==
    req.doCksum \/ mode = "test" =>
        Len(cksum) = n /\ \A k \in 1 .. n : cksum[k] = req.offset + k - 1

\* The buffer is the chunk at dataOffset and CMD4 has announced it.
ChunkReady ==
    /\ Len(buf) = BulkSize
    /\ \A k \in 1 .. BulkSize : buf[k] = req.offset + dataOffset + k - 1
    /\ fpos = req.offset + dataOffset + BulkSize

\* At each point of the download.
DownloadInv ==
    /\ dataOffset % Sector = 0
    /\ pc = "ack" => Holds(0)
    /\ pc = "cmd4" => /\ fpos = req.offset + Done
                      /\ Holds(Done) /\ Summed(Done)
    /\ pc \in {"fread", "data", "csw"} =>
          /\ MoreChunks /\ Summed(dataOffset)
          /\ announced = [at |-> dataOffset, len |-> BulkSize]
    /\ pc = "fread" => fpos = req.offset + dataOffset
    /\ pc \in {"fread", "data"} => Holds(dataOffset)
    /\ pc \in {"data", "csw"} => ChunkReady
    /\ pc = "csw" => Holds(dataOffset + BulkSize)
    /\ pc = "verdict" => Holds(req.dataSize) /\ Summed(req.dataSize)

Codes ==
    {1, 0, -1165, -1173, -1188, -874, -885, -896, -904, -911, -926, -932, -938, -946, -959, -969}

\* The inductive invariant.
IInv == TypeOK /\ DownloadInv

-----------------------------------------------------------------------------
\* Offsets in sectors.

LEMMA Division ==
    \A a \in Nat, s \in Nat \ {0} :
        a \div s \in Nat /\ a = (a \div s) * s + (a % s) /\ a % s \in 0 .. s - 1
OBVIOUS

\* A multiple leaves no remainder.
LEMMA Multiple ==
    ASSUME NEW q \in Nat, NEW p \in Nat, NEW s \in Nat \ {0}, NEW r \in 0 .. s - 1,
           q * s + r = p * s
    PROVE  r = 0
<1>1. CASE q >= p + 1
  <2>1. q * s >= (p + 1) * s
    BY <1>1
  <2>2. (p + 1) * s = p * s + s
    OBVIOUS
  <2> QED  BY <2>1, <2>2
<1>2. CASE p >= q + 1
  <2>1. p * s >= (q + 1) * s
    BY <1>2
  <2>2. (q + 1) * s = q * s + s
    OBVIOUS
  <2> QED  BY <2>1, <2>2
<1>3. CASE q = p
  BY <1>3
<1> QED  BY <1>1, <1>2, <1>3

\* A chunk is a whole number of sectors, so the offset stays one.
LEMMA NextOffset ==
    ASSUME NEW d \in Nat, d % Sector = 0
    PROVE  (d + ChunkMax) % Sector = 0
<1>1. Sector \in Nat \ {0} /\ ChunkMax \in Nat /\ ChunkMax % Sector = 0
  BY Bl2Assumption
<1>2. PICK q \in Nat : d = q * Sector
  <2>1. d \div Sector \in Nat /\ d = (d \div Sector) * Sector
    BY <1>1, Division
  <2> QED  BY <2>1
<1>3. PICK p \in Nat : ChunkMax = p * Sector
  <2>1. ChunkMax \div Sector \in Nat /\ ChunkMax = (ChunkMax \div Sector) * Sector
    BY <1>1, Division
  <2> QED  BY <2>1
<1>4. PICK x \in Nat : d + ChunkMax = x * Sector
  <2>1. q + p \in Nat /\ d + ChunkMax = (q + p) * Sector
    BY <1>1, <1>2, <1>3
  <2> QED  BY <2>1
<1>5. PICK e \in Nat : e = d + ChunkMax
  BY <1>1
<1>6. PICK u \in Nat, r \in 0 .. Sector - 1 : e = u * Sector + r /\ r = e % Sector
  <2>1. e \div Sector \in Nat /\ e = (e \div Sector) * Sector + (e % Sector)
        /\ e % Sector \in 0 .. Sector - 1
    BY <1>1, Division
  <2> QED  BY <2>1
<1>7. r = 0
  <2>1. u * Sector + r = x * Sector
    BY <1>4, <1>5, <1>6
  <2> QED  BY <1>1, <2>1, Multiple
<1> QED  BY <1>5, <1>6, <1>7

\* CMD4 names the place of the chunk: the offset in sectors does not wrap.
LEMMA OffsetNamed ==
    ASSUME NEW d \in Place, d % Sector = 0
    PROVE  ((d \div Sector) % ValueWord) * Sector = d
<1> DEFINE q == d \div Sector
<1>1. /\ Sector \in Nat \ {0} /\ ValueWord \in Nat \ {0} /\ d \in Nat
      /\ d < ValueWord * Sector
  BY Bl2Assumption, FipAssumption DEF Place
<1>2. q \in Nat /\ d = q * Sector
  BY <1>1, Division
<1> HIDE DEF q
<1>3. q < ValueWord
  <2>1. CASE q >= ValueWord
    <3>1. q * Sector >= ValueWord * Sector
      BY <1>1, <1>2, <2>1
    <3> QED  BY <1>1, <1>2, <3>1
  <2> QED  BY <1>1, <1>2, <2>1
<1>4. q % ValueWord = q
  BY <1>1, <1>2, <1>3
<1> QED  BY <1>2, <1>4 DEF q

-----------------------------------------------------------------------------
\* The parameters of a request and the length of a chunk.
LEMMA Parameters ==
    ASSUME TypeOK
    PROVE  /\ req.offset \in 0 .. FileLen /\ req.dataSize \in 0 .. RequestMax
           /\ req.doCksum \in BOOLEAN
           /\ FileLen \in Nat /\ ChunkMax \in Nat \ {0} /\ RequestMax \in Nat \ {0}
           /\ dataOffset \in Nat /\ fpos \in Nat
           /\ BulkSize \in Int
           /\ MoreChunks => /\ BulkSize \in 1 .. ChunkMax
                            /\ dataOffset + BulkSize <= req.dataSize
                            /\ dataOffset \in Place
<1>1. /\ req.offset \in 0 .. FileLen /\ req.dataSize \in 0 .. RequestMax
      /\ req.doCksum \in BOOLEAN /\ dataOffset \in Nat /\ fpos \in Nat
  BY Bl2Assumption DEF TypeOK, Reqs
<1>2. FileLen \in Nat /\ ChunkMax \in Nat \ {0} /\ RequestMax \in Nat \ {0}
  BY Bl2Assumption
<1> QED  BY <1>1, <1>2 DEF BulkSize, MoreChunks, Place

\* Done after a chunk.
LEMMA NextDone ==
    ASSUME TypeOK, MoreChunks
    PROVE  (IF dataOffset + ChunkMax < req.dataSize THEN dataOffset + ChunkMax ELSE req.dataSize)
              = dataOffset + BulkSize
BY Parameters DEF BulkSize, MoreChunks

LEMMA InitInv == Init => IInv
<1> SUFFICES ASSUME Init PROVE IInv
  OBVIOUS
<1>1. req \in Reqs
  BY Bl2Assumption DEF Init, NoReq, Reqs
<1>2. stored \in [Place -> -1 .. FileLen - 1] /\ announced \in [at : Place, len : 0 .. ChunkMax]
  BY Bl2Assumption DEF Init, Empty, Place
<1>3. /\ buf = <<>> /\ cksum = <<>>
      /\ <<>> \in Seq(0 .. FileLen - 1) /\ Len(<<>>) = 0
  BY EmptySeq DEF Init
<1>4. TypeOK
  BY <1>1, <1>2, <1>3, Bl2Assumption DEF Init, TypeOK
<1>5. 0 % Sector = 0
  BY Bl2Assumption
<1>6. DownloadInv
  BY <1>5 DEF Init, DownloadInv
<1> QED  BY <1>4, <1>6 DEF IInv

\* Outside the download.
LEMMA RequestInv ==
    ASSUME IInv, Open \/ Start \/ (\E c \in Cmds, r \in Reqs : Cbw(c, r)) \/ CbwFail \/ Ack \/ AckFail
    PROVE  IInv'
<1> USE DEF Exit, hostdata, device
<1>1. TypeOK /\ DownloadInv
  BY DEF IInv
<1>2. CASE Open \/ Start \/ CbwFail \/ AckFail
  <2>1. UNCHANGED <<hostdata, device>>
    BY <1>2 DEF Open, Start, CbwFail, AckFail
  <2>2. pc' \in {"start", "cbw", "exit"} /\ ret' \in Codes
    <3>1. ret \in Codes
      BY <1>1 DEF TypeOK, Codes
    <3>2. /\ pc' \in {"start", "cbw", "exit"}
          /\ ret' = ret \/ ret' \in {0, -1165, -1173, -1188, -874, -885, -896, -904, -911, -926}
      BY <1>2 DEF Open, Start, CbwFail, AckFail
    <3> QED  BY <3>1, <3>2 DEF Codes
  <2>3. TypeOK'
    BY <1>1, <2>1, <2>2 DEF TypeOK, Codes
  <2>4. DownloadInv'
    BY <1>1, <2>1, <2>2 DEF DownloadInv
  <2> QED  BY <2>3, <2>4 DEF IInv
<1>3. ASSUME NEW c \in Cmds, NEW r \in Reqs, Cbw(c, r) PROVE IInv'
  <2>1. req' \in Reqs
    BY <1>3, Bl2Assumption DEF Cbw, NoReq, Reqs
  <2>2. stored' \in [Place -> -1 .. FileLen - 1] /\ \A k \in Place : stored'[k] = -1
    BY <1>3, Bl2Assumption DEF Cbw, Empty
  <2>3. requests' \in 0 .. MaxRequests
    BY <1>1, <1>3, Bl2Assumption DEF Cbw, TypeOK
  <2>4. ret' \in Codes
    <3>1. ret' = ret \/ ret' = 0 \/ ret' = -904
      BY <1>3 DEF Cbw
    <3>2. ret \in Codes
      BY <1>1 DEF TypeOK, Codes
    <3> QED  BY <3>1, <3>2 DEF Codes
  <2>5. /\ pc' \in {"ack", "exit"} /\ cmd' = c
        /\ UNCHANGED <<mode, dataOffset, fpos, buf, cksum, announced>>
    BY <1>3 DEF Cbw
  <2>8. TypeOK'
    BY <1>1, <2>1, <2>2, <2>3, <2>4, <2>5 DEF TypeOK, Codes
  <2>6. \A k \in Place : ~(k < 0)
    BY Bl2Assumption DEF Place
  <2>7. DownloadInv'
    BY <1>1, <2>2, <2>5, <2>6 DEF DownloadInv, Holds
  <2> QED  BY <2>7, <2>8 DEF IInv
<1>4. CASE Ack
  <2>1. CASE pc' = "exit"
    <3>1. UNCHANGED <<mode, cmd, req, dataOffset, fpos, buf, cksum, announced, stored, requests>>
      BY <1>4, <2>1 DEF Ack
    <3>2. TypeOK'
      BY <1>1, <1>4, <2>1, <3>1 DEF Ack, TypeOK
    <3> QED  BY <1>1, <2>1, <3>1, <3>2 DEF IInv, DownloadInv
  <2>2. CASE pc' # "exit"
    <3>1. /\ pc' = "cmd4" /\ dataOffset' = 0 /\ fpos' = req.offset /\ cksum' = <<>>
          /\ UNCHANGED <<mode, cmd, req, buf, announced, stored, requests, ret>> /\ pc = "ack"
      BY <1>4, <2>2 DEF Ack
    <3>2. <<>> \in Seq(0 .. FileLen - 1) /\ Len(<<>>) = 0
      BY EmptySeq
    <3>3. TypeOK'
      BY <1>1, <3>1, <3>2, Parameters, Bl2Assumption DEF TypeOK
    <3>4. Done' = 0 /\ 0 % Sector = 0
      BY <1>1, <3>1, Parameters, Bl2Assumption DEF Done
    <3>5. Summed(0)'
      BY <3>1, <3>2 DEF Summed
    <3>6. Holds(0)'
      BY <1>1, <3>1 DEF DownloadInv, Holds
    <3> HIDE DEF Done
    <3>7. DownloadInv'
      BY <1>1, <3>1, <3>4, <3>5, <3>6, Parameters DEF DownloadInv
    <3> QED  BY <3>3, <3>7 DEF IInv
  <2> QED  BY <2>1, <2>2
<1> QED  BY <1>2, <1>3, <1>4

-----------------------------------------------------------------------------
\* The download.

\* A step that leaves the loop.
LEMMA LeaveInv ==
    ASSUME IInv, CmdFourFail \/ FreadFail \/ CswFail \/ Sum \/ Verdict
    PROVE  IInv'
<1> USE DEF Exit, hostdata, device
<1>1. TypeOK /\ DownloadInv
  BY DEF IInv
<1>2. UNCHANGED <<mode, cmd, req, dataOffset, fpos, buf, cksum, announced, stored, requests>>
  BY DEF CmdFourFail, FreadFail, CswFail, Sum, Verdict
<1>3. /\ pc' \in {"verdict", "start", "exit"}
      /\ pc' = "verdict" => pc = "cmd4" /\ ~MoreChunks
  BY DEF CmdFourFail, FreadFail, CswFail, Sum, Verdict
<1>4. ret' \in Codes
  <2>1. ret \in Codes
    BY <1>1 DEF TypeOK, Codes
  <2>2. CASE CmdFourFail \/ FreadFail \/ CswFail
    BY <2>2 DEF CmdFourFail, FreadFail, CswFail, Codes
  <2>3. CASE Sum
    BY <2>1, <2>3 DEF Sum, Codes
  <2>4. CASE Verdict
    BY <2>1, <2>4 DEF Verdict, Codes
  <2> QED  BY <2>2, <2>3, <2>4
<1>5. TypeOK'
  BY <1>1, <1>2, <1>3, <1>4 DEF TypeOK, Codes
<1>6. pc' = "verdict" => Holds(req.dataSize) /\ Summed(req.dataSize)
  BY <1>1, <1>3 DEF DownloadInv, Done, MoreChunks
<1>7. DownloadInv'
  BY <1>1, <1>2, <1>3, <1>6 DEF DownloadInv, Holds, Summed
<1> QED  BY <1>5, <1>7 DEF IInv

LEMMA CmdFourInv ==
    ASSUME IInv, CmdFour
    PROVE  IInv'
<1> USE DEF hostdata
<1>1. TypeOK /\ DownloadInv /\ MoreChunks /\ pc = "cmd4"
  BY DEF IInv, CmdFour
<1>2. /\ UNCHANGED <<mode, cmd, req, dataOffset, fpos, buf, cksum, stored, requests, ret>>
      /\ pc' = "fread"
  BY DEF CmdFour
<1>3. BulkSize \in 1 .. ChunkMax /\ dataOffset \in Place /\ ChunkMax \in Nat
  BY <1>1, Parameters
<1>4. announced' = [at |-> dataOffset, len |-> BulkSize]
  BY <1>1, <1>3, OffsetNamed DEF CmdFour, DownloadInv
<1>5. announced' \in [at : Place, len : 0 .. ChunkMax]
  BY <1>3, <1>4
<1>6. TypeOK'
  BY <1>1, <1>2, <1>5 DEF TypeOK
<1>7. Done = dataOffset
  BY <1>1 DEF Done, MoreChunks
<1>8. DownloadInv'
  BY <1>1, <1>2, <1>4, <1>7 DEF DownloadInv, Holds, Summed, BulkSize, MoreChunks
<1> QED  BY <1>6, <1>8 DEF IInv

LEMMA FreadInv ==
    ASSUME IInv, Fread
    PROVE  IInv'
<1>1. TypeOK /\ DownloadInv /\ MoreChunks /\ pc = "fread" /\ fpos = req.offset + dataOffset
  BY DEF IInv, Fread, DownloadInv
<1>2. /\ UNCHANGED <<mode, cmd, req, dataOffset, cksum, announced, stored, requests, ret>>
      /\ pc' = "data" /\ fpos' = fpos + BulkSize /\ fpos + BulkSize <= FileLen
      /\ buf' = [k \in 1 .. BulkSize |-> fpos + k - 1]
  BY DEF Fread, device
<1>3. /\ BulkSize \in 1 .. ChunkMax /\ ChunkMax \in Nat /\ FileLen \in Nat /\ fpos \in Nat
      /\ req.offset \in Nat /\ dataOffset \in Nat
  BY <1>1, Parameters
<1>4. buf' \in Seq(0 .. FileLen - 1) /\ Len(buf') = BulkSize
  <2>1. \A k \in 1 .. BulkSize : fpos + k - 1 \in 0 .. FileLen - 1
    BY <1>2, <1>3
  <2>2. BulkSize \in Nat
    BY <1>3
  <2>3. buf' \in [1 .. BulkSize -> 0 .. FileLen - 1]
    BY <1>2, <2>1
  <2>4. buf' \in Seq(0 .. FileLen - 1)
    BY <2>2, <2>3, SeqDef
  <2>5. DOMAIN buf' = 1 .. BulkSize /\ DOMAIN buf' = 1 .. Len(buf') /\ Len(buf') \in Nat
    BY <2>3, <2>4, LenProperties
  <2>6. Len(buf') = BulkSize
    BY <2>2, <2>5
  <2> QED  BY <2>4, <2>6
<1>5. TypeOK'
  <2>1. fpos' \in 0 .. FileLen /\ Len(buf') <= ChunkMax
    BY <1>2, <1>3, <1>4
  <2>2. /\ UNCHANGED <<mode, cmd, req, dataOffset, cksum, announced, stored, requests, ret>>
        /\ pc' = "data"
    BY <1>2
  <2> QED  BY <1>1, <1>4, <2>1, <2>2 DEF TypeOK
<1>6. ChunkReady'
  <2>1. BulkSize' = BulkSize
    BY <1>2 DEF BulkSize
  <2>2. \A k \in 1 .. BulkSize : buf'[k] = req.offset + dataOffset + k - 1
    BY <1>1, <1>2, <1>3
  <2>3. fpos' = req.offset + dataOffset + BulkSize
    BY <1>1, <1>2, <1>3
  <2> QED  BY <1>2, <1>4, <2>1, <2>2, <2>3 DEF ChunkReady
<1>7. DownloadInv'
  BY <1>1, <1>2, <1>6 DEF DownloadInv, Holds, Summed, BulkSize, MoreChunks
<1> QED  BY <1>5, <1>7 DEF IInv

\* The part of the chunk that arrives goes to its place.
LEMMA StoreBytes ==
    ASSUME IInv, pc = "data", NEW n \in 0 .. Len(buf), Store(n)
    PROVE  /\ stored' \in [Place -> -1 .. FileLen - 1]
           /\ \A k \in Place : stored'[k] = IF k < dataOffset + n THEN req.offset + k ELSE -1
<1>1. TypeOK /\ DownloadInv /\ MoreChunks /\ ChunkReady /\ Holds(dataOffset)
      /\ announced.at = dataOffset
  BY DEF IInv, DownloadInv
<1>2. /\ BulkSize \in 1 .. ChunkMax /\ ChunkMax \in Nat /\ FileLen \in Nat
      /\ req.offset \in Nat /\ dataOffset \in Nat
      /\ Len(buf) = BulkSize /\ n \in Nat /\ n <= BulkSize
      /\ req.offset + dataOffset + BulkSize <= FileLen
  <2>1. /\ BulkSize \in 1 .. ChunkMax /\ ChunkMax \in Nat /\ FileLen \in Nat
        /\ req.offset \in Nat /\ dataOffset \in Nat
    BY <1>1, Parameters
  <2>2. Len(buf) = BulkSize /\ fpos = req.offset + dataOffset + BulkSize
    BY <1>1 DEF ChunkReady
  <2>3. fpos <= FileLen
    BY <1>1, <2>1 DEF TypeOK
  <2> QED  BY <2>1, <2>2, <2>3
<1>3. stored' = [k \in Place |-> IF k \in dataOffset .. dataOffset + n - 1
                                 THEN buf[k - dataOffset + 1] ELSE stored[k]]
  BY <1>1 DEF Store
<1>4. ASSUME NEW k \in Place
      PROVE  /\ stored'[k] = IF k < dataOffset + n THEN req.offset + k ELSE -1
             /\ stored'[k] \in -1 .. FileLen - 1
  <2>0. k \in Nat
    BY DEF Place
  <2>1. CASE k < dataOffset
    BY <1>1, <1>2, <1>3, <2>0, <2>1 DEF Holds
  <2>2. CASE k \in dataOffset .. dataOffset + n - 1
    <3>1. k - dataOffset + 1 \in 1 .. BulkSize
      BY <1>2, <2>0, <2>2
    <3>2. buf[k - dataOffset + 1] = req.offset + dataOffset + (k - dataOffset + 1) - 1
      BY <1>1, <3>1 DEF ChunkReady
    <3>3. buf[k - dataOffset + 1] = req.offset + k
      BY <1>2, <2>0, <3>2
    <3>4. stored'[k] = req.offset + k
      BY <1>3, <2>2, <3>3
    <3> QED  BY <1>2, <2>0, <2>2, <3>4
  <2>3. CASE k >= dataOffset + n
    BY <1>1, <1>2, <1>3, <2>0, <2>3 DEF Holds
  <2> QED  BY <1>2, <2>0, <2>1, <2>2, <2>3
<1> QED  BY <1>3, <1>4

LEMMA DataInv ==
    ASSUME IInv, Data \/ DataFail
    PROVE  IInv'
<1> USE DEF hostdata, Exit
<1>1. TypeOK /\ DownloadInv /\ pc = "data" /\ ChunkReady /\ MoreChunks
  BY DEF IInv, DownloadInv, Data, DataFail
<1>2. UNCHANGED <<mode, cmd, req, dataOffset, fpos, buf, cksum, announced, requests>>
  BY DEF Data, DataFail
<1>3. Len(buf) \in 0 .. Len(buf)
  BY <1>1, Parameters DEF ChunkReady
<1>4. stored' \in [Place -> -1 .. FileLen - 1]
  BY <1>1, <1>3, StoreBytes DEF Data, DataFail
<1>5. pc' \in {"csw", "exit"} /\ ret' \in Codes
  <2>1. ret \in Codes
    BY <1>1 DEF TypeOK, Codes
  <2>2. CASE Data
    BY <2>1, <2>2 DEF Data
  <2>3. CASE DataFail
    BY <2>3 DEF DataFail, Codes
  <2> QED  BY <2>2, <2>3
<1>6. TypeOK'
  BY <1>1, <1>2, <1>4, <1>5 DEF TypeOK, Codes
<1>7. pc' = "csw" => \A k \in Place : stored'[k] = IF k < dataOffset + BulkSize
                                                   THEN req.offset + k ELSE -1
  BY <1>1, <1>3, StoreBytes DEF Data, DataFail, ChunkReady
<1>8. DownloadInv'
  BY <1>1, <1>2, <1>5, <1>7 DEF DownloadInv, Holds, Summed, BulkSize, MoreChunks, ChunkReady
<1> QED  BY <1>6, <1>8 DEF IInv

LEMMA CswInv ==
    ASSUME IInv, Csw
    PROVE  IInv'
<1>1. /\ TypeOK /\ DownloadInv /\ pc = "csw" /\ ChunkReady /\ MoreChunks /\ Summed(dataOffset)
      /\ Holds(dataOffset + BulkSize)
  BY DEF IInv, DownloadInv, Csw
<1>2. /\ UNCHANGED <<mode, cmd, req, fpos, buf, announced, stored, requests, ret>>
      /\ pc' = "cmd4" /\ dataOffset' = dataOffset + ChunkMax
      /\ cksum' = IF req.doCksum \/ mode = "test" THEN cksum \o buf ELSE cksum
  BY DEF Csw, device
<1>3. /\ BulkSize \in 1 .. ChunkMax /\ ChunkMax \in Nat \ {0} /\ FileLen \in Nat
      /\ req.offset \in Nat /\ dataOffset \in Nat /\ req.dataSize \in 0 .. RequestMax
      /\ RequestMax \in Nat /\ dataOffset + BulkSize <= req.dataSize
      /\ dataOffset < req.dataSize
  BY <1>1, Parameters DEF MoreChunks
<1>4. Done' = dataOffset + BulkSize
  BY <1>1, <1>2, NextDone DEF Done
<1>5. /\ cksum' \in Seq(0 .. FileLen - 1) /\ Len(cksum') <= RequestMax
      /\ req.doCksum \/ mode = "test" =>
            /\ Len(cksum') = dataOffset + BulkSize
            /\ \A k \in 1 .. dataOffset + BulkSize : cksum'[k] = req.offset + k - 1
  <2>1. CASE ~(req.doCksum \/ mode = "test")
    BY <1>1, <1>2, <2>1 DEF TypeOK
  <2>2. CASE req.doCksum \/ mode = "test"
    <3>1. /\ cksum \in Seq(0 .. FileLen - 1) /\ buf \in Seq(0 .. FileLen - 1)
          /\ Len(cksum) = dataOffset /\ Len(buf) = BulkSize /\ cksum' = cksum \o buf
      BY <1>1, <1>2, <2>2 DEF TypeOK, Summed, ChunkReady
    <3>2. /\ cksum' \in Seq(0 .. FileLen - 1) /\ Len(cksum') = dataOffset + BulkSize
          /\ \A k \in 1 .. dataOffset + BulkSize :
                cksum'[k] = IF k <= dataOffset THEN cksum[k] ELSE buf[k - dataOffset]
      BY <3>1, ConcatProperties
    <3>3. ASSUME NEW k, k \in 1 .. dataOffset + BulkSize PROVE cksum'[k] = req.offset + k - 1
      <4>1. CASE k <= dataOffset
        <5>1. k \in 1 .. dataOffset /\ cksum'[k] = cksum[k]
          BY <1>3, <3>2, <3>3, <4>1
        <5> QED  BY <1>1, <2>2, <5>1 DEF Summed
      <4>2. CASE k > dataOffset
        <5>1. k - dataOffset \in 1 .. BulkSize
          BY <1>3, <3>3, <4>2
        <5>2. buf[k - dataOffset] = req.offset + dataOffset + (k - dataOffset) - 1
          BY <1>1, <5>1 DEF ChunkReady
        <5>3. cksum'[k] = buf[k - dataOffset] /\ k \in Int
          BY <1>3, <3>2, <3>3, <4>2
        <5> QED  BY <1>3, <5>2, <5>3
      <4> QED  BY <1>3, <3>3, <4>1, <4>2
    <3>4. dataOffset + BulkSize <= RequestMax
      BY <1>3
    <3> QED  BY <3>2, <3>3, <3>4
  <2> QED  BY <2>1, <2>2
<1>6. dataOffset' \in 0 .. RequestMax + ChunkMax - 1 /\ dataOffset' % Sector = 0
  <2>1. dataOffset % Sector = 0
    BY <1>1 DEF DownloadInv
  <2> QED  BY <1>2, <1>3, <2>1, NextOffset
<1>7. TypeOK'
  BY <1>1, <1>2, <1>5, <1>6 DEF TypeOK
<1>8. /\ fpos' = req'.offset + Done' /\ Holds(Done)' /\ Summed(Done)'
  <2>1. fpos' = req'.offset + Done'
    BY <1>1, <1>2, <1>3, <1>4 DEF ChunkReady
  <2>2. Holds(Done)'
    BY <1>1, <1>2, <1>4 DEF Holds
  <2>3. Summed(Done)'
    BY <1>2, <1>4, <1>5 DEF Summed
  <2> QED  BY <2>1, <2>2, <2>3
<1>9. DownloadInv'
  BY <1>2, <1>6, <1>8 DEF DownloadInv
<1> QED  BY <1>7, <1>9 DEF IInv

LEMMA NextInv == IInv /\ [Next]_vars => IInv'
<1> SUFFICES ASSUME IInv, [Next]_vars PROVE IInv'
  OBVIOUS
<1>1. CASE UNCHANGED vars
  BY <1>1 DEF vars, IInv, TypeOK, DownloadInv, Holds, Summed, Done, ChunkReady, BulkSize, MoreChunks
<1> QED  BY <1>1, RequestInv, LeaveInv, CmdFourInv, FreadInv, DataInv, CswInv DEF Next, Download

\* What the stage holds, the file position and the checksum agree with dataOffset at
\* each point of _Aml_Libusb_bl2_secure_download (AmlLibusb.cpp).
THEOREM InductiveInvariant == Spec => []IInv
BY InitInv, NextInv, PTL DEF Spec

\* No variable leaves its range: no position beyond the file, none beyond the range.
THEOREM TypeCorrect == Spec => []TypeOK
<1>1. IInv => TypeOK
  BY DEF IInv
<1> QED  BY <1>1, InductiveInvariant, PTL

\* When the checksum block is sent the stage holds exactly the range it asked for, and
\* the checksum covers its bytes once and in order.
THEOREM Delivered == Spec => []DeliveredAsRequested
<1>1. IInv => DeliveredAsRequested
  <2> SUFFICES ASSUME IInv PROVE DeliveredAsRequested
    OBVIOUS
  <2>1. TypeOK /\ DownloadInv
    BY DEF IInv
  <2>2. pc = "csw" => announced.len = Len(buf) /\ Len(buf) > 0
    BY <2>1, Parameters DEF DownloadInv, ChunkReady
  <2>3. ASSUME pc = "verdict" PROVE stored = Requested
    <3>1. Holds(req.dataSize) /\ stored \in [Place -> -1 .. FileLen - 1]
      BY <2>1, <2>3 DEF DownloadInv, TypeOK
    <3> QED  BY <3>1 DEF Holds, Requested
  <2>4. ASSUME pc = "verdict", req.doCksum \/ mode = "test"
        PROVE  cksum = [k \in 1 .. req.dataSize |-> stored[k - 1]]
    <3>1. /\ Len(cksum) = req.dataSize /\ cksum \in Seq(0 .. FileLen - 1)
          /\ \A k \in 1 .. req.dataSize : cksum[k] = req.offset + k - 1
          /\ \A k \in Place : stored[k] = IF k < req.dataSize THEN req.offset + k ELSE -1
      BY <2>1, <2>4 DEF DownloadInv, TypeOK, Summed, Holds
    <3>2. \A k \in 1 .. req.dataSize : k - 1 \in Place /\ cksum[k] = stored[k - 1]
      <4>1. /\ req.dataSize \in Nat /\ req.offset \in Nat /\ RequestMax \in Nat
            /\ req.dataSize <= RequestMax
        BY <2>1, Parameters
      <4>2. ASSUME NEW k \in 1 .. req.dataSize PROVE k - 1 \in Place /\ cksum[k] = stored[k - 1]
        <5>1. k - 1 \in Place /\ k - 1 < req.dataSize
          BY <4>1 DEF Place
        <5> QED  BY <3>1, <4>1, <5>1
      <4> QED  BY <4>2
    <3>3. cksum = [k \in 1 .. req.dataSize |-> cksum[k]]
      BY <3>1, LenProperties
    <3> QED  BY <3>2, <3>3
  <2> QED  BY <2>2, <2>3, <2>4 DEF DeliveredAsRequested
<1> QED  BY <1>1, InductiveInvariant, PTL

-----------------------------------------------------------------------------
\* What a download has left to do: the places it has still to pass, the bytes, and
\* what is left of the chunk.
Phase ==
    CASE pc \in {"cmd4", "fread", "data", "csw"} -> 2 [] pc = "verdict" -> 1 [] OTHER -> 0

Spot == CASE pc = "cmd4" -> 3 [] pc = "fread" -> 2 [] pc = "data" -> 1 [] OTHER -> 0

Remaining == <<Phase, RequestMax + ChunkMax - dataOffset, Spot>>

LEMMA Falls ==
    ASSUME NEW p, NEW q, NEW r, NEW p2, NEW q2, NEW r2,
           \/ p2 < p
           \/ p2 = p /\ q2 < q
           \/ p2 = p /\ q2 = q /\ r2 < r
    PROVE  Below(<<p2, q2, r2>>, <<p, q, r>>)
<1> DEFINE m == <<p2, q2, r2>>
           n == <<p, q, r>>
<1>1. CASE p2 < p
  <2>1. 1 \in 1 .. Len(n) /\ m[1] < n[1] /\ \A j \in 1 .. 1 - 1 : m[j] = n[j]
    BY <1>1
  <2> QED  BY <2>1 DEF Below
<1>2. CASE p2 = p /\ q2 < q
  <2>1. 2 \in 1 .. Len(n) /\ m[2] < n[2] /\ \A j \in 1 .. 2 - 1 : m[j] = n[j]
    BY <1>2
  <2> QED  BY <2>1 DEF Below
<1>3. CASE p2 = p /\ q2 = q /\ r2 < r
  <2>1. 3 \in 1 .. Len(n) /\ m[3] < n[3] /\ \A j \in 1 .. 3 - 1 : m[j] = n[j]
    BY <1>3
  <2> QED  BY <2>1 DEF Below
<1> QED  BY <1>1, <1>2, <1>3

\* Each step of a download brings its end nearer.
LEMMA DownloadFalls ==
    ASSUME IInv, Download
    PROVE  \/ Phase' < Phase
           \/ /\ Phase' = Phase
              /\ RequestMax + ChunkMax - dataOffset' < RequestMax + ChunkMax - dataOffset
           \/ Phase' = Phase /\ dataOffset' = dataOffset /\ Spot' < Spot
<1>1. dataOffset \in Nat /\ RequestMax \in Nat /\ ChunkMax \in Nat \ {0}
  BY Bl2Assumption DEF IInv, TypeOK
<1>2. pc \in {"cmd4", "fread", "data", "csw", "verdict"} /\ pc' \in {"start", "exit"}
      => Phase' < Phase
  BY DEF Phase
<1>3. CASE CmdFourFail \/ FreadFail \/ DataFail \/ CswFail \/ Verdict
  BY <1>2, <1>3 DEF CmdFourFail, FreadFail, DataFail, CswFail, Verdict, Exit
<1>4. CASE CmdFour \/ Fread \/ Data
  BY <1>4 DEF CmdFour, Fread, Data, hostdata, Phase, Spot
<1>5. CASE Csw
  BY <1>1, <1>5 DEF Csw, Phase
<1>6. CASE Sum
  BY <1>2, <1>6 DEF Sum, Exit, Phase
<1> QED  BY <1>3, <1>4, <1>5, <1>6 DEF Download

\* A download comes to its end after finitely many transfers, whatever they do, for
\* every range, chunk and sector: each of its steps takes the three numbers down, in
\* lexicographic order, and none of them falls below 0 (the chunk loops of
\* _Aml_Libusb_bl2_secure_download and Aml_Libusb_bl2_test, AmlLibusb.cpp).
THEOREM DownloadProgress ==
    Spec => /\ [](Remaining \in Nat \X Nat \X Nat)
            /\ [][Download => Below(Remaining', Remaining)]_vars
<1>1. IInv => Remaining \in Nat \X Nat \X Nat
  <2> SUFFICES ASSUME IInv PROVE Remaining \in Nat \X Nat \X Nat
    OBVIOUS
  <2>1. Phase \in Nat /\ Spot \in Nat
    BY DEF Phase, Spot
  <2>2. RequestMax + ChunkMax - dataOffset \in Nat
    BY Bl2Assumption DEF IInv, TypeOK
  <2> QED  BY <2>1, <2>2 DEF Remaining
<1>2. IInv /\ [Next]_vars => [Download => Below(Remaining', Remaining)]_vars
  <2>1. ASSUME IInv, Download PROVE Below(Remaining', Remaining)
    BY <2>1, DownloadFalls, Falls DEF Remaining
  <2> QED  BY <2>1
<1> QED  BY <1>1, <1>2, InductiveInvariant, PTL DEF Spec

-----------------------------------------------------------------------------
\* The sums of checksum.h.  A behaviour of Checksum builds the buffer byte by byte, so that
\* an invariant of it is an induction over the buffer.

\* f adds up the words of w bytes in s, byte by byte.
Adds(f, s, w) ==
    f = [n \in 0 .. Len(s) |-> IF n = 0 THEN 0 ELSE f[n - 1] + s[n] * Weight(n - 1, w)]

\* There is exactly one such function, so that CHOOSE finds it.
Determined(s, w) == \E f : \A g : Adds(g, s, w) <=> g = f

\* WordSum takes the value of that function at the end.
LEMMA WordSumIs ==
    ASSUME NEW s, NEW w
    PROVE  WordSum(s, w) = (CHOOSE f : Adds(f, s, w))[Len(s)]
BY DEF WordSum, Adds

\* When the function is known, the sum is known.
LEMMA SumChosen ==
    ASSUME NEW s, NEW w, NEW f, \A g : Adds(g, s, w) <=> g = f
    PROVE  Determined(s, w) /\ WordSum(s, w) = f[Len(s)]
<1>1. Adds(f, s, w)
  OBVIOUS
<1>2. Adds(CHOOSE g : Adds(g, s, w), s, w)
  BY <1>1, Zenon
<1>3. (CHOOSE g : Adds(g, s, w)) = f
  BY <1>2
<1>4. Determined(s, w)
  BY DEF Determined
<1> QED  BY <1>3, <1>4, WordSumIs

\* An empty buffer sums to 0.
LEMMA SumEmpty ==
    ASSUME NEW w
    PROVE  Determined(<<>>, w) /\ WordSum(<<>>, w) = 0
<1> DEFINE f == [n \in 0 .. 0 |-> 0]
<1>1. \A g : Adds(g, <<>>, w) <=> g = f
  BY DEF Adds
<1>2. f[Len(<<>>)] = 0
  OBVIOUS
<1> HIDE DEF f
<1>3. Determined(<<>>, w) /\ WordSum(<<>>, w) = f[Len(<<>>)]
  BY <1>1, SumChosen
<1> QED  BY <1>2, <1>3

\* One more byte adds its value at its weight.
LEMMA SumAppend ==
    ASSUME NEW T, NEW s \in Seq(T), NEW b \in T, NEW w, Determined(s, w)
    PROVE  /\ Determined(Append(s, b), w)
           /\ WordSum(Append(s, b), w) = WordSum(s, w) + b * Weight(Len(s), w)
<1> DEFINE t == Append(s, b)
           l == Len(s)
<1>1. PICK f : \A g : Adds(g, s, w) <=> g = f
  BY DEF Determined
<1>2. l \in Nat /\ Len(t) = l + 1 /\ t[l + 1] = b /\ \A n \in 1 .. l : t[n] = s[n]
  OBVIOUS
<1> HIDE DEF t, l
<1> DEFINE e == [n \in 0 .. l + 1 |-> IF n = l + 1 THEN f[l] + b * Weight(l, w) ELSE f[n]]
<1>3. f = [n \in 0 .. l |-> IF n = 0 THEN 0 ELSE f[n - 1] + s[n] * Weight(n - 1, w)]
  BY <1>1 DEF Adds, l
<1>4. Adds(e, t, w)
  BY <1>2, <1>3 DEF Adds
<1>5. ASSUME NEW g, Adds(g, t, w) PROVE g = e
  <2> DEFINE h == [n \in 0 .. l |-> g[n]]
  <2>1. g = [n \in 0 .. l + 1 |-> IF n = 0 THEN 0 ELSE g[n - 1] + t[n] * Weight(n - 1, w)]
    BY <1>2, <1>5 DEF Adds
  <2>2. h = [n \in 0 .. l |-> IF n = 0 THEN 0 ELSE h[n - 1] + s[n] * Weight(n - 1, w)]
    BY <1>2, <2>1
  <2>3. h = f
    BY <1>1, <2>2 DEF Adds, l
  <2>4. \A n \in 0 .. l : g[n] = f[n]
    BY <2>3
  <2>5. g[l + 1] = f[l] + b * Weight(l, w)
    BY <1>2, <2>1, <2>4
  <2>6. \A n \in 0 .. l + 1 : g[n] = e[n]
    BY <1>2, <2>4, <2>5
  <2>7. g = [n \in 0 .. l + 1 |-> g[n]]
    BY <2>1
  <2>8. e = [n \in 0 .. l + 1 |-> g[n]]
    BY <2>6
  <2> QED  BY <2>7, <2>8
<1>6. \A g : Adds(g, t, w) <=> g = e
  BY <1>4, <1>5
<1>7. e[l + 1] = f[l] + b * Weight(l, w)
  BY <1>2
<1> HIDE DEF e
<1>8. Determined(t, w) /\ WordSum(t, w) = e[Len(t)]
  BY <1>6, SumChosen
<1>9. WordSum(s, w) = f[l]
  BY <1>1, SumChosen DEF l
<1> QED  BY <1>2, <1>7, <1>8, <1>9 DEF t, l

-----------------------------------------------------------------------------
\* Quotient and remainder are the only ones.
LEMMA Remainder ==
    ASSUME NEW a \in Nat, NEW d \in Nat \ {0}, NEW q \in Nat, NEW r \in 0 .. d - 1,
           a = q * d + r
    PROVE  a \div d = q /\ a % d = r
<1>1. PICK p \in Nat, x \in 0 .. d - 1 : p = a \div d /\ x = a % d /\ a = p * d + x
  BY Division
<1>2. CASE p >= q + 1
  <2>1. p * d >= (q + 1) * d
    BY <1>2
  <2>2. (q + 1) * d = q * d + d
    OBVIOUS
  <2> QED  BY <1>1, <2>1, <2>2
<1>3. CASE q >= p + 1
  <2>1. q * d >= (p + 1) * d
    BY <1>3
  <2>2. (p + 1) * d = p * d + d
    OBVIOUS
  <2> QED  BY <1>1, <2>1, <2>2
<1>4. CASE p = q
  BY <1>1, <1>4
<1> QED  BY <1>2, <1>3, <1>4

\* The sizes of a byte and a short word.
LEMMA ShortNat ==
    /\ Base \in Nat /\ Base >= 2
    /\ Short \in Nat /\ Short >= 2 * Base /\ Short * Short \in Nat
<1>1. Base \in Nat /\ Base >= 2
  BY ChecksumAssumption
<1>2. Base * Base \in Nat /\ Base * Base >= 2 * Base
  BY <1>1
<1> QED  BY <1>1, <1>2 DEF Short

\* Two foldings of a sum of at most 128 KiB are its end-around carry sum.
LEMMA TwoFolds ==
    ASSUME NEW s \in Nat, s < Short * Short
    PROVE  Fold(Fold(s)) % Short = IF s = 0 THEN 0 ELSE ((s - 1) % (Short - 1)) + 1
<1> DEFINE S == Short
<1>1. S \in Nat \ {0} /\ S >= 4
  BY ShortNat
<1> HIDE DEF S
<1>2. PICK q \in Nat, r \in 0 .. S - 1 : q = s \div S /\ r = s % S /\ s = q * S + r
  <2>1. s \div S \in Nat /\ s % S \in 0 .. S - 1 /\ s = (s \div S) * S + (s % S)
    BY <1>1, Division
  <2> QED  BY <2>1
<1>3. q <= S - 1
  <2>1. CASE q >= S
    <3>1. q * S >= S * S
      BY <1>1, <2>1
    <3> QED  BY <1>1, <1>2, <3>1 DEF S
  <2> QED  BY <1>1, <2>1
<1>4. PICK t \in Nat : t = q + r /\ t <= 2 * S - 2
  BY <1>1, <1>3
<1>5. Fold(s) = t
  BY <1>2, <1>4 DEF Fold, S
<1>6. s = q * (S - 1) + t
  <2>1. q * (S - 1) = q * S - q /\ q * S \in Int
    BY <1>1
  <2>2. s = q * S + r
    BY <1>2
  <2> QED  BY <1>1, <1>4, <2>1, <2>2
<1>7. CASE t <= S - 1
  <2>1. t \div S = 0 /\ t % S = t
    BY <1>1, <1>7, Remainder
  <2>2. Fold(Fold(s)) % S = t
    BY <1>5, <2>1 DEF Fold, S
  <2>3. CASE s = 0
    <3>1. t = 0
      <4>1. q * (S - 1) >= 0
        BY <1>1
      <4> QED  BY <1>1, <1>6, <2>3, <4>1
    <3> QED  BY <2>2, <2>3, <3>1 DEF S
  <2>4. CASE s # 0
    <3>1. t # 0
      <4>1. ASSUME t = 0 PROVE FALSE
        <5>1. q = 0 /\ r = 0
          BY <1>1, <1>4, <4>1
        <5>2. q * (S - 1) = 0
          BY <1>1, <5>1
        <5> QED  BY <1>6, <2>4, <4>1, <5>2
      <4> QED  BY <4>1
    <3>2. s - 1 \in Nat /\ s - 1 = q * (S - 1) + (t - 1) /\ t - 1 \in 0 .. (S - 1) - 1
          /\ S - 1 \in Nat \ {0}
      BY <1>1, <1>6, <1>7, <2>4, <3>1
    <3>3. (s - 1) % (S - 1) = t - 1
      BY <3>2, Remainder
    <3> QED  BY <1>1, <2>2, <2>4, <3>3 DEF S
  <2> QED  BY <2>3, <2>4
<1>8. CASE t >= S
  <2>1. t \in Nat /\ S \in Nat \ {0} /\ t - S \in 0 .. S - 1 /\ t = 1 * S + (t - S)
    BY <1>1, <1>4, <1>8
  <2>2. t \div S = 1 /\ t % S = t - S
    BY <2>1, Remainder
  <2>3. Fold(Fold(s)) = t - S + 1
    BY <1>1, <1>5, <2>2 DEF Fold, S
  <2>4. (t - S + 1) % S = t - S + 1
    <3>1. t - S + 1 \in Nat /\ t - S + 1 \in 0 .. S - 1 /\ t - S + 1 = 0 * S + (t - S + 1)
      BY <1>1, <1>4, <1>8
    <3> QED  BY <2>1, <3>1, Remainder
  <2>5. s # 0
    <3>1. q * (S - 1) >= 0
      BY <1>1
    <3> QED  BY <1>1, <1>6, <1>8, <3>1
  <2>6. (s - 1) % (S - 1) = t - S
    <3>1. (q + 1) * (S - 1) = q * (S - 1) + (S - 1)
      BY <1>1
    <3>2. s - 1 \in Nat /\ s - 1 = (q + 1) * (S - 1) + (t - S) /\ t - S \in 0 .. (S - 1) - 1
          /\ S - 1 \in Nat \ {0} /\ q + 1 \in Nat
      BY <1>1, <1>4, <1>6, <1>8, <2>5, <3>1
    <3>3. PICK n \in Nat, d \in Nat \ {0}, k \in Nat : n = s - 1 /\ d = S - 1 /\ k = q + 1
      BY <3>2
    <3>4. PICK y \in 0 .. d - 1 : y = t - S /\ n = k * d + y
      BY <3>2, <3>3
    <3>5. n % d = y
      BY <3>4, Remainder
    <3> QED  BY <3>3, <3>4, <3>5
  <2> QED  BY <1>1, <2>3, <2>4, <2>5, <2>6 DEF S
<1> QED  BY <1>1, <1>7, <1>8

-----------------------------------------------------------------------------
\* The sum of h words and perhaps a byte.
WordsBound(s, h) ==
    \/ Len(s) = 2 * h /\ WordSum(s, 2) <= h * (Short - 1)
    \/ Len(s) = 2 * h + 1 /\ WordSum(s, 2) <= h * (Short - 1) + (Base - 1)

\* In the 16 bit sum bytes weigh 1 and Base by turns.
LEMMA WeightTwo ==
    ASSUME NEW h \in Nat
    PROVE  Weight(2 * h, 2) = 1 /\ Weight(2 * h + 1, 2) = Base
<1>1. (2 * h) % 2 = 0 /\ (2 * h + 1) % 2 = 1
  OBVIOUS
<1> QED  BY <1>1 DEF Weight

\* One more byte keeps the bound, or begins the next word.
LEMMA BoundAppend ==
    ASSUME NEW s \in Seq(0 .. Base - 1), NEW b \in 0 .. Base - 1, NEW h \in Nat,
           WordsBound(s, h), WordSum(s, 2) \in Nat, Determined(s, 2)
    PROVE  /\ WordSum(Append(s, b), 2) \in Nat
           /\ WordsBound(Append(s, b), h) \/ WordsBound(Append(s, b), h + 1)
<1>1. /\ Len(Append(s, b)) = Len(s) + 1
      /\ WordSum(Append(s, b), 2) = WordSum(s, 2) + b * Weight(Len(s), 2)
  <2>1. WordSum(Append(s, b), 2) = WordSum(s, 2) + b * Weight(Len(s), 2)
    BY SumAppend
  <2> QED  BY <2>1
<1>2. b \in Nat /\ b <= Base - 1 /\ Base \in Nat /\ Short \in Nat
  BY ShortNat
<1>3. CASE Len(s) = 2 * h /\ WordSum(s, 2) <= h * (Short - 1)
  <2>1. WordSum(Append(s, b), 2) = WordSum(s, 2) + b
    BY <1>1, <1>2, <1>3, WeightTwo
  <2>2. h * (Short - 1) \in Int
    BY <1>2
  <2> QED  BY <1>1, <1>2, <1>3, <2>1, <2>2 DEF WordsBound
<1>4. CASE Len(s) = 2 * h + 1 /\ WordSum(s, 2) <= h * (Short - 1) + (Base - 1)
  <2>1. WordSum(Append(s, b), 2) = WordSum(s, 2) + b * Base
    BY <1>1, <1>2, <1>4, WeightTwo
  <2>2. b * Base \in Nat /\ b * Base <= (Base - 1) * Base
    BY <1>2
  <2>3. (Base - 1) * Base = Short - Base
    BY <1>2 DEF Short
  <2>4. h * (Short - 1) \in Int /\ (h + 1) * (Short - 1) = h * (Short - 1) + (Short - 1)
    BY <1>2
  <2>5. Len(Append(s, b)) = 2 * (h + 1)
    BY <1>1, <1>4
  <2>6. WordSum(Append(s, b), 2) \in Nat /\ WordSum(Append(s, b), 2) <= (h + 1) * (Short - 1)
    <3>1. PICK x \in Nat : x = b * Base /\ x <= Short - Base
      BY <2>2, <2>3
    <3>2. PICK y \in Int : y = h * (Short - 1)
      BY <2>4
    <3>3. (h + 1) * (Short - 1) = y + (Short - 1)
      BY <2>4, <3>2
    <3>4. WordSum(Append(s, b), 2) = WordSum(s, 2) + x /\ WordSum(s, 2) <= y + (Base - 1)
      BY <1>4, <2>1, <3>1, <3>2
    <3>5. WordSum(s, 2) + x \in Nat /\ WordSum(s, 2) + x <= y + (Short - 1)
      <4>1. x <= Short - Base /\ WordSum(s, 2) <= y + (Base - 1)
        BY <3>1, <3>4
      <4> QED  BY <1>2, <4>1
    <3> QED  BY <3>3, <3>4, <3>5
  <2> QED  BY <2>5, <2>6 DEF WordsBound
<1> QED  BY <1>3, <1>4 DEF WordsBound

\* The sum of a buffer of at most MaxLen bytes is below 2^32, which is what two
\* foldings can do.
LEMMA BoundMeansShort ==
    ASSUME NEW s \in Seq(0 .. Base - 1), NEW h \in Nat, WordsBound(s, h), WordSum(s, 2) \in Nat,
           Len(s) <= MaxLen
    PROVE  WordSum(s, 2) < Short * Short
<1>1. /\ Base \in Nat /\ Base >= 2 /\ Short \in Nat /\ Short >= 2 * Base /\ MaxLen \in Nat
      /\ Len(s) \in Nat /\ Short * Short \in Nat
  BY ShortNat, ChecksumAssumption
<1>2. PICK m \in Nat : m = (MaxLen + 1) \div 2 /\ 2 * m >= MaxLen
  BY <1>1
<1>3. m * (Short - 1) < Short * Short
  BY <1>2, FoldAssumption
<1>4. m * (Short - 1) \in Int /\ h * (Short - 1) \in Int
  BY <1>1
<1>5. CASE Len(s) = 2 * h /\ WordSum(s, 2) <= h * (Short - 1)
  <2>1. h <= m
    BY <1>1, <1>2, <1>5
  <2>2. h * (Short - 1) <= m * (Short - 1)
    BY <1>1, <2>1
  <2> QED  BY <1>1, <1>3, <1>4, <1>5, <2>2
<1>6. CASE Len(s) = 2 * h + 1 /\ WordSum(s, 2) <= h * (Short - 1) + (Base - 1)
  <2>1. h + 1 <= m
    BY <1>1, <1>2, <1>6
  <2>2. (h + 1) * (Short - 1) <= m * (Short - 1)
    BY <1>1, <2>1
  <2>3. (h + 1) * (Short - 1) = h * (Short - 1) + (Short - 1)
    BY <1>1
  <2> QED  BY <1>1, <1>3, <1>4, <1>6, <2>2, <2>3
<1> QED  BY <1>5, <1>6 DEF WordsBound

-----------------------------------------------------------------------------
\* The sum of the first n chunks of s, as a download adds them up.
LeadAdds(f, s, n) ==
    f = [i \in 0 .. n |-> IF i = 0 THEN 0 ELSE (f[i - 1] + checksum_64K(ChunkOf(s, i))) % Int32]

\* Again there is exactly one such function.
LeadDetermined(s, n) == \E f : \A g : LeadAdds(g, s, n) <=> g = f

\* Its value after n chunks.
Lead(s, n) == (CHOOSE f : LeadAdds(f, s, n))[n]

\* The sum of a download is that of all its chunks.
LEMMA DownloadSumIs ==
    ASSUME NEW s
    PROVE  DownloadSum(s) = Lead(s, Chunks(s))
BY DEF DownloadSum, Lead, LeadAdds

\* When the function is known, the sum of the first chunks is known.
LEMMA LeadChosen ==
    ASSUME NEW s, NEW n, NEW f, \A g : LeadAdds(g, s, n) <=> g = f
    PROVE  LeadDetermined(s, n) /\ Lead(s, n) = f[n]
<1>1. LeadAdds(f, s, n)
  OBVIOUS
<1>2. LeadAdds(CHOOSE g : LeadAdds(g, s, n), s, n)
  BY <1>1, Zenon
<1>3. (CHOOSE g : LeadAdds(g, s, n)) = f
  BY <1>2
<1>4. LeadDetermined(s, n)
  BY DEF LeadDetermined
<1> QED  BY <1>3, <1>4 DEF Lead

\* No chunk sums to 0.
LEMMA LeadNone ==
    ASSUME NEW s
    PROVE  LeadDetermined(s, 0) /\ Lead(s, 0) = 0
<1> DEFINE f == [i \in 0 .. 0 |-> 0]
<1>1. \A g : LeadAdds(g, s, 0) <=> g = f
  BY DEF LeadAdds
<1>2. f[0] = 0
  OBVIOUS
<1> HIDE DEF f
<1>3. LeadDetermined(s, 0) /\ Lead(s, 0) = f[0]
  BY <1>1, LeadChosen
<1> QED  BY <1>2, <1>3

\* The next chunk adds its own sum, in 32 bits.
LEMMA LeadNext ==
    ASSUME NEW s, NEW n \in Nat, LeadDetermined(s, n)
    PROVE  /\ LeadDetermined(s, n + 1)
           /\ Lead(s, n + 1) = (Lead(s, n) + checksum_64K(ChunkOf(s, n + 1))) % Int32
<1> DEFINE v(i) == checksum_64K(ChunkOf(s, i))
<1>1. PICK f : \A g : LeadAdds(g, s, n) <=> g = f
  BY DEF LeadDetermined
<1>2. \A g, m : LeadAdds(g, s, m) <=>
          g = [i \in 0 .. m |-> IF i = 0 THEN 0 ELSE (g[i - 1] + v(i)) % Int32]
  BY DEF LeadAdds
<1> HIDE DEF v
<1> DEFINE e == [i \in 0 .. n + 1 |-> IF i = n + 1 THEN (f[n] + v(n + 1)) % Int32 ELSE f[i]]
<1>3. f = [i \in 0 .. n |-> IF i = 0 THEN 0 ELSE (f[i - 1] + v(i)) % Int32]
  BY <1>1, <1>2
<1>4. e = [i \in 0 .. n + 1 |-> IF i = 0 THEN 0 ELSE (e[i - 1] + v(i)) % Int32]
  BY <1>3
<1>5. ASSUME NEW g, LeadAdds(g, s, n + 1) PROVE g = e
  <2> DEFINE h == [i \in 0 .. n |-> g[i]]
  <2>1. g = [i \in 0 .. n + 1 |-> IF i = 0 THEN 0 ELSE (g[i - 1] + v(i)) % Int32]
    BY <1>2, <1>5
  <2>2. h = [i \in 0 .. n |-> IF i = 0 THEN 0 ELSE (h[i - 1] + v(i)) % Int32]
    BY <2>1
  <2>3. h = f
    BY <1>1, <1>2, <2>2
  <2>4. \A i \in 0 .. n : g[i] = f[i]
    BY <2>3
  <2>5. g[n + 1] = (f[n] + v(n + 1)) % Int32
    <3>1. n + 1 \in 0 .. n + 1 /\ n + 1 # 0 /\ (n + 1) - 1 = n
      OBVIOUS
    <3>2. g[n + 1] = (g[(n + 1) - 1] + v(n + 1)) % Int32
      BY <2>1, <3>1, Zenon
    <3>3. g[n] = f[n]
      BY <2>4
    <3> QED  BY <3>1, <3>2, <3>3, Zenon
  <2>6. \A i \in 0 .. n + 1 : g[i] = e[i]
    BY <2>4, <2>5
  <2>7. g = [i \in 0 .. n + 1 |-> g[i]]
    BY <2>1
  <2>8. e = [i \in 0 .. n + 1 |-> g[i]]
    BY <2>6
  <2> QED  BY <2>7, <2>8
<1>6. e[n + 1] = (f[n] + v(n + 1)) % Int32
  OBVIOUS
<1> HIDE DEF e
<1>7. \A g : LeadAdds(g, s, n + 1) <=> g = e
  BY <1>2, <1>4, <1>5
<1>8. LeadDetermined(s, n + 1) /\ Lead(s, n + 1) = e[n + 1]
  BY <1>7, LeadChosen
<1>9. Lead(s, n) = f[n]
  BY <1>1, LeadChosen
<1> QED  BY <1>6, <1>8, <1>9 DEF v

\* The sum depends on the chunks alone.
LEMMA LeadSame ==
    ASSUME NEW s, NEW t, NEW n \in Nat, LeadDetermined(s, n),
           \A i \in 1 .. n : ChunkOf(t, i) = ChunkOf(s, i)
    PROVE  LeadDetermined(t, n) /\ Lead(t, n) = Lead(s, n)
<1>1. PICK f : \A g : LeadAdds(g, s, n) <=> g = f
  BY DEF LeadDetermined
<1>2. \A g : LeadAdds(g, t, n) <=> LeadAdds(g, s, n)
  <2>1. ASSUME NEW g
        PROVE [i \in 0 .. n |-> IF i = 0 THEN 0 ELSE (g[i - 1] + checksum_64K(ChunkOf(t, i))) % Int32]
              = [i \in 0 .. n |-> IF i = 0 THEN 0 ELSE (g[i - 1] + checksum_64K(ChunkOf(s, i))) % Int32]
    OBVIOUS
  <2> QED  BY <2>1 DEF LeadAdds
<1>3. \A g : LeadAdds(g, t, n) <=> g = f
  BY <1>1, <1>2, Zenon
<1>4. LeadDetermined(t, n) /\ Lead(t, n) = f[n]
  BY <1>3, LeadChosen, Zenon
<1>5. Lead(s, n) = f[n]
  BY <1>1, LeadChosen, Zenon
<1> QED  BY <1>4, <1>5

-----------------------------------------------------------------------------
\* Remainders of sums.
LEMMA AddRemainder ==
    ASSUME NEW a \in Nat, NEW b \in Nat, NEW m \in Nat \ {0}
    PROVE  (a + (b % m)) % m = (a + b) % m
<1>1. PICK q \in Nat, r \in 0 .. m - 1 : r = b % m /\ b = q * m + r
  <2>1. b \div m \in Nat /\ b % m \in 0 .. m - 1 /\ b = (b \div m) * m + (b % m)
    BY Division
  <2> QED  BY <2>1
<1>2. PICK p \in Nat, x \in 0 .. m - 1 : x = (a + r) % m /\ a + r = p * m + x
  <2>1. a + r \in Nat
    OBVIOUS
  <2>2. /\ (a + r) \div m \in Nat /\ (a + r) % m \in 0 .. m - 1
        /\ a + r = ((a + r) \div m) * m + ((a + r) % m)
    BY <2>1, Division
  <2> QED  BY <2>2
<1>3. a + b = (p + q) * m + x
  <2>1. (p + q) * m = p * m + q * m /\ p * m \in Nat /\ q * m \in Nat
    OBVIOUS
  <2>2. b = q * m + r /\ a + r = p * m + x
    BY <1>1, <1>2
  <2> QED  BY <2>1, <2>2
<1>4. (a + b) % m = x
  <2>1. a + b \in Nat /\ p + q \in Nat
    OBVIOUS
  <2> QED  BY <1>3, <2>1, Remainder
<1> QED  BY <1>1, <1>2, <1>4

\* A remainder is its own.
LEMMA RemainderStays ==
    ASSUME NEW m \in Nat \ {0}, NEW y \in 0 .. m - 1
    PROVE  (y + 0) % m = y
<1>1. y \in Nat /\ 0 \in Nat /\ y = 0 * m + y /\ y + 0 = y
  OBVIOUS
<1>2. y % m = y
  BY <1>1, Remainder
<1> QED  BY <1>1, <1>2

\* A byte weighs the same in its chunk as in the whole.
LEMMA WeightInChunk ==
    ASSUME NEW c \in Nat, NEW x \in Nat
    PROVE  Weight(c * Chunk + x, 4) = Weight(x, 4) /\ Weight(x, 4) \in Nat
<1>1. PICK j \in Nat : Chunk = 4 * j
  <2>1. Chunk \in Nat /\ Chunk % 4 = 0
    BY ChecksumAssumption
  <2> QED  BY <2>1
<1>2. PICK y \in Nat, z \in 0 .. 3 : z = x % 4 /\ x = 4 * y + z
  OBVIOUS
<1>3. PICK d \in Nat : d = c * j /\ c * Chunk = 4 * d
  <2>1. c * j \in Nat /\ c * (4 * j) = 4 * (c * j)
    OBVIOUS
  <2> QED  BY <1>1, <2>1
<1>4. (c * Chunk + x) % 4 = x % 4
  <2>1. (4 * d + (4 * y + z)) % 4 = z
    OBVIOUS
  <2> QED  BY <1>2, <1>3, <2>1
<1>5. Base \in Nat /\ Short \in Nat /\ Short * Base \in Nat
  BY ShortNat
<1>6. Weight(x, 4) \in Nat
  BY <1>2, <1>5 DEF Weight
<1> QED  BY <1>4, <1>6 DEF Weight

-----------------------------------------------------------------------------
\* The whole chunks of s, and what follows the last of them.
Full(s) == Len(s) \div Chunk

Rest(s) == SubSeq(s, Full(s) * Chunk + 1, Len(s))

\* Length, whole chunks and the bytes after them.
LEMMA FullIs ==
    ASSUME NEW s \in Seq(0 .. Base - 1)
    PROVE  /\ Full(s) \in Nat /\ Len(s) % Chunk \in 0 .. Chunk - 1 /\ Full(s) * Chunk \in Nat
           /\ Len(s) = Full(s) * Chunk + (Len(s) % Chunk)
<1>1. Len(s) \in Nat /\ Chunk \in Nat \ {0}
  BY ChecksumAssumption
<1>2. /\ Len(s) \div Chunk \in Nat /\ Len(s) % Chunk \in 0 .. Chunk - 1
      /\ Len(s) = (Len(s) \div Chunk) * Chunk + (Len(s) % Chunk)
  BY <1>1, Division
<1>3. (Len(s) \div Chunk) * Chunk \in Nat
  BY <1>1, <1>2
<1> QED  BY <1>2, <1>3 DEF Full

\* What a longer sequence keeps of its parts.
LEMMA AppendSubSeq ==
    ASSUME NEW T, NEW s \in Seq(T), NEW b \in T, NEW m \in 1 .. Len(s) + 1
    PROVE  /\ \A n \in m - 1 .. Len(s) : SubSeq(Append(s, b), m, n) = SubSeq(s, m, n)
           /\ SubSeq(Append(s, b), m, Len(s) + 1) = Append(SubSeq(s, m, Len(s)), b)
<1> DEFINE t == Append(s, b)
<1>1. t \in Seq(T) /\ Len(t) = Len(s) + 1 /\ t[Len(s) + 1] = b /\ \A i \in 1 .. Len(s) : t[i] = s[i]
  OBVIOUS
<1> HIDE DEF t
<1>2. ASSUME NEW n \in m - 1 .. Len(s) PROVE SubSeq(t, m, n) = SubSeq(s, m, n)
  <2>1. /\ SubSeq(t, m, n) \in Seq(T) /\ Len(SubSeq(t, m, n)) = n - m + 1
        /\ \A i \in 1 .. n - m + 1 : SubSeq(t, m, n)[i] = t[m + i - 1]
    BY <1>1, SubSeqProperties
  <2>2. /\ SubSeq(s, m, n) \in Seq(T) /\ Len(SubSeq(s, m, n)) = n - m + 1
        /\ \A i \in 1 .. n - m + 1 : SubSeq(s, m, n)[i] = s[m + i - 1]
    BY SubSeqProperties
  <2>3. \A i \in 1 .. n - m + 1 : m + i - 1 \in 1 .. Len(s)
    OBVIOUS
  <2>4. \A i \in 1 .. Len(SubSeq(t, m, n)) : SubSeq(t, m, n)[i] = SubSeq(s, m, n)[i]
    BY <1>1, <2>1, <2>2, <2>3
  <2> QED  BY <2>1, <2>2, <2>4, SeqEqual
<1>3. SubSeq(t, m, Len(s) + 1) = Append(SubSeq(s, m, Len(s)), b)
  <2> DEFINE u == SubSeq(t, m, Len(s) + 1)
             v == SubSeq(s, m, Len(s))
             k == Len(s) - m + 1
  <2>1. u \in Seq(T) /\ Len(u) = k + 1 /\ \A i \in 1 .. k + 1 : u[i] = t[m + i - 1]
    <3>1. m \in 1 .. Len(t) + 1 /\ Len(s) + 1 \in m - 1 .. Len(t)
      BY <1>1
    <3> QED  BY <1>1, <3>1, SubSeqProperties
  <2>2. v \in Seq(T) /\ Len(v) = k /\ \A i \in 1 .. k : v[i] = s[m + i - 1]
    <3>1. Len(s) \in m - 1 .. Len(s)
      OBVIOUS
    <3> QED  BY <3>1, SubSeqProperties
  <2>3. k \in Nat /\ Len(s) \in Nat /\ m + (k + 1) - 1 = Len(s) + 1 /\ \A i \in 1 .. k : m + i - 1 \in 1 .. Len(s)
    OBVIOUS
  <2> HIDE DEF u, v, k
  <2>4. Append(v, b) \in Seq(T) /\ Len(Append(v, b)) = k + 1 /\ Append(v, b)[k + 1] = b
        /\ \A i \in 1 .. k : Append(v, b)[i] = v[i]
    BY <2>2
  <2>5. ASSUME NEW i \in 1 .. k + 1 PROVE u[i] = Append(v, b)[i]
    <3>1. CASE i = k + 1
      BY <1>1, <2>1, <2>3, <2>4, <3>1
    <3>2. CASE i \in 1 .. k
      <4>1. m + i - 1 \in 1 .. Len(s)
        BY <2>3, <3>2
      <4>2. u[i] = t[m + i - 1]
        BY <2>1
      <4>3. Append(v, b)[i] = s[m + i - 1]
        BY <2>2, <2>4, <3>2
      <4>4. t[m + i - 1] = s[m + i - 1]
        BY <1>1, <4>1
      <4> QED  BY <4>2, <4>3, <4>4
    <3>3. i = k + 1 \/ i \in 1 .. k
      <4>1. k \in Nat
        BY <2>3
      <4> QED  BY <4>1
    <3> QED  BY <3>1, <3>2, <3>3
  <2>6. u = Append(v, b)
    BY <2>1, <2>4, <2>5, SeqEqual
  <2> QED  BY <2>6 DEF u, v
<1> QED  BY <1>2, <1>3 DEF t

\* The last elements of a sequence.
LEMMA EndOfSeq ==
    ASSUME NEW T, NEW s \in Seq(T), NEW m \in 1 .. Len(s) + 1
    PROVE  /\ SubSeq(s, m, Len(s)) \in Seq(T)
           /\ Len(SubSeq(s, m, Len(s))) = Len(s) - m + 1
<1>1. m \in Int /\ Len(s) \in Int /\ \A i \in m .. Len(s) : s[i] \in T
  OBVIOUS
<1>2. /\ SubSeq(s, m, Len(s)) \in Seq(T)
      /\ Len(SubSeq(s, m, Len(s))) = IF m <= Len(s) THEN Len(s) - m + 1 ELSE 0
  BY <1>1, SubSeqProperties
<1> QED  BY <1>2

\* What follows the whole chunks is the next chunk in the making.
LEMMA RestIs ==
    ASSUME NEW s \in Seq(0 .. Base - 1)
    PROVE  /\ Rest(s) \in Seq(0 .. Base - 1) /\ Len(Rest(s)) = Len(s) % Chunk
           /\ Len(s) % Chunk = 0 => Rest(s) = <<>> /\ Chunks(s) = Full(s)
           /\ Len(s) % Chunk # 0 => Chunks(s) = Full(s) + 1 /\ ChunkOf(s, Full(s) + 1) = Rest(s)
<1>1. PICK c \in Nat, x \in 0 .. Chunk - 1, p \in Nat :
          c = Full(s) /\ x = Len(s) % Chunk /\ p = c * Chunk /\ Len(s) = p + x
  BY FullIs
<1>2. Chunk \in Nat \ {0} /\ Len(s) \in Nat /\ Len(s) = p + x
  <2>1. Len(s) \in Nat
    OBVIOUS
  <2> QED  BY <1>1, <2>1, ChecksumAssumption, Zenon
<1>3. Rest(s) = SubSeq(s, p + 1, Len(s))
  BY <1>1 DEF Rest
<1>4. p + 1 \in 1 .. Len(s) + 1 /\ Len(s) \in (p + 1) - 1 .. Len(s) /\ Len(s) - (p + 1) + 1 = x
  BY <1>2
<1>5. Rest(s) \in Seq(0 .. Base - 1) /\ Len(Rest(s)) = x
  <2>1. /\ SubSeq(s, p + 1, Len(s)) \in Seq(0 .. Base - 1)
        /\ Len(SubSeq(s, p + 1, Len(s))) = Len(s) - (p + 1) + 1
    BY <1>4, EndOfSeq
  <2> QED  BY <1>3, <1>4, <2>1
<1>6. CASE x = 0
  <2>1. Rest(s) = <<>>
    BY <1>5, <1>6
  <2>2. Len(s) + Chunk - 1 = c * Chunk + (Chunk - 1) /\ Len(s) + Chunk - 1 \in Nat
        /\ Chunk - 1 \in 0 .. Chunk - 1
    <3>1. Len(s) + Chunk - 1 = p + (Chunk - 1) /\ Len(s) + Chunk - 1 \in Nat
          /\ Chunk - 1 \in 0 .. Chunk - 1
      BY <1>2, <1>6
    <3> QED  BY <1>1, <3>1
  <2>3. Chunks(s) = c
    BY <1>2, <2>2, Remainder DEF Chunks
  <2> QED  BY <1>1, <1>5, <1>6, <2>1, <2>3
<1>7. CASE x # 0
  <2>1. (c + 1) * Chunk = p + Chunk /\ ((c + 1) - 1) * Chunk = p /\ c + 1 \in Nat
    <3>1. (c + 1) * Chunk = c * Chunk + Chunk /\ (c + 1) - 1 = c
      BY <1>2
    <3> QED  BY <1>1, <3>1
  <2>2. Len(s) + Chunk - 1 = (c + 1) * Chunk + (x - 1) /\ Len(s) + Chunk - 1 \in Nat
        /\ x - 1 \in 0 .. Chunk - 1
    <3>1. Len(s) + Chunk - 1 = (p + Chunk) + (x - 1) /\ Len(s) + Chunk - 1 \in Nat
          /\ x - 1 \in 0 .. Chunk - 1
      BY <1>2, <1>7
    <3> QED  BY <2>1, <3>1
  <2>3. Chunks(s) = c + 1
    BY <1>2, <2>1, <2>2, Remainder DEF Chunks
  <2>4. ~ (c + 1) * Chunk < Len(s)
    <3>1. ~ p + Chunk < Len(s)
      BY <1>2
    <3> QED  BY <2>1, <3>1
  <2>5. ChunkOf(s, c + 1) = SubSeq(s, p + 1, Len(s))
    BY <2>1, <2>4 DEF ChunkOf
  <2> QED  BY <1>1, <1>3, <1>5, <1>7, <2>3, <2>5
<1> QED  BY <1>6, <1>7

\* The next byte leaves the whole chunks alone.
LEMMA ChunksStay ==
    ASSUME NEW s \in Seq(0 .. Base - 1), NEW b \in 0 .. Base - 1, NEW i \in 1 .. Full(s)
    PROVE  ChunkOf(Append(s, b), i) = ChunkOf(s, i)
<1>1. PICK c \in Nat, x \in 0 .. Chunk - 1, p \in Nat :
          c = Full(s) /\ x = Len(s) % Chunk /\ p = c * Chunk /\ Len(s) = p + x
  BY FullIs
<1>2. Chunk \in Nat \ {0} /\ Len(s) \in Nat /\ Len(Append(s, b)) = Len(s) + 1 /\ Len(s) = p + x
  <2>1. Len(s) \in Nat /\ Len(Append(s, b)) = Len(s) + 1
    OBVIOUS
  <2> QED  BY <1>1, <2>1, ChecksumAssumption, Zenon
<1>3. i \in Nat /\ i <= c /\ i - 1 \in Nat
  BY <1>1
<1>4. PICK q \in Nat : q = (i - 1) * Chunk /\ i * Chunk = q + Chunk
  <2>1. (i - 1) * Chunk \in Nat /\ i * Chunk = (i - 1) * Chunk + Chunk
    BY <1>2, <1>3
  <2> QED  BY <2>1
<1>5. i * Chunk <= c * Chunk
  BY <1>2, <1>3
<1>6. q + Chunk <= Len(s)
  <2>1. q + Chunk <= p
    BY <1>1, <1>4, <1>5
  <2> QED  BY <1>2, <2>1
<1>7. ChunkOf(s, i) = SubSeq(s, q + 1, q + Chunk)
  <2>1. (IF q + Chunk < Len(s) THEN q + Chunk ELSE Len(s)) = q + Chunk
    BY <1>2, <1>6
  <2> QED  BY <1>4, <2>1 DEF ChunkOf
<1>8. ChunkOf(Append(s, b), i) = SubSeq(Append(s, b), q + 1, q + Chunk)
  <2>1. q + Chunk < Len(Append(s, b))
    BY <1>2, <1>6
  <2> QED  BY <1>4, <2>1 DEF ChunkOf
<1>9. q + 1 \in 1 .. Len(s) + 1 /\ q + Chunk \in (q + 1) - 1 .. Len(s)
  BY <1>2, <1>6
<1>10. SubSeq(Append(s, b), q + 1, q + Chunk) = SubSeq(s, q + 1, q + Chunk)
  BY <1>9, AppendSubSeq
<1> QED  BY <1>7, <1>8, <1>10

\* The next byte lengthens the chunk in the making, and may complete it.
LEMMA RestAppend ==
    ASSUME NEW s \in Seq(0 .. Base - 1), NEW b \in 0 .. Base - 1
    PROVE  LET t == Append(s, b)
               r == Append(Rest(s), b)
               x == Len(s) % Chunk
           IN  /\ x + 1 < Chunk => Full(t) = Full(s) /\ Rest(t) = r
               /\ x + 1 = Chunk => /\ Full(t) = Full(s) + 1 /\ Rest(t) = <<>>
                                   /\ ChunkOf(t, Full(s) + 1) = r
<1> DEFINE t == Append(s, b)
<1>1. PICK c \in Nat, x \in 0 .. Chunk - 1, p \in Nat :
          c = Full(s) /\ x = Len(s) % Chunk /\ p = c * Chunk /\ Len(s) = p + x
  BY FullIs
<1>0. t \in Seq(0 .. Base - 1)
  OBVIOUS
<1>2. Chunk \in Nat \ {0} /\ Len(s) \in Nat /\ Len(s) = p + x /\ Len(t) = Len(s) + 1
  <2>1. Len(s) \in Nat /\ Len(t) = Len(s) + 1
    OBVIOUS
  <2> QED  BY <1>1, <2>1, ChecksumAssumption, Zenon
<1> HIDE DEF t
<1>3. Rest(s) = SubSeq(s, p + 1, Len(s)) /\ p + 1 \in 1 .. Len(s) + 1
  <2>1. p + 1 \in 1 .. Len(s) + 1
    BY <1>2
  <2> QED  BY <1>1, <2>1 DEF Rest
<1>4. SubSeq(t, p + 1, Len(s) + 1) = Append(Rest(s), b)
  BY <1>3, AppendSubSeq DEF t
<1>5. ASSUME x + 1 < Chunk
      PROVE  Full(t) = c /\ Rest(t) = Append(Rest(s), b)
  <2>1. Len(t) \in Nat /\ Len(t) = c * Chunk + (x + 1) /\ x + 1 \in 0 .. Chunk - 1
    <3>1. Len(t) \in Nat /\ Len(t) = p + (x + 1) /\ x + 1 \in 0 .. Chunk - 1
      BY <1>2, <1>5
    <3> QED  BY <1>1, <3>1
  <2>2. Full(t) = c
    <3>1. PICK l \in Nat, y \in 0 .. Chunk - 1 : l = Len(t) /\ l = c * Chunk + y
      BY <2>1
    <3>2. Chunk \in Nat \ {0}
      BY <1>2
    <3>3. l \div Chunk = c
      BY <3>1, <3>2, Remainder
    <3> QED  BY <3>1, <3>3 DEF Full
  <2>3. Rest(t) = SubSeq(t, p + 1, Len(s) + 1)
    <3>1. Rest(t) = SubSeq(t, c * Chunk + 1, Len(t))
      BY <2>2 DEF Rest
    <3> QED  BY <1>1, <1>2, <3>1, Zenon
  <2> QED  BY <1>4, <2>2, <2>3
<1>6. ASSUME x + 1 = Chunk
      PROVE  Full(t) = c + 1 /\ Rest(t) = <<>> /\ ChunkOf(t, c + 1) = Append(Rest(s), b)
  <2>1. (c + 1) * Chunk = p + Chunk /\ ((c + 1) - 1) * Chunk = p /\ c + 1 \in Nat
    <3>1. (c + 1) * Chunk = c * Chunk + Chunk /\ (c + 1) - 1 = c
      BY <1>2
    <3> QED  BY <1>1, <3>1
  <2>2. Len(t) \in Nat /\ Len(t) = (c + 1) * Chunk + 0 /\ 0 \in 0 .. Chunk - 1
    <3>1. Len(t) \in Nat /\ Len(t) = (p + Chunk) + 0 /\ 0 \in 0 .. Chunk - 1
      BY <1>2, <1>6
    <3> QED  BY <2>1, <3>1
  <2>3. Full(t) = c + 1 /\ Len(t) % Chunk = 0
    <3>1. PICK l \in Nat, d \in Nat, y \in 0 .. Chunk - 1 :
              l = Len(t) /\ d = c + 1 /\ y = 0 /\ l = d * Chunk + y
      BY <2>1, <2>2
    <3>2. Chunk \in Nat \ {0}
      BY <1>2
    <3>3. l \div Chunk = d /\ l % Chunk = y
      BY <3>1, <3>2, Remainder
    <3> QED  BY <3>1, <3>3 DEF Full
  <2>4. Rest(t) = <<>>
    BY <1>0, <2>3, RestIs
  <2>5. ~ (c + 1) * Chunk < Len(t)
    <3>1. ~ p + Chunk < Len(t)
      BY <1>2, <1>6
    <3> QED  BY <2>1, <3>1
  <2>6. ChunkOf(t, c + 1) = SubSeq(t, p + 1, Len(s) + 1)
    BY <1>2, <2>1, <2>5 DEF ChunkOf
  <2> QED  BY <1>4, <2>3, <2>4, <2>6
<1> QED  BY <1>1, <1>5, <1>6, Zenon DEF t

-----------------------------------------------------------------------------
\* The sum by short words is that of the words, and bounded.
ShortInv(s) ==
    /\ Determined(s, 2) /\ WordSum(s, 2) \in Nat
    /\ \E h \in Nat : WordsBound(s, h)

\* What a download has added up so far and the chunk in the making are the whole.
LongInv(s) ==
    /\ Determined(s, 4) /\ WordSum(s, 4) \in Nat
    /\ Determined(Rest(s), 4) /\ WordSum(Rest(s), 4) \in Nat
    /\ LeadDetermined(s, Full(s)) /\ Lead(s, Full(s)) \in 0 .. Int32 - 1
    /\ (Lead(s, Full(s)) + WordSum(Rest(s), 4)) % Int32 = WordSum(s, 4) % Int32

\* Buffers are short sequences of bytes.
SumTypeOK == data \in Seq(0 .. Base - 1) /\ Len(data) <= MaxLen

\* The inductive invariant of a buffer in the making.
SumInv == SumTypeOK /\ ShortInv(data) /\ LongInv(data)

\* The size of a 32 bit word.
LEMMA LongNat == Int32 \in Nat \ {0}
<1>1. Short \in Nat /\ Short >= 1
  BY ShortNat
<1>2. Short * Short \in Nat /\ Short * Short >= 1
  BY <1>1
<1> QED  BY <1>2 DEF Int32

\* The empty buffer satisfies both.
LEMMA EmptySums == ShortInv(<<>>) /\ LongInv(<<>>)
<1>1. \A w : Determined(<<>>, w) /\ WordSum(<<>>, w) = 0
  BY SumEmpty
<1>2. WordsBound(<<>>, 0)
  <2>1. Len(<<>>) = 2 * 0 /\ 0 * (Short - 1) = 0
    BY ShortNat
  <2> QED  BY <1>1, <2>1 DEF WordsBound
<1>3. ShortInv(<<>>)
  BY <1>1, <1>2 DEF ShortInv
<1>4. <<>> \in Seq(0 .. Base - 1) /\ Len(<<>>) = 0
  OBVIOUS
<1>5. Full(<<>>) = 0 /\ Rest(<<>>) = <<>>
  <2>1. 0 \div Chunk = 0 /\ 0 % Chunk = 0
    BY ChecksumAssumption
  <2>2. Rest(<<>>) = <<>>
    BY <1>4, <2>1, RestIs
  <2> QED  BY <1>4, <2>1, <2>2 DEF Full
<1>6. LeadDetermined(<<>>, 0) /\ Lead(<<>>, 0) = 0
  BY LeadNone
<1>7. 0 \in 0 .. Int32 - 1
  BY LongNat
<1>8. LongInv(<<>>)
  BY <1>1, <1>5, <1>6, <1>7 DEF LongInv
<1> QED  BY <1>3, <1>8

\* One more byte keeps the facts about the 16 bit sum.
LEMMA ShortKept ==
    ASSUME NEW s \in Seq(0 .. Base - 1), NEW b \in 0 .. Base - 1, ShortInv(s)
    PROVE  ShortInv(Append(s, b))
<1>1. PICK h \in Nat : WordsBound(s, h)
  BY DEF ShortInv
<1>2. Determined(s, 2) /\ WordSum(s, 2) \in Nat
  BY DEF ShortInv
<1>3. Determined(Append(s, b), 2)
  BY <1>2, SumAppend
<1>4. /\ WordSum(Append(s, b), 2) \in Nat
      /\ WordsBound(Append(s, b), h) \/ WordsBound(Append(s, b), h + 1)
  BY <1>1, <1>2, BoundAppend
<1>5. h + 1 \in Nat
  OBVIOUS
<1> QED  BY <1>3, <1>4, <1>5, Zenon DEF ShortInv

\* One more byte keeps the facts about the 32 bit sums, in the middle of a chunk
\* and at its end.
LEMMA LongKept ==
    ASSUME NEW s \in Seq(0 .. Base - 1), NEW b \in 0 .. Base - 1, LongInv(s)
    PROVE  LongInv(Append(s, b))
<1> DEFINE t == Append(s, b)
           r == Append(Rest(s), b)
           c == Full(s)
           x == Len(s) % Chunk
           w == b * Weight(x, 4)
           m == Int32
<1>1. /\ Determined(s, 4) /\ WordSum(s, 4) \in Nat
      /\ Determined(Rest(s), 4) /\ WordSum(Rest(s), 4) \in Nat
      /\ LeadDetermined(s, c) /\ Lead(s, c) \in 0 .. m - 1
      /\ (Lead(s, c) + WordSum(Rest(s), 4)) % m = WordSum(s, 4) % m
  BY DEF LongInv
<1>2. /\ c \in Nat /\ x \in 0 .. Chunk - 1 /\ Len(s) = c * Chunk + x
      /\ Rest(s) \in Seq(0 .. Base - 1) /\ Len(Rest(s)) = x
  BY FullIs, RestIs
<1>3. Weight(Len(s), 4) = Weight(x, 4) /\ Weight(x, 4) \in Nat
  <2>1. x \in Nat
    BY <1>2
  <2> QED  BY <1>2, <2>1, WeightInChunk
<1>4. w \in Nat
  <2>1. b \in Nat
    BY ShortNat
  <2> QED  BY <1>3, <2>1
<1>5. t \in Seq(0 .. Base - 1)
  OBVIOUS
<1>6. Determined(t, 4) /\ WordSum(t, 4) = WordSum(s, 4) + w
  BY <1>1, <1>3, SumAppend
<1>7. Determined(r, 4) /\ WordSum(r, 4) = WordSum(Rest(s), 4) + w
  BY <1>1, <1>2, SumAppend
<1>8. /\ x + 1 < Chunk => Full(t) = c /\ Rest(t) = r
      /\ x + 1 = Chunk => Full(t) = c + 1 /\ Rest(t) = <<>> /\ ChunkOf(t, c + 1) = r
  BY RestAppend
<1>9. LeadDetermined(t, c) /\ Lead(t, c) = Lead(s, c)
  <2>1. \A i \in 1 .. c : ChunkOf(t, i) = ChunkOf(s, i)
    BY ChunksStay
  <2>2. c \in Nat /\ LeadDetermined(s, c)
    BY <1>1, <1>2
  <2> QED  BY <2>1, <2>2, LeadSame, Zenon
<1>10. m \in Nat \ {0}
  BY LongNat
<1> HIDE DEF t, r, c, x, w, m
<1>11. WordSum(t, 4) \in Nat /\ WordSum(r, 4) \in Nat /\ Lead(s, c) \in Nat
  <2>1. WordSum(t, 4) \in Nat
    BY <1>1, <1>4, <1>6
  <2>2. WordSum(r, 4) \in Nat
    BY <1>1, <1>4, <1>7
  <2>3. Lead(s, c) \in Nat
    BY <1>1, <1>10
  <2> QED  BY <2>1, <2>2, <2>3
<1>12. (Lead(s, c) + WordSum(r, 4)) % m = WordSum(t, 4) % m
  <2>1. PICK a \in Nat, d \in Nat, l \in Nat, e \in Nat :
            a = WordSum(s, 4) /\ d = WordSum(Rest(s), 4) /\ l = Lead(s, c) /\ e = l + d
    BY <1>1, <1>11
  <2>2. e % m = a % m
    BY <1>1, <2>1
  <2>3. (e + w) % m = (a + w) % m
    <3>1. PICK v \in Nat, n \in Nat \ {0} : v = w /\ n = m
      BY <1>4, <1>10
    <3>2. e % n = a % n
      BY <2>2, <3>1
    <3>3. (e + v) % n = (a + v) % n
      <4>1. (v + (e % n)) % n = (v + e) % n
        BY AddRemainder
      <4>2. (v + (a % n)) % n = (v + a) % n
        BY AddRemainder
      <4>3. v + e = e + v /\ v + a = a + v
        OBVIOUS
      <4> QED  BY <3>2, <4>1, <4>2, <4>3
    <3> QED  BY <3>1, <3>3
  <2>4. Lead(s, c) + WordSum(r, 4) = e + w /\ WordSum(t, 4) = a + w
    BY <1>4, <1>6, <1>7, <2>1
  <2> QED  BY <2>3, <2>4
<1>13. ASSUME x + 1 < Chunk PROVE LongInv(t)
  <2>1. Full(t) = c /\ Rest(t) = r
    BY <1>8, <1>13
  <2> QED  BY <1>1, <1>6, <1>7, <1>9, <1>11, <1>12, <2>1 DEF LongInv, m
<1>14. ASSUME x + 1 = Chunk PROVE LongInv(t)
  <2>1. Full(t) = c + 1 /\ Rest(t) = <<>> /\ ChunkOf(t, c + 1) = r
    BY <1>8, <1>14
  <2>2. Determined(<<>>, 4) /\ WordSum(<<>>, 4) = 0
    BY SumEmpty
  <2>3. /\ LeadDetermined(t, c + 1)
        /\ Lead(t, c + 1) = (Lead(t, c) + checksum_64K(r)) % m
    BY <1>2, <1>9, <2>1, LeadNext DEF m
  <2>4. (Lead(s, c) + (WordSum(r, 4) % m)) % m = (Lead(s, c) + WordSum(r, 4)) % m
    BY <1>10, <1>11, AddRemainder
  <2>5. Lead(t, c + 1) = WordSum(t, 4) % m
    BY <1>9, <1>12, <2>3, <2>4 DEF checksum_64K, m
  <2>6. WordSum(t, 4) % m \in 0 .. m - 1
    BY <1>10, <1>11, Division
  <2>7. ((WordSum(t, 4) % m) + 0) % m = WordSum(t, 4) % m
    <3>1. PICK y \in 0 .. m - 1 : y = WordSum(t, 4) % m
      BY <2>6
    <3>2. (y + 0) % m = y
      BY <1>10, RemainderStays
    <3> QED  BY <3>1, <3>2
  <2>8. 0 \in Nat
    OBVIOUS
  <2> QED  BY <1>6, <1>11, <2>1, <2>2, <2>3, <2>5, <2>6, <2>7, <2>8, Zenon DEF LongInv, m
<1>15. x + 1 < Chunk \/ x + 1 = Chunk
  BY <1>2, ChecksumAssumption
<1> QED  BY <1>13, <1>14, <1>15 DEF t

\* Every buffer satisfies them.
LEMMA SumInvHolds == SumInit /\ [][SumNext]_data => []SumInv
<1>1. SumInit => SumInv
  BY EmptySums, ChecksumAssumption DEF SumInit, SumInv, SumTypeOK
<1>2. SumInv /\ [SumNext]_data => SumInv'
  <2>1. ASSUME SumInv, NEW b \in 0 .. Base - 1, AddByte(b) PROVE SumInv'
    <3>1. data \in Seq(0 .. Base - 1) /\ data' = Append(data, b) /\ Len(data) < MaxLen
      BY <2>1 DEF SumInv, SumTypeOK, AddByte
    <3>2. SumTypeOK'
      BY <3>1, ChecksumAssumption DEF SumTypeOK
    <3>3. ShortInv(Append(data, b)) /\ LongInv(Append(data, b))
      BY <2>1, <3>1, ShortKept, LongKept DEF SumInv
    <3> QED  BY <3>1, <3>2, <3>3 DEF SumInv
  <2>2. ASSUME SumInv, UNCHANGED data PROVE SumInv'
    BY <2>2 DEF SumInv, SumTypeOK
  <2> QED  BY <2>1, <2>2 DEF SumNext
<1> QED  BY <1>1, <1>2, PTL

\* Hence the 16 bit sum is the end-around carry sum,
LEMMA FoldOfBuffer == SumInv => FoldIsOnesComplement
<1> SUFFICES ASSUME SumInv PROVE FoldIsOnesComplement
  OBVIOUS
<1>1. PICK h \in Nat : WordsBound(data, h)
  BY DEF SumInv, ShortInv
<1>2. data \in Seq(0 .. Base - 1) /\ Len(data) <= MaxLen /\ WordSum(data, 2) \in Nat
  BY DEF SumInv, SumTypeOK, ShortInv
<1>3. WordSum(data, 2) < Short * Short
  BY <1>1, <1>2, BoundMeansShort
<1> QED  BY <1>2, <1>3, TwoFolds DEF FoldIsOnesComplement, checksum_add

\* and the sums of the chunks add up to that of the whole.
LEMMA DownloadOfBuffer == SumInv => DownloadSumIsWhole
<1> SUFFICES ASSUME SumInv PROVE DownloadSumIsWhole
  OBVIOUS
<1> DEFINE c == Full(data)
           m == Int32
<1>1. /\ data \in Seq(0 .. Base - 1) /\ WordSum(data, 4) \in Nat
      /\ WordSum(Rest(data), 4) \in Nat
      /\ LeadDetermined(data, c) /\ Lead(data, c) \in 0 .. m - 1
      /\ (Lead(data, c) + WordSum(Rest(data), 4)) % m = WordSum(data, 4) % m
  BY DEF SumInv, SumTypeOK, LongInv
<1>2. c \in Nat /\ m \in Nat \ {0}
  BY <1>1, FullIs, LongNat
<1>3. /\ Len(data) % Chunk = 0 => Rest(data) = <<>> /\ Chunks(data) = c
      /\ Len(data) % Chunk # 0 => Chunks(data) = c + 1 /\ ChunkOf(data, c + 1) = Rest(data)
  BY <1>1, RestIs
<1>4. DownloadSum(data) = Lead(data, Chunks(data))
  BY DownloadSumIs
<1> HIDE DEF c, m
<1>5. CASE Len(data) % Chunk = 0
  <2>1. WordSum(Rest(data), 4) = 0
    BY <1>3, <1>5, SumEmpty
  <2>2. PICK l \in 0 .. m - 1 : l = Lead(data, c)
    BY <1>1
  <2>3. (l + 0) % m = l
    BY <1>2, RemainderStays
  <2> QED  BY <1>1, <1>3, <1>4, <1>5, <2>1, <2>2, <2>3 DEF DownloadSumIsWhole, checksum_64K, m
<1>6. CASE Len(data) % Chunk # 0
  <2>1. Lead(data, c + 1) = (Lead(data, c) + checksum_64K(Rest(data))) % m
    BY <1>1, <1>2, <1>3, <1>6, LeadNext DEF m
  <2>2. Lead(data, c) \in Nat
    BY <1>1, <1>2
  <2>3. (Lead(data, c) + (WordSum(Rest(data), 4) % m)) % m
        = (Lead(data, c) + WordSum(Rest(data), 4)) % m
    BY <1>1, <1>2, <2>2, AddRemainder
  <2> QED  BY <1>1, <1>3, <1>4, <1>6, <2>1, <2>3 DEF DownloadSumIsWhole, checksum_64K, m
<1> QED  BY <1>5, <1>6

\* Both sums of checksum.h are right for every buffer of at most MaxLen bytes: checksum_add is
\* the end-around carry sum, and the sums of the chunks that _Aml_Libusb_bl2_secure_download
\* adds up are the sum of the whole range.
THEOREM SumsAreRight == SumInit /\ [][SumNext]_data => []ChecksumsAreSums
<1>1. SumInv => ChecksumsAreSums
  BY FoldOfBuffer, DownloadOfBuffer DEF ChecksumsAreSums
<1> QED  BY <1>1, SumInvHolds, PTL

=============================================================================
