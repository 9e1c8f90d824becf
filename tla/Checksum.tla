------------------------------ MODULE Checksum ------------------------------
(***************************************************************************)
(* The checksums of checksum.h: checksum_add, the 16 bit sum sent with the *)
(* memory commands, and checksum_64K, the 32 bit sum sent with each chunk  *)
(* of a partition image and with a BL2 download.  A behaviour builds a     *)
(* buffer byte by byte, so that its states are all buffers up to MaxLen.   *)
(***************************************************************************)
EXTENDS Integers, Sequences

CONSTANTS Base,     \* 256, a byte is 0 .. Base - 1
          MaxLen,   \* bound of the model: the longest buffer
          Chunk     \* 0x10000, the length of a chunk

ASSUME ChecksumAssumption ==
    /\ Base \in Nat \ {0, 1} /\ MaxLen \in Nat /\ Chunk \in Nat \ {0}
    /\ Chunk % 4 = 0

\* unsigned short and unsigned int.
Short == Base * Base
Int32 == Short * Short

\* The 64 bit sum is folded twice, which suffices up to 128 KiB.
ASSUME FoldAssumption == ((MaxLen + 1) \div 2) * (Short - 1) < Short * Short

VARIABLE data

SumInit == data = <<>>

AddByte(b) == Len(data) < MaxLen /\ data' = Append(data, b)

SumNext == \E b \in 0 .. Base - 1 : AddByte(b)

-----------------------------------------------------------------------------
\* The sum of the little-endian words of w bytes in s, the last padded with 0.
Weight(k, w) == CASE k % w = 0 -> 1 [] k % w = 1 -> Base
                  [] k % w = 2 -> Short [] k % w = 3 -> Short * Base

WordSum(s, w) ==
    LET f[n \in 0 .. Len(s)] == IF n = 0 THEN 0 ELSE f[n - 1] + s[n] * Weight(n - 1, w)
    IN  f[Len(s)]

Fold(c) == (c \div Short) + (c % Short)

checksum_add_once(s) == Fold(WordSum(s, 2)) % Short

\* checksum_add with noFlip.
checksum_add(s) == Fold(Fold(WordSum(s, 2))) % Short

checksum_64K(s) == WordSum(s, 4) % Int32

\* WriteMediaFile sends the sum of each chunk; a download of _Aml_Libusb_bl2_secure_download
\* adds up the sums of its chunks, in unsigned int.
Chunks(s) == (Len(s) + Chunk - 1) \div Chunk

ChunkOf(s, i) == SubSeq(s, (i - 1) * Chunk + 1, IF i * Chunk < Len(s) THEN i * Chunk ELSE Len(s))

DownloadSumAssigned(s) ==
    IF s = <<>> THEN 0 ELSE checksum_64K(ChunkOf(s, Chunks(s)))

DownloadSum(s) ==
    LET f[i \in 0 .. Chunks(s)] ==
            IF i = 0 THEN 0 ELSE (f[i - 1] + checksum_64K(ChunkOf(s, i))) % Int32
    IN  f[Chunks(s)]

-----------------------------------------------------------------------------
\* The 16 bit sum is the end-around carry sum of the words, which a receiver can
\* form in any order: it is congruent to their sum modulo 2^16 - 1, and 0 only
\* for a buffer of zeroes.  Two foldings are enough for the buffers sent.
FoldIsOnesComplement ==
    LET s == WordSum(data, 2)
    IN  checksum_add(data) = IF s = 0 THEN 0 ELSE ((s - 1) % (Short - 1)) + 1

\* The sum of a download, added up chunk by chunk, is the sum of the data the
\* device received as one piece, also when the last chunk ends inside a word.
DownloadSumIsWhole == DownloadSum(data) = checksum_64K(data)

\* Both sums of checksum.h are what their receivers compute.
ChecksumsAreSums == FoldIsOnesComplement /\ DownloadSumIsWhole

=============================================================================
