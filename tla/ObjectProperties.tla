-------------------------- MODULE ObjectProperties --------------------------
(***************************************************************************)
(* What the client of the object storage computes about an object: its     *)
(* checksum, whole and by parts, and the plan of its parts.  A sample is a *)
(* buffer at an address, an object cut into parts of a size, or the sizes  *)
(* of an object and of a part with a limit on the number of parts.         *)
(***************************************************************************)
EXTENDS Checksum, PartPlan

CONSTANTS Buffers, Objects, Transfers, NoSample

ASSUME ObjectAssumption ==
  /\ Buffers \subseteq [bytes : Seq(Bytes), address : Nat]
  /\ Objects \subseteq [bytes : Seq(Bytes) \ {<< >>}, part : Nat \ {0}]
  /\ Transfers \subseteq [object : Nat \ {0}, size : Nat \ {0}, limit : Nat \ {0}]
  /\ NoSample \notin Buffers \union Objects \union Transfers

VARIABLE sample

SampleInit == sample = NoSample
Pick == sample = NoSample /\ sample' \in Buffers \union Objects \union Transfers
SampleSpec == SampleInit /\ [][Pick]_sample

-----------------------------------------------------------------------------
\* The CRC of a buffer as the polynomial defines it, bit by bit.
Bitwise(bytes) ==
  LET zero == [crc \in Words |-> ZeroBits(crc)[8]]
      after[n \in 0..Len(bytes)] == IF n = 0 THEN Bits ELSE zero[Xor(after[n - 1], bytes[n])]
  IN  Bits \ after[Len(bytes)]

\* The checksum computed eight bytes at a time, from any address, is the CRC that
\* the polynomial defines bit by bit.
ChecksumIsBitwise ==
  sample \in Buffers => crc64_little({}, sample.bytes, sample.address) = Bitwise(sample.bytes)

\* The checksum of some of the bytes of an object, wherever they are in memory; and
\* that of the first part combined with those of the others, one after the other.
PartCrc(bytes, from, to) == crc64_little({}, SubSeq(bytes, from, to), from)

Combined(bytes, plan) ==
  LET Crc(i) == PartCrc(bytes, plan[i].offset + 1, plan[i].offset + plan[i].size)
      upto[i \in 1..Len(plan)] ==
        IF i = 1 THEN Crc(1) ELSE CombineCRC(upto[i - 1], Crc(i), plan[i].size)
  IN  upto[Len(plan)]

\* The checksums of the parts of an object, combined by their lengths, are the
\* checksum of the object: what ResumableUploader and ResumableDownloader compare
\* with the server's.
PartsCombine ==
  sample \in Objects =>
    LET bytes == sample.bytes  n == Len(bytes) IN
      /\ \A k \in 0..n :
           CombineCRC(PartCrc(bytes, 1, k), PartCrc(bytes, k + 1, n), n - k) = PartCrc(bytes, 1, n)
      /\ Combined(bytes, UploadPlan(n, sample.part)) = PartCrc(bytes, 1, n)

\* The parts of an object follow each other without gap or overlap, none is empty
\* or larger than the part size, there are no more than the server takes, and an
\* upload and a download of the same object have the same parts.
PartsTile ==
  sample \in Transfers =>
    LET size == PartSize(sample.object, sample.size, sample.limit)
        plan == UploadPlan(sample.object, size)
        n == Len(plan) IN
      /\ n <= sample.limit  /\ plan = DownloadPlan(sample.object, size)
      /\ plan[1].offset = 0  /\ plan[n].offset + plan[n].size = sample.object
      /\ \A p \in 1..n : plan[p].size \in 1..size
      /\ \A p \in 1..(n - 1) : plan[p + 1].offset = plan[p].offset + plan[p].size
      /\ size < 2 * sample.size \/ Count(sample.object, size \div 2) > sample.limit

\* An object is, byte for byte and by its checksum, what its parts are.
ObjectIsItsParts == sample # NoSample => ChecksumIsBitwise /\ PartsCombine /\ PartsTile
=============================================================================
