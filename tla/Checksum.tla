------------------------------ MODULE Checksum ------------------------------
(***************************************************************************)
(* The CRC-64 of the OSS client (utils/Crc64.cc), with which a transfer in *)
(* parts is compared with the object on the server.  A word is the set of  *)
(* its bits that are 1; a byte is a word of 8 bits.  A loop is the function*)
(* of what there is after each number of its rounds.                       *)
(***************************************************************************)
EXTENDS Naturals, Sequences, FiniteSets

Bits == 0..63
Bytes == SUBSET (0..7)
Words == SUBSET Bits
POLY == {1, 6, 8, 9, 10, 11, 16, 17, 18, 23, 24, 25, 26, 28, 30, 31, 32, 34, 36, 39, 40, 41,
         42, 44, 46, 50, 51, 53, 54, 56, 59, 62, 63}

Xor(a, b) == (a \ b) \union (b \ a)
Shift(word, n) == {i - n : i \in {j \in word : j >= n}}
Byte(word, k) == {i \in 0..7 : i + 8 * k \in word}

\* crc64_init: the value of each byte, and of each byte followed by k zero bytes.
ShiftBit(crc) == IF 0 \in crc THEN Xor(POLY, Shift(crc, 1)) ELSE Shift(crc, 1)

ZeroBits(crc) ==
  LET after[k \in Nat] == IF k = 0 THEN crc ELSE ShiftBit(after[k - 1]) IN after

ByteTable == [n \in Bytes |-> ZeroBits(n)[8]]

Table[k \in 0..7] ==
  IF k = 0 THEN ByteTable
  ELSE [n \in Bytes |->
          LET crc == Table[k - 1][n] IN Xor(ByteTable[Byte(crc, 0)], Shift(crc, 8))]

\* crc64_little on a buffer at some address: bytes up to a multiple of 8, then
\* eight at a time, then the rest.
AddByte(crc, b) == Xor(ByteTable[Byte(Xor(crc, b), 0)], Shift(crc, 8))

Low(buf, n) == UNION {{i + 8 * (k - 1) : i \in buf[k]} : k \in 1..n}   \* a word in memory

AddEight(crc, eight) ==
  LET c == Xor(crc, Low(eight, 8))
      t(k) == Table[7 - k][Byte(c, k)]
  IN Xor(t(0), Xor(t(1), Xor(t(2), Xor(t(3), Xor(t(4), Xor(t(5), Xor(t(6), t(7))))))))

ByBytes(crc, buf) ==
  LET after[n \in Nat] == IF n = 0 THEN crc ELSE AddByte(after[n - 1], buf[n]) IN after

ByEights(crc, buf) ==
  LET after[e \in Nat] ==
        IF e = 0 THEN crc ELSE AddEight(after[e - 1], SubSeq(buf, 8 * e - 7, 8 * e))
  IN  after

crc64_little(crc, buf, address) ==
  LET ahead  == (8 - (address % 8)) % 8
      first  == IF Len(buf) < ahead THEN Len(buf) ELSE ahead
      eights == (Len(buf) - first) \div 8
      rest   == Len(buf) - first - 8 * eights
      head   == ByBytes(Bits \ crc, buf)[first]
      body   == ByEights(head, SubSeq(buf, first + 1, Len(buf)))[eights]
  IN Bits \ ByBytes(body, SubSeq(buf, first + 8 * eights + 1, Len(buf)))[rest]

\* gf2_matrix_times, gf2_matrix_square: a matrix is a sequence of 64 words, the
\* first for bit 0.
Matrices == [1..64 -> Words]
Times(mat, vec) == {b \in Bits : Cardinality({n \in vec : b \in mat[n + 1]}) % 2 = 1}
Square(mat) == [n \in 1..64 |-> Times(mat, mat[n])]

\* crc64_combine: the operator for one zero bit, squared three times, is the one for
\* a zero byte; it is squared again for each bit of the length.
OneZeroBit == [n \in 1..64 |-> IF n = 1 THEN POLY ELSE {n - 2}]
TwoZeroBits == Square(OneZeroBit)
FourZeroBits == Square(TwoZeroBits)
OneZeroByte == Square(FourZeroBits)

Rests == [len : Nat, crc : Words, mat : Matrices]   \* what the loop has still to do

AddZeros[l \in Rests] ==
  IF l.len = 0 THEN l.crc
  ELSE AddZeros[[len |-> l.len \div 2,
                 crc |-> IF l.len % 2 = 1 THEN Times(l.mat, l.crc) ELSE l.crc,
                 mat |-> Square(l.mat)]]

\* Mutant: one squaring is forgotten.
CombineHalfBytes(crc1, crc2, len2) ==
  IF len2 = 0 THEN crc1
  ELSE Xor(AddZeros[[len |-> len2, crc |-> crc1, mat |-> FourZeroBits]], crc2)

CombineCRC(crc1, crc2, len2) ==
  IF len2 = 0 THEN crc1
  ELSE Xor(AddZeros[[len |-> len2, crc |-> crc1, mat |-> OneZeroByte]], crc2)
=============================================================================
