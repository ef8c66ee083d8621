-------------------------------- MODULE Crc32 --------------------------------
(***************************************************************************)
(* util/crc32.cpp.  A 32-bit word is the set of its bits that are one:     *)
(* exclusive or is the symmetric difference, a shift right moves every     *)
(* bit down.  crc32 is the table-driven code, Division the definition it   *)
(* has to agree with, one bit at a time.                                   *)
(***************************************************************************)
EXTENDS Integers, Sequences, SequencesExt

Word == 0..31

Xor(a, b) == (a \ b) \cup (b \ a)

ShiftRight(a, n) == {i - n : i \in {j \in a : j >= n}}

Bits(byte) == {i \in 0..7 : (byte \div 2^i) % 2 = 1}

\* 0xEDB88320
Polynomial == {5, 8, 9, 15, 19, 20, 21, 23, 24, 26, 27, 29, 30, 31}

ShiftBit(c) == IF 0 \in c THEN Xor(Polynomial, ShiftRight(c, 1)) ELSE ShiftRight(c, 1)

\* make_table(): eight turns of ShiftBit for every byte.
kTable == [i \in SUBSET (0..7) |-> FoldLeft(LAMBDA c, bit : ShiftBit(c), i, [bit \in 1..8 |-> bit])]

\* Faulty variant: only the result is complemented, not the value passed back in.
crc32_NoResume(data, crc) ==
  LET Step(c, byte) == Xor(kTable[Xor(c, Bits(byte)) \cap 0..7], ShiftRight(c, 8))
  IN Word \ FoldLeft(Step, IF crc = {} THEN Word ELSE crc, data)

crc32(data, crc) ==
  LET Step(c, byte) == Xor(kTable[Xor(c, Bits(byte)) \cap 0..7], ShiftRight(c, 8))
  IN Word \ FoldLeft(Step, Word \ crc, data)

\* Reference: long division of the message by the polynomial, without a table.
Division(data) ==
  LET Bit(c, b) == IF (0 \in c) # b THEN Xor(Polynomial, ShiftRight(c, 1)) ELSE ShiftRight(c, 1)
      Byte(byte) ==
        [c \in SUBSET Word |->
           FoldLeft(LAMBDA d, i : Bit(d, i \in Bits(byte)), c, [i \in 1..8 |-> i - 1])]
  IN Word \ FoldLeft(LAMBDA c, byte : Byte(byte)[c], Word, data)

=============================================================================
