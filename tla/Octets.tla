------------------------------- MODULE Octets -------------------------------
(* Bytes.  A byte is a digit of base Base, 256 in the program: the limits of sizes and *)
(* of variable length integers then need only small numbers.                           *)
EXTENDS Naturals, Sequences

CONSTANT Base

ASSUME BaseAssumption == Base \in Nat /\ Base > 4

Byte == 0 .. Base - 1

\* 0xff occurs in no UTF-8 string.
FromUtf8(s) == \A i \in 1 .. Len(s) : s[i] # Base - 1

\* What a read returns: a value and the rest of the stream, or an error.
Got(v, rest) == [ok |-> TRUE, val |-> v, rest |-> rest]

Failed == [ok |-> FALSE]

\* read_exact
ReadExact(s, w) ==
  IF Len(s) < w THEN Failed ELSE Got(SubSeq(s, 1, w), SubSeq(s, w + 1, Len(s)))

-----------------------------------------------------------------------------
(* Numbers of 32 bits, which are the bytes of four digits *)

U32 == Base * Base * Base * Base

\* u32::to_le_bytes and write_u32::<LittleEndian>
WriteU32(n) ==
  LET d == n \div Base
      e == d \div Base
  IN <<n % Base, d % Base, e % Base, (e \div Base) % Base>>

\* LittleEndian::read_u32 of the bytes behind an offset
ReadU32(s, at) == s[at + 1] + Base * (s[at + 2] + Base * (s[at + 3] + Base * s[at + 4]))

=============================================================================
