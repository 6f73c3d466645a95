----------------------------- MODULE BlockFilter ----------------------------
(***************************************************************************)
(* Matching a compact block filter (node/src/util/block_filter.rs).  A     *)
(* filter is a sorted list of numbers, written as the differences of       *)
(* neighbours in a Golomb-Rice code; matching decodes it bit by bit and    *)
(* walks along it and the sorted query at once.  Numbers stand for the     *)
(* SipHash values of scripts under the key of a block.                     *)
(***************************************************************************)
EXTENDS Serdes, TLC

CONSTANTS
  BitsPerByte,  \* 8
  P,            \* the bits of the remainder in the code, 19
  M,            \* 784931
  HashRange     \* 2^64

ASSUME FilterAssumption == BitsPerByte \in Nat /\ Base = 2 ^ BitsPerByte /\ P \in Nat /\ M \in Nat

\* Fast reduction of a hash to 0 .. nm - 1
MapToRange(hash, nm) == (hash * nm) \div HashRange

\* The numbers for the hashes, sorted; match_all leaves out the second of two equal ones.
SortedMap(hashes, nm) ==
  SortSeq([i \in 1 .. Len(hashes) |-> MapToRange(hashes[i], nm)], LAMBDA a, b : a < b)

-----------------------------------------------------------------------------
(* The filter a peer makes of the hashes of a block (BIP 158) *)

\* The w bits of n, the highest first.
ToBits(n, w) == [i \in 1 .. w |-> (n \div 2 ^ (w - i)) % 2]

GolombRiceEncode(n) == [i \in 1 .. n \div 2 ^ P |-> 1] \o <<0>> \o ToBits(n % 2 ^ P, P)

\* Bits in bytes, the last one filled up with zeros.
Pack(bits) ==
  LET bit(i) == IF i <= Len(bits) THEN bits[i] ELSE 0
      byte(j) == FoldLeft(LAMBDA n, i : 2 * n + bit(BitsPerByte * (j - 1) + i), 0,
                          [i \in 1 .. BitsPerByte |-> i])
  IN [j \in 1 .. (Len(bits) + BitsPerByte - 1) \div BitsPerByte |-> byte(j)]

FilterOf(hashes) ==
  LET n == Len(hashes)
      m == SortedMap(hashes, n * M)
  IN VarIntWrite(n)
       \o Pack(FlattenSeq([i \in 1 .. n |-> GolombRiceEncode(m[i] - (IF i = 1 THEN 0 ELSE m[i - 1]))]))

-----------------------------------------------------------------------------
(* BitStreamReader.  A read past the end of the filter is a panic. *)

BitStreamReader(reader) == [buffer |-> 0, offset |-> BitsPerByte, reader |-> reader]

\* Mutant: the bits already read from the byte are not shifted out.
BitsOfByteUnshifted(r, bits) == r.buffer \div 2 ^ (BitsPerByte - bits)

\* (buffer << offset) >> (8 - bits), on a byte
BitsOfByte(r, bits) == ((r.buffer * 2 ^ r.offset) % Base) \div 2 ^ (BitsPerByte - bits)

RECURSIVE ReadBits(_, _, _)

ReadBits(r, nbits, data) ==
  IF nbits = 0 THEN Got(data, r)
  ELSE IF r.offset = BitsPerByte /\ r.reader = <<>> THEN Failed
  ELSE LET r1 == IF r.offset = BitsPerByte
                   THEN [buffer |-> Head(r.reader), offset |-> 0, reader |-> Tail(r.reader)]
                   ELSE r
           bits == IF BitsPerByte - r1.offset < nbits THEN BitsPerByte - r1.offset ELSE nbits
       IN ReadBits([r1 EXCEPT !.offset = @ + bits], nbits - bits,
                   data * 2 ^ bits + BitsOfByte(r1, bits))

RECURSIVE Quotient(_, _)

\* The loop of golomb_rice_decode: ones, up to a zero.
Quotient(r, q) ==
  LET b == ReadBits(r, 1, 0)
  IN IF ~ b.ok THEN Failed ELSE IF b.val = 1 THEN Quotient(b.rest, q + 1) ELSE Got(q, b.rest)

GolombRiceDecode(r) ==
  LET q == Quotient(r, 0)
      rem == IF q.ok THEN ReadBits(q.rest, P, 0) ELSE Failed
  IN IF rem.ok THEN Got(q.val * 2 ^ P + rem.val, rem.rest) ELSE Failed

-----------------------------------------------------------------------------
(* GcsFilterReader.  Results are TRUE, FALSE and Panic. *)

Panic == "panic"

RECURSIVE Walk(_, _, _, _, _)

\* The loops of match_any (all = FALSE) and match_all: mapped is what is left of the query,
\* data the number reached in the filter, remaining how many follow it.
Walk(all, mapped, data, remaining, r) ==
  IF mapped = <<>> THEN all
  ELSE CASE data = Head(mapped) ->
              IF all THEN Walk(all, Tail(mapped), data, remaining, r) ELSE TRUE
         [] data < Head(mapped) ->
              IF remaining = 0 THEN FALSE
              ELSE LET d == GolombRiceDecode(r)
                   IN IF d.ok THEN Walk(all, mapped, data + d.val, remaining - 1, d.rest) ELSE Panic
         [] data > Head(mapped) ->
              IF all THEN FALSE ELSE Walk(all, Tail(mapped), data, remaining, r)

\* From the mapped query on.
Match(all, mapped, n, s) ==
  LET d == GolombRiceDecode(BitStreamReader(s))
  IN CASE mapped = <<>> -> TRUE
       [] mapped # <<>> /\ n = 0 -> FALSE
       [] mapped # <<>> /\ n # 0 -> IF d.ok THEN Walk(all, mapped, d.val, n - 1, d.rest) ELSE Panic

\* The number of elements the filter begins with, zero if it cannot be read.
Elements(content) == LET n == VarIntRead(content) IN IF n.ok THEN n ELSE Got(0, <<>>)

MatchAny(content, query) ==
  LET n == Elements(content) IN Match(FALSE, SortedMap(query, n.val * M), n.val, n.rest)

\* dedup of a sorted sequence
Dedup(s) == LET keep == SelectSeq([i \in 1 .. Len(s) |-> i], LAMBDA i : i = 1 \/ s[i] # s[i - 1])
            IN [j \in 1 .. Len(keep) |-> s[keep[j]]]

MatchAll(content, query) ==
  LET n == Elements(content) IN Match(TRUE, Dedup(SortedMap(query, n.val * M)), n.val, n.rest)

=============================================================================
