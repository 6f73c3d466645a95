------------------------------- MODULE Serdes -------------------------------
(***************************************************************************)
(* Reading and writing bytes (node/src/util: serdes.rs, var_int.rs,        *)
(* hash256.rs, and the byteorder crate they use).  Widths are those of     *)
(* the program.                                                            *)
(*                                                                         *)
(* A type is a kind: how its values are laid out.  The messages give one   *)
(* layout for what write does and one for what read does.                  *)
(***************************************************************************)
EXTENDS Octets, SequencesExt

-----------------------------------------------------------------------------
(* Integers and arrays *)

\* write_u8, write_u16, write_u32, write_u64 ::<LittleEndian>
WriteLE(n, w) == [i \in 1 .. w |-> (n \div Base ^ (i - 1)) % Base]

WriteBE(n, w) == Reverse(WriteLE(n, w))

\* The number whose digits, least significant first, are s.
FromLE(s) ==
  LET from[i \in 1 .. Len(s) + 1] == IF i > Len(s) THEN 0 ELSE s[i] + Base * from[i + 1]
  IN from[1]

\* read_u8, ..., read_u64
ReadLE(s, w) ==
  IF Len(s) < w THEN Failed ELSE Got(FromLE(SubSeq(s, 1, w)), SubSeq(s, w + 1, Len(s)))

ReadBE(s, w) ==
  IF Len(s) < w THEN Failed ELSE Got(FromLE(Reverse(SubSeq(s, 1, w))), SubSeq(s, w + 1, Len(s)))

\* Read::read into an array of zeros: what the stream has, be it less than asked for.
ReadArray(s, w) ==
  Got([i \in 1 .. w |-> IF i <= Len(s) THEN s[i] ELSE 0], SubSeq(s, w + 1, Len(s)))

-----------------------------------------------------------------------------
(* Variable length integers *)

\* var_int::size.  252 is Base - 4.
VarIntSize(n) ==
  CASE n <= Base - 4 -> 1
    [] n > Base - 4 /\ n < Base ^ 2 -> 3
    [] n >= Base ^ 2 /\ n < Base ^ 4 -> 5
    [] OTHER -> 9

\* var_int::write
VarIntWrite(n) ==
  CASE n <= Base - 4 -> WriteLE(n, 1)
    [] n > Base - 4 /\ n < Base ^ 2 -> WriteLE(Base - 3, 1) \o WriteLE(n, 2)
    [] n >= Base ^ 2 /\ n < Base ^ 4 -> WriteLE(Base - 2, 1) \o WriteLE(n, 4)
    [] OTHER -> WriteLE(Base - 1, 1) \o WriteLE(n, 8)

\* var_int::read
VarIntRead(s) ==
  IF s = <<>> THEN Failed
  ELSE IF s[1] <= Base - 4 THEN Got(s[1], Tail(s))
  ELSE ReadLE(Tail(s), CASE s[1] = Base - 1 -> 8 [] s[1] = Base - 2 -> 4 [] s[1] = Base - 3 -> 2)

-----------------------------------------------------------------------------
(* Kinds *)

LE(w) == [k |-> "le", w |-> w]
BE(w) == [k |-> "be", w |-> w]
VarInt == [k |-> "varint"]
\* Hash256 and other arrays, read by Read::read.
Arr(w) == [k |-> "arr", w |-> w]
Hash == Arr(32)
\* A length and that many bytes, read one by one; as a string, by Read::read.
Bytes == [k |-> "bytes"]
Str == [k |-> "str"]
\* A number of items, and the items.
Items(of) == [k |-> "items", of |-> of]
\* Fields: a sequence of pairs of a name and a kind.
Struct(fields) == [k |-> "struct", of |-> fields]

RECURSIVE Write(_, _)

\* The bytes of v.
Write(t, v) ==
  CASE t.k = "le" -> WriteLE(v, t.w)
    [] t.k = "be" -> WriteBE(v, t.w)
    [] t.k = "arr" -> v
    [] t.k \in {"bytes", "str"} -> VarIntWrite(Len(v)) \o v
    [] t.k = "items" ->
         VarIntWrite(Len(v)) \o FlattenSeq([i \in 1 .. Len(v) |-> Write(t.of, v[i])])
    [] t.k = "struct" -> FlattenSeq([i \in 1 .. Len(t.of) |-> Write(t.of[i][2], v[t.of[i][1]])])

RECURSIVE Read(_, _), ReadCounted(_, _), ReadN(_, _, _, _), ReadFields(_, _, _)

\* A value read from s.
Read(t, s) ==
  CASE t.k = "le" -> ReadLE(s, t.w)
    [] t.k = "be" -> ReadBE(s, t.w)
    [] t.k = "arr" -> ReadArray(s, t.w)
    [] t.k = "varint" -> VarIntRead(s)
    [] t.k \in {"bytes", "str", "items"} -> ReadCounted(t, VarIntRead(s))
    [] t.k = "struct" -> ReadFields(t.of, <<>>, s)

Utf8(a) == IF FromUtf8(a.val) THEN a ELSE Failed

\* What follows the number n of bytes or items.
ReadCounted(t, n) ==
  CASE ~ n.ok -> Failed
    [] n.ok /\ t.k = "bytes" -> ReadExact(n.rest, n.val)
    [] n.ok /\ t.k = "str" -> Utf8(ReadArray(n.rest, n.val))
    [] n.ok /\ t.k = "items" -> ReadN(t.of, n.val, <<>>, n.rest)

\* n items after those read.
ReadN(t, n, read, s) ==
  IF n = 0 THEN Got(read, s)
  ELSE LET x == Read(t, s)
       IN IF x.ok THEN ReadN(t, n - 1, Append(read, x.val), x.rest) ELSE Failed

Record(fields, vals) ==
  [f \in {fields[j][1] : j \in 1 .. Len(fields)} |->
     vals[CHOOSE j \in 1 .. Len(fields) : fields[j][1] = f]]

\* The fields after those read, as a record.
ReadFields(fields, read, s) ==
  IF Len(read) = Len(fields) THEN Got(Record(fields, read), s)
  ELSE LET x == Read(fields[Len(read) + 1][2], s)
       IN IF x.ok THEN ReadFields(fields, Append(read, x.val), x.rest) ELSE Failed

=============================================================================
