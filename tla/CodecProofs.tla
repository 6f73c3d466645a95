---------------------------- MODULE CodecProofs -----------------------------
(***************************************************************************)
(* Proofs about the two byte streams, for every base of the digits, every  *)
(* sample of messages or entries and every place where a reader is cut     *)
(* off: the messages of MessageStream, and the segments of SegmentFile.    *)
(* Both write sizes as four bytes and read what they have written out of   *)
(* the middle of a sequence, which the first part is about.                *)
(***************************************************************************)
EXTENDS SegmentFile, MessageStream, SequenceTheorems, WellFoundedInduction, TLAPS

-----------------------------------------------------------------------------
(* Sizes as four bytes *)

\* There are sizes.
LEMMA SizesAre == U32 \in Nat /\ Base \in Nat /\ Base > 4
<1>1. Base \in Nat /\ Base > 4
  BY BaseAssumption DEF BaseAssumption
<1>2. Base * Base \in Nat
  BY <1>1
<1>3. Base * Base * Base \in Nat
  BY <1>1, <1>2
<1>4. Base * Base * Base * Base \in Nat
  BY <1>1, <1>3
<1> QED
  BY <1>1, <1>4 DEF U32

\* Digits: u32::to_le_bytes divides by 256.
LEMMA DivMod ==
  ASSUME NEW n \in Nat
  PROVE  /\ n \div Base \in Nat /\ n % Base \in Nat /\ n % Base < Base
         /\ n = (n % Base) + Base * (n \div Base)
<1>1. Base \in Nat /\ Base > 4
  BY SizesAre
<1>2. n % Base \in Nat /\ n % Base < Base /\ n \div Base \in Int
  BY <1>1
<1>3. n = (n % Base) + Base * (n \div Base)
  BY <1>1
<1>4. n \div Base \in Nat
  BY <1>1
<1> QED
  BY <1>2, <1>3, <1>4

\* A number of one digit more.
LEMMA DivLess ==
  ASSUME NEW n \in Nat, NEW m \in Nat, n < m * Base
  PROVE  n \div Base < m
<1>1. Base \in Nat /\ Base > 4
  BY SizesAre
<1>2. n \div Base \in Nat /\ n % Base \in Nat /\ n = (n % Base) + Base * (n \div Base)
  BY DivMod
<1> DEFINE d == n \div Base
<1> HIDE DEF d
<1>3. d \in Nat /\ Base * d <= n
  BY <1>1, <1>2 DEF d
<1>4. SUFFICES ASSUME d >= m PROVE FALSE
  BY <1>3 DEF d
<1>5. Base * d >= Base * m
  BY <1>1, <1>3, <1>4
<1>6. Base * m = m * Base
  BY <1>1
<1> QED
  BY <1>1, <1>3, <1>5, <1>6

\* A digit is what is left of a number below Base.
LEMMA DigitIs == ASSUME NEW n \in Nat, n < Base PROVE n % Base = n
BY SizesAre

\* The bytes of a size are read as the size (read_u32 of to_le_bytes).
LEMMA ReadWritten ==
  ASSUME NEW n \in Nat, n < U32, NEW s, NEW at,
         s[at + 1] = WriteU32(n)[1], s[at + 2] = WriteU32(n)[2],
         s[at + 3] = WriteU32(n)[3], s[at + 4] = WriteU32(n)[4]
  PROVE  ReadU32(s, at) = n
<1>1. Base \in Nat /\ Base > 4
  BY SizesAre
<1> DEFINE d == n \div Base
           e == d \div Base
           f == e \div Base
<1>2. d \in Nat /\ n = (n % Base) + Base * d
  BY DivMod
<1>3. e \in Nat /\ d = (d % Base) + Base * e
  BY <1>2, DivMod
<1>4. f \in Nat /\ e = (e % Base) + Base * f
  BY <1>3, DivMod
<1>5. Base * Base \in Nat /\ Base * Base * Base \in Nat
  BY <1>1
<1>6. d < Base * Base * Base
  BY <1>5, DivLess DEF U32
<1>7. e < Base * Base
  <2> HIDE DEF d
  <2> QED
    BY <1>2, <1>5, <1>6, DivLess
<1>8. f < Base
  <2> HIDE DEF e
  <2> QED
    BY <1>1, <1>3, <1>7, DivLess
<1>9. f % Base = f
  <2> HIDE DEF f
  <2> QED
    BY <1>4, <1>8, DigitIs
<1>10. s[at + 1] = n % Base /\ s[at + 2] = d % Base /\ s[at + 3] = e % Base /\ s[at + 4] = f % Base
  BY DEF WriteU32
<1>11. ReadU32(s, at) = (n % Base) + Base * ((d % Base) + Base * ((e % Base) + Base * f))
  <2> HIDE DEF d, e, f
  <2> QED
    BY <1>9, <1>10 DEF ReadU32
<1> HIDE DEF d, e, f
<1> QED
  BY <1>2, <1>3, <1>4, <1>11

\* A size is four bytes.
LEMMA U32Bytes == ASSUME NEW n \in Nat PROVE WriteU32(n) \in Seq(Byte) /\ Len(WriteU32(n)) = 4
<1> DEFINE d == n \div Base
           x == d \div Base
           f == x \div Base
<1>1. d \in Nat /\ n % Base \in Byte
  BY DivMod, SizesAre DEF Byte
<1>2. x \in Nat /\ d % Base \in Byte
  BY <1>1, DivMod, SizesAre DEF Byte
<1>3. f \in Nat /\ x % Base \in Byte
  BY <1>2, DivMod, SizesAre DEF Byte
<1>4. f % Base \in Byte
  BY <1>3, DivMod, SizesAre DEF Byte
<1>5. WriteU32(n) = <<n % Base, d % Base, x % Base, f % Base>>
  BY DEF WriteU32
<1> HIDE DEF d, x, f
<1> QED
  BY <1>1, <1>2, <1>3, <1>4, <1>5

-----------------------------------------------------------------------------
(* Sequences of bytes *)

\* One sequence of bytes behind another.
LEMMA Joined ==
  ASSUME NEW s \in Seq(Byte), NEW t \in Seq(Byte)
  PROVE  /\ s \o t \in Seq(Byte) /\ Len(s \o t) = Len(s) + Len(t)
         /\ \A j \in 1 .. Len(s) : (s \o t)[j] = s[j]
         /\ \A j \in 1 .. Len(t) : (s \o t)[Len(s) + j] = t[j]
<1> DEFINE u == s \o t
<1>1. /\ u \in Seq(Byte) /\ Len(u) = Len(s) + Len(t)
      /\ \A i \in 1 .. Len(s) + Len(t) : u[i] = IF i <= Len(s) THEN s[i] ELSE t[i - Len(s)]
  BY Zenon, ConcatProperties
<1>2. Len(s) \in Nat /\ Len(t) \in Nat
  OBVIOUS
<1> HIDE DEF u
<1>3. \A j \in 1 .. Len(s) : u[j] = s[j]
  BY <1>1, <1>2
<1>4. \A j \in 1 .. Len(t) : u[Len(s) + j] = t[j]
  <2> TAKE j \in 1 .. Len(t)
  <2>1. Len(s) + j \in 1 .. Len(s) + Len(t) /\ ~(Len(s) + j <= Len(s)) /\ Len(s) + j - Len(s) = j
    BY <1>2
  <2> QED
    BY <1>1, <2>1
<1> QED
  BY Zenon, <1>1, <1>3, <1>4 DEF u

\* A part of the content.
LEMMA PartHas ==
  ASSUME NEW c \in Seq(Byte), NEW at \in Nat, NEW n \in Nat, at + n <= Len(c)
  PROVE  LET p == SubSeq(c, at + 1, at + n)
         IN p \in Seq(Byte) /\ Len(p) = n /\ \A j \in 1 .. n : p[j] = c[at + j]
OBVIOUS

\* A part of the content that has the bytes of s.
LEMMA PartIs ==
  ASSUME NEW c \in Seq(Byte), NEW s \in Seq(Byte), NEW at \in Nat, at + Len(s) <= Len(c),
         \A j \in 1 .. Len(s) : c[at + j] = s[j]
  PROVE  SubSeq(c, at + 1, at + Len(s)) = s
<1> DEFINE p == SubSeq(c, at + 1, at + Len(s))
<1>1. Len(s) \in Nat /\ Len(c) \in Nat
  OBVIOUS
<1>2. p \in Seq(Byte) /\ Len(p) = Len(s) /\ \A j \in 1 .. Len(s) : p[j] = c[at + j]
  BY <1>1
<1> HIDE DEF p
<1> QED
  BY <1>2 DEF p

\* A set of numbers has a least one.
LEMMA LeastOf ==
  ASSUME NEW T, T \subseteq Nat, T # {}
  PROVE  \E x \in T : \A y \in T : ~(y < x)
<1>1. IsWellFoundedOn(OpToRel(<, Nat), Nat)
  BY Zenon, NatLessThanWellFounded
<1>2. PICK x \in T : \A y \in T : ~(<<y, x>> \in OpToRel(<, Nat))
  BY Zenon, <1>1, WFMin
<1>3. \A y \in T : y < x => <<y, x>> \in OpToRel(<, Nat)
  BY DEF OpToRel
<1> QED
  BY Zenon, <1>2, <1>3

-----------------------------------------------------------------------------
(* Headers *)

\* There are 21 commands.
LEMMA Commands == Len(Command) = 21
BY DEF Command

\* A command is twelve bytes, different ones for different commands.
LEMMA CodeIs ==
  /\ \A i \in 1 .. 21 : CommandCode(i) \in Seq(Byte) /\ Len(CommandCode(i)) = 12
  /\ \A i, k \in 1 .. 21 : CommandCode(i) = CommandCode(k) => i = k
<1>1. Base \in Nat /\ Base > 4
  BY SizesAre
<1>2. ASSUME NEW i \in 1 .. 21 PROVE CommandCode(i) \in Seq(Byte) /\ Len(CommandCode(i)) = 12
  <2>1. i \div Base \in Nat /\ i % Base \in Nat /\ i % Base < Base /\ i = (i % Base) + Base * (i \div Base)
    BY DivMod
  <2> DEFINE d == i \div Base
             r == i % Base
  <2>2. d < Base
    <3> HIDE DEF d, r
    <3>1. SUFFICES ASSUME d >= Base PROVE FALSE
      BY <1>1, <2>1 DEF d
    <3>2. Base * d >= 5 * 5
      BY <1>1, <2>1, <3>1 DEF d
    <3> QED
      BY <1>1, <2>1, <3>2 DEF d, r
  <2>3. d \in Byte /\ r \in Byte /\ 0 \in Byte
    BY <1>1, <2>1, <2>2 DEF Byte
  <2>4. CommandCode(i) = [j \in 1 .. 12 |-> IF j = 1 THEN r ELSE IF j = 2 THEN d ELSE 0]
    BY Zenon DEF CommandCode
  <2> HIDE DEF d, r
  <2> QED
    BY <2>3, <2>4
<1>3. ASSUME NEW i \in 1 .. 21, NEW k \in 1 .. 21, CommandCode(i) = CommandCode(k) PROVE i = k
  <2>1. CommandCode(i)[1] = i % Base /\ CommandCode(i)[2] = i \div Base
    BY DEF CommandCode
  <2>2. CommandCode(k)[1] = k % Base /\ CommandCode(k)[2] = k \div Base
    BY DEF CommandCode
  <2>3. i = (i % Base) + Base * (i \div Base)
    BY DivMod
  <2>4. k = (k % Base) + Base * (k \div Base)
    BY DivMod
  <2> QED
    BY Zenon, <1>3, <2>1, <2>2, <2>3, <2>4
<1> QED
  BY Zenon, <1>2, <1>3

\* The command read from the bytes of a command is the command.
LEMMA CommandIs ==
  ASSUME NEW c, \E i \in 1 .. Len(Command) : Command[i] = c
  PROVE  /\ CommandBytes(c) \in Seq(Byte) /\ Len(CommandBytes(c)) = 12
         /\ CommandOf(CommandBytes(c)) = c
<1> DEFINE N(x) == CHOOSE i \in 1 .. Len(Command) : Command[i] = x
           is == {i \in 1 .. Len(Command) : CommandBytes(Command[i]) = CommandBytes(c)}
<1>1. N(c) \in 1 .. Len(Command) /\ Command[N(c)] = c
  BY Zenon
<1>2. \A i \in 1 .. Len(Command) : N(Command[i]) \in 1 .. Len(Command) /\ Command[N(Command[i])] = Command[i]
  BY Zenon
<1>3. \A x : CommandBytes(x) = CommandCode(N(x))
  BY Zenon DEF CommandBytes
<1>4. CommandOf(CommandBytes(c)) = IF is = {} THEN Unknown ELSE Command[CHOOSE i \in is : TRUE]
  BY Zenon DEF CommandOf
<1> HIDE DEF N
<1>5. \A i \in is : Command[i] = c
  <2> TAKE i \in is
  <2>1. i \in 1 .. Len(Command) /\ CommandCode(N(Command[i])) = CommandCode(N(c))
    BY Zenon, <1>3
  <2>2. N(Command[i]) = N(c)
    BY Zenon, <1>1, <1>2, <2>1, CodeIs, Commands
  <2> QED
    BY Zenon, <1>1, <1>2, <2>1, <2>2
<1>6. is # {}
  BY Zenon, <1>1
<1> HIDE DEF is
<1>7. CommandOf(CommandBytes(c)) = c
  BY Zenon, <1>4, <1>5, <1>6
<1>8. CommandBytes(c) \in Seq(Byte) /\ Len(CommandBytes(c)) = 12
  BY Zenon, <1>1, <1>3, CodeIs, Commands
<1> QED
  BY Zenon, <1>7, <1>8

\* The header of a message: its length, and where its fields are (MessageHeader::write).
HeaderFields(h, c, n, sum) ==
  /\ h \in Seq(Byte) /\ Len(h) = 24
  /\ \A j \in 1 .. 12 : h[4 + j] = CommandBytes(c)[j]
  /\ \A j \in 1 .. 4 : h[16 + j] = WriteU32(n)[j] /\ h[20 + j] = sum[j]

\* What MessageHeader::write puts out.
LEMMA HeaderWritten ==
  ASSUME NEW c, \E i \in 1 .. Len(Command) : Command[i] = c, NEW n \in Nat,
         NEW sum \in Seq(Byte), Len(sum) = 4
  PROVE  HeaderFields(MessageHeaderWrite(c, n, sum), c, n, sum)
<1> DEFINE b == CommandBytes(c)
           w == WriteU32(n)
           x == Magic \o b
           y == x \o w
           h == y \o sum
<1>1. b \in Seq(Byte) /\ Len(b) = 12
  BY Zenon, CommandIs
<1>2. w \in Seq(Byte) /\ Len(w) = 4
  BY Zenon, U32Bytes
<1>3. Magic \in Seq(Byte) /\ Len(Magic) = 4
  BY SizesAre DEF Magic, Byte
<1>4. MessageHeaderWrite(c, n, sum) = h
  BY Zenon DEF MessageHeaderWrite
<1> HIDE DEF b, w
<1>5. /\ x \in Seq(Byte) /\ Len(x) = Len(Magic) + Len(b)
      /\ \A j \in 1 .. Len(b) : x[Len(Magic) + j] = b[j]
  BY Zenon, <1>1, <1>3, Joined
<1> HIDE DEF x
<1>6. /\ y \in Seq(Byte) /\ Len(y) = Len(x) + Len(w)
      /\ \A j \in 1 .. Len(x) : y[j] = x[j]
      /\ \A j \in 1 .. Len(w) : y[Len(x) + j] = w[j]
  BY Zenon, <1>2, <1>5, Joined
<1> HIDE DEF y
<1>7. /\ h \in Seq(Byte) /\ Len(h) = Len(y) + Len(sum)
      /\ \A j \in 1 .. Len(y) : h[j] = y[j]
      /\ \A j \in 1 .. Len(sum) : h[Len(y) + j] = sum[j]
  BY Zenon, <1>6, Joined
<1> HIDE DEF h
<1>8. Len(x) = 16 /\ Len(y) = 20 /\ Len(h) = 24
  BY <1>1, <1>2, <1>3, <1>5, <1>6, <1>7
<1>9. \A j \in 1 .. 12 : h[4 + j] = b[j]
  <2> TAKE j \in 1 .. 12
  <2>1. 4 + j \in 1 .. 16 /\ 4 + j \in 1 .. 20
    OBVIOUS
  <2>2. x[4 + j] = b[j]
    BY Zenon, <1>1, <1>3, <1>5
  <2> QED
    BY Zenon, <1>6, <1>7, <1>8, <2>1, <2>2
<1>10. \A j \in 1 .. 4 : h[16 + j] = w[j] /\ h[20 + j] = sum[j]
  <2> TAKE j \in 1 .. 4
  <2>1. 16 + j \in 1 .. 20
    OBVIOUS
  <2>2. y[16 + j] = w[j]
    BY Zenon, <1>2, <1>6, <1>8
  <2> QED
    BY Zenon, <1>7, <1>8, <2>1, <2>2
<1> QED
  BY Zenon, <1>4, <1>7, <1>8, <1>9, <1>10 DEF HeaderFields, b, w

\* What is left of a sequence of bytes.
LEMMA RestHas ==
  ASSUME NEW c \in Seq(Byte), NEW at \in Nat, at <= Len(c)
  PROVE  /\ SubSeq(c, at + 1, Len(c)) \in Seq(Byte) /\ Len(SubSeq(c, at + 1, Len(c))) = Len(c) - at
         /\ Len(c) - at \in Nat
         /\ \A j \in 1 .. Len(c) - at : SubSeq(c, at + 1, Len(c))[j] = c[at + j]
<1> DEFINE n == Len(c) - at
<1>1. n \in Nat /\ at + n <= Len(c) /\ at + n = Len(c)
  OBVIOUS
<1> HIDE DEF n
<1>2. /\ SubSeq(c, at + 1, at + n) \in Seq(Byte) /\ Len(SubSeq(c, at + 1, at + n)) = n
      /\ \A j \in 1 .. n : SubSeq(c, at + 1, at + n)[j] = c[at + j]
  BY Zenon, <1>1, PartHas
<1> QED
  BY Zenon, <1>1, <1>2 DEF n

\* MessageHeader::read of s gives the header r.
ReadAsHeader(s, r, c, n, sum) ==
  /\ MessageHeaderRead(s) = Got(r, SubSeq(s, 25, Len(s)))
  /\ r.command = CommandBytes(c) /\ r.payload_size = n /\ r.checksum = sum

\* What MessageHeader::read makes of bytes that begin with a header.
LEMMA HeaderRead ==
  ASSUME NEW c, \E i \in 1 .. Len(Command) : Command[i] = c, NEW n \in Nat, n < U32,
         NEW sum \in Seq(Byte), Len(sum) = 4, NEW s \in Seq(Byte), Len(s) >= 24,
         NEW h, HeaderFields(h, c, n, sum), \A j \in 1 .. 24 : s[j] = h[j]
  PROVE  ReadAsHeader(s, HeaderOf(SubSeq(s, 1, 24)), c, n, sum)
<1> DEFINE p == SubSeq(s, 1, 24)
           r == HeaderOf(p)
           b == CommandBytes(c)
           w == WriteU32(n)
<1>1. b \in Seq(Byte) /\ Len(b) = 12
  BY Zenon, CommandIs
<1>2. p \in Seq(Byte) /\ Len(p) = 24 /\ \A j \in 1 .. 24 : p[j] = h[j]
  <2>1. 0 \in Nat /\ 24 \in Nat /\ 0 + 24 <= Len(s) /\ 0 + 1 = 1 /\ 0 + 24 = 24
    OBVIOUS
  <2>2. \A j \in 1 .. 24 : 0 + j = j
    OBVIOUS
  <2> DEFINE q == SubSeq(s, 0 + 1, 0 + 24)
  <2>3. q \in Seq(Byte) /\ Len(q) = 24 /\ \A j \in 1 .. 24 : q[j] = s[0 + j]
    BY Zenon, <2>1, PartHas
  <2>4. p = q
    BY Zenon, <2>1
  <2> HIDE DEF p, q
  <2>5. \A j \in 1 .. 24 : q[j] = h[j]
    BY Zenon, <2>2, <2>3
  <2> QED
    BY Zenon, <2>3, <2>4, <2>5
<1>3. /\ \A j \in 1 .. 12 : h[4 + j] = b[j]
      /\ \A j \in 1 .. 4 : h[16 + j] = w[j] /\ h[20 + j] = sum[j]
  BY Zenon DEF HeaderFields
<1> HIDE DEF p, b, w
<1>4. SubSeq(p, 5, 16) = b
  <2>1. 4 + 1 = 5 /\ 4 + Len(b) = 16 /\ 4 + Len(b) <= Len(p) /\ 4 \in Nat
    BY <1>1, <1>2
  <2>2. \A j \in 1 .. Len(b) : p[4 + j] = b[j]
    <3> TAKE j \in 1 .. Len(b)
    <3>1. j \in 1 .. 12 /\ 4 + j \in 1 .. 24
      BY <1>1
    <3> QED
      BY Zenon, <1>2, <1>3, <3>1
  <2>3. SubSeq(p, 4 + 1, 4 + Len(b)) = b
    BY Zenon, <1>1, <1>2, <2>1, <2>2, PartIs
  <2> QED
    BY Zenon, <2>1, <2>3
<1>5. SubSeq(p, 21, 24) = sum
  <2>1. 20 + 1 = 21 /\ 20 + Len(sum) = 24 /\ 20 + Len(sum) <= Len(p) /\ 20 \in Nat
    BY <1>2
  <2>2. \A j \in 1 .. Len(sum) : p[20 + j] = sum[j]
    <3> TAKE j \in 1 .. Len(sum)
    <3>1. j \in 1 .. 4 /\ 20 + j \in 1 .. 24
      OBVIOUS
    <3> QED
      BY Zenon, <1>2, <1>3, <3>1
  <2>3. SubSeq(p, 20 + 1, 20 + Len(sum)) = sum
    BY Zenon, <1>2, <2>1, <2>2, PartIs
  <2> QED
    BY Zenon, <2>1, <2>3
<1>6. ReadU32(p, 16) = n
  <2>1. \A j \in 1 .. 4 : p[16 + j] = w[j]
    <3> TAKE j \in 1 .. 4
    <3>1. 16 + j \in 1 .. 24
      OBVIOUS
    <3> QED
      BY Zenon, <1>2, <1>3, <3>1
  <2>2. 1 \in 1 .. 4 /\ 2 \in 1 .. 4 /\ 3 \in 1 .. 4 /\ 4 \in 1 .. 4
    OBVIOUS
  <2>3. p[16 + 1] = w[1] /\ p[16 + 2] = w[2] /\ p[16 + 3] = w[3] /\ p[16 + 4] = w[4]
    BY Zenon, <2>1, <2>2
  <2> QED
    BY ZenonT(40), <2>3, ReadWritten DEF w
<1>7. r.command = b /\ r.payload_size = n /\ r.checksum = sum
  BY Zenon, <1>4, <1>5, <1>6 DEF HeaderOf
<1>8. MessageHeaderRead(s) = Got(r, SubSeq(s, 25, Len(s)))
  <2>1. ReadExact(s, 24) = Got(p, SubSeq(s, 25, Len(s)))
    <3>1. ~(Len(s) < 24) /\ 24 + 1 = 25
      OBVIOUS
    <3> QED
      BY Zenon, <3>1 DEF ReadExact, p
  <2> DEFINE q == Got(p, SubSeq(s, 25, Len(s)))
  <2>2. q.ok /\ q.val = p /\ q.rest = SubSeq(s, 25, Len(s))
    BY Zenon DEF Got
  <2>3. MessageHeaderRead(s) = IF q.ok THEN Got(HeaderOf(q.val), q.rest) ELSE Failed
    BY Zenon, <2>1 DEF MessageHeaderRead, MessageHeaderSize
  <2> HIDE DEF q
  <2> QED
    BY Zenon, <2>2, <2>3
<1> QED
  BY Zenon, <1>7, <1>8 DEF p, b, ReadAsHeader

-----------------------------------------------------------------------------
(* Messages *)

\* NO_CHECKSUM is four bytes.
NoSum == Checksum(<<>>) \in Seq(Byte) /\ Len(Checksum(<<>>)) = 4

\* The bytes behind the header of a message.
Body(m) == IF m.cmd \in WithoutPayload THEN <<>> ELSE WritePayload(m)

\* What a message is as bytes (Message::write).
LEMMA MessageIs ==
  ASSUME NoSum, NEW m, MessageSound(m)
  PROVE  /\ Body(m) \in Seq(Byte) /\ Len(Body(m)) \in Nat /\ Len(Body(m)) < U32
         /\ Checksum(Body(m)) \in Seq(Byte) /\ Len(Checksum(Body(m))) = 4
         /\ MessageWrite(m) = MessageHeaderWrite(m.cmd, Len(Body(m)), Checksum(Body(m))) \o Body(m)
<1>1. CASE m.cmd \in WithoutPayload
  <2>1. Body(m) = <<>>
    BY Zenon, <1>1 DEF Body
  <2>2. <<>> \in Seq(Byte) /\ Len(<<>>) = 0 /\ 0 \in Nat
    OBVIOUS
  <2>3. 0 < U32
    <3>1. Base \in Nat /\ Base > 4
      BY SizesAre
    <3>2. Base * Base > 0
      BY <3>1
    <3>3. Base * Base * Base > 0
      BY <3>1, <3>2
    <3>4. Base * Base * Base * Base > 0
      BY <3>1, <3>3
    <3> QED
      BY <3>4 DEF U32
  <2> DEFINE h == MessageHeaderWrite(m.cmd, 0, Checksum(<<>>))
  <2>4. MessageWrite(m) = h
    BY Zenon, <1>1 DEF MessageWrite, WriteWithoutPayload
  <2>5. h \in Seq(Byte)
    BY Zenon, <2>2, HeaderWritten DEF NoSum, MessageSound, HeaderFields
  <2> HIDE DEF h
  <2>6. h \o <<>> = h
    BY <2>5
  <2> QED
    BY Zenon, <2>1, <2>2, <2>3, <2>4, <2>6 DEF NoSum, h
<1>2. CASE m.cmd \notin WithoutPayload
  <2>1. Body(m) = WritePayload(m)
    BY Zenon, <1>2 DEF Body
  <2>2. PayloadSound(m)
    BY Zenon, <1>2 DEF MessageSound
  <2>3. /\ Body(m) \in Seq(Byte) /\ SizePayload(m) = Len(Body(m)) /\ Len(Body(m)) < U32
        /\ Checksum(Body(m)) \in Seq(Byte) /\ Len(Checksum(Body(m))) = 4
    BY Zenon, <2>1, <2>2 DEF PayloadSound
  <2>4. Len(Body(m)) \in Nat
    BY Zenon, <2>3, LenProperties
  <2>5. MessageWrite(m) = MessageHeaderWrite(m.cmd, SizePayload(m), Checksum(Body(m))) \o Body(m)
    BY Zenon, <1>2, <2>1 DEF MessageWrite, WriteWithPayload
  <2> QED
    BY Zenon, <2>3, <2>4, <2>5
<1> QED
  BY Zenon, <1>1, <1>2

\* What read_partial returns for a message of which everything, or less, is there.
Answer(m, n, t) ==
  IF Len(t) < n THEN [out |-> Error, rest |-> <<>>]
                ELSE [out |-> View(m), rest |-> SubSeq(t, n + 1, Len(t))]

\* The payload of a message, if it is there, passes its checksum (MessageHeader::payload).
LEMMA PayloadIs ==
  ASSUME NoSum, NEW m, MessageSound(m), NEW h, h.payload_size = Len(Body(m)),
         h.checksum = Checksum(Body(m)), NEW t \in Seq(Byte),
         \A j \in 1 .. Len(Body(m)) : j <= Len(t) => t[j] = Body(m)[j]
  PROVE  IF Len(t) < Len(Body(m)) THEN Payload(h, t) = [ok |-> FALSE, rest |-> <<>>]
         ELSE Payload(h, t) =
                [ok |-> TRUE, val |-> Body(m), rest |-> SubSeq(t, Len(Body(m)) + 1, Len(t))]
<1> DEFINE b == Body(m)
           n == Len(b)
           p == ReadExact(t, n)
<1>1. b \in Seq(Byte) /\ n \in Nat /\ Len(t) \in Nat
  BY Zenon, MessageIs, LenProperties
<1>2. Payload(h, t) = IF p.ok THEN [ok |-> Checksum(p.val) = h.checksum, val |-> p.val, rest |-> p.rest]
                              ELSE [ok |-> FALSE, rest |-> <<>>]
  BY Zenon DEF Payload
<1>3. CASE Len(t) < n
  <2>1. p = Failed
    BY Zenon, <1>3 DEF ReadExact
  <2>2. ~Failed.ok
    BY Zenon DEF Failed
  <2> HIDE DEF p, n
  <2>3. ~p.ok
    BY Zenon, <2>1, <2>2
  <2> QED
    BY Zenon, <1>2, <1>3, <2>3 DEF n
<1>4. CASE ~(Len(t) < n)
  <2> DEFINE g == Got(SubSeq(t, 1, n), SubSeq(t, n + 1, Len(t)))
  <2>1. p = g
    BY Zenon, <1>4 DEF ReadExact
  <2>2. g.ok /\ g.val = SubSeq(t, 1, n) /\ g.rest = SubSeq(t, n + 1, Len(t))
    BY Zenon DEF Got
  <2>3. SubSeq(t, 1, n) = b
    <3> HIDE DEF b
    <3>1. 0 + Len(b) <= Len(t) /\ 0 + Len(b) = n /\ 0 + 1 = 1 /\ 0 \in Nat
      BY <1>1, <1>4
    <3>2. \A j \in 1 .. Len(b) : t[0 + j] = b[j]
      <4> TAKE j \in 1 .. Len(b)
      <4>1. 0 + j = j /\ j <= Len(t)
        BY <1>1, <1>4
      <4> QED
        BY Zenon, <4>1 DEF b
    <3>3. SubSeq(t, 0 + 1, 0 + Len(b)) = b
      BY Zenon, <1>1, <3>1, <3>2, PartIs
    <3> QED
      BY Zenon, <3>1, <3>3
  <2>4. (Checksum(b) = h.checksum) = TRUE
    BY Zenon
  <2> HIDE DEF p, g, b
  <2>5. p.ok /\ p.val = b /\ p.rest = SubSeq(t, n + 1, Len(t))
    BY Zenon, <2>1, <2>2, <2>3
  <2> DEFINE same == Checksum(b) = h.checksum
  <2>6. Payload(h, t) = [ok |-> same, val |-> b, rest |-> SubSeq(t, n + 1, Len(t))]
    BY Zenon, <1>2, <2>5
  <2> HIDE DEF same
  <2>7. same = TRUE
    BY Zenon, <2>4 DEF same
  <2> QED
    BY Zenon, <1>4, <2>6, <2>7 DEF b
<1> QED
  BY Zenon, <1>3, <1>4

\* The commands whose messages are only named.
Named == {"getblocks", "getheaders", "getcfilters", "getcfheaders", "feefilter"}

\* Every command is of one of three sorts.
LEMMA SortsOfCommands ==
  ASSUME NEW c, \E i \in 1 .. Len(Command) : Command[i] = c
  PROVE  /\ c \in WithoutPayload \/ c \in Readable \/ c \in Named
         /\ c \in WithoutPayload => c \notin Readable /\ c \notin Named
         /\ c \in Readable => c \notin Named
<1>1. PICK i \in 1 .. 21 : Command[i] = c
  BY Zenon, Commands
<1>2. c \in WithoutPayload \/ c \in Readable \/ c \in Named
  BY <1>1 DEF Command, WithoutPayload, Readable, Named
<1>3. c \in WithoutPayload => c \notin Readable /\ c \notin Named
  BY DEF WithoutPayload, Readable, Named
<1>4. c \in Readable => c \notin Named
  BY DEF Readable, Named
<1> QED
  BY Zenon, <1>2, <1>3, <1>4

\* What reading should give, sort by sort.
LEMMA ViewIs ==
  ASSUME NEW m, MessageSound(m)
  PROVE  /\ m.cmd \in WithoutPayload => View(m) = Read1(m)
         /\ m.cmd \in Readable => View(m) = IF Accepted(m) THEN Read1(m) ELSE Error
         /\ m.cmd \in Named => View(m) = Other(m.cmd)
<1> DEFINE c == m.cmd
<1>1. /\ c \in WithoutPayload => c \notin Readable /\ c \notin Named
      /\ c \in Readable => c \notin Named
  BY Zenon, SortsOfCommands DEF MessageSound
<1>2. View(m) = CASE c \in Named -> Other(c)
                  [] c \in Readable /\ ~Accepted(m) -> Error
                  [] OTHER -> Read1(m)
  BY Zenon DEF View, Named
<1> HIDE DEF c
<1>3. CASE c \in WithoutPayload
  <2>1. View(m) = Read1(m)
    BY Zenon, <1>1, <1>2, <1>3
  <2> QED
    BY Zenon, <1>1, <1>3, <2>1 DEF c
<1>4. CASE c \in Readable
  <2>1. CASE Accepted(m)
    <3>1. View(m) = Read1(m)
      BY Zenon, <1>1, <1>2, <1>4, <2>1
    <3> QED
      BY Zenon, <1>1, <1>4, <2>1, <3>1 DEF c
  <2>2. CASE ~Accepted(m)
    <3>1. View(m) = Error
      BY Zenon, <1>1, <1>2, <1>4, <2>2
    <3> QED
      BY Zenon, <1>1, <1>4, <2>2, <3>1 DEF c
  <2> QED
    BY Zenon, <2>1, <2>2
<1>5. CASE c \in Named
  <2>1. c \notin Readable
    BY Zenon, <1>1, <1>5
  <2>2. View(m) = Other(c)
    BY Zenon, <1>2, <1>5, <2>1
  <2> QED
    BY Zenon, <1>1, <1>5, <2>2 DEF c
<1> QED
  BY Zenon, <1>3, <1>4, <1>5 DEF c

\* read_partial, on the stream behind the header of a message.
LEMMA PartialIs ==
  ASSUME NoSum, NEW m, MessageSound(m), NEW h, h.payload_size = Len(Body(m)),
         h.checksum = Checksum(Body(m)), NEW t \in Seq(Byte),
         \A j \in 1 .. Len(Body(m)) : j <= Len(t) => t[j] = Body(m)[j]
  PROVE  ReadPartial(m.cmd, h, t) = Answer(m, Len(Body(m)), t)
<1> DEFINE c == m.cmd
           b == Body(m)
           n == Len(b)
           p == Payload(h, t)
           cut == [ok |-> FALSE, rest |-> <<>>]
           all == [ok |-> TRUE, val |-> b, rest |-> SubSeq(t, n + 1, Len(t))]
<1>1. n \in Nat /\ Len(t) \in Nat
  BY Zenon, MessageIs, LenProperties
<1>2. /\ c \in WithoutPayload \/ c \in Readable \/ c \in Named
      /\ c \in WithoutPayload => c \notin Readable /\ c \notin Named
      /\ c \in Readable => c \notin Named
  BY Zenon, SortsOfCommands DEF MessageSound
<1>3. IF Len(t) < n THEN p = cut ELSE p = all
  BY Zenon, PayloadIs
<1>4. ReadPartial(c, h, t) =
        CASE c \in WithoutPayload ->
               [out |-> IF n = 0 THEN Read1([cmd |-> c]) ELSE Error, rest |-> t]
          [] c \in Readable -> ReadKnown(c, p)
          [] OTHER -> IF n > 0 THEN ReadUnknown(c, p) ELSE [out |-> Other(c), rest |-> t]
  BY Zenon DEF ReadPartial
<1>5. ~cut.ok /\ cut.rest = <<>>
  BY Zenon
<1>6. all.ok /\ all.val = b /\ all.rest = SubSeq(t, n + 1, Len(t))
  BY Zenon
<1>7. SubSeq(t, 0 + 1, Len(t)) = t
  OBVIOUS
<1>8. c \in Readable => View(m) = Outcome(c, ReadPayload(c, b))
  <2> SUFFICES ASSUME c \in Readable PROVE View(m) = Outcome(c, ReadPayload(c, b))
    BY Zenon
  <2>1. c \notin WithoutPayload
    BY Zenon, <1>2
  <2>2. b = WritePayload(m) /\ PayloadSound(m)
    BY Zenon, <2>1 DEF Body, MessageSound
  <2>3. Outcome(c, ReadPayload(c, b)) = IF Accepted(m) THEN Read1(m) ELSE Error
    BY Zenon, <2>2 DEF PayloadSound
  <2> QED
    BY Zenon, <2>3, ViewIs
<1>9. c \in WithoutPayload => n = 0 /\ Read1([cmd |-> c]) = View(m)
  <2> SUFFICES ASSUME c \in WithoutPayload PROVE n = 0 /\ Read1([cmd |-> c]) = View(m)
    BY Zenon
  <2>1. b = <<>>
    BY Zenon DEF Body
  <2>2. Len(<<>>) = 0
    OBVIOUS
  <2>3. m = [cmd |-> c]
    BY Zenon DEF MessageSound
  <2>4. View(m) = Read1(m)
    BY Zenon, ViewIs
  <2> QED
    BY Zenon, <2>1, <2>2, <2>3, <2>4
<1>10. c \in Named => View(m) = Other(c)
  BY Zenon, ViewIs
<1>11. Answer(m, n, t) = IF Len(t) < n THEN [out |-> Error, rest |-> <<>>]
                         ELSE [out |-> View(m), rest |-> SubSeq(t, n + 1, Len(t))]
  BY Zenon DEF Answer
<1> HIDE DEF c, b, n, p, cut, all
<1>12. CASE c \in WithoutPayload
  <2>1. ~(Len(t) < n) /\ n = 0
    BY <1>1, <1>9, <1>12
  <2>2. ReadPartial(c, h, t) = [out |-> View(m), rest |-> t]
    BY Zenon, <1>2, <1>4, <1>9, <1>12
  <2>3. Answer(m, n, t) = [out |-> View(m), rest |-> t]
    BY Zenon, <1>7, <1>11, <2>1
  <2> QED
    BY Zenon, <2>2, <2>3 DEF c, b, n
<1>13. CASE c \in Readable
  <2>1. ReadPartial(c, h, t) = ReadKnown(c, p)
    BY Zenon, <1>2, <1>4, <1>13
  <2>2. CASE Len(t) < n
    <3>1. ~p.ok /\ p.rest = <<>>
      BY Zenon, <1>3, <1>5, <2>2
    <3>2. ReadKnown(c, p) = [out |-> Error, rest |-> <<>>]
      BY Zenon, <3>1 DEF ReadKnown
    <3> QED
      BY Zenon, <1>11, <2>1, <2>2, <3>2 DEF c, b, n
  <2>3. CASE ~(Len(t) < n)
    <3>1. p.ok /\ p.val = b /\ p.rest = SubSeq(t, n + 1, Len(t))
      BY Zenon, <1>3, <1>6, <2>3
    <3>2. ReadKnown(c, p) = [out |-> View(m), rest |-> SubSeq(t, n + 1, Len(t))]
      BY Zenon, <1>8, <1>13, <3>1 DEF ReadKnown
    <3> QED
      BY Zenon, <1>11, <2>1, <2>3, <3>2 DEF c, b, n
  <2> QED
    BY Zenon, <2>2, <2>3
<1>14. CASE c \in Named
  <2>1. ReadPartial(c, h, t) = IF n > 0 THEN ReadUnknown(c, p) ELSE [out |-> Other(c), rest |-> t]
    <3>1. c \notin WithoutPayload /\ c \notin Readable
      BY Zenon, <1>2, <1>14
    <3> QED
      BY Zenon, <1>4, <3>1
  <2>2. CASE Len(t) < n
    <3>1. n > 0
      BY <1>1, <2>2
    <3>2. ~p.ok /\ p.rest = <<>>
      BY Zenon, <1>3, <1>5, <2>2
    <3>3. ReadUnknown(c, p) = [out |-> Error, rest |-> <<>>]
      BY Zenon, <3>2 DEF ReadUnknown
    <3> QED
      BY Zenon, <1>11, <2>1, <2>2, <3>1, <3>3 DEF c, b, n
  <2>3. CASE ~(Len(t) < n) /\ n > 0
    <3>1. p.ok /\ p.rest = SubSeq(t, n + 1, Len(t))
      BY Zenon, <1>3, <1>6, <2>3
    <3>2. ReadUnknown(c, p) = [out |-> View(m), rest |-> SubSeq(t, n + 1, Len(t))]
      BY Zenon, <1>10, <1>14, <3>1 DEF ReadUnknown
    <3> QED
      BY Zenon, <1>11, <2>1, <2>3, <3>2 DEF c, b, n
  <2>4. CASE ~(n > 0)
    <3>1. ~(Len(t) < n) /\ n = 0
      BY <1>1, <2>4
    <3>2. Answer(m, n, t) = [out |-> View(m), rest |-> t]
      BY Zenon, <1>7, <1>11, <3>1
    <3> QED
      BY Zenon, <1>10, <1>14, <2>1, <2>4, <3>2 DEF c, b, n
  <2> QED
    BY Zenon, <2>2, <2>3, <2>4
<1> QED
  BY Zenon, <1>2, <1>12, <1>13, <1>14

\* Message::read, on a stream that begins with a message, or with a part of one.
LEMMA ReadIs ==
  ASSUME NoSum, NEW m, MessageSound(m), NEW s \in Seq(Byte),
         \A j \in 1 .. Len(MessageWrite(m)) : j <= Len(s) => s[j] = MessageWrite(m)[j]
  PROVE  MessageRead(s) = Answer(m, Len(MessageWrite(m)), s)
<1> DEFINE w == MessageWrite(m)
           b == Body(m)
           n == Len(b)
           c == m.cmd
           sum == Checksum(b)
           h == MessageHeaderWrite(c, n, sum)
           N == Len(s)
           t == SubSeq(s, 25, N)
<1>1. b \in Seq(Byte) /\ n \in Nat /\ n < U32 /\ sum \in Seq(Byte) /\ Len(sum) = 4 /\ w = h \o b
  BY Zenon, MessageIs
<1>2. \E i \in 1 .. Len(Command) : Command[i] = c
  BY Zenon DEF MessageSound
<1>3. HeaderFields(h, c, n, sum)
  <2> HIDE DEF b, n, c, sum
  <2> QED
    BY Zenon, <1>1, <1>2, HeaderWritten
<1>4. h \in Seq(Byte) /\ Len(h) = 24
  BY Zenon, <1>3 DEF HeaderFields
<1>5. N \in Nat
  BY Zenon, LenProperties
<1> HIDE DEF w, b, c, sum, h, N, n
<1>6. /\ w \in Seq(Byte) /\ Len(w) = Len(h) + n /\ \A j \in 1 .. Len(h) : w[j] = h[j]
      /\ \A j \in 1 .. n : w[Len(h) + j] = b[j]
  BY ZenonT(40), <1>1, <1>4, Joined DEF n
<1>7. Len(w) = 24 + n
  BY Zenon, <1>4, <1>6
<1>8. \A j \in 1 .. Len(w) : j <= N => s[j] = w[j]
  BY Zenon DEF w, N
<1>9. Answer(m, Len(w), s) = IF N < 24 + n THEN [out |-> Error, rest |-> <<>>]
                             ELSE [out |-> View(m), rest |-> SubSeq(s, 24 + n + 1, N)]
  BY Zenon, <1>7 DEF Answer, N
<1>10. CASE N < 24
  <2>1. N < 24 + n
    BY <1>1, <1>5, <1>10
  <2>2. ReadExact(s, 24) = Failed
    BY Zenon, <1>10 DEF ReadExact, N
  <2>3. ~Failed.ok
    BY Zenon DEF Failed
  <2>4. MessageHeaderRead(s) = Failed
    BY Zenon, <2>2, <2>3 DEF MessageHeaderRead, MessageHeaderSize
  <2>5. MessageRead(s) = [out |-> Error, rest |-> <<>>]
    BY Zenon, <2>3, <2>4 DEF MessageRead
  <2> QED
    BY Zenon, <1>9, <2>1, <2>5 DEF w
<1>11. CASE N >= 24
  <2> DEFINE r == HeaderOf(SubSeq(s, 1, 24))
  <2>1. \A j \in 1 .. 24 : s[j] = h[j]
    <3> SUFFICES ASSUME NEW j \in 1 .. 24 PROVE s[j] = h[j]
      BY Zenon
    <3>1. j \in 1 .. Len(w) /\ j <= N
      BY <1>1, <1>5, <1>7, <1>11
    <3> QED
      BY Zenon, <1>4, <1>6, <1>8, <3>1
  <2>2. /\ MessageHeaderRead(s) = Got(r, t)
        /\ r.command = CommandBytes(c) /\ r.payload_size = n /\ r.checksum = sum
    <3>1. Len(s) >= 24
      BY Zenon, <1>11 DEF N
    <3>2. ReadAsHeader(s, r, c, n, sum)
      BY Zenon, <1>1, <1>2, <1>3, <2>1, <3>1, HeaderRead
    <3> QED
      BY Zenon, <3>2 DEF ReadAsHeader, N
  <2> HIDE DEF r
  <2>3. CommandOf(r.command) = c
    BY Zenon, <1>2, <2>2, CommandIs
  <2>4. Got(r, t).ok /\ Got(r, t).val = r /\ Got(r, t).rest = t
    BY Zenon DEF Got
  <2>5. MessageRead(s) = ReadPartial(c, r, t)
    <3> DEFINE g == Got(r, t)
    <3>1. g.ok /\ g.val = r /\ g.rest = t
      BY Zenon, <2>4
    <3>2. MessageRead(s) = IF g.ok THEN ReadPartial(CommandOf(g.val.command), g.val, g.rest)
                                   ELSE [out |-> Error, rest |-> <<>>]
      BY Zenon, <2>2 DEF MessageRead
    <3> HIDE DEF g
    <3> QED
      BY Zenon, <2>3, <3>1, <3>2
  <2>6. /\ t \in Seq(Byte) /\ Len(t) = N - 24 /\ N - 24 \in Nat
        /\ \A j \in 1 .. N - 24 : t[j] = s[24 + j]
    <3>1. 24 \in Nat /\ 24 <= Len(s) /\ 24 + 1 = 25
      BY <1>11 DEF N
    <3> DEFINE q == SubSeq(s, 24 + 1, Len(s))
    <3>2. /\ q \in Seq(Byte) /\ Len(q) = Len(s) - 24 /\ Len(s) - 24 \in Nat
          /\ \A j \in 1 .. Len(s) - 24 : q[j] = s[24 + j]
      BY Zenon, <3>1, RestHas
    <3>3. t = q
      BY Zenon, <3>1 DEF N
    <3> HIDE DEF q, t
    <3> QED
      BY Zenon, <3>2, <3>3 DEF N
  <2> HIDE DEF t
  <2>7. \A j \in 1 .. n : j <= Len(t) => t[j] = b[j]
    <3> SUFFICES ASSUME NEW j \in 1 .. n, j <= Len(t) PROVE t[j] = b[j]
      BY Zenon
    <3>1. j \in 1 .. N - 24 /\ 24 + j \in 1 .. Len(w) /\ 24 + j <= N
      BY <1>1, <1>5, <1>7, <2>6
    <3>2. t[j] = s[24 + j] /\ s[24 + j] = w[24 + j]
      BY Zenon, <1>8, <2>6, <3>1
    <3>3. w[24 + j] = b[j]
      BY Zenon, <1>4, <1>6
    <3> QED
      BY Zenon, <3>2, <3>3
  <2>8. ReadPartial(c, r, t) = Answer(m, n, t)
    BY Zenon, <2>2, <2>6, <2>7, PartialIs DEF b, n, c, sum
  <2>9. Answer(m, n, t) = IF Len(t) < n THEN [out |-> Error, rest |-> <<>>]
                          ELSE [out |-> View(m), rest |-> SubSeq(t, n + 1, Len(t))]
    BY Zenon DEF Answer
  <2>10. CASE N < 24 + n
    <3>1. Len(t) < n
      BY <1>1, <1>5, <2>6, <2>10
    <3> QED
      BY Zenon, <1>9, <2>5, <2>8, <2>9, <2>10, <3>1 DEF w
  <2>11. CASE ~(N < 24 + n)
    <3>1. ~(Len(t) < n) /\ n <= Len(t) /\ 24 + n <= N /\ 24 + n \in Nat
      BY <1>1, <1>5, <2>6, <2>11
    <3> DEFINE x == SubSeq(t, n + 1, Len(t))
               y == SubSeq(s, 24 + n + 1, N)
    <3>2. x \in Seq(Byte) /\ Len(x) = Len(t) - n /\ \A j \in 1 .. Len(t) - n : x[j] = t[n + j]
      BY Zenon, <1>1, <2>6, <3>1, RestHas
    <3>3. /\ y \in Seq(Byte) /\ Len(y) = N - (24 + n)
          /\ \A j \in 1 .. N - (24 + n) : y[j] = s[24 + n + j]
      BY Zenon, <3>1, RestHas DEF N
    <3> HIDE DEF x, y
    <3>4. Len(x) = Len(y)
      BY <1>1, <1>5, <2>6, <3>2, <3>3
    <3>5. \A j \in 1 .. Len(x) : x[j] = y[j]
      <4> SUFFICES ASSUME NEW j \in 1 .. Len(x) PROVE x[j] = y[j]
        BY Zenon
      <4>1. /\ j \in 1 .. Len(t) - n /\ j \in 1 .. N - (24 + n) /\ n + j \in 1 .. N - 24
            /\ 24 + (n + j) = 24 + n + j
        BY <1>1, <1>5, <2>6, <3>1, <3>2
      <4> QED
        BY Zenon, <2>6, <3>2, <3>3, <4>1
    <3>6. x = y
      BY Zenon, <3>2, <3>3, <3>4, <3>5, SeqEqual
    <3> QED
      BY Zenon, <1>9, <2>5, <2>8, <2>9, <2>11, <3>1, <3>6 DEF w, x, y
  <2> QED
    BY Zenon, <2>10, <2>11
<1> QED
  BY <1>5, <1>10, <1>11

-----------------------------------------------------------------------------
(* The bytes of several messages *)

\* Downward induction.
LEMMA Downward ==
  ASSUME NEW N \in Nat, NEW T, N \in T, \A k \in 0 .. N : k # N /\ k + 1 \in T => k \in T
  PROVE  \A k \in 0 .. N : k \in T
<1> DEFINE X == {j \in 0 .. N : N - j \notin T}
<1> SUFFICES ASSUME NEW k \in 0 .. N, k \notin T PROVE FALSE
  BY Zenon
<1>1. N - k \in 0 .. N /\ N - (N - k) = k
  OBVIOUS
<1>2. X \subseteq Nat /\ X # {}
  <2>1. 0 .. N \subseteq Nat
    OBVIOUS
  <2> QED
    BY Zenon, <1>1, <2>1
<1>3. PICK j \in X : \A y \in X : ~(y < j)
  BY Zenon, <1>2, LeastOf
<1>4. j \in 0 .. N /\ N - j \notin T
  BY Zenon, <1>3
<1> HIDE DEF X
<1>5. j # 0
  <2>1. N - 0 = N
    OBVIOUS
  <2> QED
    BY Zenon, <1>4, <2>1
<1>6. j - 1 \in 0 .. N /\ N - j \in 0 .. N /\ N - j # N /\ (N - j) + 1 = N - (j - 1) /\ j - 1 < j
  BY <1>4, <1>5
<1>7. N - (j - 1) \in T
  BY Zenon, <1>3, <1>6 DEF X
<1> QED
  BY Zenon, <1>4, <1>6, <1>7

\* There is a function as the definition of BytesAfter asks for.
LEMMA FlatExists ==
  ASSUME NEW N \in Nat, NEW W
  PROVE  \E g : g = [i \in 1 .. N + 1 |-> IF i > N THEN <<>> ELSE W[i] \o g[i + 1]]
<1> DEFINE D == 1 .. N + 1
           Part(g, k) == g = [i \in D |-> IF i > N \/ i <= k THEN <<>> ELSE W[i] \o g[i + 1]]
           T == {k \in 0 .. N : \E g : Part(g, k)}
<1>1. N \in T
  <2> DEFINE z == [i \in D |-> <<>>]
  <2>1. \A i \in D : i > N \/ i <= N
    OBVIOUS
  <2>2. Part(z, N)
    BY Zenon, <2>1
  <2>3. N \in 0 .. N
    OBVIOUS
  <2> QED
    BY Zenon, <2>2, <2>3
<1>2. ASSUME NEW k \in 0 .. N, k # N, k + 1 \in T PROVE k \in T
  <2>1. PICK g : Part(g, k + 1)
    BY Zenon, <1>2
  <2> DEFINE h == [i \in D |-> IF i = k + 1 THEN W[i] \o g[i + 1] ELSE g[i]]
  <2>2. \A i \in D : g[i] = IF i > N \/ i <= k + 1 THEN <<>> ELSE W[i] \o g[i + 1]
    BY Zenon, <2>1
  <2>3. ASSUME NEW i \in D
        PROVE  h[i] = IF i > N \/ i <= k THEN <<>> ELSE W[i] \o h[i + 1]
    <3>1. CASE i > N \/ i <= k
      <4>1. i # k + 1 /\ (i > N \/ i <= k + 1)
        BY <1>2, <3>1
      <4>2. h[i] = g[i]
        BY Zenon, <4>1
      <4>3. g[i] = <<>>
        BY Zenon, <2>2, <4>1
      <4> QED
        BY Zenon, <3>1, <4>2, <4>3
    <3>2. CASE ~(i > N \/ i <= k)
      <4>1. i + 1 \in D /\ i + 1 # k + 1
        BY <1>2, <3>2
      <4>2. h[i + 1] = g[i + 1]
        BY Zenon, <4>1
      <4>3. CASE i = k + 1
        <5>1. h[i] = W[i] \o g[i + 1]
          BY Zenon, <4>3
        <5> QED
          BY Zenon, <3>2, <4>2, <5>1
      <4>4. CASE i # k + 1
        <5>1. ~(i > N \/ i <= k + 1)
          BY <1>2, <3>2, <4>4
        <5>2. h[i] = g[i]
          BY Zenon, <4>4
        <5>3. g[i] = W[i] \o g[i + 1]
          BY Zenon, <2>2, <5>1
        <5> QED
          BY Zenon, <3>2, <4>2, <5>2, <5>3
      <4> QED
        BY Zenon, <4>3, <4>4
    <3> QED
      BY Zenon, <3>1, <3>2
  <2>4. h = [i \in D |-> h[i]]
    BY Zenon
  <2> HIDE DEF h, D
  <2>5. Part(h, k)
    BY Zenon, <2>3, <2>4
  <2> QED
    BY Zenon, <2>5
<1>3. 0 \in T
  <2>1. 0 \in 0 .. N
    OBVIOUS
  <2> HIDE DEF T
  <2> QED
    BY Zenon, <1>1, <1>2, <2>1, Downward
<1>4. PICK g : Part(g, 0)
  BY Zenon, <1>3
<1>5. \A i \in D : (i > N \/ i <= 0) <=> i > N
  OBVIOUS
<1>6. [i \in D |-> IF i > N \/ i <= 0 THEN <<>> ELSE W[i] \o g[i + 1]]
        = [i \in D |-> IF i > N THEN <<>> ELSE W[i] \o g[i + 1]]
  BY Zenon, <1>5
<1> QED
  BY Zenon, <1>4, <1>6

\* BytesAfter, message by message.
LEMMA AfterIs ==
  ASSUME NEW msgs, Len(msgs) \in Nat
  PROVE  /\ BytesAfter(Len(msgs), msgs) = <<>>
         /\ \A k \in 0 .. Len(msgs) : k # Len(msgs) =>
              BytesAfter(k, msgs) = MessageWrite(msgs[k + 1]) \o BytesAfter(k + 1, msgs)
<1> DEFINE N == Len(msgs)
           D == 1 .. N + 1
           Flat(g) == [i \in D |-> IF i > N THEN <<>> ELSE MessageWrite(msgs[i]) \o g[i + 1]]
           F == CHOOSE g : g = Flat(g)
           W == [i \in D |-> MessageWrite(msgs[i])]
<1>1. \A k : BytesAfter(k, msgs) = F[k + 1]
  BY Zenon DEF BytesAfter
<1>2. PICK g : g = [i \in D |-> IF i > N THEN <<>> ELSE W[i] \o g[i + 1]]
  BY Zenon, FlatExists
<1>3. g = Flat(g)
  <2>1. \A i \in D : (IF i > N THEN <<>> ELSE W[i] \o g[i + 1]) =
                     (IF i > N THEN <<>> ELSE MessageWrite(msgs[i]) \o g[i + 1])
    BY Zenon
  <2>2. [i \in D |-> IF i > N THEN <<>> ELSE W[i] \o g[i + 1]] = Flat(g)
    BY Zenon, <2>1
  <2> QED
    BY Zenon, <1>2, <2>2
<1> HIDE DEF W
<1>4. F = Flat(F)
  <2> HIDE DEF Flat
  <2> QED
    BY Zenon, <1>3
<1> HIDE DEF F
<1>5. \A i \in D : F[i] = IF i > N THEN <<>> ELSE MessageWrite(msgs[i]) \o F[i + 1]
  BY Zenon, <1>4
<1>6. N + 1 \in D /\ N + 1 > N
  OBVIOUS
<1>7. ASSUME NEW k \in 0 .. N, k # N
      PROVE  BytesAfter(k, msgs) = MessageWrite(msgs[k + 1]) \o BytesAfter(k + 1, msgs)
  <2>1. k + 1 \in D /\ ~(k + 1 > N)
    BY <1>7
  <2> QED
    BY Zenon, <1>1, <1>5, <2>1
<1> QED
  BY Zenon, <1>1, <1>5, <1>6, <1>7

\* The bytes of a message are a sequence of bytes, and not empty.
LEMMA WrittenIs ==
  ASSUME NoSum, NEW m, MessageSound(m)
  PROVE  MessageWrite(m) \in Seq(Byte) /\ Len(MessageWrite(m)) \in Nat /\ Len(MessageWrite(m)) >= 24
<1> DEFINE b == Body(m)
           h == MessageHeaderWrite(m.cmd, Len(b), Checksum(b))
<1>1. /\ b \in Seq(Byte) /\ Len(b) \in Nat /\ Checksum(b) \in Seq(Byte) /\ Len(Checksum(b)) = 4
      /\ MessageWrite(m) = h \o b
  BY Zenon, MessageIs
<1>2. h \in Seq(Byte) /\ Len(h) = 24
  <2>1. HeaderFields(h, m.cmd, Len(b), Checksum(b))
    <3> HIDE DEF b
    <3> QED
      BY Zenon, <1>1, HeaderWritten DEF MessageSound
  <2> QED
    BY Zenon, <2>1 DEF HeaderFields
<1> HIDE DEF b, h
<1>3. h \o b \in Seq(Byte) /\ Len(h \o b) = 24 + Len(b)
  <2>1. h \o b \in Seq(Byte) /\ Len(h \o b) = Len(h) + Len(b)
    BY Zenon, <1>1, <1>2, Joined
  <2> QED
    BY Zenon, <1>2, <2>1
<1>4. 24 + Len(b) \in Nat /\ 24 + Len(b) >= 24
  BY <1>1
<1> QED
  BY Zenon, <1>1, <1>3, <1>4

\* The messages that may be written.
Sampled == UNION {Sample[p] : p \in 1 .. Len(Sample)}

\* They are sound.
LEMMA SampledSound == ASSUME CodecsSound PROVE NoSum /\ \A m \in Sampled : MessageSound(m)
BY Zenon DEF CodecsSound, NoSum, Sampled

\* The bytes of several messages are a sequence of bytes.
LEMMA AfterBytes ==
  ASSUME CodecsSound, NEW msgs \in Seq(Sampled)
  PROVE  \A k \in 0 .. Len(msgs) : BytesAfter(k, msgs) \in Seq(Byte)
<1> DEFINE N == Len(msgs)
           T == {k \in 0 .. N : BytesAfter(k, msgs) \in Seq(Byte)}
<1>1. N \in Nat /\ N \in 0 .. N /\ <<>> \in Seq(Byte)
  OBVIOUS
<1>2. N \in T
  BY Zenon, <1>1, AfterIs
<1>3. ASSUME NEW k \in 0 .. N, k # N, k + 1 \in T PROVE k \in T
  <2>1. k + 1 \in 1 .. N
    BY <1>1, <1>3
  <2>2. msgs[k + 1] \in Sampled
    BY Zenon, <2>1, ElementOfSeq
  <2> DEFINE w == MessageWrite(msgs[k + 1])
             r == BytesAfter(k + 1, msgs)
  <2>3. w \in Seq(Byte) /\ r \in Seq(Byte)
    BY Zenon, <1>3, <2>2, SampledSound, WrittenIs
  <2>4. BytesAfter(k, msgs) = w \o r
    BY Zenon, <1>1, <1>3, AfterIs
  <2> HIDE DEF w, r
  <2>5. w \o r \in Seq(Byte)
    BY Zenon, <2>3, Joined
  <2> QED
    BY Zenon, <2>4, <2>5
<1> HIDE DEF T
<1>4. \A k \in 0 .. N : k \in T
  BY Zenon, <1>1, <1>2, <1>3, Downward
<1> QED
  BY Zenon, <1>4 DEF T

\* A message more comes behind what is there.
LEMMA AfterGrows ==
  ASSUME CodecsSound, NEW msgs \in Seq(Sampled), NEW m \in Sampled
  PROVE  \A k \in 0 .. Len(msgs) :
           BytesAfter(k, Append(msgs, m)) = BytesAfter(k, msgs) \o MessageWrite(m)
<1> DEFINE N == Len(msgs)
           more == Append(msgs, m)
           w == MessageWrite(m)
           T == {k \in 0 .. N : BytesAfter(k, more) = BytesAfter(k, msgs) \o w}
<1>1. /\ N \in Nat /\ N \in 0 .. N /\ N \in 0 .. N + 1 /\ N # N + 1
      /\ more \in Seq(Sampled) /\ Len(more) = N + 1 /\ more[N + 1] = m
      /\ \A i \in 1 .. N : more[i] = msgs[i]
  OBVIOUS
<1>2. w \in Seq(Byte)
  BY Zenon, SampledSound, WrittenIs
<1> HIDE DEF more, w
<1>3. <<>> \o w = w /\ w \o <<>> = w
  BY <1>2
<1>4. N \in T
  <2>1. Len(more) \in Nat
    BY <1>1
  <2>2. BytesAfter(N + 1, more) = <<>>
    BY Zenon, <1>1, <2>1, AfterIs
  <2>3. BytesAfter(N, more) = MessageWrite(more[N + 1]) \o BytesAfter(N + 1, more)
    BY Zenon, <1>1, <2>1, AfterIs
  <2>4. BytesAfter(N, msgs) = <<>>
    BY Zenon, <1>1, AfterIs
  <2>5. BytesAfter(N, more) = w
    BY Zenon, <1>1, <1>3, <2>2, <2>3 DEF w
  <2> QED
    BY Zenon, <1>1, <1>3, <2>4, <2>5
<1>5. ASSUME NEW k \in 0 .. N, k # N, k + 1 \in T PROVE k \in T
  <2>1. k + 1 \in 1 .. N /\ k + 1 \in 0 .. N /\ k \in 0 .. N + 1 /\ k # N + 1
    BY <1>1, <1>5
  <2>2. more[k + 1] = msgs[k + 1] /\ msgs[k + 1] \in Sampled
    BY Zenon, <1>1, <2>1, ElementOfSeq
  <2> DEFINE v == MessageWrite(msgs[k + 1])
             r == BytesAfter(k + 1, msgs)
  <2>3. v \in Seq(Byte) /\ r \in Seq(Byte)
    BY Zenon, <2>1, <2>2, SampledSound, WrittenIs, AfterBytes
  <2>4. BytesAfter(k, msgs) = v \o r
    BY Zenon, <1>1, <1>5, AfterIs
  <2>5. BytesAfter(k, more) = v \o BytesAfter(k + 1, more)
    <3>1. Len(more) \in Nat
      BY <1>1
    <3> QED
      BY Zenon, <1>1, <2>1, <2>2, <3>1, AfterIs
  <2>6. BytesAfter(k + 1, more) = r \o w
    BY Zenon, <1>5
  <2> HIDE DEF v, r
  <2>7. (v \o r) \o w = v \o (r \o w)
    BY <1>2, <2>3, ConcatAssociative
  <2> QED
    BY Zenon, <2>4, <2>5, <2>6, <2>7
<1> HIDE DEF T
<1>6. \A k \in 0 .. N : k \in T
  BY Zenon, <1>1, <1>4, <1>5, Downward
<1> QED
  BY Zenon, <1>6 DEF T, more, w

\* What is left of the beginning of two sequences, behind the first.
LEMMA CutBehind ==
  ASSUME NEW w \in Seq(Byte), NEW r \in Seq(Byte), NEW k \in Nat, Len(w) <= k,
         k <= Len(w) + Len(r)
  PROVE  SubSeq(SubSeq(w \o r, 1, k), Len(w) + 1, k) = SubSeq(r, 1, k - Len(w))
<1> DEFINE u == w \o r
           a == Len(w)
           n == k - a
           s == SubSeq(u, 0 + 1, 0 + k)
           x == SubSeq(s, a + 1, a + n)
           y == SubSeq(r, 0 + 1, 0 + n)
<1>1. a \in Nat /\ Len(r) \in Nat /\ n \in Nat /\ a + n = k /\ n <= Len(r) /\ 0 \in Nat
      /\ 0 + 1 = 1 /\ 0 + k = k /\ 0 + n = n
  OBVIOUS
<1>2. /\ u \in Seq(Byte) /\ Len(u) = a + Len(r) /\ \A j \in 1 .. Len(r) : u[a + j] = r[j]
  BY Zenon, Joined
<1> HIDE DEF u, a
<1>3. s \in Seq(Byte) /\ Len(s) = k /\ \A j \in 1 .. k : s[j] = u[0 + j]
  <2>1. 0 + k <= Len(u)
    BY <1>1, <1>2 DEF a
  <2> QED
    BY ZenonT(40), <1>1, <1>2, <2>1, PartHas
<1> HIDE DEF s, n
<1>4. x \in Seq(Byte) /\ Len(x) = n /\ \A j \in 1 .. n : x[j] = s[a + j]
  <2>1. a + n <= Len(s)
    BY <1>1, <1>3
  <2> QED
    BY Zenon, <1>1, <1>3, <2>1, PartHas
<1>5. y \in Seq(Byte) /\ Len(y) = n /\ \A j \in 1 .. n : y[j] = r[0 + j]
  <2>1. 0 + n <= Len(r)
    BY <1>1
  <2> QED
    BY Zenon, <1>1, <2>1, PartHas
<1> HIDE DEF x, y
<1>6. \A j \in 1 .. n : x[j] = y[j]
  <2> SUFFICES ASSUME NEW j \in 1 .. n PROVE x[j] = y[j]
    BY Zenon
  <2>1. a + j \in 1 .. k /\ 0 + (a + j) = a + j /\ 0 + j = j /\ j \in 1 .. Len(r)
    BY <1>1
  <2> QED
    BY Zenon, <1>2, <1>3, <1>4, <1>5, <2>1
<1>7. x = y
  BY Zenon, <1>4, <1>5, <1>6, SeqEqual
<1> QED
  BY Zenon, <1>1, <1>7 DEF x, y, s, u, a, n

-----------------------------------------------------------------------------
(* The invariant *)

\* What the reader can have been told.
Views == {View(m) : m \in Sampled} \cup {Error}

\* InStep with the types of what was written and read.
StreamInv == sent \in Seq(Sampled) /\ seen \in Seq(Views) /\ InStep

\* Nothing is written or read at first.
LEMMA StreamInit == MsgInit => StreamInv
<1> SUFFICES ASSUME MsgInit PROVE StreamInv
  BY Zenon
<1>1. sent = <<>> /\ stream = <<>> /\ ~closed /\ seen = <<>>
  BY Zenon DEF MsgInit
<1>2. sent \in Seq(Sampled) /\ seen \in Seq(Views) /\ Len(seen) = 0 /\ Len(sent) = 0 /\ 0 \in Nat
  BY <1>1
<1>3. 0 <= 0 /\ \A i \in 1 .. 0 : FALSE
  OBVIOUS
<1>4. BytesAfter(0, sent) = <<>>
  BY Zenon, <1>2, AfterIs
<1> QED
  BY Zenon, <1>1, <1>2, <1>3, <1>4 DEF StreamInv, InStep

\* The bytes on their way are the first ones of the messages that are still to be read.
LEMMA OnTheWay ==
  ASSUME CodecsSound, StreamInv
  PROVE  /\ Len(seen) \in 0 .. Len(sent) /\ Len(sent) \in Nat
         /\ BytesAfter(Len(seen), sent) \in Seq(Byte)
         /\ Len(BytesAfter(Len(seen), sent)) \in Nat
         /\ \E n \in 0 .. Len(BytesAfter(Len(seen), sent)) :
              stream = SubSeq(BytesAfter(Len(seen), sent), 1, n)
         /\ ~closed => stream = BytesAfter(Len(seen), sent)
<1> DEFINE K == Len(seen)
           U == BytesAfter(K, sent)
<1>1. K \in Nat /\ Len(sent) \in Nat /\ K <= Len(sent)
  BY Zenon, LenProperties DEF StreamInv, InStep
<1>2. K \in 0 .. Len(sent)
  BY <1>1
<1>3. U \in Seq(Byte)
  BY Zenon, <1>2, AfterBytes DEF StreamInv
<1>4. Len(U) \in Nat
  BY Zenon, <1>3, LenProperties
<1>5. IF closed THEN \E n \in 0 .. Len(U) : stream = SubSeq(U, 1, n) ELSE stream = U
  BY Zenon DEF StreamInv, InStep
<1> HIDE DEF U
<1>6. SubSeq(U, 1, Len(U)) = U /\ Len(U) \in 0 .. Len(U)
  BY <1>3, <1>4
<1> QED
  BY Zenon, <1>1, <1>2, <1>3, <1>4, <1>5, <1>6 DEF U

\* A message that is written comes behind those on their way.
LEMMA WriteStep ==
  ASSUME CodecsSound, StreamInv, NEW m \in Sampled, WriteMessage(m)
  PROVE  StreamInv'
<1> DEFINE K == Len(seen)
           N == Len(sent)
<1>1. ~closed /\ sent' = Append(sent, m) /\ stream' = stream \o MessageWrite(m) /\ closed' = closed
      /\ seen' = seen
  BY Zenon DEF WriteMessage
<1>2. K \in 0 .. N /\ N \in Nat /\ stream = BytesAfter(K, sent)
  BY Zenon, <1>1, OnTheWay
<1>3. sent \in Seq(Sampled) /\ seen \in Seq(Views) /\ \A i \in 1 .. K : seen[i] = View(sent[i])
  BY Zenon, <1>1 DEF StreamInv, InStep
<1>4. sent' \in Seq(Sampled) /\ Len(sent') = N + 1 /\ \A i \in 1 .. N : sent'[i] = sent[i]
  BY <1>1, <1>3
<1>5. stream' = BytesAfter(K, sent')
  BY Zenon, <1>1, <1>2, <1>3, AfterGrows
<1> HIDE DEF K, N
<1>6. K <= N + 1 /\ 1 .. K \subseteq 1 .. N
  BY <1>2
<1>7. \A i \in 1 .. K : seen'[i] = View(sent'[i])
  BY Zenon, <1>1, <1>3, <1>4, <1>6
<1>8. Len(seen') = K
  BY Zenon, <1>1 DEF K
<1> QED
  BY Zenon, <1>1, <1>3, <1>4, <1>5, <1>6, <1>7, <1>8 DEF StreamInv, InStep

\* When the connection closes, some of the bytes on their way are lost.
LEMMA CloseStep ==
  ASSUME CodecsSound, StreamInv, NEW n \in 0 .. Len(stream), Close(n)
  PROVE  StreamInv'
<1> DEFINE K == Len(seen)
<1>1. ~closed /\ closed' = TRUE /\ stream' = SubSeq(stream, 1, n) /\ sent' = sent /\ seen' = seen
  BY Zenon DEF Close
<1>2. stream = BytesAfter(K, sent)
  BY Zenon, <1>1, OnTheWay
<1>3. /\ sent \in Seq(Sampled) /\ seen \in Seq(Views) /\ \A i \in 1 .. K : seen[i] = View(sent[i])
      /\ K <= Len(sent)
  BY Zenon, <1>1 DEF StreamInv, InStep
<1> QED
  BY Zenon, <1>1, <1>2, <1>3 DEF StreamInv, InStep

\* What is read from a stream of which the first k bytes of a message and others are left.
LEMMA ReadNext ==
  ASSUME CodecsSound, NEW m \in Sampled, NEW r \in Seq(Byte),
         NEW k \in 0 .. Len(MessageWrite(m) \o r), NEW s, s = SubSeq(MessageWrite(m) \o r, 1, k)
  PROVE  IF k < Len(MessageWrite(m)) THEN MessageRead(s) = [out |-> Error, rest |-> <<>>]
         ELSE /\ MessageRead(s) = [out |-> View(m), rest |-> SubSeq(r, 1, k - Len(MessageWrite(m)))]
              /\ k - Len(MessageWrite(m)) \in 0 .. Len(r)
<1> DEFINE w == MessageWrite(m)
           u == w \o r
           a == Len(w)
<1>1. NoSum /\ MessageSound(m)
  BY Zenon, SampledSound
<1>2. w \in Seq(Byte) /\ a \in Nat
  BY Zenon, <1>1, WrittenIs
<1>3. k \in 0 .. Len(u) /\ s = SubSeq(u, 1, k)
  BY Zenon
<1> HIDE DEF w
<1>4. /\ u \in Seq(Byte) /\ Len(u) = a + Len(r) /\ \A j \in 1 .. a : u[j] = w[j]
  BY Zenon, <1>2, Joined
<1>5. Len(r) \in Nat /\ Len(u) \in Nat
  BY Zenon, <1>4, LenProperties
<1> HIDE DEF u
<1>6. s \in Seq(Byte) /\ Len(s) = k /\ \A j \in 1 .. k : s[j] = u[j]
  <2> DEFINE q == SubSeq(u, 0 + 1, 0 + k)
  <2>1. 0 \in Nat /\ k \in Nat /\ 0 + k <= Len(u) /\ 0 + 1 = 1 /\ 0 + k = k
    BY <1>3, <1>5
  <2>2. q \in Seq(Byte) /\ Len(q) = k /\ \A j \in 1 .. k : q[j] = u[0 + j]
    BY Zenon, <1>4, <2>1, PartHas
  <2>3. s = q
    BY Zenon, <1>3, <2>1
  <2>4. \A j \in 1 .. k : 0 + j = j
    BY <2>1
  <2> HIDE DEF q
  <2> QED
    BY Zenon, <2>2, <2>3, <2>4
<1>7. \A j \in 1 .. a : j <= Len(s) => s[j] = w[j]
  <2> SUFFICES ASSUME NEW j \in 1 .. a, j <= Len(s) PROVE s[j] = w[j]
    BY Zenon
  <2>1. j \in 1 .. k
    BY <1>2, <1>3, <1>5, <1>6
  <2> QED
    BY Zenon, <1>4, <1>6, <2>1
<1>8. MessageRead(s) = Answer(m, a, s)
  BY Zenon, <1>1, <1>6, <1>7, ReadIs DEF w
<1>9. Answer(m, a, s) = IF k < a THEN [out |-> Error, rest |-> <<>>]
                        ELSE [out |-> View(m), rest |-> SubSeq(s, a + 1, k)]
  BY Zenon, <1>6 DEF Answer
<1>10. CASE k < a
  BY Zenon, <1>8, <1>9, <1>10 DEF w
<1>11. CASE ~(k < a)
  <2>1. k \in Nat /\ a <= k /\ k <= a + Len(r) /\ k - a \in 0 .. Len(r)
    BY <1>2, <1>3, <1>4, <1>5, <1>11
  <2>2. SubSeq(s, a + 1, k) = SubSeq(r, 1, k - a)
    BY Zenon, <1>2, <1>3, <2>1, CutBehind DEF u
  <2> QED
    BY Zenon, <1>8, <1>9, <1>11, <2>1, <2>2 DEF w
<1> QED
  BY Zenon, <1>10, <1>11

\* Message::read takes the next message, or reports that it is cut.
LEMMA ReadStep == ASSUME CodecsSound, StreamInv, ReadMessage PROVE StreamInv'
<1> DEFINE K == Len(seen)
           N == Len(sent)
           U == BytesAfter(K, sent)
           R == BytesAfter(K + 1, sent)
           m == sent[K + 1]
           w == MessageWrite(m)
           a == Len(w)
           x == MessageRead(stream)
<1>1. stream # <<>> /\ seen' = Append(seen, x.out) /\ stream' = x.rest /\ sent' = sent /\ closed' = closed
  BY Zenon DEF ReadMessage
<1>2. K \in 0 .. N /\ N \in Nat /\ U \in Seq(Byte) /\ Len(U) \in Nat /\ (~closed => stream = U)
  BY Zenon, OnTheWay
<1>3. PICK k \in 0 .. Len(U) : stream = SubSeq(U, 1, k)
  BY Zenon, OnTheWay
<1>4. sent \in Seq(Sampled) /\ seen \in Seq(Views) /\ \A i \in 1 .. K : seen[i] = View(sent[i])
  BY Zenon, <1>1 DEF StreamInv, InStep
<1>5. K # N
  <2> SUFFICES ASSUME K = N PROVE FALSE
    BY Zenon
  <2>1. BytesAfter(N, sent) = <<>>
    BY Zenon, <1>2, AfterIs
  <2>2. U = <<>>
    BY Zenon, <2>1
  <2> HIDE DEF U
  <2>3. stream = <<>>
    BY <1>3, <2>2
  <2> QED
    BY Zenon, <1>1, <2>3
<1>6. K + 1 \in 0 .. N /\ K + 1 \in 1 .. N /\ K + 1 <= N
  BY <1>2, <1>5
<1>7. U = w \o R
  BY Zenon, <1>2, <1>5, AfterIs
<1>8. m \in Sampled /\ R \in Seq(Byte)
  BY Zenon, <1>4, <1>6, ElementOfSeq, AfterBytes
<1>9. w \in Seq(Byte) /\ a \in Nat
  BY Zenon, <1>8, SampledSound, WrittenIs
<1>10. Len(R) \in Nat
  BY Zenon, <1>8, LenProperties
<1> HIDE DEF U, R, m, K, N
<1>11. IF k < a THEN x = [out |-> Error, rest |-> <<>>]
       ELSE x = [out |-> View(m), rest |-> SubSeq(R, 1, k - a)] /\ k - a \in 0 .. Len(R)
  <2>1. k \in 0 .. Len(w \o R) /\ stream = SubSeq(w \o R, 1, k)
    BY Zenon, <1>3, <1>7
  <2> QED
    BY Zenon, <1>8, <2>1, ReadNext
<1>12. Len(U) = a + Len(R)
  <2> HIDE DEF w
  <2> QED
    BY Zenon, <1>7, <1>8, <1>9, Joined
<1>13. ~closed => ~(k < a) /\ k - a = Len(R)
  <2> SUFFICES ASSUME ~closed PROVE ~(k < a) /\ k - a = Len(R)
    BY Zenon
  <2>1. U = SubSeq(U, 1, k)
    BY Zenon, <1>2, <1>3
  <2>2. Len(SubSeq(U, 1, k)) = k
    BY <1>2, <1>3
  <2>3. Len(U) = k
    BY Zenon, <2>1, <2>2
  <2> HIDE DEF a
  <2> QED
    BY <1>9, <1>10, <1>12, <2>3
<1> HIDE DEF w, a, x
<1>14. /\ Len(seen') = K + 1 /\ seen'[K + 1] = x.out /\ \A i \in 1 .. K : seen'[i] = seen[i]
       /\ (x.out \in Views => seen' \in Seq(Views)) /\ \A i \in 1 .. K + 1 : i \in 1 .. K \/ i = K + 1
  <2>1. K \in Nat /\ K = Len(seen)
    BY <1>2 DEF K
  <2> HIDE DEF Views
  <2> QED
    BY <1>1, <1>4, <2>1
<1>15. \A i \in 1 .. K : seen'[i] = View(sent'[i])
  BY Zenon, <1>1, <1>4, <1>14
<1>16. Len(sent') = N
  BY Zenon, <1>1 DEF N
<1>17. BytesAfter(K + 1, sent') = R
  BY Zenon, <1>1 DEF R
<1>18. CASE k < a
  <2>1. x.out = Error /\ x.rest = <<>>
    <3> DEFINE e == [out |-> Error, rest |-> <<>>]
    <3>1. e.out = Error /\ e.rest = <<>>
      BY Zenon
    <3>2. x = e
      BY Zenon, <1>11, <1>18
    <3> HIDE DEF e
    <3> QED
      BY Zenon, <3>1, <3>2
  <2>2. closed /\ closed'
    BY Zenon, <1>1, <1>13, <1>18
  <2>3. seen' \in Seq(Views) /\ seen'[K + 1] = Error /\ stream' = <<>>
    BY Zenon, <1>1, <1>14, <2>1 DEF Views
  <2>4. \E n \in 0 .. Len(R) : stream' = SubSeq(R, 1, n)
    <3>1. 0 \in 0 .. Len(R) /\ SubSeq(R, 1, 0) = <<>>
      BY <1>8, <1>10
    <3> QED
      BY Zenon, <2>3, <3>1
  <2>5. \A i \in 1 .. K + 1 : \/ seen'[i] = View(sent'[i])
                              \/ closed' /\ seen'[i] = Error /\ i = K + 1 /\ stream' = <<>>
    BY Zenon, <1>14, <1>15, <2>2, <2>3
  <2> QED
    BY Zenon, <1>1, <1>4, <1>6, <1>14, <1>16, <1>17, <2>2, <2>3, <2>4, <2>5 DEF StreamInv, InStep
<1>19. CASE ~(k < a)
  <2>1. x.out = View(m) /\ x.rest = SubSeq(R, 1, k - a) /\ k - a \in 0 .. Len(R)
    <3> DEFINE e == [out |-> View(m), rest |-> SubSeq(R, 1, k - a)]
    <3>1. e.out = View(m) /\ e.rest = SubSeq(R, 1, k - a)
      BY Zenon
    <3>2. x = e /\ k - a \in 0 .. Len(R)
      BY Zenon, <1>11, <1>19
    <3> HIDE DEF e
    <3> QED
      BY Zenon, <3>1, <3>2
  <2>2. seen' \in Seq(Views) /\ seen'[K + 1] = View(m)
    BY Zenon, <1>8, <1>14, <2>1 DEF Views
  <2>3. \A i \in 1 .. K + 1 : seen'[i] = View(sent'[i])
    BY Zenon, <1>1, <1>14, <1>15, <2>2 DEF m
  <2>4. ~closed => stream' = R
    <3>1. SubSeq(R, 1, Len(R)) = R
      BY <1>8
    <3> QED
      BY Zenon, <1>1, <1>13, <2>1, <3>1
  <2>5. \E n \in 0 .. Len(R) : stream' = SubSeq(R, 1, n)
    BY Zenon, <1>1, <2>1
  <2> QED
    BY Zenon, <1>1, <1>4, <1>6, <1>14, <1>16, <1>17, <2>2, <2>3, <2>4, <2>5 DEF StreamInv, InStep
<1> QED
  BY Zenon, <1>18, <1>19

\* Every step keeps the invariant.
LEMMA StreamNext == ASSUME CodecsSound, StreamInv, [MsgNext]_msgVars PROVE StreamInv'
<1>1. CASE UNCHANGED msgVars
  BY Zenon, <1>1 DEF msgVars, StreamInv, InStep
<1>2. ASSUME Len(sent) < Len(Sample), NEW m \in Sample[Len(sent) + 1], WriteMessage(m)
      PROVE  StreamInv'
  <2>1. Len(sent) \in Nat
    BY Zenon, LenProperties DEF StreamInv
  <2>2. Len(sent) + 1 \in 1 .. Len(Sample)
    BY <1>2, <2>1, SampleAssumption DEF SampleAssumption
  <2>3. m \in Sampled
    BY Zenon, <1>2, <2>2 DEF Sampled
  <2> QED
    BY Zenon, <1>2, <2>3, WriteStep
<1>3. ASSUME NEW n \in Cuts \cap 0 .. Len(stream), Close(n) PROVE StreamInv'
  BY Zenon, <1>3, CloseStep
<1>4. CASE ReadMessage
  BY Zenon, <1>4, ReadStep
<1> QED
  BY Zenon, <1>1, <1>2, <1>3, <1>4 DEF MsgNext

\* The reader of a stream of messages stays at their boundaries, and is told of every message
\* what it should be, whatever was written and wherever the connection closed, if the codecs of
\* the payloads are sound (Message::read, Message::write and the header's size and checksum).
THEOREM ReaderIsInStep == ASSUME CodecsSound PROVE MsgSpec => []InStep
<1>1. MsgInit => StreamInv
  BY StreamInit
<1>2. StreamInv /\ [MsgNext]_msgVars => StreamInv'
  BY StreamNext
<1>3. StreamInv => InStep
  BY DEF StreamInv
<1> QED
  BY <1>1, <1>2, <1>3, PTL DEF MsgSpec

-----------------------------------------------------------------------------
(* The bytes of an entry *)

\* The bytes of an entry with the timestamp it is stored with.
Bytes(e, stamp) ==
  WriteU32(stamp) \o WriteU32(Len(e.key)) \o WriteU32(Len(e.value) + 1)
    \o e.key \o e.value \o <<e.tombstone>>

EntryLen(e) == 13 + Len(e.key) + Len(e.value)

\* Entries have keys and values of bytes, whose sizes have four.
LEMMA EntryFacts ==
  ASSUME NEW e \in Entries
  PROVE  /\ e.key \in Seq(Byte) /\ FromUtf8(e.key) /\ Len(e.key) \in Nat /\ Len(e.key) < U32
         /\ e.value \in Seq(Byte) /\ Len(e.value) \in Nat /\ Len(e.value) + 1 < U32
         /\ e.tombstone \in {0, 1} /\ e.timestamp \in Nat /\ e.timestamp < U32
         /\ EntryLen(e) \in Nat /\ EntryLen(e) >= 13
<1>1. U32 \in Nat /\ Base \in Nat /\ Base > 4 /\ U32 > 1
  <2>1. U32 \in Nat /\ Base \in Nat /\ Base > 4
    BY SizesAre
  <2>2. Base * Base \in Nat /\ Base * Base > 4
    BY <2>1
  <2>3. Base * Base * Base \in Nat /\ Base * Base * Base > 4
    BY <2>1, <2>2
  <2>4. Base * Base * Base * Base > 4
    BY <2>1, <2>3
  <2> QED
    BY <2>1, <2>4 DEF U32
<1>2. \/ /\ e.key \in Keys /\ e.value \in Values /\ e.tombstone = 0
         /\ e.timestamp \in {0} \cup {t \in Times : t < U32}
      \/ e.key \in Keys /\ e.value = <<>> /\ e.tombstone = 1 /\ e.timestamp = 0
  BY DEF Entries
<1>3. e.key \in Seq(Byte) /\ FromUtf8(e.key) /\ Len(e.key) < U32
  BY Zenon, <1>2, FileAssumption DEF FileAssumption
<1>4. e.value \in Seq(Byte) /\ Len(e.value) + 1 < U32
  <2>1. CASE e.value \in Values
    BY Zenon, <2>1, FileAssumption DEF FileAssumption
  <2>2. CASE e.value = <<>>
    BY <1>1, <2>2
  <2> QED
    BY Zenon, <1>2, <2>1, <2>2
<1>5. e.timestamp \in Nat /\ e.timestamp < U32
  <2>1. Times \subseteq Nat
    BY Zenon, FileAssumption DEF FileAssumption
  <2>2. e.timestamp = 0 \/ (e.timestamp \in Times /\ e.timestamp < U32)
    BY Zenon, <1>2
  <2>3. CASE e.timestamp = 0
    BY <1>1, <2>3
  <2>4. CASE e.timestamp \in Times /\ e.timestamp < U32
    BY Zenon, <2>1, <2>4
  <2> QED
    BY Zenon, <2>2, <2>3, <2>4
<1>6. Len(e.key) \in Nat /\ Len(e.value) \in Nat
  BY <1>3, <1>4
<1>7. EntryLen(e) \in Nat /\ EntryLen(e) >= 13
  <2> DEFINE k == Len(e.key)
             v == Len(e.value)
  <2> HIDE DEF k, v
  <2>1. k \in Nat /\ v \in Nat /\ EntryLen(e) = 13 + k + v
    BY Zenon, <1>6 DEF k, v, EntryLen
  <2> QED
    BY <2>1
<1>8. e.tombstone \in {0, 1}
  BY Zenon, <1>2
<1> QED
  BY Zenon, <1>3, <1>4, <1>5, <1>6, <1>7, <1>8

\* Entry::encode lays out a header of 12 bytes, the key, the value and the tombstone.
LEMMA Layout ==
  ASSUME NEW e \in Entries, NEW stamp \in Nat
  PROVE  LET b == Bytes(e, stamp)
             k == Len(e.key)
             v == Len(e.value)
         IN /\ b \in Seq(Byte) /\ Len(b) = EntryLen(e)
            /\ \A j \in 1 .. 4 : /\ b[j] = WriteU32(stamp)[j] /\ b[4 + j] = WriteU32(k)[j]
                                 /\ b[8 + j] = WriteU32(v + 1)[j]
            /\ \A j \in 1 .. k : b[12 + j] = e.key[j]
            /\ \A j \in 1 .. v : b[12 + k + j] = e.value[j]
            /\ b[EntryLen(e)] = e.tombstone
<1> DEFINE b == Bytes(e, stamp)
           k == Len(e.key)
           v == Len(e.value)
<1>1. e.key \in Seq(Byte) /\ e.value \in Seq(Byte) /\ e.tombstone \in Byte /\ k \in Nat /\ v \in Nat
  BY EntryFacts, SizesAre DEF Byte
<1>2. ASSUME NEW n \in Nat PROVE WriteU32(n) \in Seq(Byte) /\ Len(WriteU32(n)) = 4
  <2> DEFINE d == n \div Base
             x == d \div Base
             f == x \div Base
  <2>1. d \in Nat /\ n % Base \in Byte
    BY DivMod, SizesAre DEF Byte
  <2>2. x \in Nat /\ d % Base \in Byte
    BY <2>1, DivMod, SizesAre DEF Byte
  <2>3. f \in Nat /\ x % Base \in Byte
    BY <2>2, DivMod, SizesAre DEF Byte
  <2>4. f % Base \in Byte
    BY <2>3, DivMod, SizesAre DEF Byte
  <2>5. WriteU32(n) = <<n % Base, d % Base, x % Base, f % Base>>
    BY DEF WriteU32
  <2> HIDE DEF d, x, f
  <2> QED
    BY <2>1, <2>2, <2>3, <2>4, <2>5
<1> DEFINE h1 == WriteU32(stamp)
           h2 == WriteU32(k)
           h3 == WriteU32(v + 1)
<1>3. /\ h1 \in Seq(Byte) /\ Len(h1) = 4 /\ h2 \in Seq(Byte) /\ Len(h2) = 4
      /\ h3 \in Seq(Byte) /\ Len(h3) = 4
  <2>1. v + 1 \in Nat
    BY <1>1
  <2> QED
    BY Zenon, <1>1, <1>2, <2>1
<1> DEFINE a2 == h1 \o h2
           a3 == a2 \o h3
           a4 == a3 \o e.key
           a5 == a4 \o e.value
<1>4. b = a5 \o <<e.tombstone>>
  BY Zenon DEF Bytes
<1> HIDE DEF h1, h2, h3, k, v, b
<1>3a. 4 + 4 = 8 /\ 8 + 4 = 12 /\ Len(<<e.tombstone>>) = 1 /\ <<e.tombstone>> \in Seq(Byte)
       /\ <<e.tombstone>>[1] = e.tombstone /\ 1 \in 1 .. 1 /\ 12 + k + v + 1 = 13 + k + v
  BY <1>1
<1>5. /\ a2 \in Seq(Byte) /\ Len(a2) = 8
      /\ \A j \in 1 .. 4 : a2[j] = h1[j] /\ a2[4 + j] = h2[j]
  <2>1. /\ a2 \in Seq(Byte) /\ Len(a2) = Len(h1) + Len(h2)
        /\ \A j \in 1 .. Len(h1) : a2[j] = h1[j]
        /\ \A j \in 1 .. Len(h2) : a2[Len(h1) + j] = h2[j]
    BY Zenon, <1>3, Joined
  <2>2. Len(h1) = 4 /\ Len(h2) = 4
    BY Zenon, <1>3
  <2> HIDE DEF a2
  <2> QED
    BY <1>1, <2>1, <2>2
<1> HIDE DEF a2
<1>6. /\ a3 \in Seq(Byte) /\ Len(a3) = 12
      /\ \A j \in 1 .. 8 : a3[j] = a2[j]
      /\ \A j \in 1 .. 4 : a3[8 + j] = h3[j]
  <2>1. /\ a3 \in Seq(Byte) /\ Len(a3) = Len(a2) + Len(h3)
        /\ \A j \in 1 .. Len(a2) : a3[j] = a2[j]
        /\ \A j \in 1 .. Len(h3) : a3[Len(a2) + j] = h3[j]
    BY Zenon, <1>3, <1>5, Joined
  <2>2. Len(a2) = 8 /\ Len(h3) = 4
    BY Zenon, <1>3, <1>5
  <2> HIDE DEF a3
  <2> QED
    BY <1>1, <2>1, <2>2
<1> HIDE DEF a3
<1>7. /\ a4 \in Seq(Byte) /\ Len(a4) = 12 + k
      /\ \A j \in 1 .. 12 : a4[j] = a3[j]
      /\ \A j \in 1 .. k : a4[12 + j] = e.key[j]
  <2>1. /\ a4 \in Seq(Byte) /\ Len(a4) = Len(a3) + Len(e.key)
        /\ \A j \in 1 .. Len(a3) : a4[j] = a3[j]
        /\ \A j \in 1 .. Len(e.key) : a4[Len(a3) + j] = e.key[j]
    BY Zenon, <1>1, <1>6, Joined
  <2>2. Len(a3) = 12 /\ Len(e.key) = k
    BY Zenon, <1>1, <1>6 DEF k
  <2> HIDE DEF a4
  <2> QED
    BY <1>1, <2>1, <2>2
<1> HIDE DEF a4
<1>8. /\ a5 \in Seq(Byte) /\ Len(a5) = 12 + k + v
      /\ \A j \in 1 .. 12 + k : a5[j] = a4[j]
      /\ \A j \in 1 .. v : a5[12 + k + j] = e.value[j]
  <2>1. /\ a5 \in Seq(Byte) /\ Len(a5) = Len(a4) + Len(e.value)
        /\ \A j \in 1 .. Len(a4) : a5[j] = a4[j]
        /\ \A j \in 1 .. Len(e.value) : a5[Len(a4) + j] = e.value[j]
    BY Zenon, <1>1, <1>7, Joined
  <2>2. Len(a4) = 12 + k /\ Len(e.value) = v
    BY Zenon, <1>1, <1>7 DEF v
  <2> HIDE DEF a5
  <2> QED
    BY <1>1, <2>1, <2>2
<1> HIDE DEF a5
<1>9. /\ b \in Seq(Byte) /\ Len(b) = 13 + k + v
      /\ \A j \in 1 .. 12 + k + v : b[j] = a5[j]
      /\ b[13 + k + v] = e.tombstone
  <2> DEFINE t == <<e.tombstone>>
  <2>1. t \in Seq(Byte) /\ Len(t) = 1 /\ t[1] = e.tombstone
    BY Zenon, <1>3a
  <2>2. b = a5 \o t
    BY Zenon, <1>4
  <2> HIDE DEF t
  <2>3. /\ b \in Seq(Byte) /\ Len(b) = Len(a5) + Len(t)
        /\ \A j \in 1 .. Len(a5) : b[j] = a5[j]
        /\ \A j \in 1 .. Len(t) : b[Len(a5) + j] = t[j]
    BY Zenon, <1>8, <2>1, <2>2, Joined
  <2>4. Len(a5) = 12 + k + v
    BY Zenon, <1>8
  <2> QED
    BY <1>1, <2>1, <2>3, <2>4
<1>10. EntryLen(e) = 13 + k + v
  BY Zenon DEF EntryLen, k, v
<1>11. \A j \in 1 .. 4 : b[j] = h1[j] /\ b[4 + j] = h2[j] /\ b[8 + j] = h3[j]
  <2> TAKE j \in 1 .. 4
  <2>1. /\ j \in 1 .. 8 /\ 4 + j \in 1 .. 8
        /\ j \in 1 .. 12 /\ 4 + j \in 1 .. 12 /\ 8 + j \in 1 .. 12
        /\ j \in 1 .. 12 + k /\ 4 + j \in 1 .. 12 + k /\ 8 + j \in 1 .. 12 + k
        /\ j \in 1 .. 12 + k + v /\ 4 + j \in 1 .. 12 + k + v /\ 8 + j \in 1 .. 12 + k + v
    BY <1>1
  <2>2. b[j] = a5[j] /\ b[4 + j] = a5[4 + j] /\ b[8 + j] = a5[8 + j]
    BY Zenon, <1>9, <2>1
  <2>3. a5[j] = a4[j] /\ a5[4 + j] = a4[4 + j] /\ a5[8 + j] = a4[8 + j]
    BY Zenon, <1>8, <2>1
  <2>4. a4[j] = a3[j] /\ a4[4 + j] = a3[4 + j] /\ a4[8 + j] = a3[8 + j]
    BY Zenon, <1>7, <2>1
  <2>5. a3[j] = h1[j] /\ a3[4 + j] = h2[j] /\ a3[8 + j] = h3[j]
    BY Zenon, <1>5, <1>6, <2>1
  <2> QED
    BY Zenon, <2>2, <2>3, <2>4, <2>5
<1>12. \A j \in 1 .. k : b[12 + j] = e.key[j]
  <2> TAKE j \in 1 .. k
  <2>1. 12 + j \in 1 .. 12 + k /\ 12 + j \in 1 .. 12 + k + v
    BY <1>1
  <2> QED
    BY Zenon, <1>7, <1>8, <1>9, <2>1
<1>13. \A j \in 1 .. v : b[12 + k + j] = e.value[j]
  <2> TAKE j \in 1 .. v
  <2>1. 12 + k + j \in 1 .. 12 + k + v
    BY <1>1
  <2> QED
    BY Zenon, <1>8, <1>9, <2>1
<1> QED
  BY Zenon, <1>9, <1>10, <1>11, <1>12, <1>13 DEF b, k, v, h1, h2, h3

\* decode_from behind a header it reads as it was written: the entry has its length, and its
\* key is bytes of the content.
LEMMA HeaderDecoded ==
  ASSUME NEW e \in Entries, NEW stamp \in Nat, stamp < U32, NEW c \in Seq(Byte), NEW at \in Nat,
         at + 12 <= Len(c), \A j \in 1 .. 12 : c[at + j] = Bytes(e, stamp)[j]
  PROVE  DecodeFrom(c, at) =
           DecodeBody(c, at + 12, stamp, Len(e.key), Len(e.value) + 1)
<1> DEFINE b == Bytes(e, stamp)
           k == Len(e.key)
           v == Len(e.value)
<1>1. k \in Nat /\ k < U32 /\ v + 1 \in Nat /\ v + 1 < U32
  <2>1. k \in Nat /\ k < U32 /\ v \in Nat /\ v + 1 < U32
    BY Zenon, EntryFacts
  <2> HIDE DEF k, v
  <2> QED
    BY <2>1
<1>2. \A j \in 1 .. 4 : /\ b[j] = WriteU32(stamp)[j] /\ b[4 + j] = WriteU32(k)[j]
                        /\ b[8 + j] = WriteU32(v + 1)[j]
  BY Zenon, Layout
<1> HIDE DEF b, k, v
<1>3. \A j \in 1 .. 12 : c[at + j] = b[j]
  BY Zenon DEF b
<1>4. ReadU32(c, at) = stamp
  <2>1. /\ c[at + 1] = WriteU32(stamp)[1] /\ c[at + 2] = WriteU32(stamp)[2]
        /\ c[at + 3] = WriteU32(stamp)[3] /\ c[at + 4] = WriteU32(stamp)[4]
    BY <1>2, <1>3
  <2> QED
    BY ZenonT(40), <2>1, ReadWritten
<1>5. ReadU32(c, at + 4) = k
  <2>1. /\ c[at + 4 + 1] = WriteU32(k)[1] /\ c[at + 4 + 2] = WriteU32(k)[2]
        /\ c[at + 4 + 3] = WriteU32(k)[3] /\ c[at + 4 + 4] = WriteU32(k)[4]
    BY <1>2, <1>3
  <2> QED
    BY Zenon, <1>1, <2>1, ReadWritten
<1>6. ReadU32(c, at + 8) = v + 1
  <2>1. /\ c[at + 8 + 1] = WriteU32(v + 1)[1] /\ c[at + 8 + 2] = WriteU32(v + 1)[2]
        /\ c[at + 8 + 3] = WriteU32(v + 1)[3] /\ c[at + 8 + 4] = WriteU32(v + 1)[4]
    BY <1>2, <1>3
  <2> QED
    BY Zenon, <1>1, <2>1, ReadWritten
<1>7. ~(at + 12 > Len(c))
  OBVIOUS
<1> QED
  BY Zenon, <1>4, <1>5, <1>6, <1>7 DEF DecodeFrom, k, v

\* An entry as a StoredEntry.
AsStored(e, stamp) ==
  [key |-> e.key, value |-> e.value, deleted |-> e.tombstone = 1, timestamp |-> stamp]

\* What decode_from returns for an entry stored whole is the entry.
LEMMA WholeDecoded ==
  ASSUME NEW e \in Entries, NEW stamp \in Nat, stamp < U32, NEW c \in Seq(Byte), NEW at \in Nat,
         at + EntryLen(e) <= Len(c), \A j \in 1 .. EntryLen(e) : c[at + j] = Bytes(e, stamp)[j]
  PROVE  DecodeFrom(c, at) = Decoded(AsStored(e, stamp), at + EntryLen(e))
<1> DEFINE b == Bytes(e, stamp)
           k == Len(e.key)
           v == Len(e.value)
           n == EntryLen(e)
           key == e.key
           value == e.value
           tomb == e.tombstone
<1>1. /\ key \in Seq(Byte) /\ k = Len(key) /\ k \in Nat /\ value \in Seq(Byte) /\ v = Len(value)
      /\ v \in Nat /\ tomb \in {0, 1} /\ n = 13 + k + v
  BY Zenon, EntryFacts DEF EntryLen
<1>2. /\ \A j \in 1 .. k : b[12 + j] = key[j]
      /\ \A j \in 1 .. v : b[12 + k + j] = value[j]
      /\ b[n] = tomb
  BY Zenon, Layout
<1>3. \A j \in 1 .. n : c[at + j] = b[j]
  OBVIOUS
<1>4. at + n <= Len(c) /\ Len(c) \in Nat
  OBVIOUS
<1>5. DecodeFrom(c, at) = DecodeBody(c, at + 12, stamp, k, v + 1)
  <2> HIDE DEF b, k, v, n, key, value, tomb
  <2>1. at + 12 <= Len(c)
    BY <1>1, <1>4
  <2>2. 1 .. 12 \subseteq 1 .. n
    BY <1>1
  <2>3. \A j \in 1 .. 12 : c[at + j] = b[j]
    BY Zenon, <1>3, <2>2
  <2> QED
    BY Zenon, <2>1, <2>3, HeaderDecoded DEF b, k, v
<1> HIDE DEF b, k, v, n, key, value, tomb
<1>6. SubSeq(c, at + 12 + 1, at + 12 + k) = key
  <2>1. at + 12 \in Nat /\ at + 12 + Len(key) <= Len(c)
    BY <1>1, <1>4
  <2>2. \A j \in 1 .. Len(key) : c[at + 12 + j] = key[j]
    <3> TAKE j \in 1 .. Len(key)
    <3>1. 12 + j \in 1 .. n /\ at + 12 + j = at + (12 + j)
      BY <1>1
    <3>2. b[12 + j] = key[j]
      BY Zenon, <1>1, <1>2
    <3> QED
      BY Zenon, <1>3, <3>1, <3>2
  <2> QED
    BY Zenon, <1>1, <2>1, <2>2, PartIs
<1>7. SubSeq(c, at + 12 + k + 1, (at + 12 + k + (v + 1)) - 1) = value
  <2>1. at + 12 + k \in Nat /\ at + 12 + k + Len(value) <= Len(c)
    BY <1>1, <1>4
  <2>2. \A j \in 1 .. Len(value) : c[at + 12 + k + j] = value[j]
    <3> TAKE j \in 1 .. Len(value)
    <3>1. 12 + k + j \in 1 .. n /\ at + 12 + k + j = at + (12 + k + j)
      BY <1>1
    <3>2. b[12 + k + j] = value[j]
      BY Zenon, <1>1, <1>2
    <3> QED
      BY Zenon, <1>3, <3>1, <3>2
  <2>3. (at + 12 + k + (v + 1)) - 1 = at + 12 + k + Len(value)
    BY <1>1
  <2> QED
    BY Zenon, <1>1, <2>1, <2>2, <2>3, PartIs
<1>8. at + 12 + k + (v + 1) = at + n /\ ~(v + 1 = 0 \/ at + 12 + k + (v + 1) > Len(c))
  BY <1>1, <1>4
<1>9. (c[at + 12 + k + (v + 1)] % 2 = 1) = (tomb = 1)
  <2>1. n \in 1 .. n
    BY <1>1
  <2>2. c[at + 12 + k + (v + 1)] = tomb
    BY Zenon, <1>2, <1>3, <1>8, <2>1
  <2>3. 0 % 2 = 0 /\ 1 % 2 = 1
    OBVIOUS
  <2> QED
    BY <1>1, <2>2, <2>3
<1> DEFINE odd == c[at + 12 + k + (v + 1)] % 2 = 1
           one == tomb = 1
<1>10. DecodeFrom(c, at) =
        Decoded([key |-> key, value |-> value, deleted |-> odd, timestamp |-> stamp], at + n)
  <2> DEFINE keyPart == SubSeq(c, at + 12 + 1, at + 12 + k)
             valuePart == SubSeq(c, at + 12 + k + 1, (at + 12 + k + (v + 1)) - 1)
             next == at + 12 + k + (v + 1)
  <2>1. DecodeFrom(c, at) =
          Decoded([key |-> keyPart, value |-> valuePart, deleted |-> odd,
                   timestamp |-> stamp], next)
    BY Zenon, <1>5, <1>8 DEF DecodeBody
  <2>2. keyPart = key /\ valuePart = value /\ next = at + n
    BY Zenon, <1>6, <1>7, <1>8
  <2> HIDE DEF odd, keyPart, valuePart, next
  <2> QED
    BY Zenon, <2>1, <2>2
<1>11. odd = one
  BY Zenon, <1>9
<1> HIDE DEF odd, one
<1>12. DecodeFrom(c, at) =
        Decoded([key |-> key, value |-> value, deleted |-> one, timestamp |-> stamp], at + n)
  BY Zenon, <1>10, <1>11
<1> QED
  BY Zenon, <1>12 DEF n, key, value, tomb, one, AsStored

\* An entry of the length of e, with a key that is bytes of the content.
Headed(d, c, at, e) ==
  /\ d.ok /\ d.next = at + EntryLen(e)
  /\ d.val.key \in Seq(Byte) /\ Len(d.val.key) = Len(e.key)
  /\ \A j \in 1 .. Len(e.key) : d.val.key[j] = c[at + 12 + j]

\* Behind a header that was stored decode_from returns the length of the entry, with a key of
\* as many bytes as its key has, or panics where the content ends before the entry.
LEMMA HeadedDecoded ==
  ASSUME NEW e \in Entries, NEW stamp \in Nat, stamp < U32, NEW c \in Seq(Byte), NEW at \in Nat,
         at + 12 <= Len(c), \A j \in 1 .. 12 : c[at + j] = Bytes(e, stamp)[j]
  PROVE  IF at + EntryLen(e) > Len(c) THEN DecodeFrom(c, at) = Panicked
         ELSE Headed(DecodeFrom(c, at), c, at, e)
<1> DEFINE k == Len(e.key)
           v == Len(e.value)
           n == EntryLen(e)
           d == DecodeFrom(c, at)
<1>1. k \in Nat /\ v \in Nat /\ n = 13 + k + v
  BY Zenon, EntryFacts DEF EntryLen
<1>2. d = DecodeBody(c, at + 12, stamp, k, v + 1)
  BY Zenon, HeaderDecoded
<1> HIDE DEF k, v, n, d
<1>3. at + 12 + k + (v + 1) = at + n /\ v + 1 # 0
  BY <1>1
<1>4. CASE at + n > Len(c)
  <2>1. d = Panicked
    BY Zenon, <1>2, <1>3, <1>4 DEF DecodeBody
  <2> QED
    BY Zenon, <1>4, <2>1 DEF n, d
<1>5. CASE ~(at + n > Len(c))
  <2> DEFINE p == SubSeq(c, at + 12 + 1, at + 12 + k)
  <2>1. d.ok /\ d.next = at + n /\ d.val.key = p
    BY Zenon, <1>2, <1>3, <1>5 DEF DecodeBody, Decoded
  <2>2. p \in Seq(Byte) /\ Len(p) = k /\ \A j \in 1 .. k : p[j] = c[at + 12 + j]
    <3> DEFINE m == Len(c)
    <3>0. m \in Nat
      BY Zenon, LenProperties
    <3>1. ~(at + n > m)
      BY Zenon, <1>5
    <3> HIDE DEF m
    <3>2. at + 12 \in Nat /\ at + 12 + k <= m
      BY <1>1, <3>0, <3>1
    <3> QED
      BY Zenon, <1>1, <3>2, PartHas DEF m
  <2> HIDE DEF p
  <2> QED
    BY Zenon, <1>5, <2>1, <2>2 DEF n, d, k, Headed
<1> QED
  BY Zenon, <1>4, <1>5

-----------------------------------------------------------------------------
(* The segment file.  Each write begins where the one before it ends, whatever of that was *)
(* stored, and what it did not store is zero, as far as the file goes.                     *)

Writes == [entry : Entries, stamp : Nat, at : Nat, len : Nat, stored : Nat]

FileTypes == file \in Seq(Byte) /\ offset \in Nat /\ log \in Seq(Writes)

\* The sizes of the writes, and a bound on where they are.
Sizes ==
  \A i \in 1 .. Len(log) :
    /\ log[i].stamp < U32 /\ log[i].len = EntryLen(log[i].entry)
    /\ log[i].stored <= log[i].len /\ log[i].at >= i - 1

\* Each write is at the end of the one before it.
Places ==
  /\ \A i \in 1 .. Len(log) : i = 1 => log[i].at = 0
  /\ \A i, j \in 1 .. Len(log) : j = i + 1 => log[j].at = log[i].at + log[i].len
  /\ \A i, j \in 1 .. Len(log) : i < j => log[i].at + log[i].len <= log[j].at

\* Where the next write will be.
OffsetOK ==
  running => /\ offset >= Len(log) /\ (Len(log) = 0 => offset = 0)
             /\ \A i \in 1 .. Len(log) : log[i].at + log[i].len <= offset
             /\ \A i \in 1 .. Len(log) : i = Len(log) => offset = log[i].at + log[i].len

Ends == Len(file) = 0 \/ \E i \in 1 .. Len(log) : log[i].stored > 0 /\ Len(file) = log[i].at + log[i].stored

Contents ==
  /\ \A i \in 1 .. Len(log) : log[i].stored > 0 => log[i].at + log[i].stored <= Len(file)
  /\ \A i \in 1 .. Len(log) : \A j \in 1 .. log[i].len :
       log[i].at + j <= Len(file) =>
         file[log[i].at + j] =
           IF j <= log[i].stored THEN Bytes(log[i].entry, log[i].stamp)[j] ELSE 0

LogInv == FileTypes /\ Sizes /\ Places /\ OffsetOK /\ Ends /\ Contents

\* A write has the types of its fields.
LEMMA WriteFacts ==
  ASSUME FileTypes, Sizes, NEW i \in 1 .. Len(log)
  PROVE  /\ log[i].entry \in Entries /\ log[i].stamp \in Nat /\ log[i].stamp < U32
         /\ log[i].at \in Nat /\ log[i].len \in Nat /\ log[i].len >= 13 /\ log[i].stored \in Nat
         /\ log[i].len = EntryLen(log[i].entry) /\ log[i].stored <= log[i].len
         /\ log[i].at >= i - 1 /\ i \in Nat
<1>1. log[i] \in Writes
  <2>1. log \in Seq(Writes)
    BY Zenon DEF FileTypes
  <2> QED
    BY <2>1
<1>2. /\ log[i].entry \in Entries /\ log[i].stamp \in Nat /\ log[i].at \in Nat
      /\ log[i].len \in Nat /\ log[i].stored \in Nat
  BY Zenon, <1>1 DEF Writes
<1>3. /\ log[i].stamp < U32 /\ log[i].len = EntryLen(log[i].entry)
      /\ log[i].stored <= log[i].len /\ log[i].at >= i - 1
  BY Zenon DEF Sizes
<1>4. EntryLen(log[i].entry) >= 13
  BY Zenon, <1>2, EntryFacts
<1>5. i \in Nat
  <2>1. Len(log) \in Nat
    BY Zenon, LenProperties DEF FileTypes
  <2> QED
    BY <2>1
<1> QED
  BY Zenon, <1>2, <1>3, <1>4, <1>5

\* The lengths of the file and of the log.
LEMMA LengthsAre == ASSUME FileTypes PROVE Len(file) \in Nat /\ Len(log) \in Nat
BY Zenon, LenProperties DEF FileTypes

\* The file ends before the place of the next write.
LEMMA EndBefore == ASSUME LogInv, running PROVE Len(file) <= offset
<1>1. Len(file) \in Nat /\ offset \in Nat
  BY Zenon, LengthsAre DEF LogInv, FileTypes
<1>2. CASE Len(file) = 0
  BY <1>1, <1>2
<1>3. CASE \E i \in 1 .. Len(log) : log[i].stored > 0 /\ Len(file) = log[i].at + log[i].stored
  <2>1. PICK i \in 1 .. Len(log) : Len(file) = log[i].at + log[i].stored
    BY Zenon, <1>3
  <2> DEFINE a == log[i].at
             l == log[i].len
             s == log[i].stored
  <2>2. a \in Nat /\ l \in Nat /\ s \in Nat /\ s <= l
    BY Zenon, WriteFacts DEF LogInv
  <2>3. a + l <= offset
    BY Zenon DEF LogInv, OffsetOK
  <2>4. Len(file) = a + s
    BY Zenon, <2>1
  <2> HIDE DEF a, l, s
  <2> QED
    BY <1>1, <2>2, <2>3, <2>4
<1> QED
  BY Zenon, <1>2, <1>3 DEF LogInv, Ends

\* f has the bytes of c, zeros up to an offset, and the bytes of b.
Behind(f, c, at, b) ==
  /\ f \in Seq(Byte) /\ Len(f) = at + Len(b)
  /\ \A i \in 1 .. Len(c) : f[i] = c[i]
  /\ \A i \in Nat : i > Len(c) /\ i <= at => f[i] = 0
  /\ \A j \in 1 .. Len(b) : f[at + j] = b[j]

\* Descriptor::write behind the end of a file: what was there is kept, zeros fill the gap, and
\* then come the bytes.
LEMMA StoredBehind ==
  ASSUME NEW c \in Seq(Byte), NEW at \in Nat, at >= Len(c), NEW b \in Seq(Byte), Len(b) > 0
  PROVE  Behind(Stored(c, at, b), c, at, b)
<1> DEFINE f == Stored(c, at, b)
           m == Len(c)
           l == Len(b)
<1>1. m \in Nat /\ l \in Nat /\ l > 0 /\ m <= at
  BY LenProperties
<1>2. b # <<>>
  OBVIOUS
<1>3. f = [i \in 1 .. (IF at + l > m THEN at + l ELSE m) |->
             IF i > at /\ i <= at + l THEN b[i - at] ELSE IF i <= m THEN c[i] ELSE 0]
  BY Zenon, <1>2 DEF Stored
<1>4. \A j \in 1 .. l : b[j] \in Byte
  OBVIOUS
<1>5. \A i \in 1 .. m : c[i] \in Byte
  OBVIOUS
<1>6. 0 \in Byte
  BY SizesAre DEF Byte
<1> HIDE DEF f, m, l
<1>7. f = [i \in 1 .. at + l |->
             IF i > at /\ i <= at + l THEN b[i - at] ELSE IF i <= m THEN c[i] ELSE 0]
  BY <1>1, <1>3
<1>8. at + l \in Nat
  BY <1>1
<1>9. \A i \in 1 .. at + l : f[i] \in Byte
  <2> TAKE i \in 1 .. at + l
  <2>1. CASE i > at
    <3>1. i - at \in 1 .. l /\ i <= at + l
      BY <1>1, <2>1
    <3>2. f[i] = b[i - at]
      BY Zenon, <1>7, <2>1, <3>1
    <3> QED
      BY Zenon, <1>4, <3>1, <3>2
  <2>2. CASE ~(i > at) /\ i <= m
    <3>1. i \in 1 .. m
      BY <1>1, <2>2
    <3>2. f[i] = c[i]
      BY Zenon, <1>7, <2>2
    <3> QED
      BY Zenon, <1>5, <3>1, <3>2
  <2>3. CASE ~(i > at) /\ ~(i <= m)
    <3>1. f[i] = 0
      BY Zenon, <1>7, <2>3
    <3> QED
      BY Zenon, <1>6, <3>1
  <2> QED
    BY Zenon, <2>1, <2>2, <2>3
<1>10. f \in Seq(Byte) /\ Len(f) = at + l
  <2>1. f \in [1 .. at + l -> Byte]
    BY Zenon, <1>7, <1>9
  <2> QED
    BY <1>8, <2>1
<1>11. \A i \in 1 .. m : f[i] = c[i]
  <2> TAKE i \in 1 .. m
  <2>1. i \in 1 .. at + l /\ ~(i > at) /\ i <= m
    BY <1>1
  <2> QED
    BY Zenon, <1>7, <2>1
<1>12. \A i \in Nat : i > m /\ i <= at => f[i] = 0
  <2> SUFFICES ASSUME NEW i \in Nat, i > m, i <= at PROVE f[i] = 0
    BY Zenon
  <2>1. i \in 1 .. at + l /\ ~(i > at) /\ ~(i <= m)
    BY <1>1
  <2> QED
    BY Zenon, <1>7, <2>1
<1>13. \A j \in 1 .. l : f[at + j] = b[j]
  <2> TAKE j \in 1 .. l
  <2>1. at + j \in 1 .. at + l /\ at + j > at /\ at + j <= at + l /\ (at + j) - at = j
    BY <1>1
  <2> QED
    BY Zenon, <1>7, <2>1
<1> QED
  BY Zenon, <1>10, <1>11, <1>12, <1>13 DEF Behind, f, m, l

\* A timestamp has four bytes: the clock is cut to them.
LEMMA StampIs ==
  ASSUME NEW e \in Entries, NEW now \in Times
  PROVE  Stamp(e, now) \in Nat /\ Stamp(e, now) < U32
<1>1. now \in Nat /\ U32 \in Nat /\ U32 > 0
  <2>1. now \in Nat
    BY Zenon, FileAssumption DEF FileAssumption
  <2>2. U32 \in Nat /\ e.timestamp \in Nat /\ e.timestamp < U32
    BY Zenon, SizesAre, EntryFacts
  <2> DEFINE t == e.timestamp
  <2>3. t \in Nat /\ t < U32
    BY Zenon, <2>2
  <2> HIDE DEF t
  <2> QED
    BY <2>1, <2>2, <2>3
<1>2. CASE e.timestamp = 0
  <2>1. now % U32 \in Nat /\ now % U32 < U32
    BY <1>1
  <2> QED
    BY Zenon, <1>2, <2>1 DEF Stamp
<1>3. CASE e.timestamp # 0
  BY Zenon, <1>3, EntryFacts DEF Stamp
<1> QED
  BY Zenon, <1>2, <1>3

\* A log with one more write.
LEMMA LogGrows ==
  ASSUME FileTypes, NEW w \in Writes, log' = Append(log, w)
  PROVE  /\ log' \in Seq(Writes) /\ Len(log') = Len(log) + 1
         /\ \A i \in 1 .. Len(log) : log'[i] = log[i]
         /\ log'[Len(log) + 1] = w
         /\ \A i \in 1 .. Len(log') : i \in 1 .. Len(log) \/ i = Len(log) + 1
<1>1. log \in Seq(Writes) /\ Len(log) \in Nat
  BY Zenon, LengthsAre DEF FileTypes
<1>2. log' \in Seq(Writes) /\ Len(log') = Len(log) + 1
  BY <1>1
<1>3. (\A i \in 1 .. Len(log) : log'[i] = log[i]) /\ log'[Len(log) + 1] = w
  BY <1>1
<1>4. \A i \in 1 .. Len(log') : i \in 1 .. Len(log) \/ i = Len(log) + 1
  <2> DEFINE l == Len(log)
             m == Len(log')
  <2>1. l \in Nat /\ m = l + 1
    BY Zenon, <1>1, <1>2
  <2> HIDE DEF l, m
  <2>2. \A i \in 1 .. m : i \in 1 .. l \/ i = l + 1
    BY <2>1
  <2> QED
    BY Zenon, <2>2 DEF l, m
<1> QED
  BY Zenon, <1>2, <1>3, <1>4

\* Segment::append, of which n bytes are stored: the write is behind the others, and they are
\* as they were.
LEMMA WriteKeeps ==
  ASSUME LogInv, running, NEW e \in Entries, NEW now \in Times, NEW n \in Nat,
         n <= Len(Encode(e, now)), WriteFile(e, now, Encode(e, now), n), offset' \in Nat
  PROVE  /\ FileTypes' /\ Sizes' /\ Places' /\ Ends' /\ Contents'
         /\ Len(log') = Len(log) + 1 /\ log'[Len(log) + 1].at = offset
         /\ log'[Len(log) + 1].len = Len(Encode(e, now)) /\ Len(Encode(e, now)) >= 13
         /\ \A i \in 1 .. Len(log') : i \in 1 .. Len(log) \/ i = Len(log) + 1
         /\ \A i \in 1 .. Len(log) : log'[i] = log[i]
<1> DEFINE stamp == Stamp(e, now)
           b == Bytes(e, stamp)
           w == [entry |-> e, stamp |-> stamp, at |-> offset, len |-> Len(b), stored |-> n]
           L == Len(log)
           N == Len(file)
<1>1. Encode(e, now) = b
  BY Zenon DEF Encode, Bytes
<1>2. stamp \in Nat /\ stamp < U32
  BY Zenon, StampIs
<1>3. b \in Seq(Byte) /\ Len(b) = EntryLen(e) /\ EntryLen(e) >= 13 /\ EntryLen(e) \in Nat
  BY Zenon, <1>2, Layout, EntryFacts
<1>4. /\ file' = Stored(file, offset, SubSeq(b, 1, n)) /\ log' = Append(log, w)
  BY Zenon, <1>1 DEF WriteFile
<1>5. FileTypes /\ Sizes /\ Places /\ OffsetOK /\ Ends /\ Contents
  BY Zenon DEF LogInv
<1>6. file \in Seq(Byte) /\ offset \in Nat /\ N \in Nat /\ L \in Nat /\ N <= offset
  BY Zenon, <1>5, EndBefore, LengthsAre DEF FileTypes
<1>7. n <= Len(b) /\ Len(b) \in Nat /\ Len(b) >= 13
  BY Zenon, <1>1, <1>3
<1>8. /\ w \in Writes /\ w.entry = e /\ w.stamp = stamp /\ w.at = offset /\ w.len = Len(b)
      /\ w.stored = n
  BY Zenon, <1>2, <1>6, <1>7 DEF Writes
<1> HIDE DEF w, stamp
<1>9. /\ log' \in Seq(Writes) /\ Len(log') = L + 1
      /\ \A i \in 1 .. L : log'[i] = log[i]
      /\ log'[L + 1] = w
      /\ \A i \in 1 .. Len(log') : i \in 1 .. L \/ i = L + 1
  BY Zenon, <1>4, <1>5, <1>8, LogGrows
<1>10. /\ file' \in Seq(Byte) /\ Len(file') \in Nat
       /\ n > 0 => Len(file') = offset + n
       /\ n = 0 => file' = file
       /\ \A i \in 1 .. N : file'[i] = file[i]
       /\ \A i \in Nat : i > N /\ i <= offset /\ i <= Len(file') => file'[i] = 0
       /\ \A j \in 1 .. n : file'[offset + j] = b[j]
       /\ N <= Len(file')
  <2> DEFINE p == SubSeq(b, 1, n)
  <2>1. CASE n = 0
    <3>1. p = <<>>
      BY <1>3, <2>1
    <3>2. file' = file
      BY Zenon, <1>4, <3>1 DEF Stored
    <3>3. \A i \in Nat : ~(i > N /\ i <= N)
      BY <1>6
    <3>4. 1 .. n = {} /\ ~(n > 0) /\ N <= N
      BY <1>6, <2>1
    <3> QED
      BY Zenon, <1>6, <2>1, <3>2, <3>3, <3>4
  <2>2. CASE n > 0
    <3>1. p \in Seq(Byte) /\ Len(p) = n /\ \A j \in 1 .. n : p[j] = b[j]
      <4>1. b \in Seq(Byte) /\ n <= Len(b)
        BY Zenon, <1>3, <1>7
      <4> HIDE DEF b
      <4> QED
        BY <4>1
    <3> HIDE DEF p
    <3>2. /\ file' \in Seq(Byte) /\ Len(file') = offset + n
          /\ \A i \in 1 .. N : file'[i] = file[i]
          /\ \A i \in Nat : i > N /\ i <= offset => file'[i] = 0
          /\ \A j \in 1 .. n : file'[offset + j] = p[j]
      <4>1. offset >= N
        BY <1>6
      <4>2. file' = Stored(file, offset, p)
        BY Zenon, <1>4 DEF p
      <4> DEFINE f == Stored(file, offset, p)
      <4>3. Len(p) > 0
        BY Zenon, <2>2, <3>1
      <4>4. Behind(f, file, offset, p)
        BY Zenon, <1>6, <3>1, <4>1, <4>3, StoredBehind
      <4> HIDE DEF f
      <4>5. file' = f /\ Len(p) = n
        BY Zenon, <3>1, <4>2 DEF f
      <4> QED
        BY Zenon, <4>4, <4>5 DEF Behind
    <3>3. offset + n \in Nat /\ N <= offset + n /\ n # 0
      BY <1>6, <2>2
    <3> QED
      BY Zenon, <3>1, <3>2, <3>3
  <2> QED
    BY <2>1, <2>2
<1> HIDE DEF b, L, N
<1>11. FileTypes'
  BY Zenon, <1>9, <1>10 DEF FileTypes
<1>12. Sizes'
  <2> SUFFICES ASSUME NEW i \in 1 .. Len(log')
               PROVE  /\ log'[i].stamp < U32 /\ log'[i].len = EntryLen(log'[i].entry)
                      /\ log'[i].stored <= log'[i].len /\ log'[i].at >= i - 1
    BY Zenon DEF Sizes
  <2>1. CASE i \in 1 .. L
    BY Zenon, <1>5, <1>9, <2>1 DEF Sizes, L
  <2>2. CASE i = L + 1
    <3>1. offset >= L
      BY Zenon, <1>5 DEF OffsetOK, L
    <3>2. offset >= (L + 1) - 1
      BY <1>6, <3>1
    <3> QED
      BY Zenon, <1>2, <1>3, <1>7, <1>8, <1>9, <2>2, <3>2
  <2> QED
    BY Zenon, <1>9, <2>1, <2>2
<1>13. Places'
  <2>1. ASSUME NEW i \in 1 .. Len(log'), i = 1 PROVE log'[i].at = 0
    <3>1. CASE i \in 1 .. L
      BY Zenon, <1>5, <1>9, <2>1, <3>1 DEF Places, L
    <3>2. CASE i = L + 1
      <4>1. L = 0
        BY <1>6, <2>1, <3>2
      <4>2. offset = 0
        BY Zenon, <1>5, <4>1 DEF OffsetOK, L
      <4> QED
        BY Zenon, <1>8, <1>9, <3>2, <4>2
    <3> QED
      BY Zenon, <1>9, <3>1, <3>2
  <2>2. ASSUME NEW i \in 1 .. Len(log'), NEW j \in 1 .. Len(log'), j = i + 1
        PROVE  log'[j].at = log'[i].at + log'[i].len
    <3>1. CASE j \in 1 .. L
      <4>1. i \in 1 .. L
        BY <1>6, <1>9, <2>2, <3>1
      <4> QED
        BY Zenon, <1>5, <1>9, <2>2, <3>1, <4>1 DEF Places, L
    <3>2. CASE j = L + 1
      <4>1. i \in 1 .. L /\ i = L
        BY <1>6, <1>9, <2>2, <3>2
      <4>2. offset = log[i].at + log[i].len
        BY Zenon, <1>5, <4>1 DEF OffsetOK, L
      <4> QED
        BY Zenon, <1>8, <1>9, <3>2, <4>1, <4>2
    <3> QED
      BY Zenon, <1>9, <3>1, <3>2
  <2>3. ASSUME NEW i \in 1 .. Len(log'), NEW j \in 1 .. Len(log'), i < j
        PROVE  log'[i].at + log'[i].len <= log'[j].at
    <3>1. CASE j \in 1 .. L
      <4>1. i \in 1 .. L
        BY <1>6, <1>9, <2>3, <3>1
      <4> QED
        BY Zenon, <1>5, <1>9, <2>3, <3>1, <4>1 DEF Places, L
    <3>2. CASE j = L + 1
      <4>1. i \in 1 .. L
        BY <1>6, <1>9, <2>3, <3>2
      <4>2. log[i].at + log[i].len <= offset
        BY Zenon, <1>5, <4>1 DEF OffsetOK, L
      <4> QED
        BY Zenon, <1>8, <1>9, <3>2, <4>1, <4>2
    <3> QED
      BY Zenon, <1>9, <3>1, <3>2
  <2> QED
    BY Zenon, <2>1, <2>2, <2>3 DEF Places
<1>14. L + 1 \in 1 .. Len(log') /\ 1 .. L \subseteq 1 .. Len(log')
  BY <1>6, <1>9
<1>15. Ends'
  <2>1. CASE n > 0
    <3>1. log'[L + 1].stored > 0 /\ Len(file') = log'[L + 1].at + log'[L + 1].stored
      BY Zenon, <1>8, <1>9, <1>10, <2>1
    <3> QED
      BY Zenon, <1>14, <3>1 DEF Ends
  <2>2. CASE n = 0
    <3>1. file' = file
      BY Zenon, <1>10, <2>2
    <3>2. CASE Len(file) = 0
      BY Zenon, <3>1, <3>2 DEF Ends
    <3>3. CASE Len(file) # 0
      <4>1. PICK i \in 1 .. L : log[i].stored > 0 /\ Len(file) = log[i].at + log[i].stored
        BY Zenon, <1>5, <3>3 DEF Ends, L
      <4> QED
        BY Zenon, <1>9, <1>14, <3>1, <4>1 DEF Ends
    <3> QED
      BY Zenon, <3>2, <3>3
  <2> QED
    BY <2>1, <2>2
<1>16. Contents'
  <2>1. ASSUME NEW i \in 1 .. Len(log'), log'[i].stored > 0
        PROVE  log'[i].at + log'[i].stored <= Len(file')
    <3>1. CASE i \in 1 .. L
      <4> DEFINE x == log[i].at + log[i].stored
      <4>1. x <= N /\ x \in Nat
        <5>1. x <= N
          BY Zenon, <1>5, <1>9, <2>1, <3>1 DEF Contents, L, N
        <5> DEFINE a == log[i].at
                   s == log[i].stored
        <5>2. a \in Nat /\ s \in Nat
          BY Zenon, <1>5, <3>1, WriteFacts DEF L
        <5> HIDE DEF a, s
        <5>3. a + s \in Nat
          BY <5>2
        <5> QED
          BY Zenon, <5>1, <5>3 DEF a, s
      <4> HIDE DEF x
      <4>2. x <= Len(file')
        BY <1>6, <1>10, <4>1
      <4> QED
        BY Zenon, <1>9, <3>1, <4>2 DEF x
    <3>2. CASE i = L + 1
      <4>1. n > 0
        BY Zenon, <1>8, <1>9, <2>1, <3>2
      <4>2. Len(file') = offset + n /\ offset + n <= offset + n
        BY <1>6, <1>10, <4>1
      <4> QED
        BY Zenon, <1>8, <1>9, <3>2, <4>2
    <3> QED
      BY Zenon, <1>9, <3>1, <3>2
  <2>2. ASSUME NEW i \in 1 .. Len(log'), NEW j \in 1 .. log'[i].len,
               log'[i].at + j <= Len(file')
        PROVE  file'[log'[i].at + j] =
                 IF j <= log'[i].stored THEN Bytes(log'[i].entry, log'[i].stamp)[j] ELSE 0
    <3>1. CASE i \in 1 .. L
      <4> DEFINE a == log[i].at
                 l == log[i].len
                 s == log[i].stored
                 d == Bytes(log[i].entry, log[i].stamp)
                 M == Len(file')
      <4>1. a \in Nat /\ l \in Nat /\ s \in Nat /\ s <= l
        BY Zenon, <1>5, <3>1, WriteFacts DEF L
      <4>2. log'[i] = log[i] /\ j \in 1 .. l /\ a + j <= M
        BY Zenon, <1>9, <2>2, <3>1
      <4>3. a + l <= offset
        BY Zenon, <1>5, <3>1 DEF OffsetOK, L
      <4>4. s > 0 => a + s <= N
        BY Zenon, <1>5, <3>1 DEF Contents, L, N
      <4>5. a + j <= N => file[a + j] = IF j <= s THEN d[j] ELSE 0
        BY Zenon, <1>5, <3>1, <4>2 DEF Contents, L, N
      <4>6. M \in Nat
        BY Zenon, <1>10
      <4> SUFFICES file'[a + j] = IF j <= s THEN d[j] ELSE 0
        BY Zenon, <4>2
      <4> HIDE DEF a, l, s, d, M
      <4>7. CASE a + j <= N
        <5>1. a + j \in 1 .. N
          BY <1>6, <4>1, <4>2, <4>7
        <5> QED
          BY Zenon, <1>10, <4>5, <4>7, <5>1
      <4>8. CASE ~(a + j <= N)
        <5>1. a + j \in Nat /\ a + j > N /\ a + j <= offset /\ ~(j <= s)
          BY <1>6, <4>1, <4>2, <4>3, <4>4, <4>8
        <5>2. a + j <= Len(file')
          BY Zenon, <4>2 DEF M
        <5> QED
          BY Zenon, <1>10, <5>1, <5>2
      <4> QED
        BY Zenon, <4>7, <4>8
    <3>2. CASE i = L + 1
      <4>1. /\ log'[i].at = offset /\ log'[i].stored = n /\ log'[i].len = Len(b)
            /\ Bytes(log'[i].entry, log'[i].stamp) = b
        BY Zenon, <1>8, <1>9, <3>2 DEF b
      <4> DEFINE M == Len(file')
      <4>2. j \in 1 .. Len(b) /\ offset + j <= M /\ M \in Nat
        BY Zenon, <1>10, <2>2, <4>1
      <4>3. (n > 0 => M = offset + n) /\ (n = 0 => M = N)
        BY Zenon, <1>10 DEF N
      <4> HIDE DEF M
      <4>4. j \in 1 .. n /\ j <= n
        BY <1>6, <1>7, <4>2, <4>3
      <4> QED
        BY Zenon, <1>10, <4>1, <4>4
    <3> QED
      BY Zenon, <1>9, <3>1, <3>2
  <2> QED
    BY Zenon, <2>1, <2>2 DEF Contents
<1> QED
  BY Zenon, <1>1, <1>3, <1>8, <1>9, <1>11, <1>12, <1>13, <1>15, <1>16 DEF L

-----------------------------------------------------------------------------
(* A whole read *)

\* The last write of which something was stored is where the file ends.
LEMMA LastStoredIs ==
  ASSUME LogInv
  PROVE  /\ LastStored \in 0 .. Len(log)
         /\ LastStored = 0 => Len(file) = 0
         /\ LastStored > 0 => /\ LastStored \in 1 .. Len(log) /\ log[LastStored].stored > 0
                              /\ Len(file) = log[LastStored].at + log[LastStored].stored
<1> DEFINE L == Len(log)
           N == Len(file)
           Is(i) == /\ i > 0 => log[i].stored > 0
                    /\ \A j \in i + 1 .. L : log[j].stored = 0
<1>1. FileTypes /\ Sizes /\ Places /\ Ends /\ Contents /\ L \in Nat /\ N \in Nat
  BY Zenon, LengthsAre DEF LogInv
<1>2. \A i \in 1 .. L : log[i].stored \in Nat /\ log[i].at \in Nat /\ log[i].len \in Nat
                        /\ log[i].stored <= log[i].len
  BY Zenon, <1>1, WriteFacts
<1>3. ASSUME NEW i \in 1 .. L, NEW j \in 1 .. L, N = log[i].at + log[i].stored, i < j
      PROVE  log[j].stored = 0
  <2> DEFINE a == log[i].at
             l == log[i].len
             s == log[i].stored
             c == log[j].at
             t == log[j].stored
  <2>1. a \in Nat /\ l \in Nat /\ s \in Nat /\ s <= l /\ c \in Nat /\ t \in Nat
    BY Zenon, <1>2
  <2>2. a + l <= c /\ N = a + s /\ (t > 0 => c + t <= N)
    BY Zenon, <1>1, <1>3 DEF Places, Contents
  <2> HIDE DEF a, l, s, c, t, N
  <2>3. t = 0
    BY <1>1, <2>1, <2>2
  <2> QED
    BY Zenon, <2>3 DEF t
<1>4. \E i \in 0 .. L : Is(i) /\ (i = 0 => N = 0) /\ (i > 0 => N = log[i].at + log[i].stored)
  <2>1. CASE N = 0
    <3>1. ASSUME NEW j \in 0 + 1 .. L PROVE log[j].stored = 0
      <4> DEFINE a == log[j].at
                 s == log[j].stored
      <4>1. j \in 1 .. L
        BY <1>1
      <4>2. a \in Nat /\ s \in Nat /\ (s > 0 => a + s <= N)
        BY Zenon, <1>1, <1>2, <4>1 DEF Contents
      <4> HIDE DEF a, s, N
      <4>3. s = 0
        BY <1>1, <2>1, <4>2
      <4> QED
        BY Zenon, <4>3 DEF s
    <3>2. 0 \in 0 .. L /\ ~(0 > 0)
      BY <1>1
    <3> QED
      BY Zenon, <2>1, <3>1, <3>2
  <2>2. CASE N # 0
    <3>1. PICK i \in 1 .. L : log[i].stored > 0 /\ N = log[i].at + log[i].stored
      BY Zenon, <1>1, <2>2 DEF Ends
    <3>2. ASSUME NEW j \in i + 1 .. L PROVE log[j].stored = 0
      <4>1. j \in 1 .. L /\ i < j
        BY <1>1
      <4> QED
        BY Zenon, <1>3, <3>1, <4>1
    <3>3. i \in 0 .. L /\ i # 0
      BY <1>1
    <3> QED
      BY Zenon, <3>1, <3>2, <3>3
  <2> QED
    BY Zenon, <2>1, <2>2
<1> DEFINE K == LastStored
<1>5. K \in 0 .. L /\ Is(K)
  BY Zenon, <1>4 DEF LastStored
<1>6. PICK i \in 0 .. L : Is(i) /\ (i = 0 => N = 0) /\ (i > 0 => N = log[i].at + log[i].stored)
  BY Zenon, <1>4
<1> HIDE DEF K
<1>7. i = K
  <2>1. CASE i < K
    <3>1. K \in i + 1 .. L /\ K > 0
      BY <1>1, <1>5, <2>1
    <3>2. log[K].stored = 0 /\ log[K].stored > 0
      BY Zenon, <1>5, <1>6, <3>1
    <3> QED
      BY <3>2
  <2>2. CASE K < i
    <3>1. i \in K + 1 .. L /\ i > 0
      BY <1>1, <1>5, <2>2
    <3>2. log[i].stored = 0 /\ log[i].stored > 0
      BY Zenon, <1>5, <1>6, <3>1
    <3> QED
      BY <3>2
  <2>3. i \in Int /\ K \in Int
    BY <1>1, <1>5
  <2> QED
    BY <2>1, <2>2, <2>3
<1>8. K > 0 => K \in 1 .. L
  BY <1>1, <1>5
<1> QED
  BY Zenon, <1>5, <1>6, <1>7, <1>8 DEF K

\* The entry of the i-th write as the loop of decode_multi maps it.
EntryAt(i) == Mapped(DecodeFrom(file, log[i].at).val, log[i].at, log[i].at + log[i].len)

\* Where the loop is after n entries.
Past(n) == IF n = 0 THEN 0 ELSE log[n].at + log[n].len
LoopAt(n) == [ok |-> TRUE, val |-> [i \in 1 .. n |-> EntryAt(i)], offset |-> Past(n)]

Headers == \A i \in 1 .. LastStored - 1 : log[i].stored >= 12
NotCut == LastStored > 0 => Whole(LastStored)

\* The i-th write up to the last that stored anything begins where the loop is, in the file.
LEMMA WriteAt ==
  ASSUME LogInv, NEW n \in Nat, n < LastStored
  PROVE  /\ n + 1 \in 1 .. Len(log) /\ Past(n) = log[n + 1].at /\ Past(n) < Len(file)
         /\ n + 1 # LastStored => Past(n) + log[n + 1].len <= Len(file)
         /\ n + 1 = LastStored => Len(file) = Past(n) + log[n + 1].stored
<1> DEFINE K == LastStored
           L == Len(log)
           N == Len(file)
           a == log[n + 1].at
           l == log[n + 1].len
           c == log[K].at
           s == log[K].stored
<1>1. FileTypes /\ Sizes /\ Places /\ L \in Nat /\ N \in Nat
  BY Zenon, LengthsAre DEF LogInv
<1>2. K \in 0 .. L /\ (K > 0 => K \in 1 .. L /\ s > 0 /\ N = c + s)
  BY Zenon, LastStoredIs
<1> HIDE DEF K
<1>3. n < K
  BY Zenon DEF K
<1>4. K \in 1 .. L /\ n + 1 \in 1 .. L /\ (n + 1 # K => n + 1 < K) /\ K > 0
  BY <1>1, <1>2, <1>3
<1>5. a \in Nat /\ l \in Nat /\ l >= 13 /\ c \in Nat /\ s \in Nat
  BY Zenon, <1>1, <1>4, WriteFacts
<1>6. n + 1 # K => a + l <= c
  BY Zenon, <1>1, <1>4 DEF Places
<1>7. Past(n) = a
  <2>1. CASE n = 0
    <3>1. n + 1 = 1
      BY <2>1
    <3>2. a = 0
      BY Zenon, <1>1, <1>4, <3>1 DEF Places
    <3> QED
      BY Zenon, <2>1, <3>2 DEF Past
  <2>2. CASE n # 0
    <3>1. n \in 1 .. L
      BY <1>1, <1>4, <2>2
    <3>2. a = log[n].at + log[n].len
      BY Zenon, <1>1, <1>4, <3>1 DEF Places
    <3> QED
      BY Zenon, <2>2, <3>2 DEF Past
  <2> QED
    BY Zenon, <2>1, <2>2
<1>8. N = c + s /\ s > 0
  BY Zenon, <1>2, <1>4
<1>9. n + 1 = K => N = a + log[n + 1].stored
  BY Zenon, <1>8
<1>10. n + 1 = K => a = c
  BY Zenon
<1> HIDE DEF a, l, c, s, N
<1>11. a < N /\ (n + 1 # K => a + l <= N)
  BY <1>1, <1>5, <1>6, <1>8, <1>10
<1> QED
  BY Zenon, <1>4, <1>7, <1>9, <1>11 DEF K, L, N, a, l

\* A whole turn of the loop.
LEMMA TurnPasses ==
  ASSUME LogInv, Headers, NEW n \in Nat, n < LastStored, n + 1 = LastStored => NotCut
  PROVE  DecodeTurn(file, LoopAt(n)) = LoopAt(n + 1)
<1> DEFINE i == n + 1
           a == log[i].at
           l == log[i].len
           s == log[i].stored
           e == log[i].entry
           t == log[i].stamp
           N == Len(file)
           d == DecodeFrom(file, a)
<1>1. FileTypes /\ Sizes /\ Contents /\ file \in Seq(Byte) /\ N \in Nat
  BY Zenon, LengthsAre DEF LogInv, FileTypes
<1>2. /\ i \in 1 .. Len(log) /\ Past(n) = a /\ a < N
      /\ i # LastStored => a + l <= N
      /\ i = LastStored => N = a + s
  BY Zenon, WriteAt
<1>3. /\ e \in Entries /\ t \in Nat /\ t < U32 /\ a \in Nat /\ l \in Nat /\ l >= 13 /\ s \in Nat
      /\ l = EntryLen(e) /\ s <= l
  BY Zenon, <1>1, <1>2, WriteFacts
<1>4. a + l <= N /\ s >= 12
  <2>1. CASE i = LastStored
    <3>1. s = l /\ N = a + s
      <4>1. LastStored > 0
        BY <2>1
      <4> QED
        BY Zenon, <1>2, <2>1, <4>1 DEF NotCut, Whole
    <3> HIDE DEF a, l, s, N
    <3> QED
      BY <1>1, <1>3, <3>1
  <2>2. CASE i # LastStored
    <3>1. a + l <= N
      BY Zenon, <1>2, <2>2
    <3>2. i \in 1 .. LastStored - 1
      <4>1. LastStored \in Nat
        <5>1. LastStored \in 0 .. Len(log) /\ Len(log) \in Nat
          BY Zenon, <1>1, LastStoredIs, LengthsAre
        <5> QED
          BY <5>1
      <4> QED
        BY <2>2, <4>1
    <3>3. s >= 12
      BY Zenon, <3>2 DEF Headers
    <3> QED
      BY Zenon, <3>1, <3>3
  <2> QED
    BY Zenon, <2>1, <2>2
<1>5. \A j \in 1 .. l : a + j <= N => file[a + j] = IF j <= s THEN Bytes(e, t)[j] ELSE 0
  BY Zenon, <1>1, <1>2 DEF Contents
<1> HIDE DEF a, l, s, e, t, N, i
<1>6. a + 12 <= N /\ \A j \in 1 .. 12 : file[a + j] = Bytes(e, t)[j]
  <2>1. a + 12 <= N
    BY <1>1, <1>3, <1>4
  <2>2. ASSUME NEW j \in 1 .. 12 PROVE file[a + j] = Bytes(e, t)[j]
    <3>1. j \in 1 .. l /\ a + j <= N /\ j <= s
      BY <1>1, <1>3, <1>4
    <3> QED
      BY Zenon, <1>5, <3>1
  <2> QED
    BY Zenon, <2>1, <2>2
<1>7. /\ d.ok /\ d.next = a + l /\ d.val.key \in Seq(Byte) /\ Len(d.val.key) = Len(e.key)
      /\ \A j \in 1 .. Len(e.key) : d.val.key[j] = file[a + 12 + j]
  <2>1. ~(a + EntryLen(e) > N)
    <3>1. ~(a + l > N)
      BY <1>1, <1>3, <1>4
    <3> QED
      BY Zenon, <1>3, <3>1
  <2>2. Headed(d, file, a, e)
    BY Zenon, <1>1, <1>3, <1>6, <2>1, HeadedDecoded DEF N
  <2> HIDE DEF d
  <2> QED
    BY Zenon, <1>3, <2>2 DEF Headed
<1> HIDE DEF d
<1>8. FromUtf8(d.val.key)
  <2> DEFINE k == Len(e.key)
             v == Len(e.value)
  <2>1. k \in Nat /\ v \in Nat /\ l = 13 + k + v /\ FromUtf8(e.key)
    BY Zenon, <1>3, EntryFacts DEF EntryLen
  <2>2. \A j \in 1 .. k : Bytes(e, t)[12 + j] = e.key[j]
    BY Zenon, <1>3, Layout
  <2>3. 0 # Base - 1
    BY SizesAre
  <2>4. \A j \in 1 .. k : e.key[j] # Base - 1
    BY Zenon, <2>1 DEF FromUtf8
  <2>5. Len(d.val.key) = k /\ \A j \in 1 .. k : d.val.key[j] = file[a + 12 + j]
    BY Zenon, <1>7
  <2> HIDE DEF k, v
  <2>6. ASSUME NEW j \in 1 .. k PROVE d.val.key[j] # Base - 1
    <3>1. 12 + j \in 1 .. l /\ a + (12 + j) <= N /\ a + (12 + j) = a + 12 + j
      BY <1>1, <1>3, <1>4, <2>1
    <3>2. file[a + 12 + j] = IF 12 + j <= s THEN Bytes(e, t)[12 + j] ELSE 0
      BY Zenon, <1>5, <3>1
    <3> QED
      BY Zenon, <2>2, <2>3, <2>4, <2>5, <3>2
  <2> QED
    BY Zenon, <2>5, <2>6 DEF FromUtf8
<1> DEFINE x == LoopAt(n)
<1>9. x.ok /\ x.val = [j \in 1 .. n |-> EntryAt(j)] /\ x.offset = a
  BY Zenon, <1>2 DEF LoopAt, a, i
<1>10. DecodeTurn(file, x) =
         [ok |-> TRUE, val |-> Append(x.val, Mapped(d.val, a, a + l)), offset |-> a + l]
  <2>1. ~(a >= N)
    BY <1>1, <1>2, <1>3
  <2>2. DecodeTurn(file, x) = DecodePush(x, d)
    BY Zenon, <1>9, <2>1 DEF DecodeTurn, d, N
  <2> HIDE DEF x
  <2>3. DecodePush(x, d) =
          [ok |-> TRUE, val |-> Append(x.val, Mapped(d.val, x.offset, d.next)), offset |-> d.next]
    BY Zenon, <1>7, <1>8 DEF DecodePush
  <2> QED
    BY Zenon, <1>7, <1>9, <2>2, <2>3
<1>11. Mapped(d.val, a, a + l) = EntryAt(n + 1)
  BY Zenon DEF EntryAt, d, a, l, i
<1>12. Append([j \in 1 .. n |-> EntryAt(j)], EntryAt(n + 1)) = [j \in 1 .. n + 1 |-> EntryAt(j)]
  OBVIOUS
<1>13. a + l = Past(n + 1)
  <2>1. n + 1 # 0
    OBVIOUS
  <2> QED
    BY Zenon, <2>1 DEF Past, a, l, i
<1> HIDE DEF x
<1> QED
  BY Zenon, <1>9, <1>10, <1>11, <1>12, <1>13 DEF LoopAt, x

\* The turn at a cut entry panics.
LEMMA CutPanics ==
  ASSUME LogInv, NEW n \in Nat, n + 1 = LastStored, ~NotCut
  PROVE  DecodeTurn(file, LoopAt(n)) = Panicked
<1> DEFINE i == n + 1
           a == log[i].at
           l == log[i].len
           s == log[i].stored
           e == log[i].entry
           t == log[i].stamp
           N == Len(file)
           d == DecodeFrom(file, a)
<1>1. FileTypes /\ Sizes /\ Contents /\ file \in Seq(Byte) /\ N \in Nat
  BY Zenon, LengthsAre DEF LogInv, FileTypes
<1>2. i \in 1 .. Len(log) /\ Past(n) = a /\ a < N /\ N = a + s
  <2>1. n < LastStored
    OBVIOUS
  <2> QED
    BY Zenon, <2>1, WriteAt
<1>3. /\ e \in Entries /\ t \in Nat /\ t < U32 /\ a \in Nat /\ l \in Nat /\ l >= 13 /\ s \in Nat
      /\ l = EntryLen(e) /\ s <= l
  BY Zenon, <1>1, <1>2, WriteFacts
<1>4. s # l
  BY Zenon DEF NotCut, Whole
<1>5. \A j \in 1 .. l : a + j <= N => file[a + j] = IF j <= s THEN Bytes(e, t)[j] ELSE 0
  BY Zenon, <1>1, <1>2 DEF Contents
<1> HIDE DEF a, l, s, e, t, N, i
<1>6. d = Panicked
  <2>1. CASE a + 12 > N
    BY Zenon, <2>1 DEF DecodeFrom, N
  <2>2. CASE ~(a + 12 > N)
    <3>1. a + 12 <= N /\ a + l > N
      BY <1>1, <1>2, <1>3, <1>4, <2>2
    <3>2. ASSUME NEW j \in 1 .. 12 PROVE file[a + j] = Bytes(e, t)[j]
      <4>1. j \in 1 .. l /\ a + j <= N /\ j <= s
        BY <1>1, <1>2, <1>3, <3>1
      <4> QED
        BY Zenon, <1>5, <4>1
    <3>3. a + EntryLen(e) > N
      BY Zenon, <1>3, <3>1
    <3> QED
      BY Zenon, <1>1, <1>3, <3>1, <3>2, <3>3, HeadedDecoded DEF N
  <2> QED
    BY Zenon, <2>1, <2>2
<1> HIDE DEF d
<1> DEFINE x == LoopAt(n)
<1>7. x.ok /\ x.offset = a
  BY Zenon, <1>2 DEF LoopAt, a, i
<1>8. ~(a >= N)
  BY <1>1, <1>2, <1>3
<1> HIDE DEF x
<1>9. DecodeTurn(file, x) = DecodePush(x, d)
  BY Zenon, <1>7, <1>8 DEF DecodeTurn, d, N
<1>10. ~d.ok
  BY Zenon, <1>6 DEF Panicked
<1> QED
  BY Zenon, <1>9, <1>10 DEF DecodePush, x

\* The loop of decode_multi after n turns.
Turns(n) ==
  IF n < LastStored THEN LoopAt(n) ELSE IF NotCut THEN LoopAt(LastStored) ELSE Panicked

\* A turn of the loop, and one after its end.
LEMMA TurnIs ==
  ASSUME LogInv, Headers, NEW n \in Nat
  PROVE  DecodeTurn(file, Turns(n)) = Turns(n + 1)
<1> DEFINE K == LastStored
<1>1. K \in Nat /\ (K > 0 => K \in 1 .. Len(log))
  <2>1. K \in 0 .. Len(log) /\ Len(log) \in Nat /\ (K > 0 => K \in 1 .. Len(log))
    BY Zenon, LastStoredIs, LengthsAre DEF LogInv
  <2> HIDE DEF K
  <2> QED
    BY <2>1
<1>2. CASE n < K
  <2>1. Turns(n) = LoopAt(n)
    BY Zenon, <1>2 DEF Turns
  <2>2. CASE n + 1 = K /\ ~NotCut
    <3>1. ~(n + 1 < K)
      BY <1>1, <2>2
    <3> QED
      BY Zenon, <2>1, <2>2, <3>1, CutPanics DEF Turns
  <2>3. CASE n + 1 = K => NotCut
    <3>1. DecodeTurn(file, LoopAt(n)) = LoopAt(n + 1)
      BY Zenon, <1>2, <2>3, TurnPasses
    <3>2. n + 1 < K \/ (n + 1 = K /\ ~(n + 1 < K))
      BY <1>1, <1>2
    <3>3. Turns(n + 1) = LoopAt(n + 1)
      BY Zenon, <2>3, <3>2 DEF Turns
    <3> QED
      BY Zenon, <2>1, <3>1, <3>3
  <2> QED
    BY Zenon, <2>2, <2>3
<1>3. CASE ~(n < K)
  <2>1. ~(n + 1 < K)
    BY <1>1, <1>3
  <2>2. Turns(n + 1) = Turns(n)
    BY Zenon, <1>3, <2>1 DEF Turns
  <2>3. CASE NotCut
    <3>1. Turns(n) = LoopAt(K)
      BY Zenon, <1>3, <2>3 DEF Turns
    <3> DEFINE x == LoopAt(K)
    <3>2. x.ok /\ x.offset = Past(K)
      BY Zenon DEF LoopAt
    <3>3. Past(K) >= Len(file)
      <4> DEFINE N == Len(file)
      <4>0. N \in Nat
        BY Zenon, LengthsAre DEF LogInv
      <4>1. CASE K = 0
        <5>1. Past(K) = 0 /\ N = 0
          BY Zenon, <4>1, LastStoredIs DEF Past
        <5> QED
          BY <5>1
      <4>2. CASE K # 0
        <5>1. K > 0
          BY <1>1, <4>2
        <5>2. N = log[K].at + log[K].stored /\ log[K].stored = log[K].len
          BY Zenon, <2>3, <5>1, LastStoredIs DEF NotCut, Whole
        <5>3. Past(K) = N
          BY Zenon, <4>2, <5>2 DEF Past
        <5> HIDE DEF N
        <5>4. N >= N
          BY <4>0
        <5> QED
          BY Zenon, <5>3, <5>4 DEF N
      <4> QED
        BY Zenon, <4>1, <4>2
    <3> HIDE DEF x
    <3>4. DecodeTurn(file, x) = x
      BY Zenon, <3>2, <3>3 DEF DecodeTurn
    <3> QED
      BY Zenon, <2>2, <3>1, <3>4 DEF x
  <2>4. CASE ~NotCut
    <3>1. Turns(n) = Panicked
      BY Zenon, <1>3, <2>4 DEF Turns
    <3>2. ~Panicked.ok
      BY Zenon DEF Panicked
    <3>3. DecodeTurn(file, Panicked) = Panicked
      BY Zenon, <3>2 DEF DecodeTurn
    <3> QED
      BY Zenon, <2>2, <3>1, <3>3
  <2> QED
    BY Zenon, <2>3, <2>4
<1> QED
  BY Zenon, <1>2, <1>3

\* decode_multi of the file, by its turns.  That there is such a function is shown by giving
\* it, that there is no other by the least turn at which one would differ.
LEMMA MultiIs ==
  ASSUME LogInv, Headers
  PROVE  DecodeMulti(file) = Turns(Len(file))
<1> DEFINE N == Len(file)
           s0 == [ok |-> TRUE, val |-> <<>>, offset |-> 0]
           Step(g) == [m \in 0 .. N |-> IF m = 0 THEN s0 ELSE DecodeTurn(file, g[m - 1])]
           W == [m \in 0 .. N |-> Turns(m)]
           F == CHOOSE g : g = Step(g)
<1>1. N \in Nat
  BY Zenon, LengthsAre DEF LogInv
<1>2. DecodeMulti(file) = F[N]
  BY Zenon DEF DecodeMulti
<1>3. Turns(0) = s0
  <2>1. LoopAt(0) = s0
    <3>1. [i \in 1 .. 0 |-> EntryAt(i)] = <<>>
      OBVIOUS
    <3> QED
      BY Zenon, <3>1 DEF LoopAt, Past
  <2>2. LastStored \in Nat
    <3>1. LastStored \in 0 .. Len(log) /\ Len(log) \in Nat
      BY Zenon, LastStoredIs, LengthsAre DEF LogInv
    <3> QED
      BY <3>1
  <2>3. CASE 0 < LastStored
    BY Zenon, <2>1, <2>3 DEF Turns
  <2>4. CASE ~(0 < LastStored)
    <3>1. LastStored = 0 /\ ~(LastStored > 0)
      BY <2>2, <2>4
    <3>2. NotCut
      BY Zenon, <3>1 DEF NotCut
    <3> QED
      BY Zenon, <2>1, <2>4, <3>1, <3>2 DEF Turns
  <2> QED
    BY Zenon, <2>3, <2>4
<1> HIDE DEF s0, N
<1>4. ASSUME NEW m \in 0 .. N, m # 0
      PROVE  m - 1 \in 0 .. N /\ Turns(m) = DecodeTurn(file, Turns(m - 1))
  <2>1. m - 1 \in 0 .. N /\ m - 1 \in Nat /\ (m - 1) + 1 = m
    BY <1>1, <1>4
  <2> QED
    BY Zenon, <2>1, TurnIs
<1>5. W = Step(W)
  <2>1. ASSUME NEW m \in 0 .. N
        PROVE  Turns(m) = IF m = 0 THEN s0 ELSE DecodeTurn(file, W[m - 1])
    BY Zenon, <1>3, <1>4
  <2> QED
    BY Zenon, <2>1
<1>6. F = Step(F)
  <2> HIDE DEF Step, W
  <2> QED
    BY Zenon, <1>5
<1> HIDE DEF F
<1>7. \A m \in 0 .. N : F[m] = Turns(m)
  <2> DEFINE T == {m \in 0 .. N : F[m] # Turns(m)}
  <2> SUFFICES ASSUME T # {} PROVE FALSE
    BY Zenon
  <2>1. T \subseteq Nat
    BY <1>1
  <2>2. PICK m \in T : \A y \in T : ~(y < m)
    BY Zenon, <2>1, LeastOf
  <2>3. m \in 0 .. N /\ F[m] # Turns(m)
    BY Zenon, <2>2
  <2>4. F[m] = IF m = 0 THEN s0 ELSE DecodeTurn(file, F[m - 1])
    BY Zenon, <1>6, <2>3
  <2>5. CASE m = 0
    BY Zenon, <1>3, <2>3, <2>4, <2>5
  <2>6. CASE m # 0
    <3>1. m - 1 \in 0 .. N /\ Turns(m) = DecodeTurn(file, Turns(m - 1))
      BY Zenon, <1>4, <2>3, <2>6
    <3>2. m - 1 < m
      BY <1>1, <2>3
    <3>3. F[m - 1] = Turns(m - 1)
      BY Zenon, <2>2, <3>1, <3>2
    <3> QED
      BY Zenon, <2>3, <2>4, <2>6, <3>1, <3>3
  <2> QED
    BY Zenon, <2>5, <2>6
<1>8. N \in 0 .. N
  BY <1>1
<1> QED
  BY Zenon, <1>2, <1>7, <1>8 DEF N

-----------------------------------------------------------------------------
(* Every behaviour *)

\* What was read is what the file has.
GotOK ==
  /\ got.op = "all" => got.res = DecodeMulti(file)
  /\ got.op = "one" => /\ got.i \in 1 .. Len(log)
                       /\ got.res = DecodeFrom(StoreRead(log[got.i].at, log[got.i].len), 0)

FileInv == LogInv /\ GotOK

\* A new segment.
LEMMA FileInitInv == FileInit => FileInv
<1> SUFFICES ASSUME FileInit PROVE FileInv
  OBVIOUS
<1>1. file = <<>> /\ offset = 0 /\ log = <<>> /\ got = NotRead
  BY Zenon DEF FileInit
<1>2. FileTypes /\ Len(file) = 0 /\ Len(log) = 0 /\ 1 .. Len(log) = {} /\ offset >= Len(log)
  BY <1>1 DEF FileTypes
<1>3. Sizes /\ Places /\ OffsetOK /\ Ends /\ Contents
  BY Zenon, <1>1, <1>2 DEF Sizes, Places, OffsetOK, Ends, Contents
<1>4. GotOK
  BY Zenon, <1>1 DEF GotOK, NotRead
<1> QED
  BY Zenon, <1>2, <1>3, <1>4 DEF FileInv, LogInv

\* Nothing is read after a write.
LEMMA NoneReadNext == ASSUME got' = NotRead PROVE GotOK'
BY Zenon DEF GotOK, NotRead

\* What a read leaves as it was.
LEMMA SameLog == ASSUME LogInv, UNCHANGED <<file, offset, running, log>> PROVE LogInv'
BY Zenon DEF LogInv, FileTypes, Sizes, Places, OffsetOK, Ends, Contents

\* A write, by a process that goes on or that ends, and a read.
LEMMA FileNextInv == FileInv /\ [FileNext]_fileVars => FileInv'
<1> SUFFICES ASSUME FileInv, [FileNext]_fileVars PROVE FileInv'
  OBVIOUS
<1>1. LogInv /\ GotOK
  BY Zenon DEF FileInv
<1>2. offset \in Nat /\ Len(log) \in Nat
  BY Zenon, <1>1, LengthsAre DEF LogInv, FileTypes
<1>3. ASSUME NEW e \in Entries, NEW now \in Times, AppendBytes(e, now) PROVE FileInv'
  <2> DEFINE b == Encode(e, now)
             L == Len(log)
             l == Len(b)
  <2>1. PICK n \in Amounts(b) : WriteFile(e, now, b, n)
    BY Zenon, <1>3 DEF AppendBytes
  <2>2. running /\ offset' = offset + l /\ got' = NotRead
    BY Zenon, <1>3 DEF AppendBytes
  <2>3. l \in Nat /\ n \in Nat /\ n <= l
    <3>1. l \in Nat
      <4>1. b \in Seq(Byte)
        <5>1. Stamp(e, now) \in Nat
          BY Zenon, StampIs
        <5>2. b = Bytes(e, Stamp(e, now))
          BY Zenon DEF Encode, Bytes
        <5> QED
          BY Zenon, <5>1, <5>2, Layout
      <4> QED
        BY Zenon, <4>1, LenProperties
    <3>2. n = l \/ (n \in Shorts /\ n < l)
      BY Zenon, <2>1 DEF Amounts
    <3>3. Shorts \subseteq Nat
      BY Zenon, FileAssumption DEF FileAssumption
    <3> HIDE DEF l
    <3>4. CASE n = l
      BY <3>1, <3>4
    <3>5. CASE n \in Shorts /\ n < l
      <4>1. n \in Nat /\ n < l
        BY Zenon, <3>3, <3>5
      <4> QED
        BY <3>1, <4>1
    <3> QED
      BY Zenon, <3>2, <3>4, <3>5
  <2>4. offset' \in Nat
    <3> HIDE DEF l
    <3> QED
      BY <1>2, <2>2, <2>3
  <2>5. /\ FileTypes' /\ Sizes' /\ Places' /\ Ends' /\ Contents'
        /\ Len(log') = L + 1 /\ log'[L + 1].at = offset /\ log'[L + 1].len = l /\ l >= 13
        /\ \A i \in 1 .. Len(log') : i \in 1 .. L \/ i = L + 1
        /\ \A i \in 1 .. L : log'[i] = log[i]
    BY Zenon, <1>1, <2>1, <2>2, <2>3, <2>4, WriteKeeps
  <2> HIDE DEF b, l
  <2>6. OffsetOK'
    <3>1. offset' >= Len(log') /\ Len(log') # 0
      <4>1. offset >= L
        BY Zenon, <1>1, <2>2 DEF LogInv, OffsetOK
      <4> QED
        BY <1>2, <2>2, <2>3, <2>5, <4>1
    <3>2. offset' >= offset /\ offset' <= offset'
      BY <1>2, <2>2, <2>3, <2>4
    <3>3. ASSUME NEW i \in 1 .. Len(log')
          PROVE  log'[i].at + log'[i].len <= offset'
      <4>1. CASE i \in 1 .. L
        <5> DEFINE x == log[i].at + log[i].len
        <5>1. x <= offset /\ log'[i] = log[i]
          BY Zenon, <1>1, <2>2, <2>5, <4>1 DEF LogInv, OffsetOK
        <5>2. x \in Nat
          <6> DEFINE a == log[i].at
                     m == log[i].len
          <6>1. a \in Nat /\ m \in Nat
            BY Zenon, <1>1, <4>1, WriteFacts DEF LogInv
          <6> HIDE DEF a, m
          <6>2. a + m \in Nat
            BY <6>1
          <6> QED
            BY Zenon, <6>2 DEF a, m
        <5> HIDE DEF x
        <5>3. x <= offset'
          BY <1>2, <2>4, <3>2, <5>1, <5>2
        <5> QED
          BY Zenon, <5>1, <5>3 DEF x
      <4>2. CASE i = L + 1
        BY Zenon, <2>2, <2>5, <3>2, <4>2
      <4> QED
        BY Zenon, <2>5, <4>1, <4>2
    <3>4. ASSUME NEW i \in 1 .. Len(log'), i = Len(log')
          PROVE  offset' = log'[i].at + log'[i].len
      BY Zenon, <2>2, <2>5, <3>4
    <3> QED
      BY Zenon, <3>1, <3>3, <3>4 DEF OffsetOK
  <2> QED
    BY Zenon, <2>2, <2>5, <2>6, NoneReadNext DEF FileInv, LogInv
<1>4. ASSUME NEW e \in Entries, NEW now \in Times, DieInWrite(e, now) PROVE FileInv'
  <2> DEFINE b == Encode(e, now)
             l == Len(b)
  <2>1. PICK n \in Shorts : n < l /\ WriteFile(e, now, b, n)
    BY Zenon, <1>4 DEF DieInWrite
  <2>2. running /\ ~running' /\ offset' = offset /\ got' = NotRead
    BY Zenon, <1>4 DEF DieInWrite
  <2>3. n \in Nat /\ n <= l
    <3>1. b \in Seq(Byte)
      <4>1. Stamp(e, now) \in Nat
        BY Zenon, StampIs
      <4>2. b = Bytes(e, Stamp(e, now))
        BY Zenon DEF Encode, Bytes
      <4> QED
        BY Zenon, <4>1, <4>2, Layout
    <3>2. l \in Nat
      BY Zenon, <3>1, LenProperties
    <3>3. n \in Nat
      BY Zenon, FileAssumption DEF FileAssumption
    <3>4. n < l
      BY Zenon, <2>1
    <3> HIDE DEF l
    <3> QED
      BY <3>2, <3>3, <3>4
  <2>4. FileTypes' /\ Sizes' /\ Places' /\ Ends' /\ Contents'
    BY Zenon, <1>1, <1>2, <2>1, <2>2, <2>3, WriteKeeps
  <2> QED
    BY Zenon, <2>2, <2>4, NoneReadNext DEF FileInv, LogInv, OffsetOK
<1>5. CASE ReadFull
  <2>1. UNCHANGED <<file, offset, running, log>> /\ got' = [op |-> "all", res |-> DecodeMulti(file)]
    BY Zenon, <1>5 DEF ReadFull
  <2>2. LogInv'
    BY Zenon, <1>1, <2>1, SameLog
  <2>3. got'.op = "all" /\ got'.res = DecodeMulti(file')
    BY Zenon, <2>1
  <2> QED
    BY Zenon, <2>2, <2>3 DEF FileInv, GotOK
<1>6. CASE \E i \in 1 .. Len(log) : ReadEntry(i)
  <2>1. PICK i \in 1 .. Len(log) : ReadEntry(i)
    BY Zenon, <1>6
  <2>2. /\ UNCHANGED <<file, offset, running, log>>
        /\ got' = [op |-> "one", i |-> i, res |-> DecodeFrom(StoreRead(log[i].at, log[i].len), 0)]
    BY Zenon, <2>1 DEF ReadEntry
  <2>3. LogInv'
    BY Zenon, <1>1, <2>2, SameLog
  <2>4. /\ got'.op = "one" /\ got'.i = i
        /\ got'.res = DecodeFrom(StoreRead(log[i].at, log[i].len), 0)
    BY Zenon, <2>2
  <2>5. StoreRead(log[i].at, log[i].len)' = StoreRead(log[i].at, log[i].len)
    BY Zenon, <2>2 DEF StoreRead
  <2> QED
    BY Zenon, <2>2, <2>3, <2>4, <2>5 DEF FileInv, GotOK, StoreRead
<1>7. CASE UNCHANGED fileVars
  <2>1. UNCHANGED <<file, offset, running, log, got>>
    BY Zenon, <1>7 DEF fileVars
  <2>2. LogInv'
    BY Zenon, <1>1, <2>1, SameLog
  <2> QED
    BY Zenon, <1>1, <2>1, <2>2 DEF FileInv, GotOK, StoreRead
<1> QED
  BY Zenon, <1>3, <1>4, <1>5, <1>6, <1>7 DEF FileNext

\* What is read by offset and length of an entry stored whole, and of a whole file.
LEMMA WholeRead ==
  ASSUME LogInv, NEW i \in 1 .. Len(log), Whole(i)
  PROVE  /\ DecodeFrom(file, log[i].at) = Decoded(Told(i), log[i].at + log[i].len)
         /\ DecodeFrom(StoreRead(log[i].at, log[i].len), 0) = Decoded(Told(i), log[i].len)
<1> DEFINE a == log[i].at
           l == log[i].len
           s == log[i].stored
           e == log[i].entry
           t == log[i].stamp
           N == Len(file)
           c == StoreRead(a, l)
<1>1. FileTypes /\ Sizes /\ Contents /\ file \in Seq(Byte) /\ N \in Nat
  BY Zenon, LengthsAre DEF LogInv, FileTypes
<1>2. /\ e \in Entries /\ t \in Nat /\ t < U32 /\ a \in Nat /\ l \in Nat /\ l >= 13 /\ s \in Nat
      /\ l = EntryLen(e) /\ s = l
  BY Zenon, <1>1, WriteFacts DEF Whole
<1>3. s > 0 => a + s <= N
  BY Zenon, <1>1 DEF Contents
<1>4. \A j \in 1 .. l : a + j <= N => file[a + j] = IF j <= s THEN Bytes(e, t)[j] ELSE 0
  BY Zenon, <1>1 DEF Contents
<1>5. Told(i) = AsStored(e, t)
  BY Zenon DEF Told, AsStored
<1>6. c = SubSeq(file, a + 1, IF a + l < N THEN a + l ELSE N)
  BY Zenon DEF StoreRead
<1> HIDE DEF a, l, s, e, t, N, c
<1>7. a + l <= N
  BY <1>1, <1>2, <1>3
<1>8. \A j \in 1 .. l : file[a + j] = Bytes(e, t)[j]
  <2> TAKE j \in 1 .. l
  <2>1. a + j <= N /\ j <= s
    BY <1>1, <1>2, <1>7
  <2> QED
    BY Zenon, <1>4, <2>1
<1>9. DecodeFrom(file, a) = Decoded(Told(i), a + l)
  <2>1. a + EntryLen(e) <= Len(file) /\ \A j \in 1 .. EntryLen(e) : file[a + j] = Bytes(e, t)[j]
    BY Zenon, <1>2, <1>7, <1>8 DEF N
  <2>2. e \in Entries /\ t \in Nat /\ t < U32 /\ file \in Seq(Byte) /\ a \in Nat
    BY Zenon, <1>1, <1>2
  <2>3. DecodeFrom(file, a) = Decoded(AsStored(e, t), a + EntryLen(e))
    BY Zenon, <2>1, <2>2, WholeDecoded
  <2> QED
    BY Zenon, <1>2, <1>5, <2>3
<1>10. c = SubSeq(file, a + 1, a + l)
  <2>1. (IF a + l < N THEN a + l ELSE N) = a + l
    BY <1>1, <1>2, <1>7
  <2> QED
    BY Zenon, <1>6, <2>1
<1>11. c \in Seq(Byte) /\ Len(c) = l /\ \A j \in 1 .. l : c[j] = file[a + j]
  <2> DEFINE q == SubSeq(file, a + 1, a + l)
  <2>1. q \in Seq(Byte) /\ Len(q) = l /\ \A j \in 1 .. l : q[j] = file[a + j]
    BY Zenon, <1>1, <1>2, <1>7, PartHas DEF N
  <2> HIDE DEF q
  <2>2. c = q
    BY Zenon, <1>10 DEF q
  <2> QED
    BY Zenon, <2>1, <2>2
<1>12. 0 + l <= Len(c) /\ 0 \in Nat /\ \A j \in 1 .. l : 0 + j = j
  BY <1>2, <1>11
<1>13. \A j \in 1 .. l : c[0 + j] = Bytes(e, t)[j]
  BY Zenon, <1>8, <1>11, <1>12
<1>14. DecodeFrom(c, 0) = Decoded(Told(i), 0 + l)
  <2>1. 0 + EntryLen(e) <= Len(c) /\ \A j \in 1 .. EntryLen(e) : c[0 + j] = Bytes(e, t)[j]
    BY Zenon, <1>2, <1>12, <1>13
  <2>2. e \in Entries /\ t \in Nat /\ t < U32 /\ c \in Seq(Byte) /\ 0 \in Nat
    BY Zenon, <1>2, <1>11, <1>12
  <2>3. DecodeFrom(c, 0) = Decoded(AsStored(e, t), 0 + EntryLen(e))
    BY Zenon, <2>1, <2>2, WholeDecoded
  <2> QED
    BY Zenon, <1>2, <1>5, <2>3
<1>15. 0 + l = l
  BY <1>2
<1> QED
  BY Zenon, <1>9, <1>14, <1>15 DEF a, l, c

\* A read by offset and length.
LEMMA OneTold == FileInv => WholeEntryRead
<1> SUFFICES ASSUME FileInv, got.op = "one", Whole(got.i)
             PROVE  got.res.ok /\ got.res.val = Told(got.i)
  BY Zenon DEF WholeEntryRead
<1> DEFINE i == got.i
<1>1. LogInv /\ i \in 1 .. Len(log) /\ Whole(i)
      /\ got.res = DecodeFrom(StoreRead(log[i].at, log[i].len), 0)
  BY Zenon DEF FileInv, GotOK
<1>2. got.res = Decoded(Told(i), log[i].len)
  BY Zenon, <1>1, WholeRead
<1> HIDE DEF i
<1> DEFINE d == Decoded(Told(i), log[i].len)
<1>3. d.ok /\ d.val = Told(i)
  BY Zenon DEF Decoded
<1> HIDE DEF d
<1> QED
  BY Zenon, <1>2, <1>3 DEF i, d

\* A read of the whole file.
LEMMA AllTold == FileInv => FileTold
<1> DEFINE K == LastStored
           v == got.res.val
<1> SUFFICES ASSUME FileInv, got.op = "all", Headers
             PROVE  IF K > 0 /\ ~Whole(K) THEN ~got.res.ok
                    ELSE /\ got.res.ok /\ Len(v) = K
                         /\ \A i \in 1 .. K :
                              /\ v[i].key_offset = log[i].at /\ v[i].entry_length = log[i].len
                              /\ Whole(i) => \A f \in DOMAIN Told(i) : v[i][f] = Told(i)[f]
  BY Zenon DEF FileTold, Headers
<1>1. LogInv /\ FileTypes /\ Sizes /\ Len(file) \in Nat /\ Len(log) \in Nat
  BY Zenon, LengthsAre DEF FileInv, LogInv
<1>2. got.res = Turns(Len(file))
  BY Zenon, <1>1, MultiIs DEF FileInv, GotOK
<1>3. K \in 0 .. Len(log) /\ (K > 0 => K \in 1 .. Len(log) /\ log[K].stored > 0
                                       /\ Len(file) = log[K].at + log[K].stored)
  BY Zenon, <1>1, LastStoredIs
<1>4. ~(Len(file) < K)
  <2>1. CASE K > 0
    <3> DEFINE a == log[K].at
               s == log[K].stored
               N == Len(file)
    <3>1. a \in Nat /\ s \in Nat /\ a >= K - 1 /\ K \in Nat /\ s > 0 /\ N = a + s
      BY Zenon, <1>1, <1>3, <2>1, WriteFacts
    <3> HIDE DEF a, s, N, K
    <3>2. ~(N < K)
      BY <3>1
    <3> QED
      BY Zenon, <3>2 DEF N
  <2>2. CASE ~(K > 0)
    <3> HIDE DEF K
    <3> QED
      BY <1>1, <1>3, <2>2
  <2> QED
    BY Zenon, <2>1, <2>2
<1>5. CASE K > 0 /\ ~Whole(K)
  <2>1. got.res = Panicked
    BY Zenon, <1>2, <1>4, <1>5 DEF Turns, NotCut
  <2>2. ~got.res.ok
    <3>1. ~Panicked.ok
      BY Zenon DEF Panicked
    <3> QED
      BY Zenon, <2>1, <3>1
  <2> QED
    BY Zenon, <1>5, <2>2
<1>6. CASE ~(K > 0 /\ ~Whole(K))
  <2>1. got.res = LoopAt(K)
    BY Zenon, <1>2, <1>4, <1>6 DEF Turns, NotCut
  <2>2. got.res.ok /\ v = [i \in 1 .. K |-> EntryAt(i)]
    <3>1. LoopAt(K).ok /\ LoopAt(K).val = [i \in 1 .. K |-> EntryAt(i)]
      BY Zenon DEF LoopAt
    <3> QED
      BY Zenon, <2>1, <3>1
  <2> HIDE DEF K, v
  <2>3. Len(v) = K
    BY <1>1, <1>3, <2>2
  <2>4. ASSUME NEW i \in 1 .. K
        PROVE  /\ v[i].key_offset = log[i].at /\ v[i].entry_length = log[i].len
               /\ Whole(i) => \A f \in DOMAIN Told(i) : v[i][f] = Told(i)[f]
    <3> DEFINE d == DecodeFrom(file, log[i].at)
               a == log[i].at
               l == log[i].len
    <3>1. i \in 1 .. Len(log)
      BY <1>1, <1>3
    <3>2. a \in Nat /\ l \in Nat
      BY Zenon, <1>1, <3>1, WriteFacts
    <3>3. v[i] = Mapped(d.val, a, a + l)
      BY Zenon, <2>2 DEF EntryAt
    <3>4. ASSUME Whole(i) PROVE \A f \in DOMAIN Told(i) : v[i][f] = Told(i)[f]
      <4>1. d.val = Told(i)
        <5> DEFINE x == Decoded(Told(i), a + l)
        <5>1. d = x
          BY Zenon, <1>1, <3>1, <3>4, WholeRead
        <5>2. x.val = Told(i)
          BY Zenon DEF Decoded
        <5> HIDE DEF d, x
        <5> QED
          BY Zenon, <5>1, <5>2
      <4> HIDE DEF d
      <4>2. \A f \in DOMAIN Told(i) : v[i][f] = Told(i)[f]
        <5> DEFINE w == Told(i)
        <5>1. DOMAIN w = {"key", "value", "deleted", "timestamp"}
          BY Zenon DEF Told
        <5> HIDE DEF w
        <5>2. /\ v[i].key = w.key /\ v[i].value = w.value /\ v[i].deleted = w.deleted
              /\ v[i].timestamp = w.timestamp
          <6> DEFINE m == Mapped(w, a, a + l)
          <6>1. v[i] = m
            BY Zenon, <3>3, <4>1 DEF w
          <6>2. /\ m.key = w.key /\ m.value = w.value /\ m.deleted = w.deleted
                /\ m.timestamp = w.timestamp
            BY Zenon DEF Mapped
          <6> HIDE DEF m
          <6> QED
            BY Zenon, <6>1, <6>2
        <5> QED
          BY Zenon, <5>1, <5>2 DEF w
      <4> QED
        BY Zenon, <4>2
    <3> HIDE DEF d, a, l
    <3>5. v[i].key_offset = a /\ v[i].entry_length = (a + l) - a
      <4> DEFINE m == Mapped(d.val, a, a + l)
      <4>1. m.key_offset = a /\ m.entry_length = (a + l) - a
        BY Zenon DEF Mapped
      <4> HIDE DEF m
      <4>2. v[i] = m
        BY Zenon, <3>3 DEF m
      <4> QED
        BY Zenon, <4>1, <4>2
    <3>6. (a + l) - a = l
      BY <3>2
    <3> QED
      BY Zenon, <3>4, <3>5, <3>6 DEF a, l
  <2> QED
    BY Zenon, <1>6, <2>2, <2>3, <2>4
<1> QED
  BY Zenon, <1>5, <1>6

\* For segments of any number and length of entries, writes that store any part of their bytes
\* and a process that ends during any of them: a whole read of a segment finds each entry at the
\* offset and with the length that Segment::append returned for it, every entry stored whole as
\* it was written, and never takes a cut entry for one (decode_multi).
THEOREM SegmentsAreRead == FileSpec => []FileTold
<1>1. FileInit => FileInv
  BY FileInitInv
<1>2. FileInv /\ [FileNext]_fileVars => FileInv'
  BY FileNextInv
<1>3. FileInv => FileTold
  BY AllTold
<1> QED
  BY <1>1, <1>2, <1>3, PTL DEF FileSpec

\* An entry stored whole is read back by the offset and length that Segment::append returned,
\* whatever became of the writes before and after it (Segment::read, decode).
THEOREM WholeEntriesAreRead == FileSpec => []WholeEntryRead
<1>1. FileInit => FileInv
  BY FileInitInv
<1>2. FileInv /\ [FileNext]_fileVars => FileInv'
  BY FileNextInv
<1>3. FileInv => WholeEntryRead
  BY OneTold
<1> QED
  BY <1>1, <1>2, <1>3, PTL DEF FileSpec

=============================================================================
