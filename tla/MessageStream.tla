--------------------------- MODULE MessageStream ---------------------------
(***************************************************************************)
(* A stream of messages between two nodes that both run this code          *)
(* (node/src/messages/message.rs, message_header.rs): one writes messages  *)
(* to it (Message::write), the other reads them (Message::read), and the   *)
(* connection may close in the middle of a message.                        *)
(*                                                                         *)
(* write_with_payload takes any Payload<T>.  So does this module: what a   *)
(* payload is as bytes is a parameter, for which Messages has the codecs   *)
(* of the program.                                                         *)
(***************************************************************************)
EXTENDS Octets

CONSTANTS
  Sample,              \* for each place on the stream, the messages that may be written
  Cuts,                \* bound: how many of the bytes on their way may arrive before it closes
  WritePayload(_),     \* the bytes of the payload of a message [cmd, val]
  SizePayload(_),      \* Payload::size
  ReadPayload(_, _),   \* what read makes of the bytes of a payload of a command
  Accepted(_),         \* a message whose payload read does not refuse
  Checksum(_)          \* the first four bytes of SHA256(SHA256(_))

ASSUME SampleAssumption == Len(Sample) \in Nat

VARIABLES
  sent,    \* the messages written so far
  stream,  \* the bytes not yet read
  closed,  \* the writer's end is gone
  seen     \* what Message::read returned, in order

msgVars == <<sent, stream, closed, seen>>

-----------------------------------------------------------------------------
(* Headers *)

\* The commands of module commands, as numbers; the last is not one of them.
Command ==
  << "block", "tx", "getaddr", "getblocks", "getdata", "getheaders", "getcfilters",
     "getcfheaders", "headers", "cfheaders", "cfilter", "mempool", "notfound", "inv", "ping",
     "pong", "reject", "sendheaders", "verack", "version", "feefilter" >>

\* Twelve bytes for the i-th command
CommandCode(i) == [j \in 1 .. 12 |-> IF j = 1 THEN i % Base ELSE IF j = 2 THEN i \div Base ELSE 0]

CommandBytes(c) == CommandCode(CHOOSE i \in 1 .. Len(Command) : Command[i] = c)

Unknown == "unknown"

CommandOf(s) ==
  LET is == {i \in 1 .. Len(Command) : CommandBytes(Command[i]) = s}
  IN IF is = {} THEN Unknown ELSE Command[CHOOSE i \in is : TRUE]

Magic == [i \in 1 .. 4 |-> i]

MessageHeaderWrite(command, payload_size, checksum) ==
  Magic \o CommandBytes(command) \o WriteU32(payload_size) \o checksum

MessageHeaderSize == 24

\* The fields of the header in the bytes p
HeaderOf(p) ==
  [magic |-> SubSeq(p, 1, 4), command |-> SubSeq(p, 5, 16), payload_size |-> ReadU32(p, 16),
   checksum |-> SubSeq(p, 21, 24)]

\* MessageHeader::read takes the whole header from the stream before it looks at it.
MessageHeaderRead(s) ==
  LET p == ReadExact(s, MessageHeaderSize) IN IF p.ok THEN Got(HeaderOf(p.val), p.rest) ELSE Failed

\* MessageHeader::payload.  The payload is taken from the stream even if it is then refused.
Payload(h, s) ==
  LET p == ReadExact(s, h.payload_size)
  IN IF p.ok THEN [ok |-> Checksum(p.val) = h.checksum, val |-> p.val, rest |-> p.rest]
             ELSE [ok |-> FALSE, rest |-> <<>>]

-----------------------------------------------------------------------------
(* Messages *)

WithoutPayload == {"getaddr", "mempool", "sendheaders", "verack"}

\* The commands with a payload that read_partial knows.
Readable == {"block", "tx", "headers", "reject", "getdata", "notfound", "inv", "cfheaders",
             "cfilter", "ping", "pong", "version"}

\* write_with_payload, and what a peer does for a command this code does not know
WriteWithPayload(m) ==
  LET bytes == WritePayload(m)
  IN MessageHeaderWrite(m.cmd, SizePayload(m), Checksum(bytes)) \o bytes

\* write_without_payload.  NO_CHECKSUM is the checksum of no bytes.
WriteWithoutPayload(m) == MessageHeaderWrite(m.cmd, 0, Checksum(<<>>))

\* Message::write
MessageWrite(m) == IF m.cmd \in WithoutPayload THEN WriteWithoutPayload(m) ELSE WriteWithPayload(m)

Error == [res |-> "error"]
Other(cmd) == [res |-> "other", cmd |-> cmd]
Read1(m) == [res |-> "message", msg |-> m]

\* What is made of the value v of a payload
Outcome(cmd, v) == IF v.ok THEN Read1([cmd |-> cmd, val |-> v.val]) ELSE Error

\* The payload p of a command that is known, and of one that is not.
ReadKnown(cmd, p) ==
  [out |-> IF p.ok THEN Outcome(cmd, ReadPayload(cmd, p.val)) ELSE Error, rest |-> p.rest]

ReadUnknown(cmd, p) == [out |-> IF p.ok THEN Other(cmd) ELSE Error, rest |-> p.rest]

\* Message::read_partial: what is read, and the rest of the stream.
ReadPartial(cmd, h, s) ==
  CASE cmd \in WithoutPayload ->
         [out |-> IF h.payload_size = 0 THEN Read1([cmd |-> cmd]) ELSE Error, rest |-> s]
    [] cmd \in Readable -> ReadKnown(cmd, Payload(h, s))
    [] OTHER ->
         IF h.payload_size > 0 THEN ReadUnknown(cmd, Payload(h, s))
                               ELSE [out |-> Other(cmd), rest |-> s]

\* Message::read.  (The read of a connection blocks, so it has no Partial result.)
MessageRead(s) ==
  LET h == MessageHeaderRead(s)
  IN IF h.ok THEN ReadPartial(CommandOf(h.val.command), h.val, h.rest)
             ELSE [out |-> Error, rest |-> <<>>]

-----------------------------------------------------------------------------
(* The stream *)

MsgInit == sent = <<>> /\ stream = <<>> /\ closed = FALSE /\ seen = <<>>

\* Message::write to the connection, which takes each write whole: the code does not look
\* at the number of bytes taken.
WriteMessage(m) ==
  /\ ~ closed
  /\ sent' = Append(sent, m)
  /\ stream' = stream \o MessageWrite(m)
  /\ UNCHANGED <<closed, seen>>

\* The connection closes when the first n bytes of what is on its way have arrived.
Close(n) ==
  /\ ~ closed
  /\ closed' = TRUE
  /\ stream' = SubSeq(stream, 1, n)
  /\ UNCHANGED <<sent, seen>>

\* Message::read from the connection.  It waits for bytes while the connection is open.
ReadMessage ==
  /\ stream # <<>>
  /\ \E r \in {MessageRead(stream)} : seen' = Append(seen, r.out) /\ stream' = r.rest
  /\ UNCHANGED <<sent, closed>>

MsgNext ==
  \/ Len(sent) < Len(Sample) /\ \E m \in Sample[Len(sent) + 1] : WriteMessage(m)
  \/ \E n \in Cuts \cap 0 .. Len(stream) : Close(n)
  \/ ReadMessage

MsgSpec == MsgInit /\ [][MsgNext]_msgVars

-----------------------------------------------------------------------------
(* Properties *)

\* What reading m should give: m, except that a request for headers, filters or blocks and
\* an unknown command are only named, and a payload that is not accepted is refused.
View(m) ==
  CASE m.cmd \in {"getblocks", "getheaders", "getcfilters", "getcfheaders", "feefilter"} ->
         Other(m.cmd)
    [] m.cmd \in Readable /\ ~ Accepted(m) -> Error
    [] OTHER -> Read1(m)

\* The bytes of the messages after the first k.
BytesAfter(k, msgs) ==
  LET from[i \in 1 .. Len(msgs) + 1] ==
        IF i > Len(msgs) THEN <<>> ELSE MessageWrite(msgs[i]) \o from[i + 1]
  IN from[k + 1]

\* The reader stays at the boundaries of messages: what it has read is, one for one and in
\* order, what was written, the refused ones included; what it has still to read are the other
\* messages.  A connection that closes costs the message it cuts, which is reported as an error
\* and never as a message (Message::read and every read, write and size under it).
InStep ==
  /\ Len(seen) <= Len(sent)
  /\ \A i \in 1 .. Len(seen) :
       seen[i] = View(sent[i]) \/ (closed /\ seen[i] = Error /\ i = Len(seen) /\ stream = <<>>)
  /\ LET rest == BytesAfter(Len(seen), sent)
     IN IF closed THEN \E n \in 0 .. Len(rest) : stream = SubSeq(rest, 1, n) ELSE stream = rest

\* What the codecs of payloads must do for this: the announced size is that of the bytes and fits
\* its field, and reading the bytes gives the message, or an error if it is not accepted.
PayloadSound(m) ==
  LET bytes == WritePayload(m)
  IN /\ bytes \in Seq(Byte) /\ SizePayload(m) = Len(bytes) /\ Len(bytes) < U32
     /\ Checksum(bytes) \in Seq(Byte) /\ Len(Checksum(bytes)) = 4
     /\ m.cmd \in Readable =>
          Outcome(m.cmd, ReadPayload(m.cmd, bytes)) = IF Accepted(m) THEN Read1(m) ELSE Error

\* A message has a command of Command, and a sound payload or none.
MessageSound(m) ==
  /\ \E i \in 1 .. Len(Command) : Command[i] = m.cmd
  /\ IF m.cmd \in WithoutPayload THEN m = [cmd |-> m.cmd] ELSE PayloadSound(m)

\* All messages that may be written are sound.
CodecsSound ==
  /\ Checksum(<<>>) \in Seq(Byte) /\ Len(Checksum(<<>>)) = 4
  /\ \A p \in 1 .. Len(Sample) : \A m \in Sample[p] : MessageSound(m)

=============================================================================
