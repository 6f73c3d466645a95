------------------------------ MODULE Messages ------------------------------
(***************************************************************************)
(* The payloads of the messages of the Bitcoin protocol as bytes           *)
(* (node/src/messages).  MessageStream has the headers, and the stream.    *)
(*                                                                         *)
(* For each type, XWrites is the order in which its write puts out the     *)
(* fields, XReads the order in which its read takes them in, and XSize its *)
(* size(), which write_with_payload announces in the header of the message.*)
(***************************************************************************)
EXTENDS Serdes

CONSTANTS
  MinVersion,  \* MIN_SUPPORTED_PROTOCOL_VERSION
  Now,         \* the reader's clock, in seconds
  MaxDrift,    \* 2 * 60 * 60
  MaxInv       \* MAX_INV_ENTRIES

\* The sum of size(x) over the elements x of s.
SumSizes(size(_), s) == FoldLeft(LAMBDA n, x : n + size(x), 0, s)

-----------------------------------------------------------------------------
(* Parts of messages *)

OutPointWrites == << <<"hash", Hash>>, <<"index", LE(4)>> >>
OutPointReads == << <<"hash", Hash>>, <<"index", LE(4)>> >>
OutPointSize == 36

TxInWrites == << <<"prev_output", Struct(OutPointWrites)>>, <<"unlock_script", Bytes>>,
                 <<"sequence", LE(4)>> >>
TxInReads == << <<"prev_output", Struct(OutPointReads)>>, <<"unlock_script", Bytes>>,
                <<"sequence", LE(4)>> >>
TxInSize(x) == OutPointSize + VarIntSize(Len(x.unlock_script)) + Len(x.unlock_script) + 4

TxOutWrites == << <<"satoshis", LE(8)>>, <<"lock_script", Bytes>> >>
TxOutReads == << <<"satoshis", LE(8)>>, <<"lock_script", Bytes>> >>
TxOutSize(x) == 8 + VarIntSize(Len(x.lock_script)) + Len(x.lock_script)

TxWitnessDataWrites == Bytes
TxWitnessDataReads == Bytes
TxWitnessDataSize(x) == VarIntSize(Len(x)) + Len(x)

TxWitnessWrites == Items(TxWitnessDataWrites)
TxWitnessReads == Items(TxWitnessDataReads)
TxWitnessSize(x) == VarIntSize(Len(x)) + SumSizes(TxWitnessDataSize, x)

NodeAddrWrites == << <<"services", LE(8)>>, <<"ip", Arr(16)>>, <<"port", BE(2)>> >>
NodeAddrReads == << <<"services", LE(8)>>, <<"ip", Arr(16)>>, <<"port", BE(2)>> >>
NodeAddrSize == 26

BlockHeaderWrites ==
  << <<"version", LE(4)>>, <<"prev_hash", Hash>>, <<"merkle_root", Hash>>,
     <<"timestamp", LE(4)>>, <<"bits", LE(4)>>, <<"nonce", LE(4)>> >>
BlockHeaderReads ==
  << <<"version", LE(4)>>, <<"prev_hash", Hash>>, <<"merkle_root", Hash>>,
     <<"timestamp", LE(4)>>, <<"bits", LE(4)>>, <<"nonce", LE(4)>> >>
BlockHeaderSize == 80

InvVectWrites == << <<"obj_type", LE(4)>>, <<"hash", Hash>> >>
InvVectReads == << <<"obj_type", LE(4)>>, <<"hash", Hash>> >>
InvVectSize == 36

-----------------------------------------------------------------------------
(* Transactions and blocks.  witnesses is <<>> for None, <<w>> for Some(w). *)

TxWrite(x) ==
  WriteLE(x.version, 4)
    \o (IF x.witnesses # <<>> THEN <<0, 1>> ELSE <<>>)
    \o Write(Items(Struct(TxInWrites)), x.inputs)
    \o Write(Items(Struct(TxOutWrites)), x.outputs)
    \o (IF x.witnesses # <<>>
          THEN FlattenSeq([i \in 1 .. Len(x.witnesses[1]) |-> Write(TxWitnessWrites, x.witnesses[1][i])])
          ELSE <<>>)
    \o WriteLE(x.lock_time, 4)

\* Mutant: the marker and the flag of a transaction with witnesses are not counted.
TxSizeNoFlag(x) ==
  8 + (IF x.witnesses # <<>> THEN SumSizes(TxWitnessSize, x.witnesses[1]) ELSE 0)
    + VarIntSize(Len(x.inputs)) + SumSizes(TxInSize, x.inputs)
    + VarIntSize(Len(x.outputs)) + SumSizes(TxOutSize, x.outputs)

TxSize(x) ==
  8 + (IF x.witnesses # <<>> THEN 2 + SumSizes(TxWitnessSize, x.witnesses[1]) ELSE 0)
    + VarIntSize(Len(x.inputs)) + SumSizes(TxInSize, x.inputs)
    + VarIntSize(Len(x.outputs)) + SumSizes(TxOutSize, x.outputs)

\* Without witnesses
TxPlainReads ==
  << <<"version", LE(4)>>, <<"inputs", Items(Struct(TxInReads))>>,
     <<"outputs", Items(Struct(TxOutReads))>>, <<"lock_time", LE(4)>> >>

\* With witnesses, up to these
TxSegwitReads ==
  << <<"version", LE(4)>>, <<"marker", LE(1)>>, <<"flag", LE(1)>>,
     <<"inputs", Items(Struct(TxInReads))>>, <<"outputs", Items(Struct(TxOutReads))>> >>

\* A transaction of the fields of v, with the witnesses wits, ending with its lock time.
TxOf(v, wits, lock) ==
  IF ~ lock.ok THEN Failed
  ELSE Got([version |-> v.version, inputs |-> v.inputs, outputs |-> v.outputs,
            witnesses |-> wits, lock_time |-> lock.val], lock.rest)

\* The witnesses, one for each input, and the lock time.
ReadWitnesses(v, wits) == IF wits.ok THEN TxOf(v, <<wits.val>>, ReadLE(wits.rest, 4)) ELSE Failed

\* (The panic for a flag other than 1 is an error here.)
TxReadSegwit(tx) ==
  IF tx.ok /\ tx.val.flag = 1
    THEN ReadWitnesses(tx.val, ReadN(TxWitnessReads, Len(tx.val.inputs), <<>>, tx.rest))
    ELSE Failed

TxReadPlain(tx) == IF tx.ok THEN TxOf(tx.val, <<>>, Got(tx.val.lock_time, tx.rest)) ELSE Failed

\* No inputs mean witnesses: the next byte is then the flag, and the inputs follow.
TxRead(s) ==
  IF Len(s) > 4 /\ s[5] = 0 THEN TxReadSegwit(Read(Struct(TxSegwitReads), s))
                            ELSE TxReadPlain(Read(Struct(TxPlainReads), s))

BlockWrite(x) ==
  Write(Struct(BlockHeaderWrites), x.header) \o VarIntWrite(Len(x.txns))
    \o FlattenSeq([i \in 1 .. Len(x.txns) |-> TxWrite(x.txns[i])])

RECURSIVE ReadTxns(_, _, _)

ReadTxns(n, txns, s) ==
  IF n = 0 THEN Got(txns, s)
  ELSE LET t == TxRead(s)
       IN IF t.ok THEN ReadTxns(n - 1, Append(txns, t.val), t.rest) ELSE Failed

\* The block of a header and the transactions after it
BlockOf(header, txns) ==
  IF txns.ok THEN Got([header |-> header, txns |-> txns.val], txns.rest) ELSE Failed

BlockReads == << <<"header", Struct(BlockHeaderReads)>>, <<"n", VarInt>> >>

BlockRead(s) ==
  LET b == Read(Struct(BlockReads), s)
  IN IF b.ok THEN BlockOf(b.val.header, ReadTxns(b.val.n, <<>>, b.rest)) ELSE Failed

BlockSize(x) == BlockHeaderSize + VarIntSize(Len(x.txns)) + SumSizes(TxSize, x.txns)

-----------------------------------------------------------------------------
(* The other payloads *)

\* A header is followed by a transaction count, zero, that the reader drops.
HeadersWrite(x) ==
  VarIntWrite(Len(x.inner))
    \o FlattenSeq([i \in 1 .. Len(x.inner) |-> Write(Struct(BlockHeaderWrites), x.inner[i]) \o <<0>>])

RECURSIVE ReadHeaders(_, _, _)

ReadHeaders(n, headers, s) ==
  IF n = 0 THEN Got([inner |-> headers], s)
  ELSE LET h == Read(Struct(BlockHeaderReads), s)
       IN IF h.ok THEN ReadHeaders(n - 1, Append(headers, h.val), SubSeq(h.rest, 2, Len(h.rest)))
                  ELSE Failed

HeadersRead(s) == LET n == VarIntRead(s) IN IF n.ok THEN ReadHeaders(n.val, <<>>, n.rest) ELSE Failed

HeadersSize(x) == VarIntSize(Len(x.inner)) + (BlockHeaderSize + 1) * Len(x.inner)

InvWrites == << <<"objects", Items(Struct(InvVectWrites))>> >>
InvRead(s) ==
  LET n == VarIntRead(s)
      objects == IF n.ok /\ n.val <= MaxInv
                   THEN ReadN(Struct(InvVectReads), n.val, <<>>, n.rest) ELSE Failed
  IN IF objects.ok THEN Got([objects |-> objects.val], objects.rest) ELSE Failed
InvSize(x) == VarIntSize(Len(x.objects)) + InvVectSize * Len(x.objects)

BlockLocatorWrites == << <<"version", LE(4)>>, <<"block_locator_hashes", Items(Hash)>>,
                         <<"hash_stop", Hash>> >>
BlockLocatorSize(x) ==
  4 + VarIntSize(Len(x.block_locator_hashes)) + Len(x.block_locator_hashes) * 32 + 32

FilterLocatorWrites == << <<"filter_type", LE(1)>>, <<"start_height", LE(4)>>, <<"hash_stop", Hash>> >>
FilterLocatorSize(x) == 1 + 4 + 32

CompactFilterWrites == << <<"filter_type", LE(1)>>, <<"block_hash", Hash>>, <<"filter_bytes", Bytes>> >>
CompactFilterReads == << <<"filter_type", LE(1)>>, <<"block_hash", Hash>>, <<"filter_bytes", Bytes>> >>
CompactFilterSize(x) == 1 + 32 + VarIntSize(Len(x.filter_bytes)) + Len(x.filter_bytes)

CompactFilterHeaderWrites ==
  << <<"filter_type", LE(1)>>, <<"stop_hash", Hash>>, <<"previous_filter_header", Hash>>,
     <<"filter_hashes", Items(Hash)>> >>
CompactFilterHeaderReads ==
  << <<"filter_type", LE(1)>>, <<"stop_hash", Hash>>, <<"previous_filter_header", Hash>>,
     <<"filter_hashes", Items(Hash)>> >>
CompactFilterHeaderSize(x) ==
  1 + 32 + 32 + VarIntSize(Len(x.filter_hashes)) + Len(x.filter_hashes) * 32

PingWrites == << <<"nonce", LE(8)>> >>
PingReads == << <<"nonce", LE(8)>> >>
PingSize(x) == 8

\* The names "block" and "tx": a rejection of these carries a hash.
WithData == {<<1>>, <<2>>}

RejectWrite(x) ==
  Write(Struct(<< <<"message", Str>>, <<"code", LE(1)>>, <<"reason", Str>> >>), x) \o x.data
RejectRead(s) ==
  LET r == Read(Struct(<< <<"message", Str>>, <<"code", LE(1)>>, <<"reason", Str>> >>), s)
      data == IF r.ok /\ r.val.message \in WithData THEN ReadArray(r.rest, 32)
              ELSE IF r.ok THEN Got(<<>>, r.rest) ELSE Failed
  IN IF ~ data.ok THEN Failed
     ELSE Got([message |-> r.val.message, code |-> r.val.code, reason |-> r.val.reason,
               data |-> data.val], data.rest)
RejectSize(x) ==
  VarIntSize(Len(x.message)) + Len(x.message) + 1
    + VarIntSize(Len(x.reason)) + Len(x.reason) + Len(x.data)

\* relay is 0 or 1 here.
VersionWrites ==
  << <<"version", LE(4)>>, <<"services", LE(8)>>, <<"timestamp", LE(8)>>,
     <<"recv_addr", Struct(NodeAddrWrites)>>, <<"tx_addr", Struct(NodeAddrWrites)>>,
     <<"nonce", LE(8)>>, <<"user_agent", Str>>, <<"start_height", LE(4)>>, <<"relay", LE(1)>> >>
VersionReads ==
  << <<"version", LE(4)>>, <<"services", LE(8)>>, <<"timestamp", LE(8)>>,
     <<"recv_addr", Struct(NodeAddrReads)>>, <<"tx_addr", Struct(NodeAddrReads)>>,
     <<"nonce", LE(8)>>, <<"user_agent", Str>>, <<"start_height", LE(4)>>, <<"relay", LE(1)>> >>
VersionSize(x) ==
  33 + NodeAddrSize + NodeAddrSize + VarIntSize(Len(x.user_agent)) + Len(x.user_agent)

VersionValidate(x) ==
  /\ x.version >= MinVersion
  /\ x.timestamp <= Now + MaxDrift /\ Now <= x.timestamp + MaxDrift

-----------------------------------------------------------------------------
(* The payload of a message m of command m.cmd: Payload<T> of the types of Message *)

\* The payload's write, for a message m that has one.
PayloadWrite(m) ==
  CASE m.cmd = "block" -> BlockWrite(m.val)
    [] m.cmd = "tx" -> TxWrite(m.val)
    [] m.cmd = "headers" -> HeadersWrite(m.val)
    [] m.cmd = "reject" -> RejectWrite(m.val)
    [] m.cmd \in {"getblocks", "getheaders"} -> Write(Struct(BlockLocatorWrites), m.val)
    [] m.cmd \in {"getcfilters", "getcfheaders"} -> Write(Struct(FilterLocatorWrites), m.val)
    [] m.cmd \in {"getdata", "notfound", "inv"} -> Write(Struct(InvWrites), m.val)
    [] m.cmd = "cfheaders" -> Write(Struct(CompactFilterHeaderWrites), m.val)
    [] m.cmd = "cfilter" -> Write(Struct(CompactFilterWrites), m.val)
    [] m.cmd \in {"ping", "pong"} -> Write(Struct(PingWrites), m.val)
    [] m.cmd = "version" -> Write(Struct(VersionWrites), m.val)
    [] m.cmd = "feefilter" -> m.val

\* The payload's size, as announced.
PayloadSize(m) ==
  CASE m.cmd = "block" -> BlockSize(m.val)
    [] m.cmd = "tx" -> TxSize(m.val)
    [] m.cmd = "headers" -> HeadersSize(m.val)
    [] m.cmd = "reject" -> RejectSize(m.val)
    [] m.cmd \in {"getblocks", "getheaders"} -> BlockLocatorSize(m.val)
    [] m.cmd \in {"getcfilters", "getcfheaders"} -> FilterLocatorSize(m.val)
    [] m.cmd \in {"getdata", "notfound", "inv"} -> InvSize(m.val)
    [] m.cmd = "cfheaders" -> CompactFilterHeaderSize(m.val)
    [] m.cmd = "cfilter" -> CompactFilterSize(m.val)
    [] m.cmd \in {"ping", "pong"} -> PingSize(m.val)
    [] m.cmd = "version" -> VersionSize(m.val)
    [] m.cmd = "feefilter" -> Len(m.val)

\* The payload's read, on the bytes of the payload alone; what it leaves is dropped.
PayloadRead(cmd, p) ==
  CASE cmd = "block" -> BlockRead(p)
    [] cmd = "tx" -> TxRead(p)
    [] cmd = "headers" -> HeadersRead(p)
    [] cmd = "reject" -> RejectRead(p)
    [] cmd \in {"getdata", "notfound", "inv"} -> InvRead(p)
    [] cmd = "cfheaders" -> Read(Struct(CompactFilterHeaderReads), p)
    [] cmd = "cfilter" -> Read(Struct(CompactFilterReads), p)
    [] cmd \in {"ping", "pong"} -> Read(Struct(PingReads), p)
    [] cmd = "version" -> LET v == Read(Struct(VersionReads), p)
                          IN IF v.ok /\ VersionValidate(v.val) THEN v ELSE Failed

\* read refuses a version that is too old or whose clock is too far off.
PayloadAccepted(m) == m.cmd # "version" \/ VersionValidate(m.val)

=============================================================================
