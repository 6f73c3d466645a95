---------------------------- MODULE SegmentFile ----------------------------
(***************************************************************************)
(* One segment file of the key-value store, as bytes (crates/kv/src:       *)
(* entry.rs, segment.rs, store.rs).  KvStore has files of whole entries;   *)
(* here are the bytes of entries, a write that stores only a part of its   *)
(* bytes, and a process that ends in the middle of a write.                *)
(***************************************************************************)
EXTENDS Octets

CONSTANTS
  Keys, Values,   \* sequences of bytes
  Times,          \* readings of the wall clock
  Shorts,         \* bound: how many bytes a write may store, unless it stores all of them
  MaxEntries      \* bound: entries written

VARIABLES
  file,       \* the bytes of the file
  offset,     \* current_write_offset
  running,    \* the process that writes the file is alive
  log,        \* history: the writes, with what they should and what they did store
  got         \* the last read and what it returned

fileVars == <<file, offset, running, log, got>>

NotRead == [op |-> "none"]

\* Keys are strings.  No key, and no value with its tombstone, has 4 GB.
ASSUME FileAssumption ==
  /\ Keys \subseteq Seq(Byte) /\ \A k \in Keys : FromUtf8(k) /\ Len(k) < U32
  /\ Values \subseteq Seq(Byte) /\ \A v \in Values : Len(v) + 1 < U32
  /\ Times \subseteq Nat /\ Shorts \subseteq Nat

-----------------------------------------------------------------------------
(* Entries *)

\* Entry::new, Entry::new_preserving_timestamp and Entry::new_deleted_entry
Entries ==
  [key : Keys, value : Values, tombstone : {0}, timestamp : {0} \cup {t \in Times : t < U32}]
    \cup [key : Keys, value : {<<>>}, tombstone : {1}, timestamp : {0}]

\* The clock is read for an entry without a timestamp, and cut to 32 bits.
Stamp(e, now) == IF e.timestamp = 0 THEN now % U32 ELSE e.timestamp

\* Entry::encode.  The size of the value counts the tombstone.
Encode(e, now) ==
  WriteU32(Stamp(e, now)) \o WriteU32(Len(e.key)) \o WriteU32(Len(e.value) + 1)
    \o e.key \o e.value \o <<e.tombstone>>

Panicked == [ok |-> FALSE]

\* An entry, and the offset behind it.
Decoded(e, next) == [ok |-> TRUE, val |-> e, next |-> next]

\* decode_from behind the header.  A slice beyond the end panics, and so does a value without
\* the byte of the tombstone.
DecodeBody(content, at, timestamp, key_size, value_size) ==
  LET value_at == at + key_size
      next == value_at + value_size
  IN IF value_size = 0 \/ next > Len(content) THEN Panicked
     ELSE Decoded([key |-> SubSeq(content, at + 1, value_at),
                   value |-> SubSeq(content, value_at + 1, next - 1),
                   deleted |-> content[next] % 2 = 1, timestamp |-> timestamp], next)

\* decode_from.  (An offset that overflows wraps to one before the slice, which panics too.)
DecodeFrom(content, at) ==
  IF at + 12 > Len(content) THEN Panicked
  ELSE DecodeBody(content, at + 12, ReadU32(content, at), ReadU32(content, at + 4),
                  ReadU32(content, at + 8))

\* Mutant: the length of an entry is where it ends.
MappedToEnd(e, at, next) ==
  [key |-> e.key, value |-> e.value, deleted |-> e.deleted, timestamp |-> e.timestamp,
   key_offset |-> at, entry_length |-> next]

\* MappedStoredEntry: the entry at an offset, with its length.
Mapped(e, at, next) ==
  [key |-> e.key, value |-> e.value, deleted |-> e.deleted, timestamp |-> e.timestamp,
   key_offset |-> at, entry_length |-> next - at]

\* A turn of the loop of decode_multi with the next entry.  A key that is no string panics.
DecodePush(s, d) ==
  IF ~ d.ok \/ ~ FromUtf8(d.val.key) THEN Panicked
  ELSE [ok |-> TRUE, val |-> Append(s.val, Mapped(d.val, s.offset, d.next)), offset |-> d.next]

DecodeTurn(content, s) ==
  IF ~ s.ok \/ s.offset >= Len(content) THEN s ELSE DecodePush(s, DecodeFrom(content, s.offset))

\* decode_multi: where its loop is after n turns, if it gets that far.  Every turn passes a
\* byte, so that there are no more than there are bytes.
DecodeMulti(content) ==
  LET turns[n \in 0 .. Len(content)] ==
        IF n = 0 THEN [ok |-> TRUE, val |-> <<>>, offset |-> 0]
        ELSE DecodeTurn(content, turns[n - 1])
  IN turns[Len(content)]

-----------------------------------------------------------------------------
(* The file *)

FileInit == file = <<>> /\ offset = 0 /\ running = TRUE /\ log = <<>> /\ got = NotRead

\* Descriptor::write of bytes at an offset.  What lies between the end and the offset is zero.
Stored(content, at, bytes) ==
  IF bytes = <<>> THEN content
  ELSE LET end == at + Len(bytes)
       IN [i \in 1 .. (IF end > Len(content) THEN end ELSE Len(content)) |->
             IF i > at /\ i <= end THEN bytes[i - at]
             ELSE IF i <= Len(content) THEN content[i] ELSE 0]

\* The first n of bytes reach the file.
WriteFile(e, now, bytes, n) ==
  /\ file' = Stored(file, offset, SubSeq(bytes, 1, n))
  /\ log' = Append(log, [entry |-> e, stamp |-> Stamp(e, now), at |-> offset,
                         len |-> Len(bytes), stored |-> n])

\* How many of them may do so.
Amounts(bytes) == {Len(bytes)} \cup {n \in Shorts : n < Len(bytes)}

\* Segment::append.  The number of bytes that write returns is not looked at: the offset moves
\* on by the length of the entry.
AppendBytes(e, now) ==
  /\ running /\ Len(log) < MaxEntries
  /\ \E bytes \in {Encode(e, now)} :
       /\ \E n \in Amounts(bytes) : WriteFile(e, now, bytes, n)
       /\ offset' = offset + Len(bytes)
  /\ got' = NotRead
  /\ UNCHANGED running

\* The process ends during a write.
DieInWrite(e, now) ==
  /\ running /\ Len(log) < MaxEntries
  /\ \E bytes \in {Encode(e, now)}, n \in Shorts : n < Len(bytes) /\ WriteFile(e, now, bytes, n)
  /\ running' = FALSE /\ got' = NotRead
  /\ UNCHANGED offset

\* Segment::read_full, during a merge or, once the process was restarted, at start-up.
ReadFull ==
  /\ got = NotRead
  /\ got' = [op |-> "all", res |-> DecodeMulti(file)]
  /\ UNCHANGED <<file, offset, running, log>>

\* Mutant: the last byte, which is the tombstone, is not read.
StoreReadShort(at, size) == SubSeq(file, at + 1, IF at + size < Len(file) THEN at + size - 1 ELSE Len(file))

\* Store::read: at most size bytes, and all of them that the file has.
StoreRead(at, size) == SubSeq(file, at + 1, IF at + size < Len(file) THEN at + size ELSE Len(file))

\* Segment::read of the i-th entry, with the offset and length that append returned.
ReadEntry(i) ==
  /\ running /\ got = NotRead
  /\ got' = [op |-> "one", i |-> i, res |-> DecodeFrom(StoreRead(log[i].at, log[i].len), 0)]
  /\ UNCHANGED <<file, offset, running, log>>

FileNext ==
  \/ \E e \in Entries, now \in Times : AppendBytes(e, now) \/ DieInWrite(e, now)
  \/ ReadFull
  \/ \E i \in 1 .. Len(log) : ReadEntry(i)

FileSpec == FileInit /\ [][FileNext]_fileVars

-----------------------------------------------------------------------------
(* Properties *)

Whole(i) == log[i].stored = log[i].len

\* The entry of the i-th write, as a read should return it.
Told(i) ==
  [key |-> log[i].entry.key, value |-> log[i].entry.value,
   deleted |-> log[i].entry.tombstone = 1, timestamp |-> log[i].stamp]

\* The last write of which something reached the file.
LastStored ==
  CHOOSE i \in 0 .. Len(log) :
    /\ i > 0 => log[i].stored > 0
    /\ \A j \in i + 1 .. Len(log) : log[j].stored = 0

\* A whole read of a segment finds each entry at the offset and with the length that append
\* returned for it, and every entry stored whole as it was written, also behind an entry of
\* which only the header (12 bytes) or some more was stored; that one is read with zeros for
\* the rest.  Where a header is cut and another write follows, nothing is promised.  An entry
\* that is cut at the end of the file, as a process leaves it that ends during a write, is
\* never taken for an entry: the read panics (decode_multi over what Segment::append wrote).
FileTold ==
  got.op = "all" /\ (\A i \in 1 .. LastStored - 1 : log[i].stored >= 12) =>
    IF LastStored > 0 /\ ~ Whole(LastStored) THEN ~ got.res.ok
    ELSE /\ got.res.ok /\ Len(got.res.val) = LastStored
         /\ \A i \in 1 .. LastStored :
              LET e == got.res.val[i]
              IN /\ e.key_offset = log[i].at /\ e.entry_length = log[i].len
                 /\ Whole(i) => \A f \in DOMAIN Told(i) : e[f] = Told(i)[f]

\* An entry stored whole is read back by its offset and length, whatever became of the writes
\* before and after it (Store::append and Store::read).
WholeEntryRead == got.op = "one" /\ Whole(got.i) => got.res.ok /\ got.res.val = Told(got.i)

=============================================================================
