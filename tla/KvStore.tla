------------------------------ MODULE KvStore ------------------------------
(***************************************************************************)
(* The Bitcask key-value store of crates/kv: append-only segment files, an *)
(* in-memory key directory, and a merge that put() runs by itself after    *)
(* run_merge_every writes.                                                 *)
(*                                                                         *)
(* The component is single threaded, so the only thing that interrupts an  *)
(* operation is the death of the process.  Operations that touch the disk  *)
(* once are one action; merge and start-up, which touch it many times, are *)
(* one action per file or per entry, and Crash may fall between any two.   *)
(*                                                                         *)
(* Abstractions.                                                           *)
(*  - Every encoded entry has length 1: offsets and segment sizes count    *)
(*    entries, and a segment is full after MaxSegmentSize of them.         *)
(*  - A write to a file survives a crash of the process and is not torn.   *)
(*  - The wall clock never goes back; two appends may share a second.      *)
(*  - keyDir, value_by_key and the write-back responses are HashMaps: they *)
(*    are functions or sets here, and iteration order is nondeterministic. *)
(***************************************************************************)
EXTENDS Naturals, Sequences, FiniteSets

CONSTANTS
  Key,             \* keys a client may insert
  Value,           \* values a client may insert
  Empty,           \* the value vec![] that a tombstone carries
  DeletableKey,    \* keys a client may delete (the node deletes none)
  MaxSegmentSize,  \* max_segment_size_in_bytes, in entries
  RunMergeEvery,   \* MergeConfig.run_merge_every
  ReadAllSegments, \* MergeConfig.should_read_all_segments
  SegmentsToRead,  \* MergeConfig.total_segments_to_read
  ClockRestarts,   \* the monotonic clock starts again with the process
  MaxFileId,       \* bound: readings of the monotonic clock
  MaxTime          \* bound: readings of the wall clock

ASSUME ConstantsAssumption ==
  /\ DeletableKey \subseteq Key
  /\ Empty \in Value
  /\ MaxSegmentSize \in Nat \ {0}
  /\ RunMergeEvery \in Nat
  /\ SegmentsToRead \in Nat
  /\ MaxFileId \in Nat
  /\ MaxTime \in Nat \ {0}

ASSUME SwitchesAssumption ==
  /\ ReadAllSegments \in BOOLEAN
  /\ ClockRestarts \in BOOLEAN

VARIABLES
  disk,      \* ids of the segment files that exist in the directory
  files,     \* files[f]: the entries of segment file f
  active,    \* active_segment.file_id
  offset,    \* active_segment.store.current_write_offset
  inactive,  \* keys of inactive_segments
  keyDir,    \* entry_by_key; NoEntry where a key is absent
  counter,   \* writes since the last merge
  wall,      \* the wall clock, in seconds
  mono,      \* last reading of the monotonic clock, the source of file ids
  pc,        \* what the process is doing
  pending,   \* {<<k, v>>} while the put(k, v) that started a merge is in progress
  fileIds,   \* segments being merged
  left,      \* segments the current loop has not read yet
  cur,       \* segment being read by the merge
  pos,       \* next entry of cur
  valueByKey,  \* MergedState.value_by_key, as a set of entries
  deletedKeys, \* MergedState.deleted_keys, as a set of entries
  wbFile,    \* segment write_back appends to
  wbOffset,  \* its current_write_offset
  responses, \* write_back_responses by key; NoEntry where there is none
  written,   \* history: the <<key, value>> pairs ever inserted
  last       \* history: last[k] is {v} after insert(k, v), {} after delete(k)

disk_vars  == <<disk, files, mono, wall>>
mem_vars   == <<active, offset, inactive, keyDir, counter>>
loop_vars  == <<left, cur, pos>>
state_vars == <<valueByKey, deletedKeys>>
wb_vars    == <<wbFile, wbOffset, responses>>
merge_vars == <<pending, fileIds, loop_vars, state_vars, wb_vars>>
ghost_vars == <<written, last>>
vars == <<disk_vars, mem_vars, pc, merge_vars, ghost_vars>>

FileId == 1 .. MaxFileId

Time == 1 .. MaxTime

Entry == [key : Key, value : Value, timestamp : Time, tombstone : {0, 1}]

Pointer == [file : FileId, offset : Nat]

\* File ids start at 1, so no pointer into a file equals NoEntry.
NoEntry == [file |-> 0, offset |-> 0]

PC ==
  {"down", "reload", "idle", "take_all", "merge_with", "write_back", "remove", "append"}

\* Keys that are inserted and never deleted.
KeptKey == Key \ DeletableKey

-----------------------------------------------------------------------------
(* Segment files *)

\* Store::append: a write at the handle's own offset, whatever the file holds.
WriteAt(file, off, entry) ==
  IF off < Len(file) THEN [file EXCEPT ![off + 1] = entry]
                     ELSE Append(file, entry)

\* Store::open with CREATE and without truncation.
OpenFile(f) ==
  /\ disk' = disk \cup {f}
  /\ mono' = f

\* Mutant: the clock has not advanced since the last file id.
NextFileIdRepeats == mono

\* TimestampBasedFileIdGenerator::next
NextFileId == mono + 1

\* The open segments; there is none while the process is down.
Live == (inactive \cup {active}) \cap FileId

\* Segments::read finds the segment of a pointer by its file id.
EntryAt(p) == files[p.file][p.offset + 1]

Sound(k, p) ==
  /\ p.offset < Len(files[p.file])
  /\ EntryAt(p).key = k

GetStatus(k) ==
  IF keyDir[k] = NoEntry THEN "EntryNotFound"
  ELSE IF keyDir[k].file \in Live THEN "Ok" ELSE "FileNotFound"

\* get returns the stored value and does not look at the tombstone.
GetValue(k) == EntryAt(keyDir[k]).value

Init ==
  /\ disk = {}
  /\ files = [f \in FileId |-> <<>>]
  /\ active = 0
  /\ offset = 0
  /\ inactive = {}
  /\ keyDir = [k \in Key |-> NoEntry]
  /\ counter = 0
  /\ wall = 1
  /\ mono = 0
  /\ pc = "down"
  /\ pending = {}
  /\ fileIds = {}
  /\ left = {}
  /\ cur = 0
  /\ pos = 1
  /\ valueByKey = {}
  /\ deletedKeys = {}
  /\ wbFile = 0
  /\ wbOffset = 0
  /\ responses = [k \in Key |-> NoEntry]
  /\ written = {}
  /\ last = [k \in Key |-> {}]
-----------------------------------------------------------------------------
(* Insert and delete *)

\* Segments::maybe_rollover_active_segment: afterwards the active segment is
\* file f with write offset o.
Rollover(f, o) ==
  \/ /\ offset >= MaxSegmentSize
     /\ mono < MaxFileId
     /\ f = NextFileId
     /\ o = 0
     /\ OpenFile(f)
     /\ inactive' = inactive \cup {active}
     /\ active' = f
  \/ /\ offset < MaxSegmentSize
     /\ f = active
     /\ o = offset
     /\ UNCHANGED <<disk, mono, inactive, active>>

\* Segments::append and append_deleted: roll over if the segment is full, then
\* write the entry, stamped with the wall clock.
AppendEntry(k, v, del, f, o) ==
  /\ Rollover(f, o)
  /\ wall' \in {wall, wall + 1} \cap Time
  /\ files' = [files EXCEPT ![f] = WriteAt(@, o,
        [key |-> k, value |-> v, timestamp |-> wall', tombstone |-> del])]
  /\ offset' = o + 1

\* Mutant: the directory is given the offset after the entry.
PutEntryOffsetAfter(k, v) ==
  \E f \in FileId, o \in 0 .. MaxSegmentSize :
    /\ AppendEntry(k, v, 0, f, o)
    /\ keyDir' = [keyDir EXCEPT ![k] = [file |-> f, offset |-> o + 1]]
    /\ written' = written \cup {<<k, v>>}
    /\ last' = [last EXCEPT ![k] = {v}]

\* The append and the key directory update that end put().
PutEntry(k, v) ==
  \E f \in FileId, o \in 0 .. MaxSegmentSize :
    /\ AppendEntry(k, v, 0, f, o)
    /\ keyDir' = [keyDir EXCEPT ![k] = [file |-> f, offset |-> o]]
    /\ written' = written \cup {<<k, v>>}
    /\ last' = [last EXCEPT ![k] = {v}]

MergeDue == counter >= RunMergeEvery

\* The segments read_inactive_segments returns: all of them, or the first
\* total_segments_to_read in the HashMap's order.  (When reading one fails, put
\* returns the error and nothing has changed.)
MergeInput(S) ==
  /\ S \subseteq inactive
  /\ IF ReadAllSegments THEN S = inactive
     ELSE \/ Cardinality(S) = SegmentsToRead
          \/ S = inactive /\ Cardinality(S) < SegmentsToRead

\* begin_merge does nothing with fewer than two segments.
NothingToMerge ==
  \A S \in SUBSET inactive : MergeInput(S) => Cardinality(S) < 2

CounterAfterMerge == IF MergeDue THEN 0 ELSE counter

Put(k, v) ==
  /\ pc = "idle"
  /\ MergeDue => NothingToMerge
  /\ PutEntry(k, v)
  /\ counter' = CounterAfterMerge + 1
  /\ UNCHANGED <<pc, merge_vars>>

\* Mutant: the directory keeps the deleted key.
DeleteKeepsEntry(k) ==
  /\ pc = "idle"
  /\ \E f \in FileId, o \in 0 .. MaxSegmentSize : AppendEntry(k, Empty, 1, f, o)
  /\ last' = [last EXCEPT ![k] = {}]
  /\ UNCHANGED <<keyDir, counter, pc, merge_vars, written>>

Delete(k) ==
  /\ pc = "idle"
  /\ \E f \in FileId, o \in 0 .. MaxSegmentSize : AppendEntry(k, Empty, 1, f, o)
  /\ keyDir' = [keyDir EXCEPT ![k] = NoEntry]
  /\ last' = [last EXCEPT ![k] = {}]
  /\ UNCHANGED <<counter, pc, merge_vars, written>>

\* put and delete return an error: the next segment cannot be opened, or the
\* write fails with the segment already rolled over.
AppendFails ==
  \/ UNCHANGED <<disk, mono, inactive, active, offset>>
  \/ \E f \in FileId, o \in 0 .. MaxSegmentSize : Rollover(f, o) /\ offset' = o

\* Mutant: the directory lets go of the old entry before the append.
PutFailsForgets ==
  /\ pc \in {"idle", "append"}
  /\ pc = "idle" /\ MergeDue => NothingToMerge
  /\ AppendFails
  /\ keyDir' \in {[keyDir EXCEPT ![k] = NoEntry] : k \in Key}
  /\ counter' = CounterAfterMerge
  /\ pc' = "idle"
  /\ pending' = {}
  /\ UNCHANGED <<files, wall, fileIds, loop_vars, state_vars, wb_vars, ghost_vars>>

PutFails ==
  /\ pc \in {"idle", "append"}
  /\ pc = "idle" /\ MergeDue => NothingToMerge
  /\ AppendFails
  /\ counter' = CounterAfterMerge
  /\ pc' = "idle"
  /\ pending' = {}
  /\ UNCHANGED <<files, wall, keyDir, fileIds, loop_vars, state_vars,
                 wb_vars, ghost_vars>>

DeleteFails ==
  /\ pc = "idle"
  /\ AppendFails
  /\ UNCHANGED <<files, wall, keyDir, counter, pc, merge_vars, ghost_vars>>

-----------------------------------------------------------------------------
(* Merge, run by put(k, v) before its own append *)

BeginMerge(k, v) ==
  /\ pc = "idle"
  /\ MergeDue
  /\ \E S \in SUBSET inactive :
       /\ MergeInput(S)
       /\ Cardinality(S) >= 2
       /\ fileIds' = S
       /\ cur' \in S
       /\ left' = S \ {cur'}
  /\ pos' = 1
  /\ pending' = {<<k, v>>}
  /\ pc' = "take_all"
  /\ UNCHANGED <<disk_vars, mem_vars, state_vars, wb_vars, ghost_vars>>

WithKey(entries, k) == {e \in entries : e.key = k}

\* HashMap::insert
Insert(entries, e) == (entries \ WithKey(entries, e.key)) \cup {e}

\* MergedState::take_all, for one entry of the first segment.
TakeEntry(e) ==
  IF e.tombstone = 1
    THEN deletedKeys' = Insert(deletedKeys, e) /\ UNCHANGED valueByKey
    ELSE valueByKey' = Insert(valueByKey, e) /\ UNCHANGED deletedKeys

\* Mutant: the older of two entries is retained.
MaybeUpdateOlder(old, e) ==
  IF \E x \in old : e.timestamp < x.timestamp
    THEN IF e.tombstone = 1 THEN valueByKey \ WithKey(valueByKey, e.key)
                            ELSE Insert(valueByKey, e)
    ELSE valueByKey

\* MergedState::maybe_update
MaybeUpdate(old, e) ==
  IF \E x \in old : e.timestamp > x.timestamp
    THEN IF e.tombstone = 1 THEN valueByKey \ WithKey(valueByKey, e.key)
                            ELSE Insert(valueByKey, e)
    ELSE valueByKey

\* MergedState::merge_with, for one entry of a later segment.
MergeWithEntry(e) ==
  LET existing == WithKey(valueByKey, e.key)
      dead     == WithKey(deletedKeys, e.key)
  IN \/ /\ existing # {}
        /\ valueByKey' = MaybeUpdate(existing, e)
        /\ UNCHANGED deletedKeys
     \/ /\ existing = {}
        /\ dead # {}
        /\ valueByKey' = MaybeUpdate(dead, e)
        /\ deletedKeys' = deletedKeys \ dead
     \/ /\ existing = {}
        /\ dead = {}
        /\ valueByKey' = valueByKey \cup {e}
        /\ UNCHANGED deletedKeys

\* The segment the loop of merge or of start-up is in has been read to its end.
SegmentRead == cur # 0 => pos > Len(files[cur])

Merging == pc \in {"take_all", "merge_with"}

MergeEntry ==
  /\ ~SegmentRead
  /\ \/ pc = "take_all" /\ TakeEntry(files[cur][pos])
     \/ pc = "merge_with" /\ MergeWithEntry(files[cur][pos])
  /\ pos' = pos + 1
  /\ UNCHANGED <<disk_vars, mem_vars, pc, pending, fileIds, left, cur, wb_vars,
                 ghost_vars>>

\* Mutant: a segment that has been read is not taken off the list.
NextSegmentAgain ==
  /\ Merging \/ pc = "reload"
  /\ SegmentRead
  /\ cur' \in left
  /\ pos' = 1
  /\ pc' = IF Merging THEN "merge_with" ELSE pc
  /\ UNCHANGED <<disk_vars, mem_vars, pending, fileIds, left, state_vars, wb_vars,
                 ghost_vars>>

\* These loops take the segments in any order.
NextSegment ==
  /\ Merging \/ pc = "reload"
  /\ SegmentRead
  /\ cur' \in left
  /\ left' = left \ {cur'}
  /\ pos' = 1
  /\ pc' = IF Merging THEN "merge_with" ELSE pc
  /\ UNCHANGED <<disk_vars, mem_vars, pending, fileIds, state_vars, wb_vars,
                 ghost_vars>>

EndLoop == cur' = 0 /\ pos' = 1

\* All segments of the merge have been read.
MergeRead == Merging /\ SegmentRead /\ left = {}

\* Segments::write_back opens a new segment and registers it as inactive.
StartWriteBack ==
  /\ MergeRead
  /\ EndLoop
  /\ mono < MaxFileId
  /\ OpenFile(NextFileId)
  /\ inactive' = inactive \cup {NextFileId}
  /\ wbFile' = NextFileId
  /\ wbOffset' = 0
  /\ deletedKeys' = {}
  /\ pc' = "write_back"
  /\ UNCHANGED <<files, wall, active, offset, keyDir, counter, pending,
                 fileIds, left, valueByKey, responses, ghost_vars>>

\* Entry::new_preserving_timestamp: same key, value and timestamp, not deleted.
Rewritten(e) == [e EXCEPT !.tombstone = 0]

\* One iteration of its loop: a segment that is full after the append is rolled
\* over.
WriteBackEntry(e) ==
  /\ pc = "write_back"
  /\ e \in valueByKey
  /\ files' = [files EXCEPT ![wbFile] = WriteAt(@, wbOffset, Rewritten(e))]
  /\ responses' = [responses EXCEPT ![e.key] = [file |-> wbFile, offset |-> wbOffset]]
  /\ valueByKey' = valueByKey \ {e}
  /\ \/ /\ wbOffset + 1 >= MaxSegmentSize
        /\ mono < MaxFileId
        /\ OpenFile(NextFileId)
        /\ inactive' = inactive \cup {NextFileId}
        /\ wbFile' = NextFileId
        /\ wbOffset' = 0
     \/ /\ wbOffset + 1 < MaxSegmentSize
        /\ wbOffset' = wbOffset + 1
        /\ UNCHANGED <<disk, mono, inactive, wbFile>>
  /\ UNCHANGED <<wall, active, offset, keyDir, counter, pc, pending, fileIds,
                 loop_vars, deletedKeys, ghost_vars>>

\* Mutant: the directory is not told where the merged entries are.
BulkUpdateForgotten == keyDir

\* KeyDirectory::bulk_update: each response replaces the entry of its key.
BulkUpdate ==
  [k \in Key |-> IF responses[k] # NoEntry THEN responses[k] ELSE keyDir[k]]

EndWriteBack ==
  /\ wbFile' = 0
  /\ wbOffset' = 0
  /\ responses' = [k \in Key |-> NoEntry]

FinishWriteBack ==
  /\ pc = "write_back"
  /\ valueByKey = {}
  /\ keyDir' = BulkUpdate
  /\ EndWriteBack
  /\ pc' = "remove"
  /\ UNCHANGED <<disk_vars, active, offset, inactive, counter, pending,
                 fileIds, loop_vars, state_vars, ghost_vars>>

\* Mutant: the merged segments are removed although they were not written back.
WriteBackFailsRemoves ==
  /\ \/ MergeRead /\ UNCHANGED files
     \/ pc = "write_back" /\ valueByKey # {} /\ UNCHANGED files
  /\ EndLoop
  /\ valueByKey' = {}
  /\ deletedKeys' = {}
  /\ EndWriteBack
  /\ fileIds' = {}
  /\ inactive' = inactive \ fileIds
  /\ pc' = "append"
  /\ UNCHANGED <<disk, mono, wall, active, offset, keyDir, counter, pending, left, ghost_vars>>

\* write_back returns an error, which begin_merge ignores: a segment cannot be
\* opened, or an append fails, and the segments written so far stay.
WriteBackFails ==
  /\ \/ MergeRead /\ UNCHANGED files
     \/ /\ pc = "write_back"
        /\ \E e \in valueByKey :
             \/ UNCHANGED files
             \/ /\ wbOffset + 1 >= MaxSegmentSize
                /\ files' = [files EXCEPT ![wbFile] = WriteAt(@, wbOffset, Rewritten(e))]
  /\ EndLoop
  /\ valueByKey' = {}
  /\ deletedKeys' = {}
  /\ EndWriteBack
  /\ fileIds' = {}
  /\ pc' = "append"
  /\ UNCHANGED <<disk, mono, wall, mem_vars, pending, left, ghost_vars>>

\* Mutant: a merged segment stays among the inactive ones.
RemoveSegmentNot(f) ==
  /\ pc = "remove"
  /\ f \in fileIds
  /\ fileIds' = fileIds \ {f}
  /\ UNCHANGED <<disk_vars, mem_vars, pc, pending, loop_vars, state_vars, wb_vars, ghost_vars>>

\* Segments::remove, for one of the merged segments.  The result of the unlink is
\* ignored: the segment is closed even if its file stays.
RemoveSegment(f) ==
  /\ pc = "remove"
  /\ f \in fileIds
  /\ fileIds' = fileIds \ {f}
  /\ inactive' = inactive \ {f}
  /\ \/ disk' = disk \ {f} /\ files' = [files EXCEPT ![f] = <<>>]
     \/ UNCHANGED <<disk, files>>
  /\ UNCHANGED <<mono, wall, active, offset, keyDir, counter, pc, pending,
                 loop_vars, state_vars, wb_vars, ghost_vars>>

FinishMerge ==
  /\ pc = "remove"
  /\ fileIds = {}
  /\ pc' = "append"
  /\ UNCHANGED <<disk_vars, mem_vars, merge_vars, ghost_vars>>

\* The put that started the merge appends its own entry.
AppendPending ==
  /\ pc = "append"
  /\ \E p \in pending : PutEntry(p[1], p[2])
  /\ counter' = 1
  /\ pending' = {}
  /\ pc' = "idle"
  /\ UNCHANGED <<fileIds, loop_vars, state_vars, wb_vars>>

-----------------------------------------------------------------------------
(* Death of the process and start-up *)

Crash ==
  /\ pc # "down"
  /\ pc' = "down"
  /\ active' = 0
  /\ offset' = 0
  /\ inactive' = {}
  /\ keyDir' = [k \in Key |-> NoEntry]
  /\ counter' = 0
  /\ pending' = {}
  /\ fileIds' = {}
  /\ left' = {}
  /\ EndLoop
  /\ valueByKey' = {}
  /\ deletedKeys' = {}
  /\ EndWriteBack
  /\ UNCHANGED <<disk_vars, ghost_vars>>

\* KVStore::new: a new active segment, every other file of the directory an
\* inactive one.
Start ==
  /\ pc = "down"
  /\ \E m \in {mono} \cup (IF ClockRestarts THEN {0} ELSE {}) :
       /\ m < MaxFileId
       /\ active' = m + 1
       /\ OpenFile(m + 1)
  /\ inactive' = disk \ {active'}
  /\ left' = disk \ {active'}
  /\ pc' = "reload"
  /\ UNCHANGED <<files, wall, offset, keyDir, counter, pending, fileIds, cur,
                 pos, state_vars, wb_vars, ghost_vars>>

\* Mutant: the offset of an entry is one too low.
ReloadEntryOffByOne ==
  /\ pc = "reload"
  /\ ~SegmentRead
  /\ pos' = pos + 1
  /\ keyDir' = [keyDir EXCEPT ![files[cur][pos].key] =
                   [file |-> cur, offset |-> pos - 2]]
  /\ UNCHANGED <<disk_vars, active, offset, inactive, counter, pc, pending, fileIds,
                 left, cur, state_vars, wb_vars, ghost_vars>>

\* KeyDirectory::reload of one entry: entries come in file order, tombstones
\* included, and each replaces what the directory holds for its key.
ReloadEntry ==
  /\ pc = "reload"
  /\ ~SegmentRead
  /\ pos' = pos + 1
  /\ keyDir' = [keyDir EXCEPT ![files[cur][pos].key] =
                   [file |-> cur, offset |-> pos - 1]]
  /\ UNCHANGED <<disk_vars, active, offset, inactive, counter, pc, pending, fileIds,
                 left, cur, state_vars, wb_vars, ghost_vars>>

FinishReload ==
  /\ pc = "reload"
  /\ SegmentRead
  /\ left = {}
  /\ EndLoop
  /\ pc' = "idle"
  /\ UNCHANGED <<disk_vars, mem_vars, pending, fileIds, left, state_vars, wb_vars,
                 ghost_vars>>

-----------------------------------------------------------------------------

\* The steps of begin_merge after it has chosen its segments.
MergeStep ==
  \/ MergeEntry
  \/ StartWriteBack
  \/ \E e \in valueByKey : WriteBackEntry(e)
  \/ FinishWriteBack
  \/ WriteBackFails
  \/ \E f \in fileIds : RemoveSegment(f)
  \/ FinishMerge
  \/ AppendPending

StartStep ==
  \/ Start
  \/ ReloadEntry
  \/ FinishReload

ClientStep ==
  \/ \E k \in Key, v \in Value : Put(k, v) \/ BeginMerge(k, v)
  \/ \E k \in DeletableKey : Delete(k)
  \/ PutFails
  \/ DeletableKey # {} /\ DeleteFails

\* One life of the process, and any number of them.
SessionNext == ClientStep \/ MergeStep \/ StartStep \/ NextSegment

Next == SessionNext \/ Crash

SessionSpec == Init /\ [][SessionNext]_vars

Spec == Init /\ [][Next]_vars
-----------------------------------------------------------------------------
(* Properties *)

TypeOK ==
  /\ disk \subseteq FileId
  /\ files \in [FileId -> Seq(Entry)]
  /\ active \in 0 .. MaxFileId
  /\ offset \in Nat
  /\ inactive \subseteq FileId
  /\ keyDir \in [Key -> Pointer \cup {NoEntry}]
  /\ counter \in Nat
  /\ wall \in Time
  /\ mono \in 0 .. MaxFileId
  /\ pc \in PC
  /\ pending \subseteq Key \X Value
  /\ fileIds \subseteq FileId
  /\ left \subseteq FileId
  /\ cur \in 0 .. MaxFileId
  /\ pos \in Nat \ {0}
  /\ valueByKey \subseteq Entry
  /\ deletedKeys \subseteq Entry
  /\ wbFile \in 0 .. MaxFileId
  /\ wbOffset \in Nat
  /\ responses \in [Key -> Pointer \cup {NoEntry}]
  /\ written \subseteq Key \X Value
  /\ last \in [Key -> SUBSET Value]

\* A pointer of the key directory into a segment that is still open is the
\* position of an entry of that very key: get never returns another key's value,
\* and never decodes bytes that are not an entry.
PointersSound ==
  \A k \in Key : keyDir[k].file \in Live => Sound(k, keyDir[k])

\* A key that was inserted and is never deleted can be read whenever the store
\* is open, in the middle of a merge as well, and what get returns is a value
\* that some insert of this key gave it: no merge, failed merge, crash or
\* restart loses the key.  (Which of its values: see ReadsLatest.)
KeptKeysReadable ==
  pc \notin {"down", "reload"} =>
    \A k \in KeptKey : (\E v \in Value : <<k, v>> \in written) =>
      GetStatus(k) = "Ok" /\ <<k, GetValue(k)>> \in written

\* What a merge writes for a key that is never deleted is at least as recent as
\* every entry it is about to remove ("The value of key with the latest
\* timestamp is retained", MergedState::merge_with), whatever the order in which
\* the segments were read.
MergeKeepsNewest ==
  pc = "remove" =>
    \A f \in fileIds : \A i \in 1 .. Len(files[f]) :
      files[f][i].key \in KeptKey =>
        EntryAt(keyDir[files[f][i].key]).timestamp >= files[f][i].timestamp

\* A merge of all the segments leaves one entry per key in the inactive segments.
MergeCompacts ==
  ReadAllSegments /\ pc = "remove" /\ fileIds = {} =>
    \A f, g \in inactive : \A i \in 1 .. Len(files[f]), j \in 1 .. Len(files[g]) :
      files[f][i].key = files[g][j].key => f = g /\ i = j

\* Segment files are append-only logs: no step changes or drops an entry of a file
\* that exists before and after it.
AppendOnlyStep ==
  \A f \in disk \cap disk' : \A i \in 1 .. Len(files[f]) :
    i <= Len(files'[f]) /\ files'[f][i] = files[f][i]

AppendOnly == [][AppendOnlyStep]_vars

\* Between operations, get returns what the last insert wrote, and nothing after
\* a delete.
ReadsLatest ==
  pc = "idle" => \A k \in Key :
    IF last[k] = {} THEN GetStatus(k) = "EntryNotFound"
                    ELSE GetStatus(k) = "Ok" /\ last[k] = {GetValue(k)}
=============================================================================
