---------------------------- MODULE KvStoreInv ----------------------------
(***************************************************************************)
(* The inductive invariant behind the safety properties of KvStore, for a  *)
(* monotonic clock that never gives the same file id twice.  It is checked *)
(* by TLC with the properties and proved inductive in KvStoreProofs.       *)
(***************************************************************************)
EXTENDS KvStore

Running == pc \notin {"down", "reload"}

\* File ids grow with the clock; a file that does not exist has no entries.
DiskInv ==
  /\ \A f \in disk : f <= mono
  /\ \A f \in FileId \ disk : files[f] = <<>>

\* Every handle is on an existing file, is the only writer of its file, and
\* writes at the end of it.
HandleInv ==
  /\ pc = "down" => /\ inactive = {} /\ offset = 0 /\ cur = 0
                    /\ keyDir = [k \in Key |-> NoEntry]
  /\ pc # "down" =>
       /\ active \in disk
       /\ active \notin inactive
       /\ inactive \subseteq disk
       /\ offset = Len(files[active])
  /\ pc = "reload" => left \subseteq inactive /\ cur \in inactive \cup {0}
  /\ (~Merging /\ pc \notin {"write_back", "remove"}) => fileIds = {}
  /\ fileIds \subseteq inactive
  /\ pc = "write_back" =>
       /\ wbFile \in inactive \ fileIds
       /\ wbOffset = Len(files[wbFile])

MergeLoopInv ==
  /\ Merging =>
       /\ cur \in fileIds
       /\ left \subseteq fileIds \ {cur}
       /\ pos <= Len(files[cur]) + 1
       /\ pc = "take_all" => left = fileIds \ {cur}
  /\ (~Merging /\ pc # "write_back") => valueByKey = {}
  /\ ~Merging => deletedKeys = {}
  /\ \A e1, e2 \in valueByKey : e1.key = e2.key => e1 = e2

\* Pointers, of the directory and of a write-back under way, never name a file
\* that is still to be created, and are sound as long as their file is open.
PointerInv ==
  /\ \A k \in Key : keyDir[k] # NoEntry =>
       /\ keyDir[k].file <= mono
       /\ keyDir[k].file \in Live => Sound(k, keyDir[k])
  /\ \A k \in Key : responses[k] # NoEntry =>
       /\ pc = "write_back"
       /\ responses[k].file \in inactive \ fileIds
       /\ Sound(k, responses[k])
       /\ \A e \in valueByKey : e.key # k

\* Nothing but an insert or a delete puts an entry anywhere, and a kept key has none
\* but those of its inserts.
KeptEntry(e) ==
  /\ e.key \in KeptKey => e.tombstone = 0 /\ <<e.key, e.value>> \in written
  /\ <<e.key, e.value>> \in written \/ e.value = Empty

KeptInv ==
  /\ \A f \in FileId : \A i \in 1 .. Len(files[f]) : KeptEntry(files[f][i])
  /\ \A e \in valueByKey : KeptEntry(e)
  /\ \A e \in deletedKeys : e.key \notin KeptKey
  /\ \A p \in pending : p \in Key \X Value

HasEntry(f, k) == \E i \in 1 .. Len(files[f]) : files[f][i].key = k

\* Start-up is in the middle of a segment and has yet to read an entry of k.
Unread(k) == cur # 0 /\ \E i \in pos .. Len(files[cur]) : files[cur][i].key = k

Inserted(k) == \E v \in Value : <<k, v>> \in written

\* A kept key is never lost: it is on disk, and once start-up has read its
\* segment it is in the directory and points into a segment that is not being
\* removed.
DurableInv ==
  \A k \in KeptKey :
    /\ Inserted(k) => CASE pc = "down"   -> \E f \in disk : HasEntry(f, k)
                        [] pc = "reload" -> \/ keyDir[k] # NoEntry
                                            \/ \E f \in left : HasEntry(f, k)
                                            \/ Unread(k)
                        [] OTHER         -> keyDir[k] # NoEntry
    /\ keyDir[k] # NoEntry => /\ keyDir[k].file \in Live
                              /\ pc = "remove" => keyDir[k].file \notin fileIds

\* Timestamps: no entry is from the future, entries of one key are in order
\* within a file, and the segment being written back has one entry per key.
OrderInv ==
  /\ \A f \in FileId : \A i \in 1 .. Len(files[f]) : files[f][i].timestamp <= wall
  /\ \A f \in FileId : \A i, j \in 1 .. Len(files[f]) :
       i < j /\ files[f][i].key = files[f][j].key
         => files[f][i].timestamp <= files[f][j].timestamp
  /\ \A e \in valueByKey : e.timestamp <= wall
  /\ pc = "write_back" => \A i \in 1 .. Len(files[wbFile]) :
       responses[files[wbFile][i].key] # NoEntry

\* The merged state holds, for every kept key read so far, an entry at least as
\* recent as all those read.
Read(f, i) == f \in fileIds \ left /\ (f = cur => i < pos)

InMergedState(e) ==
  \E m \in valueByKey : m.key = e.key /\ m.timestamp >= e.timestamp

WrittenBack(e) ==
  responses[e.key] # NoEntry /\ EntryAt(responses[e.key]).timestamp >= e.timestamp

MergedInv ==
  \A f \in fileIds : \A i \in 1 .. Len(files[f]) : files[f][i].key \in KeptKey =>
    CASE Merging           -> Read(f, i) => InMergedState(files[f][i])
      [] pc = "write_back" -> InMergedState(files[f][i]) \/ WrittenBack(files[f][i])
      [] OTHER             -> EntryAt(keyDir[files[f][i].key]).timestamp
                                >= files[f][i].timestamp

\* With all segments read, the segments a merge leaves are the ones it wrote, and
\* each of their entries is what the directory points to.
CompactInv ==
  ReadAllSegments =>
    /\ Merging => fileIds = inactive
    /\ pc \in {"write_back", "remove"} =>
         \A f \in inactive \ fileIds : \A i \in 1 .. Len(files[f]) :
           [file |-> f, offset |-> i - 1] =
             IF pc = "remove" THEN keyDir[files[f][i].key] ELSE responses[files[f][i].key]

IInv ==
  /\ TypeOK
  /\ DiskInv
  /\ HandleInv
  /\ MergeLoopInv
  /\ PointerInv
  /\ KeptInv
  /\ DurableInv
  /\ OrderInv
  /\ MergedInv
  /\ CompactInv
=============================================================================
