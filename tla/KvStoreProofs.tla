--------------------------- MODULE KvStoreProofs ----------------------------
(***************************************************************************)
(* Proofs about KvStore, for every set of keys and values, every segment   *)
(* size and merge configuration and every bound.  The invariant of         *)
(* KvStoreInv is kept by the steps that append to the active segment, by   *)
(* those of a merge, which reads segments, writes the merged state back    *)
(* and removes what it has read, and by death and start-up of the process; *)
(* the theorems are at the end.                                            *)
(***************************************************************************)
EXTENDS KvSession, KvRefinement, TLAPS

\* The fields of an entry that a merge compares.
LEMMA EntryFields == \A x \in Entry : x.key \in Key /\ x.timestamp \in Nat
BY DEF Entry, Time

\* At its end, the write is an append.
LEMMA WriteAtEnd ==
  ASSUME NEW file \in Seq(Entry), NEW off \in Nat, NEW e \in Entry, off = Len(file)
  PROVE  /\ WriteAt(file, off, e) \in Seq(Entry)
         /\ Len(WriteAt(file, off, e)) = Len(file) + 1
         /\ \A i \in 1 .. Len(file) : WriteAt(file, off, e)[i] = file[i]
         /\ WriteAt(file, off, e)[Len(file) + 1] = e
BY DEF WriteAt


-----------------------------------------------------------------------------
(* The initial state *)

\* The invariant holds of a directory nobody has opened yet (before KVStore::new).
LEMMA InitInv == Init => IInv
<1> SUFFICES ASSUME Init PROVE IInv
  OBVIOUS
<1> USE DEF Init
<1>1. TypeOK
  BY ConstantsAssumption DEF ConstantsAssumption, TypeOK, FileId, Time, PC, NoEntry
<1>2. DiskInv
  BY Zenon DEF DiskInv
<1>3. HandleInv
  BY Zenon DEF HandleInv, Merging
<1>4. MergeLoopInv
  BY Zenon DEF MergeLoopInv, Merging
<1>5. PointerInv
  BY Zenon DEF PointerInv
<1>6. KeptInv
  BY DEF KeptInv
<1>7. DurableInv
  BY Zenon DEF DurableInv, Inserted, KeptKey
<1>8. OrderInv
  BY DEF OrderInv
<1>9. MergedInv
  BY Zenon DEF MergedInv
<1>10. CompactInv
  BY Zenon DEF CompactInv, Merging
<1> QED
  BY Zenon, <1>1, <1>2, <1>3, <1>4, <1>5, <1>6, <1>7, <1>8, <1>9, <1>10 DEF IInv

-----------------------------------------------------------------------------
(* What a rollover and an append do *)

\* After a rollover the active segment is f, which exists and is not inactive,
\* and the write offset o is the end of it.
LEMMA RolloverEffect ==
  ASSUME IInv, pc \notin {"down", "reload"}, NEW f \in FileId, NEW o \in Nat,
         Rollover(f, o)
  PROVE  /\ o = Len(files[f])
         /\ f \notin inactive
         /\ active' = f
         /\ disk' \subseteq FileId /\ mono' \in 0 .. MaxFileId /\ inactive' \subseteq FileId
         /\ f \in disk' /\ disk \subseteq disk' /\ disk' \subseteq disk \cup {f}
         /\ mono <= mono' /\ (\A g \in disk' : g <= mono')
         /\ inactive \subseteq inactive' /\ inactive' \subseteq inactive \cup {active}
         /\ f \notin inactive' /\ inactive' \subseteq disk'
         /\ \/ f = active /\ inactive' = inactive
            \/ f = mono + 1 /\ f \notin disk /\ inactive' = inactive \cup {active}
<1>1. /\ disk \subseteq FileId /\ inactive \subseteq disk
      /\ active \in disk /\ active \notin inactive
      /\ mono \in 0 .. MaxFileId
      /\ \A g \in disk : g <= mono
      /\ offset = Len(files[active]) /\ offset \in Nat
  BY Zenon DEF IInv, TypeOK, DiskInv, HandleInv
<1>2. \A g \in FileId \ disk : Len(files[g]) = 0
  BY DEF IInv, DiskInv
<1>3. CASE offset < MaxSegmentSize
  <2>1. f = active /\ o = offset /\ UNCHANGED <<disk, mono, inactive, active>>
    BY <1>1, <1>3, ConstantsAssumption DEF ConstantsAssumption, Rollover
  <2> QED
    BY <1>1, <2>1
<1>4. CASE offset >= MaxSegmentSize
  <2>1. /\ mono < MaxFileId /\ f = mono + 1 /\ o = 0
        /\ disk' = disk \cup {f} /\ mono' = f
        /\ inactive' = inactive \cup {active} /\ active' = f
    BY <1>1, <1>4, ConstantsAssumption
    DEF ConstantsAssumption, Rollover, OpenFile, NextFileId, IInv, TypeOK
  <2>2. f \notin disk
    BY <1>1, <2>1 DEF FileId
  <2>3. o = Len(files[f])
    BY Zenon, <1>2, <2>1, <2>2
  <2> QED
    BY <1>1, <2>1, <2>2, <2>3, ConstantsAssumption DEF ConstantsAssumption, FileId
<1> QED
  BY <1>3, <1>4, ConstantsAssumption DEF ConstantsAssumption, IInv, TypeOK

\* Entry e has been added at the end of file f, and nothing else was written.
Appended(f, e) ==
  /\ files' \in [FileId -> Seq(Entry)]
  /\ \A g \in FileId \ {f} : files'[g] = files[g]
  /\ Len(files'[f]) = Len(files[f]) + 1
  /\ \A i \in 1 .. Len(files[f]) : files'[f][i] = files[f][i]
  /\ files'[f][Len(files[f]) + 1] = e
  /\ \A g \in FileId : \A i \in 1 .. Len(files'[g]) :
       \/ g = f /\ i = Len(files[f]) + 1 /\ files'[g][i] = e
       \/ i \in 1 .. Len(files[g]) /\ files'[g][i] = files[g][i]

\* A Store::append at the end of file f yields the old content followed by the entry.
LEMMA WriteAppends ==
  ASSUME files \in [FileId -> Seq(Entry)], NEW f \in FileId, NEW o \in Nat,
         o = Len(files[f]), NEW e \in Entry,
         files' = [files EXCEPT ![f] = WriteAt(@, o, e)]
  PROVE  Appended(f, e)
<1>1. files[f] \in Seq(Entry)
  OBVIOUS
<1>2. /\ WriteAt(files[f], o, e) \in Seq(Entry)
      /\ Len(WriteAt(files[f], o, e)) = Len(files[f]) + 1
      /\ \A i \in 1 .. Len(files[f]) : WriteAt(files[f], o, e)[i] = files[f][i]
      /\ WriteAt(files[f], o, e)[Len(files[f]) + 1] = e
  BY ZenonT(40), <1>1, WriteAtEnd
<1>3. files'[f] = WriteAt(files[f], o, e)
  OBVIOUS
<1>4. files' \in [FileId -> Seq(Entry)] /\ \A g \in FileId \ {f} : files'[g] = files[g]
  BY Zenon, <1>2
<1>5. ASSUME NEW g \in FileId, NEW i \in 1 .. Len(files'[g])
      PROVE  \/ g = f /\ i = Len(files[f]) + 1 /\ files'[g][i] = e
             \/ i \in 1 .. Len(files[g]) /\ files'[g][i] = files[g][i]
  <2>1. Len(files[f]) \in Nat
    BY Zenon, <1>1
  <2>2. CASE g = f
    BY <1>2, <1>3, <2>1, <2>2
  <2>3. CASE g # f
    BY Zenon, <1>4, <2>3
  <2> QED
    BY Zenon, <2>2, <2>3
<1> QED
  BY Zenon, <1>2, <1>3, <1>4, <1>5 DEF Appended

\* Segments::append adds a well-formed entry at the end of the active segment.
LEMMA AppendEffect ==
  ASSUME IInv, pc \notin {"down", "reload"}, NEW k \in Key, NEW v \in Value,
         NEW del \in {0, 1}, NEW f \in FileId, NEW o \in Nat,
         AppendEntry(k, v, del, f, o)
  PROVE  /\ Rollover(f, o)
         /\ o = Len(files[f])
         /\ wall' \in Time /\ wall <= wall'
         /\ offset' = Len(files'[f])
         /\ \E e \in Entry : /\ e.key = k /\ e.value = v
                             /\ e.timestamp = wall' /\ e.tombstone = del
                             /\ Appended(f, e)
<1>1. Rollover(f, o) /\ o = Len(files[f])
  BY Zenon, RolloverEffect DEF AppendEntry
<1>2. wall \in Time /\ wall' \in Time /\ wall <= wall'
  BY DEF AppendEntry, IInv, TypeOK, Time
<1>3. files \in [FileId -> Seq(Entry)]
  BY Zenon DEF IInv, TypeOK
<1>4. PICK e \in Entry :
        e = [key |-> k, value |-> v, timestamp |-> wall', tombstone |-> del]
  BY Zenon, <1>2 DEF Entry
<1>5. files' = [files EXCEPT ![f] = WriteAt(@, o, e)] /\ offset' = o + 1
  BY Zenon, <1>4 DEF AppendEntry
<1>6. Appended(f, e)
  BY Zenon, <1>1, <1>3, <1>5, WriteAppends
<1>7. e.key = k /\ e.value = v /\ e.timestamp = wall' /\ e.tombstone = del
  BY Zenon, <1>4
<1> QED
  BY Zenon, <1>1, <1>2, <1>5, <1>6, <1>7 DEF Appended

\* A rollover closes no segment and opens at most f, which no pointer names yet.
LEMMA RolloverLive ==
  ASSUME IInv, pc \notin {"down", "reload"}, NEW f \in FileId, NEW o \in Nat,
         Rollover(f, o)
  PROVE  /\ Live \subseteq Live' /\ f \in Live'
         /\ \A k \in Key : /\ keyDir[k].file <= mono
                           /\ keyDir[k].file \in Live' => keyDir[k].file \in Live
<1>1. mono \in 0 .. MaxFileId /\ keyDir \in [Key -> Pointer \cup {NoEntry}]
  BY Zenon DEF IInv, TypeOK
<1>2. \A k \in Key : keyDir[k].file <= mono /\ keyDir[k].file \in 0 .. MaxFileId
  BY <1>1, ConstantsAssumption
  DEF ConstantsAssumption, IInv, PointerInv, NoEntry, Pointer, FileId
<1>3. Live' = (inactive' \cup {f}) \cap FileId /\ Live = (inactive \cup {active}) \cap FileId
  BY Zenon, RolloverEffect DEF Live
<1>4. CASE f = active /\ inactive' = inactive
  BY Zenon, <1>2, <1>3, <1>4
<1>5. CASE f = mono + 1 /\ inactive' = inactive \cup {active}
  BY <1>1, <1>2, <1>3, <1>5 DEF FileId
<1> QED
  BY Zenon, <1>4, <1>5, RolloverEffect

\* Pointers that were sound are sound after an append, and point to the same entry.
LEMMA AppendedSound ==
  ASSUME NEW f \in FileId, NEW e, Appended(f, e), files \in [FileId -> Seq(Entry)],
         NEW p \in Pointer, p.offset < Len(files[p.file])
  PROVE  p.offset < Len(files'[p.file]) /\ files'[p.file][p.offset + 1] = files[p.file][p.offset + 1]
<1>1. p.file \in FileId /\ p.offset \in Nat
  BY Zenon DEF Pointer
<1>2. Len(files[p.file]) \in Nat /\ p.offset + 1 \in 1 .. Len(files[p.file])
  BY <1>1
<1>3. CASE p.file = f
  BY <1>1, <1>2, <1>3 DEF Appended
<1>4. CASE p.file # f
  BY Zenon, <1>1, <1>4 DEF Appended
<1> QED
  BY Zenon, <1>3, <1>4

-----------------------------------------------------------------------------
(* Steps that append to the active segment *)

\* Between merges nothing of a merge is left over.
LEMMA NoMerge ==
  ASSUME IInv, pc \in {"idle", "append"}
  PROVE  /\ fileIds = {} /\ valueByKey = {} /\ deletedKeys = {}
         /\ \A k \in Key : responses[k] = NoEntry
BY Zenon DEF IInv, HandleInv, MergeLoopInv, PointerInv, Merging

\* put and delete: an append, and the directory points to the new entry or
\* forgets the key.
LEMMA AppendKeeps ==
  ASSUME IInv, pc \in {"idle", "append"}, pc' = "idle",
         NEW k \in Key, NEW v \in Value, NEW del \in {0, 1},
         NEW f \in FileId, NEW o \in Nat, AppendEntry(k, v, del, f, o),
         NEW p, keyDir' = [keyDir EXCEPT ![k] = p],
         \/ p = [file |-> f, offset |-> o]
         \/ p = NoEntry /\ k \notin KeptKey,
         k \in KeptKey => del = 0 /\ <<k, v>> \in written',
         <<k, v>> \in written' \/ v = Empty,
         written \subseteq written', written' \subseteq written \cup {<<k, v>>},
         last' \in [Key -> SUBSET Value], counter' \in Nat,
         pending' \subseteq Key \X Value,
         UNCHANGED <<fileIds, loop_vars, state_vars, wb_vars>>
  PROVE  IInv'
<1> USE DEF loop_vars, state_vars, wb_vars
<1>0. pc \notin {"down", "reload"}
  OBVIOUS
<1>1. /\ Rollover(f, o) /\ o = Len(files[f])
      /\ wall' \in Time /\ wall <= wall' /\ offset' = Len(files'[f])
  BY <1>0, AppendEffect
<1>1a. PICK e \in Entry : /\ e.key = k /\ e.value = v
                          /\ e.timestamp = wall' /\ e.tombstone = del
                          /\ Appended(f, e)
  BY <1>0, AppendEffect
<1>2. /\ fileIds' = {} /\ valueByKey' = {} /\ deletedKeys' = {}
      /\ \A k2 \in Key : responses'[k2] = NoEntry
  BY Zenon, NoMerge
<1>3. /\ files \in [FileId -> Seq(Entry)] /\ files' \in [FileId -> Seq(Entry)]
      /\ wall \in Time /\ keyDir \in [Key -> Pointer \cup {NoEntry}]
      /\ mono \in Nat
  <2>1. files' \in [FileId -> Seq(Entry)]
    BY Zenon, <1>1a DEF Appended
  <2> QED
    BY <2>1 DEF IInv, TypeOK
<1>3a. \A g \in FileId : \A i \in 1 .. Len(files'[g]) :
         \/ g = f /\ i = Len(files[f]) + 1 /\ files'[g][i] = e
         \/ i \in 1 .. Len(files[g]) /\ files'[g][i] = files[g][i]
  BY Zenon, <1>1a DEF Appended
<1>4. /\ f \notin inactive' /\ active' = f
      /\ disk' \subseteq FileId /\ mono' \in 0 .. MaxFileId /\ inactive' \subseteq FileId
      /\ f \in disk' /\ disk \subseteq disk'
      /\ mono <= mono' /\ (\A g \in disk' : g <= mono')
      /\ inactive' \subseteq disk'
  BY Zenon, <1>1, RolloverEffect
<1>5. /\ Live \subseteq Live' /\ f \in Live'
      /\ \A k2 \in Key : /\ keyDir[k2].file <= mono
                         /\ keyDir[k2].file \in Live' => keyDir[k2].file \in Live
  BY Zenon, <1>1, RolloverLive
<1>6. TypeOK'
  <2>1. keyDir' \in [Key -> Pointer \cup {NoEntry}]
    BY <1>3 DEF Pointer
  <2>2. written' \subseteq Key \X Value
    BY DEF IInv, TypeOK
  <2>3. offset' \in Nat /\ active' \in 0 .. MaxFileId
    BY <1>1, <1>3, <1>4 DEF FileId
  <2> QED
    BY Zenon, <1>1, <1>3, <1>4, <2>1, <2>2, <2>3 DEF IInv, TypeOK, PC
<1>7. DiskInv'
  BY Zenon, <1>1a, <1>4 DEF IInv, DiskInv, Appended
<1>8. HandleInv'
  BY Zenon, <1>1, <1>2, <1>4 DEF HandleInv, Merging
<1>9. MergeLoopInv'
  BY Zenon, <1>2 DEF MergeLoopInv, Merging
<1>10. PointerInv'
  <2>1. SUFFICES ASSUME NEW k2 \in Key, keyDir'[k2] # NoEntry
                 PROVE  /\ keyDir'[k2].file <= mono'
                        /\ keyDir'[k2].file \in Live' => Sound(k2, keyDir[k2])'
    BY Zenon, <1>2 DEF PointerInv
  <2>2. CASE k2 = k
    <3>1. keyDir'[k2] = [file |-> f, offset |-> o]
      BY Zenon, <1>3, <2>1, <2>2
    <3>2. o < Len(files'[f]) /\ files'[f][o + 1] = e
      BY <1>1, <1>1a, <1>3 DEF Appended
    <3> QED
      BY SMTT(60), <1>1a, <1>3, <1>4, <2>2, <3>1, <3>2 DEF Sound, EntryAt
  <2>3. CASE k2 # k
    <3>1. keyDir'[k2] = keyDir[k2] /\ keyDir[k2] \in Pointer
      BY Zenon, <1>3, <2>1, <2>3
    <3>2. keyDir[k2].file \in Live => Sound(k2, keyDir[k2])
      BY Zenon, <2>1, <3>1 DEF IInv, PointerInv
    <3>3. ASSUME keyDir[k2].file \in Live PROVE Sound(k2, keyDir[k2])'
      BY Zenon, <1>1a, <1>3, <3>1, <3>2, <3>3, AppendedSound DEF Sound, EntryAt
    <3>4. keyDir[k2].file \in Nat /\ mono' \in Nat
      BY <1>4, <3>1 DEF Pointer, FileId
    <3> QED
      BY <1>3, <1>4, <1>5, <3>1, <3>3, <3>4
  <2> QED
    BY Zenon, <2>2, <2>3
<1>11. KeptInv'
  <2>1. ASSUME NEW g \in FileId, NEW i \in 1 .. Len(files'[g])
        PROVE  KeptEntry(files[g][i])'
    <3>1. CASE files'[g][i] = e
      BY Zenon, <1>1a, <3>1 DEF KeptEntry
    <3>2. CASE i \in 1 .. Len(files[g]) /\ files'[g][i] = files[g][i]
      BY Zenon, <3>2 DEF IInv, KeptInv, KeptEntry
    <3> QED
      BY Zenon, <1>3a, <3>1, <3>2
  <2> QED
    BY Zenon, <1>2, <2>1 DEF KeptInv
<1>12. DurableInv'
  <2>1. ASSUME NEW k2 \in KeptKey, Inserted(k2)'
        PROVE  keyDir'[k2] # NoEntry
    <3>1. CASE k2 = k
      BY <1>3, <2>1, <3>1 DEF NoEntry, FileId
    <3>2. CASE k2 # k
      <4>1. Inserted(k2)
        BY Zenon, <2>1, <3>2 DEF Inserted
      <4> QED
        BY Zenon, <1>3, <3>2, <4>1 DEF IInv, DurableInv, KeptKey
    <3> QED
      BY Zenon, <3>1, <3>2
  <2>2. ASSUME NEW k2 \in KeptKey, keyDir'[k2] # NoEntry
        PROVE  keyDir'[k2].file \in Live'
    BY <1>3, <1>5, <2>2 DEF IInv, DurableInv, KeptKey
  <2> QED
    BY Zenon, <2>1, <2>2 DEF DurableInv
<1>13. OrderInv'
  <2>1. \A g \in FileId : \A i \in 1 .. Len(files[g]) :
          files[g][i].timestamp \in Nat /\ files[g][i].timestamp <= wall
    <3>1. \A g \in FileId : \A i \in 1 .. Len(files[g]) : files[g][i] \in Entry
      BY <1>3
    <3> QED
      BY <3>1 DEF IInv, OrderInv, Entry, Time
  <2>2. wall \in Nat /\ wall' \in Nat
    BY <1>1, <1>3 DEF Time
  <2>3. ASSUME NEW g \in FileId, NEW i \in 1 .. Len(files'[g])
        PROVE  files'[g][i].timestamp <= wall'
    <3>1. CASE files'[g][i] = e
      BY SMTT(30), <1>1a, <2>2, <3>1
    <3>2. CASE i \in 1 .. Len(files[g]) /\ files'[g][i] = files[g][i]
      <4>1. files'[g][i].timestamp \in Nat /\ files'[g][i].timestamp <= wall
        BY Zenon, <2>1, <3>2
      <4>2. wall <= wall'
        BY Zenon, <1>1
      <4> QED
        BY SMTT(30), <2>2, <4>1, <4>2
    <3> QED
      BY Zenon, <1>3a, <3>1, <3>2
  <2>4. ASSUME NEW g \in FileId, NEW i \in 1 .. Len(files'[g]), NEW j \in 1 .. Len(files'[g]),
               i < j, files'[g][i].key = files'[g][j].key
        PROVE  files'[g][i].timestamp <= files'[g][j].timestamp
    <3>1. CASE files'[g][j] = e
      BY Zenon, <1>1a, <2>3, <3>1
    <3>2. CASE j \in 1 .. Len(files[g]) /\ files'[g][j] = files[g][j]
      <4>1. i \in 1 .. Len(files[g]) /\ files'[g][i] = files[g][i]
        <5>1. Len(files[g]) \in Nat /\ i # Len(files[g]) + 1
          BY SMTT(60), <1>3, <2>4, <3>2
        <5> QED
          BY Zenon, <1>3a, <5>1
      <4> QED
        BY Zenon, <2>4, <3>2, <4>1 DEF IInv, OrderInv
    <3> QED
      BY Zenon, <1>3a, <3>1, <3>2
  <2> QED
    BY ZenonT(40), <1>2, <2>3, <2>4 DEF OrderInv
<1>14. MergedInv' /\ CompactInv'
  BY Zenon, <1>2 DEF MergedInv, CompactInv, Merging
<1> QED
  BY Zenon, <1>6, <1>7, <1>8, <1>9, <1>10, <1>11, <1>12, <1>13, <1>14 DEF IInv

\* A put or delete that fails leaves at most a new, empty active segment.
LEMMA FailKeeps ==
  ASSUME IInv, pc \in {"idle", "append"}, pc' = "idle", AppendFails,
         counter' \in Nat, pending' \subseteq Key \X Value,
         UNCHANGED <<files, wall, keyDir, fileIds, loop_vars, state_vars, wb_vars,
                     ghost_vars>>
  PROVE  IInv'
<1> USE DEF loop_vars, state_vars, wb_vars, ghost_vars
<1>0. pc \notin {"down", "reload"}
  OBVIOUS
<1>1. /\ fileIds' = {} /\ valueByKey' = {} /\ deletedKeys' = {}
      /\ \A k2 \in Key : responses'[k2] = NoEntry
  BY Zenon, NoMerge
<1>2. /\ disk' \subseteq FileId /\ mono' \in 0 .. MaxFileId /\ inactive' \subseteq FileId
      /\ active' \in disk' /\ active' \notin inactive' /\ disk \subseteq disk'
      /\ mono <= mono' /\ (\A g \in disk' : g <= mono')
      /\ inactive' \subseteq disk'
      /\ offset' = Len(files'[active'])
      /\ Live \subseteq Live'
      /\ \A k \in Key : /\ keyDir[k].file <= mono
                        /\ keyDir[k].file \in Live' => keyDir[k].file \in Live
  <2>1. CASE UNCHANGED <<disk, mono, inactive, active, offset>>
    <3>1. mono \in Nat /\ mono <= mono
      BY DEF IInv, TypeOK
    <3>2. \A k \in Key : keyDir[k].file <= mono
      BY <3>1 DEF IInv, TypeOK, PointerInv, NoEntry
    <3> QED
      BY Zenon, <2>1, <3>1, <3>2 DEF IInv, TypeOK, HandleInv, DiskInv, Live
  <2>2. ASSUME NEW f \in FileId, NEW o \in Nat, Rollover(f, o), offset' = o
        PROVE  <1>2!:
    BY Zenon, <1>0, <2>2, RolloverEffect, RolloverLive
  <2>3. 0 .. MaxSegmentSize \subseteq Nat
    BY ConstantsAssumption DEF ConstantsAssumption
  <2> QED
    BY Zenon, <2>1, <2>2, <2>3 DEF AppendFails
<1>3. TypeOK'
  <2>1. offset' \in Nat /\ active' \in 0 .. MaxFileId
    BY <1>2 DEF IInv, TypeOK, FileId
  <2> QED
    BY ZenonT(40), <1>2, <2>1 DEF IInv, TypeOK, PC
<1>4. DiskInv' /\ HandleInv' /\ MergeLoopInv'
  BY Zenon, <1>1, <1>2 DEF IInv, DiskInv, HandleInv, MergeLoopInv, Merging
<1>5. PointerInv'
  <2>1. ASSUME NEW k \in Key, keyDir[k] # NoEntry
        PROVE  keyDir[k].file <= mono' /\ (keyDir[k].file \in Live' => Sound(k, keyDir[k])')
    <3>1. keyDir[k].file \in Nat /\ mono \in Nat /\ mono' \in Nat
      BY SMTT(30), <1>2 DEF IInv, TypeOK, Pointer, FileId, NoEntry
    <3> QED
      <4>1. keyDir[k].file <= mono /\ (keyDir[k].file \in Live => Sound(k, keyDir[k]))
        BY Zenon, <2>1 DEF IInv, PointerInv
      <4>2. keyDir[k].file <= mono'
        BY <1>2, <3>1, <4>1
      <4> QED
        BY Zenon, <1>2, <4>1, <4>2 DEF Sound, EntryAt
  <2> QED
    BY ZenonT(40), <1>1, <2>1 DEF PointerInv
<1>6. KeptInv'
  BY Zenon, <1>1 DEF IInv, KeptInv, KeptEntry
<1>7. DurableInv'
  BY Zenon, <1>1, <1>2 DEF IInv, DurableInv, Inserted
<1>8. OrderInv'
  BY ZenonT(40), <1>1 DEF IInv, OrderInv
<1>9. MergedInv' /\ CompactInv'
  BY Zenon, <1>1 DEF MergedInv, CompactInv, Merging
<1> QED
  BY Zenon, <1>3, <1>4, <1>5, <1>6, <1>7, <1>8, <1>9 DEF IInv

\* The append and directory update that end KVStore::put keep the invariant.
LEMMA PutEntryStep ==
  ASSUME IInv, pc \in {"idle", "append"}, pc' = "idle",
         NEW k \in Key, NEW v \in Value, PutEntry(k, v), counter' \in Nat,
         pending' \subseteq Key \X Value,
         UNCHANGED <<fileIds, loop_vars, state_vars, wb_vars>>
  PROVE  IInv'
<1>1. PICK f \in FileId, o \in Nat :
           /\ AppendEntry(k, v, 0, f, o)
           /\ keyDir' = [keyDir EXCEPT ![k] = [file |-> f, offset |-> o]]
           /\ written' = written \cup {<<k, v>>}
           /\ last' = [last EXCEPT ![k] = {v}]
  <2>1. 0 .. MaxSegmentSize \subseteq Nat
    BY ConstantsAssumption DEF ConstantsAssumption
  <2> QED
    BY <2>1, Zenon DEF PutEntry
<1>2. PICK p : p = [file |-> f, offset |-> o]
  BY Zenon
<1>3. keyDir' = [keyDir EXCEPT ![k] = p]
  BY Zenon, <1>1, <1>2
<1>4. last' \in [Key -> SUBSET Value]
  BY Zenon, <1>1 DEF IInv, TypeOK
<1>5. <<k, v>> \in written' /\ written \subseteq written' /\ written' \subseteq written \cup {<<k, v>>}
  BY Zenon, <1>1
<1>6. AppendEntry(k, v, 0, f, o) /\ 0 \in {0, 1}
  BY Zenon, <1>1
<1> QED
  BY Zenon, <1>2, <1>3, <1>4, <1>5, <1>6, AppendKeeps

\* KVStore::put without a merge keeps the invariant.
LEMMA PutStep ==
  ASSUME IInv, NEW k \in Key, NEW v \in Value, Put(k, v) PROVE IInv'
<1>1. counter' \in Nat
  BY DEF Put, CounterAfterMerge, IInv, TypeOK
<1>2. pending' \subseteq Key \X Value
  BY Zenon DEF Put, merge_vars, IInv, TypeOK
<1> QED
  BY Zenon, <1>1, <1>2, PutEntryStep DEF Put, merge_vars

\* The append of the put that ran a merge keeps the invariant.
LEMMA AppendPendingStep == ASSUME IInv, AppendPending PROVE IInv'
<1>1. PICK q \in pending : PutEntry(q[1], q[2])
  BY Zenon DEF AppendPending
<1>2. q[1] \in Key /\ q[2] \in Value
  BY Zenon DEF IInv, TypeOK
<1> QED
  BY Zenon, <1>1, <1>2, PutEntryStep DEF AppendPending

\* KVStore::delete keeps the invariant.
LEMMA DeleteStep == ASSUME IInv, NEW k \in DeletableKey, Delete(k) PROVE IInv'
<1>1. PICK f \in FileId, o \in Nat : AppendEntry(k, Empty, 1, f, o)
  BY ConstantsAssumption DEF ConstantsAssumption, Delete
<1>2. k \in Key /\ Empty \in Value /\ k \notin KeptKey
  BY Zenon, ConstantsAssumption DEF ConstantsAssumption, KeptKey
<1>3. PICK p : p = NoEntry
  OBVIOUS
<1>4. keyDir' = [keyDir EXCEPT ![k] = p]
  BY Zenon, <1>3 DEF Delete
<1>5. last' \in [Key -> SUBSET Value] /\ counter' \in Nat /\ pending' \subseteq Key \X Value
  BY Zenon, <1>2 DEF Delete, IInv, TypeOK, merge_vars
<1>6. written' = written /\ pc = "idle" /\ pc' = "idle"
  BY Zenon DEF Delete
<1> QED
  BY Zenon, <1>1, <1>2, <1>3, <1>4, <1>5, <1>6, AppendKeeps DEF Delete, merge_vars

\* A put or a delete that returns an error keeps the invariant.
LEMMA FailsStep == ASSUME IInv, PutFails \/ DeleteFails PROVE IInv'
<1>1. counter' \in Nat
  BY DEF PutFails, DeleteFails, CounterAfterMerge, IInv, TypeOK
<1>2. pending' \subseteq Key \X Value
  BY Zenon DEF PutFails, DeleteFails, IInv, TypeOK, merge_vars
<1> QED
  BY ZenonT(40), <1>1, <1>2, FailKeeps DEF PutFails, DeleteFails, merge_vars

-----------------------------------------------------------------------------
(* Reading the segments of a merge *)

\* Choosing the segments to merge (read_inactive_segments) keeps the invariant.
LEMMA BeginMergeStep ==
  ASSUME IInv, NEW k \in Key, NEW v \in Value, BeginMerge(k, v) PROVE IInv'
<1> USE DEF disk_vars, mem_vars, state_vars, wb_vars, ghost_vars
<1>1. PICK S \in SUBSET inactive :
        /\ MergeInput(S) /\ fileIds' = S /\ cur' \in S /\ left' = S \ {cur'}
  BY Zenon DEF BeginMerge
<1>2. /\ pc = "idle" /\ pc' = "take_all" /\ pos' = 1 /\ pending' = {<<k, v>>}
      /\ UNCHANGED <<disk, files, mono, wall, active, offset, inactive, keyDir, counter,
                     valueByKey, deletedKeys, wbFile, wbOffset, responses, written, last>>
  BY Zenon DEF BeginMerge
<1>3. /\ valueByKey = {} /\ deletedKeys = {} /\ (\A k2 \in Key : responses[k2] = NoEntry)
  BY Zenon, <1>2, NoMerge
<1>4. inactive \subseteq FileId
  BY Zenon DEF IInv, TypeOK
<1>5. TypeOK'
  BY SMTT(60), <1>1, <1>2, <1>4 DEF IInv, TypeOK, PC, FileId
<1>6. DiskInv'
  BY Zenon, <1>2 DEF IInv, DiskInv
<1>7. HandleInv'
  BY Zenon, <1>1, <1>2 DEF IInv, HandleInv, Merging
<1>8. MergeLoopInv'
  <2>1. Len(files[cur']) \in Nat
    BY <1>1, <1>4 DEF IInv, TypeOK
  <2> QED
    BY <1>1, <1>2, <1>3, <2>1 DEF MergeLoopInv, Merging
<1>9. PointerInv'
  BY Zenon, <1>2, <1>3 DEF IInv, PointerInv, Sound, EntryAt, Live
<1>10. KeptInv'
  <2>1. /\ \A f \in FileId : \A i \in 1 .. Len(files'[f]) : KeptEntry(files[f][i])'
        /\ \A e \in valueByKey' : KeptEntry(e)'
        /\ \A e \in deletedKeys' : e.key \notin KeptKey
    BY Zenon, <1>2, <1>3 DEF IInv, KeptInv, KeptEntry
  <2>2. \A p \in pending' : p \in Key \X Value
    BY <1>2
  <2> QED
    BY Zenon, <2>1, <2>2 DEF KeptInv
<1>11. DurableInv'
  BY Zenon, <1>2 DEF IInv, DurableInv, Inserted, Live
<1>12. OrderInv'
  BY Zenon, <1>2, <1>3 DEF IInv, OrderInv
<1>13. MergedInv'
  BY <1>1, <1>2 DEF MergedInv, Read, Merging
<1>14. CompactInv'
  BY Zenon, <1>1, <1>2, SwitchesAssumption DEF SwitchesAssumption, CompactInv, Merging, MergeInput
<1> QED
  BY Zenon, <1>5, <1>6, <1>7, <1>8, <1>9, <1>10, <1>11, <1>12, <1>13, <1>14 DEF IInv

\* What reading entry e into the merged state does.
LEMMA InsertEffect ==
  ASSUME NEW V \in SUBSET Entry, NEW e \in Entry,
         \A a, b \in V : a.key = b.key => a = b
  PROVE  /\ e \in Insert(V, e) /\ Insert(V, e) \subseteq V \cup {e}
         /\ \A m \in V : m.key # e.key => m \in Insert(V, e)
         /\ \A m \in Insert(V, e) : m.key = e.key => m = e
         /\ \A a, b \in Insert(V, e) : a.key = b.key => a = b
BY Zenon DEF Insert, WithKey

\* MergedState::take_all: afterwards the merged state holds the entry, or one of its
\* key that is as recent, and still one entry per key.
LEMMA TakeEntryEffect ==
  ASSUME IInv, NEW e \in Entry, KeptEntry(e), TakeEntry(e)
  PROVE  /\ valueByKey' \subseteq valueByKey \cup {e}
         /\ \A m \in deletedKeys' : m \in deletedKeys \/ (m = e /\ e.key \notin KeptKey)
         /\ \A a, b \in valueByKey' : a.key = b.key => a = b
         /\ \A m \in valueByKey : m.key # e.key => m \in valueByKey'
         /\ e.key \in KeptKey => e \in valueByKey'
<1>1. /\ valueByKey \in SUBSET Entry /\ deletedKeys \in SUBSET Entry
      /\ \A a, b \in valueByKey : a.key = b.key => a = b
  BY Zenon DEF IInv, TypeOK, MergeLoopInv
<1>2. CASE e.tombstone = 1
  <2>1. valueByKey' = valueByKey /\ deletedKeys' \subseteq deletedKeys \cup {e}
    BY Zenon, <1>2 DEF TakeEntry, Insert
  <2>2. e.key \notin KeptKey
    BY <1>2 DEF KeptEntry
  <2> QED
    BY Zenon, <1>1, <2>1, <2>2
<1>3. CASE e.tombstone # 1
  <2>1. valueByKey' = Insert(valueByKey, e) /\ deletedKeys' = deletedKeys
    BY Zenon, <1>3 DEF TakeEntry
  <2> QED
    BY <1>1, <2>1, InsertEffect
<1> QED
  BY Zenon, <1>2, <1>3

\* A later segment's entry of a kept key is kept unless what is there is as recent.
LEMMA MergeWithEffect ==
  ASSUME IInv, NEW e \in Entry, KeptEntry(e), MergeWithEntry(e)
  PROVE  /\ valueByKey' \subseteq valueByKey \cup {e}
         /\ deletedKeys' \subseteq deletedKeys
         /\ \A a, b \in valueByKey' : a.key = b.key => a = b
         /\ \A m \in valueByKey : m.key # e.key => m \in valueByKey'
         /\ e.key \in KeptKey =>
              \E m \in valueByKey' :
                /\ m.key = e.key /\ m.timestamp >= e.timestamp
                /\ \A x \in valueByKey : x.key = e.key => m.timestamp >= x.timestamp
<1> DEFINE existing == WithKey(valueByKey, e.key)
           dead     == WithKey(deletedKeys, e.key)
<1>1. /\ valueByKey \in SUBSET Entry /\ deletedKeys \in SUBSET Entry
      /\ \A a, b \in valueByKey : a.key = b.key => a = b
      /\ \A d \in deletedKeys : d.key \notin KeptKey
  BY Zenon DEF IInv, TypeOK, MergeLoopInv, KeptInv
<1>2. /\ e \in Insert(valueByKey, e) /\ Insert(valueByKey, e) \subseteq valueByKey \cup {e}
      /\ \A m \in valueByKey : m.key # e.key => m \in Insert(valueByKey, e)
      /\ \A a, b \in Insert(valueByKey, e) : a.key = b.key => a = b
  BY Zenon, <1>1, InsertEffect
<1>3. e.key \in KeptKey => e.tombstone = 0
  BY Zenon DEF KeptEntry
<1>4. e.timestamp \in Nat /\ \A x \in valueByKey : x.timestamp \in Nat
  BY <1>1 DEF Entry, Time
<1>5. CASE existing # {}
  <2>1. PICK x \in valueByKey : x.key = e.key
    BY Zenon, <1>5 DEF WithKey
  <2>2. existing = {x}
    BY Zenon, <1>1, <2>1 DEF WithKey
  <2>3. valueByKey' = MaybeUpdate({x}, e) /\ deletedKeys' = deletedKeys
    BY Zenon, <1>5, <2>2 DEF MergeWithEntry
  <2>4. CASE e.timestamp > x.timestamp /\ e.tombstone = 1
    BY <1>1, <1>3, <2>1, <2>3, <2>4 DEF MaybeUpdate, WithKey
  <2>5. CASE e.timestamp > x.timestamp /\ e.tombstone # 1
    <3>1. valueByKey' = Insert(valueByKey, e)
      BY Zenon, <2>3, <2>5 DEF MaybeUpdate
    <3>2. \A y \in valueByKey : y.key = e.key => y = x
      BY Zenon, <1>1, <2>1
    <3>3. /\ e \in valueByKey' /\ e.timestamp >= e.timestamp
          /\ \A y \in valueByKey : y.key = e.key => e.timestamp >= y.timestamp
      BY <1>2, <1>4, <2>5, <3>1, <3>2
    <3> QED
      BY Zenon, <1>2, <2>3, <3>1, <3>3
  <2>6. CASE ~(e.timestamp > x.timestamp)
    <3>1. valueByKey' = valueByKey
      BY Zenon, <2>3, <2>6 DEF MaybeUpdate
    <3>2. \A y \in valueByKey : y.key = e.key => y = x
      BY <1>1, <2>1
    <3>3. /\ x \in valueByKey' /\ x.timestamp >= e.timestamp
          /\ \A y \in valueByKey : y.key = e.key => x.timestamp >= y.timestamp
      BY <1>4, <2>6, <3>1, <3>2
    <3> QED
      BY Zenon, <1>1, <2>1, <2>3, <3>1, <3>3
  <2> QED
    BY Zenon, <2>4, <2>5, <2>6
<1>6. CASE existing = {} /\ dead # {}
  <2>1. e.key \notin KeptKey
    BY Zenon, <1>1, <1>6 DEF WithKey
  <2>2. \A x \in valueByKey : x.key # e.key
    BY Zenon, <1>6 DEF WithKey
  <2>3. valueByKey' = MaybeUpdate(dead, e) /\ deletedKeys' = deletedKeys \ dead
    BY Zenon, <1>6 DEF MergeWithEntry
  <2>4. \/ valueByKey' = valueByKey
        \/ valueByKey' = Insert(valueByKey, e)
        \/ valueByKey' = valueByKey \ WithKey(valueByKey, e.key)
    BY Zenon, <2>3 DEF MaybeUpdate
  <2> QED
    BY Zenon, <1>1, <1>2, <2>1, <2>2, <2>3, <2>4 DEF WithKey
<1>7. CASE existing = {} /\ dead = {}
  <2>1. \A x \in valueByKey : x.key # e.key
    BY Zenon, <1>7 DEF WithKey
  <2>2. valueByKey' = valueByKey \cup {e} /\ deletedKeys' = deletedKeys
    BY Zenon, <1>7 DEF MergeWithEntry
  <2> QED
    BY <1>1, <1>4, <2>1, <2>2
<1> QED
  BY Zenon, <1>5, <1>6, <1>7

\* Reading one entry into the merged state keeps the invariant.
LEMMA MergeEntryStep == ASSUME IInv, MergeEntry PROVE IInv'
<1> USE DEF disk_vars, mem_vars, wb_vars, ghost_vars
<1> DEFINE e == files[cur][pos]
<1>1. /\ pc \in {"take_all", "merge_with"} /\ pc' = pc /\ pos' = pos + 1
      /\ cur # 0 /\ ~(pos > Len(files[cur]))
      /\ UNCHANGED <<disk, files, mono, wall, active, offset, inactive, keyDir, counter,
                     pending, fileIds, left, cur, wbFile, wbOffset, responses, written, last>>
  BY ZenonT(40) DEF MergeEntry, SegmentRead
<1>2. /\ cur \in FileId /\ pos \in 1 .. Len(files[cur]) /\ files[cur] \in Seq(Entry)
      /\ cur \in fileIds /\ pos \in Nat
  BY SMTT(60), <1>1 DEF IInv, TypeOK, HandleInv, MergeLoopInv, Merging, FileId
<1>3. e \in Entry /\ KeptEntry(e) /\ e.timestamp <= wall
  BY <1>2 DEF IInv, KeptInv, OrderInv
<1>4. \/ pc = "take_all" /\ TakeEntry(e)
      \/ pc = "merge_with" /\ MergeWithEntry(e)
  BY Zenon DEF MergeEntry
<1>5. PICK x \in Entry : x = e
  BY Zenon, <1>3
<1> HIDE DEF e
<1>6. /\ valueByKey' \subseteq valueByKey \cup {x}
      /\ \A m \in deletedKeys' : m \in deletedKeys \/ (m = x /\ x.key \notin KeptKey)
      /\ \A a, b \in valueByKey' : a.key = b.key => a = b
      /\ \A m \in valueByKey : m.key # x.key => m \in valueByKey'
  BY ZenonT(40), <1>3, <1>4, <1>5, TakeEntryEffect, MergeWithEffect
<1>7. TypeOK'
  BY SMTT(30), <1>1, <1>2, <1>5, <1>6 DEF IInv, TypeOK
<1>8. DiskInv' /\ HandleInv'
  BY Zenon, <1>1 DEF IInv, DiskInv, HandleInv, Merging
<1>9. MergeLoopInv'
  <2>1. pos + 1 <= Len(files[cur]) + 1
    BY <1>2
  <2> QED
    BY Zenon, <1>1, <1>6, <2>1 DEF IInv, MergeLoopInv, Merging
<1>10. PointerInv'
  BY Zenon, <1>1 DEF IInv, PointerInv, Sound, EntryAt, Live
<1>11. KeptInv'
  BY ZenonT(40), <1>1, <1>3, <1>5, <1>6 DEF IInv, KeptInv, KeptEntry
<1>12. DurableInv'
  BY Zenon, <1>1 DEF IInv, DurableInv, Inserted, Live
<1>13. OrderInv'
  BY Zenon, <1>1, <1>3, <1>5, <1>6 DEF IInv, OrderInv
<1>14. MergedInv'
  <2>1. SUFFICES ASSUME NEW f \in fileIds, NEW i \in 1 .. Len(files[f]),
                        files[f][i].key \in KeptKey, Read(f, i)'
                 PROVE  \E m \in valueByKey' : /\ m.key = files[f][i].key
                                               /\ m.timestamp >= files[f][i].timestamp
    BY ZenonT(40), <1>1 DEF MergedInv, InMergedState, Merging
  <2>2. /\ f \in FileId /\ files[f] \in Seq(Entry) /\ files[f][i] \in Entry
        /\ files[f][i].timestamp \in Nat /\ x.timestamp \in Nat
    <3>1. f \in FileId /\ files[f] \in Seq(Entry)
      BY Zenon DEF IInv, TypeOK
    <3>2. files[f][i] \in Entry
      BY <3>1
    <3>3. \A y \in Entry : y.timestamp \in Nat
      BY SMTT(60) DEF Entry, Time
    <3> QED
      BY Zenon, <3>1, <3>2, <3>3
  <2>3. CASE f = cur /\ i = pos
    <3>1. files[f][i] = x /\ x.key \in KeptKey /\ x.timestamp >= x.timestamp
      BY <1>5, <2>1, <2>2, <2>3 DEF e
    <3> QED
      BY <1>3, <1>4, <1>5, <3>1, TakeEntryEffect, MergeWithEffect
  <2>4. CASE ~(f = cur /\ i = pos)
    <3>1. Read(f, i)
      BY <1>1, <1>2, <2>1, <2>4 DEF Read
    <3>2. PICK m \in valueByKey : m.key = files[f][i].key /\ m.timestamp >= files[f][i].timestamp
      BY Zenon, <1>1, <2>1, <3>1 DEF IInv, MergedInv, InMergedState, Merging
    <3>3. CASE m.key # x.key
      BY Zenon, <1>6, <3>2, <3>3
    <3>4. CASE m.key = x.key /\ pc = "take_all"
      <4>1. f = cur /\ i < pos
        BY Zenon, <1>2, <3>1, <3>4 DEF Read, IInv, MergeLoopInv, Merging
      <4>2. files[f][i].timestamp <= x.timestamp
        BY Zenon, <1>2, <1>5, <3>2, <3>4, <4>1 DEF IInv, OrderInv, e
      <4>3. x \in valueByKey'
        BY ZenonT(40), <1>1, <1>3, <1>4, <1>5, <2>1, <3>2, <3>4, TakeEntryEffect
      <4> QED
        BY Zenon, <2>2, <3>2, <3>4, <4>2, <4>3
    <3>5. CASE m.key = x.key /\ pc = "merge_with"
      <4>1. PICK y \in valueByKey' : y.key = x.key /\ y.timestamp >= m.timestamp
        BY ZenonT(40), <1>1, <1>3, <1>4, <1>5, <2>1, <3>2, <3>5, MergeWithEffect
      <4>2. y.timestamp \in Nat /\ m.timestamp \in Nat
        <5>1. y \in Entry /\ m \in Entry
          BY Zenon, <1>7, <3>2, <4>1 DEF TypeOK, IInv
        <5> QED
          BY <5>1 DEF Entry, Time
      <4> QED
        BY SMTT(30), <2>2, <3>2, <3>5, <4>1, <4>2
    <3> QED
      BY ZenonT(40), <1>1, <3>3, <3>4, <3>5
  <2> QED
    BY Zenon, <2>3, <2>4
<1>15. CompactInv'
  BY Zenon, <1>1 DEF IInv, CompactInv, Merging
<1> QED
  BY Zenon, <1>7, <1>8, <1>9, <1>10, <1>11, <1>12, <1>13, <1>14, <1>15 DEF IInv

\* The next segment of a merge or of start-up.
LEMMA NextSegmentStep == ASSUME IInv, NextSegment PROVE IInv'
<1> USE DEF disk_vars, mem_vars, state_vars, wb_vars, ghost_vars
<1>1. /\ pc \in {"take_all", "merge_with", "reload"}
      /\ cur # 0 => pos > Len(files[cur])
      /\ cur' \in left /\ left' = left \ {cur'} /\ pos' = 1
      /\ pc' = IF pc = "reload" THEN "reload" ELSE "merge_with"
      /\ UNCHANGED <<disk, files, mono, wall, active, offset, inactive, keyDir, counter,
                     pending, fileIds, valueByKey, deletedKeys, wbFile, wbOffset, responses,
                     written, last>>
  BY Zenon DEF NextSegment, Merging, SegmentRead
<1>2. left \subseteq FileId /\ cur' \in FileId /\ files[cur'] \in Seq(Entry) /\ pos \in Nat
  BY ZenonT(40), <1>1 DEF IInv, TypeOK
<1>3. TypeOK'
  BY <1>1, <1>2 DEF IInv, TypeOK, PC, FileId
<1>4. DiskInv' /\ HandleInv'
  BY Zenon, <1>1 DEF IInv, DiskInv, HandleInv, MergeLoopInv, Merging
<1>5. MergeLoopInv'
  <2>1. 1 <= Len(files[cur']) + 1
    BY <1>2
  <2> QED
    BY Zenon, <1>1, <2>1 DEF IInv, MergeLoopInv, Merging
<1>6. PointerInv'
  BY Zenon, <1>1 DEF IInv, PointerInv, Sound, EntryAt, Live
<1>7. KeptInv' /\ OrderInv'
  BY ZenonT(40), <1>1 DEF IInv, KeptInv, KeptEntry, OrderInv
<1>8. DurableInv'
  <2>1. ASSUME NEW k \in KeptKey, Inserted(k), pc = "reload", keyDir[k] = NoEntry
        PROVE  (\E f \in left' : HasEntry(f, k)) \/ Unread(k)'
    <3>1. ~Unread(k)
      BY <1>1, <1>2 DEF Unread, IInv, TypeOK
    <3>2. PICK f \in left : HasEntry(f, k)
      BY ZenonT(40), <2>1, <3>1 DEF IInv, DurableInv
    <3>3. CASE f = cur'
      BY <1>1, <1>2, <3>2, <3>3 DEF HasEntry, Unread, FileId
    <3> QED
      BY ZenonT(40), <1>1, <3>2, <3>3
  <2> QED
    <3>1. ASSUME NEW k \in KeptKey, Inserted(k), pc # "reload"
          PROVE  keyDir[k] # NoEntry
      BY Zenon, <1>1, <3>1 DEF IInv, DurableInv
    <3>2. ASSUME NEW k \in KeptKey, keyDir[k] # NoEntry
          PROVE  keyDir[k].file \in Live'
      BY Zenon, <1>1, <3>2 DEF IInv, DurableInv, Live
    <3>3. \A k \in KeptKey, f \in left : HasEntry(f, k) <=> HasEntry(f, k)'
      BY Zenon, <1>1 DEF HasEntry
    <3>4. \A k \in KeptKey : Inserted(k)' => Inserted(k)
      BY Zenon, <1>1 DEF Inserted
    <3> QED
      BY Zenon, <1>1, <2>1, <3>1, <3>2, <3>3, <3>4 DEF DurableInv
<1>9. MergedInv'
  <2>1. SUFFICES ASSUME pc # "reload", NEW f \in fileIds, NEW i \in 1 .. Len(files[f]),
                        files[f][i].key \in KeptKey, Read(f, i)'
                 PROVE  InMergedState(files[f][i])
    BY ZenonT(40), <1>1 DEF MergedInv, InMergedState, Merging, IInv, HandleInv
  <2>2. Read(f, i)
    <3>1. cur \in fileIds /\ files[cur] \in Seq(Entry) /\ cur # 0 /\ pos > Len(files[cur])
      BY SMTT(60), <1>1, <2>1 DEF IInv, MergeLoopInv, Merging, TypeOK, FileId
    <3>2. f # cur' /\ f \in fileIds \ left
      BY <1>1, <2>1 DEF Read
    <3> QED
      BY SMTT(60), <1>2, <3>1, <3>2 DEF Read
  <2> QED
    BY Zenon, <1>1, <2>1, <2>2 DEF IInv, MergedInv, Merging
<1>10. CompactInv'
  BY Zenon, <1>1 DEF IInv, CompactInv, Merging
<1> QED
  BY ZenonT(40), <1>3, <1>4, <1>5, <1>6, <1>7, <1>8, <1>9, <1>10 DEF IInv

-----------------------------------------------------------------------------
(* Removing the merged segments *)

\* Removing a merged segment, its file unlinked or not, keeps the invariant.
LEMMA RemoveSegmentStep ==
  ASSUME IInv, NEW g \in fileIds, RemoveSegment(g) PROVE IInv'
<1> USE DEF loop_vars, state_vars, wb_vars, ghost_vars
<1>1. /\ pc = "remove" /\ pc' = "remove" /\ fileIds' = fileIds \ {g}
      /\ inactive' = inactive \ {g}
      /\ UNCHANGED <<mono, wall, active, offset, keyDir, counter, pending, left, cur, pos,
                     valueByKey, deletedKeys, wbFile, wbOffset, responses, written, last>>
  BY Zenon DEF RemoveSegment
<1>2. /\ files \in [FileId -> Seq(Entry)] /\ fileIds \subseteq inactive /\ inactive \subseteq disk
      /\ disk \subseteq FileId /\ active \in disk /\ active \notin inactive
      /\ keyDir \in [Key -> Pointer \cup {NoEntry}] /\ g \in FileId /\ g # active
      /\ \A f \in FileId \ disk : files[f] = <<>>
      /\ \A f \in disk : f <= mono
  BY Zenon, <1>1 DEF IInv, TypeOK, HandleInv, DiskInv
<1>3. /\ disk' \subseteq disk /\ disk \ {g} \subseteq disk'
      /\ files' \in [FileId -> Seq(Entry)]
      /\ \A f \in FileId \ {g} : files'[f] = files[f]
      /\ files'[g] = files[g] \/ files'[g] = <<>>
      /\ \A f \in FileId \ disk' : files'[f] = <<>>
  <2>1. CASE disk' = disk \ {g} /\ files' = [files EXCEPT ![g] = <<>>]
    BY <1>2, <2>1
  <2>2. CASE UNCHANGED <<disk, files>>
    BY Zenon, <1>2, <2>2
  <2> QED
    BY ZenonT(40), <2>1, <2>2 DEF RemoveSegment
<1>4. \A f \in FileId : \A i \in 1 .. Len(files'[f]) :
        i \in 1 .. Len(files[f]) /\ files'[f] = files[f]
  <2>1. ASSUME NEW f \in FileId, NEW i \in 1 .. Len(files'[f])
        PROVE  i \in 1 .. Len(files[f]) /\ files'[f] = files[f]
    <3>1. files'[f] # <<>>
      BY <2>1
    <3> QED
      BY Zenon, <1>3, <3>1
  <2> QED
    BY Zenon, <2>1
<1>5. Live' = Live \ {g}
  BY Zenon, <1>1, <1>2 DEF Live
<1>6. TypeOK'
  BY Zenon, <1>1, <1>2, <1>3 DEF IInv, TypeOK
<1>7. DiskInv' /\ HandleInv' /\ MergeLoopInv'
  BY ZenonT(40), <1>1, <1>2, <1>3 DEF IInv, DiskInv, HandleInv, MergeLoopInv, Merging
<1>8. PointerInv'
  <2>1. ASSUME NEW k \in Key, keyDir[k] # NoEntry, keyDir[k].file \in Live'
        PROVE  Sound(k, keyDir[k])'
    <3>1. keyDir[k] \in Pointer /\ Sound(k, keyDir[k]) /\ keyDir[k].file # g
      BY Zenon, <1>2, <1>5, <2>1 DEF IInv, PointerInv
    <3>2. files'[keyDir[k].file] = files[keyDir[k].file]
      BY Zenon, <1>3, <3>1 DEF Pointer
    <3> QED
      BY Zenon, <1>1, <3>1, <3>2 DEF Sound, EntryAt
  <2>2. \A k \in Key : responses'[k] = NoEntry
    BY Zenon, <1>1 DEF IInv, PointerInv
  <2> QED
    BY Zenon, <1>1, <2>1, <2>2 DEF IInv, PointerInv
<1>9. KeptInv'
  BY ZenonT(40), <1>1, <1>4 DEF IInv, KeptInv, KeptEntry
<1>10. OrderInv'
  <2>1. \A f \in FileId : \A i \in 1 .. Len(files'[f]) : files'[f][i].timestamp <= wall
    BY Zenon, <1>4 DEF IInv, OrderInv
  <2>2. \A f \in FileId : \A i, j \in 1 .. Len(files'[f]) :
          i < j /\ files'[f][i].key = files'[f][j].key
            => files'[f][i].timestamp <= files'[f][j].timestamp
    BY Zenon, <1>4 DEF IInv, OrderInv
  <2> QED
    BY Zenon, <1>1, <2>1, <2>2 DEF IInv, OrderInv
<1>11. \A k \in KeptKey : keyDir[k] # NoEntry =>
         keyDir[k].file \in Live /\ keyDir[k].file \notin fileIds
  BY Zenon, <1>1 DEF IInv, DurableInv
<1>12. DurableInv'
  <2>1. \A k \in KeptKey : Inserted(k)' => keyDir[k] # NoEntry
    BY Zenon, <1>1 DEF IInv, DurableInv, Inserted
  <2> QED
    BY Zenon, <1>1, <1>5, <1>11, <2>1 DEF DurableInv
<1>13. MergedInv'
  <2>1. SUFFICES ASSUME NEW f \in fileIds', NEW i \in 1 .. Len(files'[f]),
                        files'[f][i].key \in KeptKey
                 PROVE  EntryAt(keyDir[files[f][i].key])'.timestamp >= files'[f][i].timestamp
    BY Zenon, <1>1 DEF MergedInv, Merging
  <2>2. f \in FileId /\ files'[f] = files[f] /\ i \in 1 .. Len(files[f])
    BY Zenon, <1>1, <1>2, <1>4, <2>1
  <2> DEFINE k == files[f][i].key
  <2>3. k \in KeptKey /\ k \in Key
    BY Zenon, <2>1, <2>2 DEF KeptKey
  <2>4. Inserted(k)
    <3>1. <<k, files[f][i].value>> \in written
      BY ZenonT(40), <2>2, <2>3 DEF IInv, KeptInv, KeptEntry
    <3>2. files[f][i] \in Entry
      BY <1>2, <2>2
    <3>3. files[f][i].value \in Value
      BY Zenon, <3>2 DEF Entry
    <3> QED
      BY Zenon, <3>1, <3>3 DEF Inserted
  <2>5. EntryAt(keyDir[k]).timestamp >= files[f][i].timestamp
    BY Zenon, <1>1, <2>1, <2>2, <2>3 DEF IInv, MergedInv, Merging
  <2> HIDE DEF k
  <2>6. keyDir[k] # NoEntry
    BY Zenon, <1>1, <2>3, <2>4 DEF IInv, DurableInv
  <2>7. keyDir[k].file \in FileId \ {g}
    BY Zenon, <1>11, <2>3, <2>6 DEF Live
  <2>8. files'[keyDir[k].file] = files[keyDir[k].file]
    BY ZenonT(40), <1>3, <2>7
  <2> QED
    BY Zenon, <1>1, <2>2, <2>5, <2>8 DEF EntryAt, k
<1>14. CompactInv'
  <2>1. ASSUME NEW f \in inactive' \ fileIds', NEW i \in 1 .. Len(files'[f])
        PROVE  f \in inactive \ fileIds /\ i \in 1 .. Len(files[f]) /\ files'[f] = files[f]
    BY Zenon, <1>1, <1>2, <1>4, <2>1
  <2>2. ASSUME ReadAllSegments, NEW f \in inactive' \ fileIds', NEW i \in 1 .. Len(files'[f])
        PROVE  [file |-> f, offset |-> i - 1] = keyDir'[files'[f][i].key]
    <3>1. [file |-> f, offset |-> i - 1] = keyDir[files[f][i].key]
      BY <1>1, <2>1, <2>2 DEF IInv, CompactInv
    <3> QED
      BY Zenon, <1>1, <2>1, <3>1
  <2> QED
    BY ZenonT(40), <1>1, <2>2 DEF CompactInv, Merging
<1> QED
  BY Zenon, <1>6, <1>7, <1>8, <1>9, <1>10, <1>12, <1>13, <1>14 DEF IInv

\* The end of begin_merge keeps the invariant.
LEMMA FinishMergeStep == ASSUME IInv, FinishMerge PROVE IInv'
<1> USE DEF disk_vars, mem_vars, merge_vars, loop_vars, state_vars, wb_vars, ghost_vars
<1>1. /\ pc = "remove" /\ pc' = "append" /\ fileIds = {}
      /\ UNCHANGED <<disk, files, mono, wall, active, offset, inactive, keyDir, counter,
                     pending, fileIds, left, cur, pos, valueByKey, deletedKeys, wbFile,
                     wbOffset, responses, written, last>>
  BY Zenon DEF FinishMerge
<1>2. TypeOK' /\ DiskInv' /\ HandleInv' /\ MergeLoopInv'
  BY Zenon, <1>1 DEF IInv, TypeOK, PC, DiskInv, HandleInv, MergeLoopInv, Merging
<1>3. PointerInv'
  BY Zenon, <1>1 DEF IInv, PointerInv, Sound, EntryAt, Live
<1>4. KeptInv' /\ OrderInv'
  BY ZenonT(40), <1>1 DEF IInv, KeptInv, KeptEntry, OrderInv
<1>5. DurableInv'
  <2>1. \A k \in KeptKey : Inserted(k)' => keyDir[k] # NoEntry
    BY Zenon, <1>1 DEF IInv, DurableInv, Inserted
  <2>2. \A k \in KeptKey : keyDir[k] # NoEntry => keyDir[k].file \in Live'
    BY Zenon, <1>1 DEF IInv, DurableInv, Live
  <2> QED
    BY Zenon, <1>1, <2>1, <2>2 DEF DurableInv
<1>6. MergedInv' /\ CompactInv'
  BY ZenonT(40), <1>1 DEF MergedInv, CompactInv, Merging
<1> QED
  BY Zenon, <1>2, <1>3, <1>4, <1>5, <1>6 DEF IInv

-----------------------------------------------------------------------------
(* Writing the merged state back *)

\* A new segment, registered as inactive: no pointer names it and it is empty.
LEMMA OpenEffect ==
  ASSUME IInv, pc # "down", mono < MaxFileId, OpenFile(NextFileId),
         inactive' = inactive \cup {NextFileId}, UNCHANGED active
  PROVE  /\ mono + 1 \in FileId /\ mono + 1 \notin disk /\ mono + 1 \notin inactive
         /\ files[mono + 1] = <<>>
         /\ disk' = disk \cup {mono + 1} /\ mono' = mono + 1 /\ inactive' = inactive \cup {mono + 1}
         /\ mono + 1 # active
         /\ \A f \in disk' : f <= mono'
         /\ Live' = Live \cup {mono + 1}
         /\ \A k \in Key : /\ keyDir[k].file <= mono'
                           /\ keyDir[k].file # mono + 1
<1>1. /\ mono \in 0 .. MaxFileId /\ disk \subseteq FileId /\ (\A f \in disk : f <= mono)
      /\ active \in disk /\ inactive \subseteq disk
      /\ \A f \in FileId \ disk : files[f] = <<>>
      /\ keyDir \in [Key -> Pointer \cup {NoEntry}]
  BY Zenon DEF IInv, TypeOK, DiskInv, HandleInv
<1>2. disk' = disk \cup {mono + 1} /\ mono' = mono + 1 /\ inactive' = inactive \cup {mono + 1}
  BY ZenonT(40) DEF OpenFile, NextFileId
<1>3. mono + 1 \in FileId /\ mono + 1 \notin disk
  BY SMTT(60), <1>1, ConstantsAssumption DEF ConstantsAssumption, FileId
<1>4. \A k \in Key : keyDir[k].file <= mono /\ keyDir[k].file \in Nat
  BY <1>1 DEF IInv, PointerInv, NoEntry, Pointer, FileId
<1>5. Live' = Live \cup {mono + 1}
  BY Zenon, <1>2, <1>3 DEF Live
<1>6. \A f \in disk' : f <= mono'
  BY <1>1, <1>2 DEF FileId
<1> QED
  BY <1>1, <1>2, <1>3, <1>4, <1>5, <1>6

\* Opening the segment that Segments::write_back appends to keeps the invariant.
LEMMA StartWriteBackStep == ASSUME IInv, StartWriteBack PROVE IInv'
<1> USE DEF ghost_vars
<1>1. /\ pc \in {"take_all", "merge_with"} /\ pc' = "write_back"
      /\ cur # 0 => pos > Len(files[cur])
      /\ left = {} /\ cur' = 0 /\ pos' = 1 /\ wbFile' = NextFileId /\ wbOffset' = 0
      /\ deletedKeys' = {}
      /\ UNCHANGED <<files, wall, active, offset, keyDir, counter, pending, fileIds, left,
                     valueByKey, responses, written, last>>
  BY Zenon DEF StartWriteBack, MergeRead, EndLoop, Merging, SegmentRead
<1> DEFINE n == mono + 1
<1>2. /\ n \in FileId /\ n \notin disk /\ n \notin inactive
      /\ files[n] = <<>>
      /\ disk' = disk \cup {n} /\ mono' = n /\ inactive' = inactive \cup {n}
      /\ n # active
      /\ \A f \in disk' : f <= mono'
      /\ Live' = Live \cup {n}
      /\ \A k \in Key : keyDir[k].file <= mono' /\ keyDir[k].file # n
  BY Zenon, <1>1, OpenEffect DEF StartWriteBack
<1>3. wbFile' = n
  BY ZenonT(40), <1>1 DEF NextFileId
<1>4. /\ \A k \in Key : responses[k] = NoEntry
      /\ fileIds \subseteq inactive /\ cur \in fileIds /\ cur \in FileId /\ cur # 0
      /\ pos > Len(files[cur]) /\ files[cur] \in Seq(Entry) /\ pos \in Nat
  BY <1>1 DEF IInv, PointerInv, HandleInv, MergeLoopInv, Merging, TypeOK, FileId
<1> HIDE DEF n
<1>5. TypeOK'
  <2>1. n \in 0 .. MaxFileId /\ 0 \in 0 .. MaxFileId /\ 0 \in Nat /\ 1 \in Nat \ {0}
    BY <1>2, ConstantsAssumption DEF ConstantsAssumption, FileId
  <2>2. disk' \subseteq FileId /\ inactive' \subseteq FileId
    BY Zenon, <1>2 DEF IInv, TypeOK
  <2> QED
    BY ZenonT(40), <1>1, <1>2, <1>3, <2>1, <2>2 DEF IInv, TypeOK, PC
<1>6. DiskInv'
  BY Zenon, <1>1, <1>2 DEF IInv, DiskInv
<1>7. HandleInv'
  <2>1. Len(files[n]) = 0
    BY <1>2
  <2> QED
    BY ZenonT(40), <1>1, <1>2, <1>3, <1>4, <2>1 DEF IInv, HandleInv, Merging
<1>8. MergeLoopInv'
  BY Zenon, <1>1 DEF IInv, MergeLoopInv, Merging
<1>9. PointerInv'
  <2>1. ASSUME NEW k \in Key, keyDir[k] # NoEntry
        PROVE  keyDir[k].file \in Live' => Sound(k, keyDir[k])'
    BY Zenon, <1>1, <1>2, <2>1 DEF IInv, PointerInv, Sound, EntryAt
  <2> QED
    BY Zenon, <1>1, <1>2, <1>4, <2>1 DEF PointerInv
<1>10. KeptInv'
  BY Zenon, <1>1 DEF IInv, KeptInv, KeptEntry
<1>11. DurableInv'
  <2>1. \A k \in KeptKey : Inserted(k)' => keyDir[k] # NoEntry
    BY Zenon, <1>1 DEF IInv, DurableInv, Inserted
  <2>2. \A k \in KeptKey : keyDir[k] # NoEntry => keyDir[k].file \in Live'
    BY Zenon, <1>2 DEF IInv, DurableInv
  <2> QED
    BY Zenon, <1>1, <2>1, <2>2 DEF DurableInv
<1>12. OrderInv'
  <2>1. 1 .. Len(files'[wbFile']) = {}
    BY <1>1, <1>2, <1>3
  <2> QED
    BY ZenonT(40), <1>1, <2>1 DEF IInv, OrderInv
<1>13. MergedInv'
  <2>1. SUFFICES ASSUME NEW f \in fileIds, NEW i \in 1 .. Len(files[f]),
                        files[f][i].key \in KeptKey
                 PROVE  InMergedState(files[f][i])
    BY Zenon, <1>1 DEF MergedInv, InMergedState, Merging
  <2>2. Read(f, i)
    BY <1>1, <1>4 DEF Read
  <2> QED
    BY Zenon, <1>1, <2>1, <2>2 DEF IInv, MergedInv, Merging
<1>14. CompactInv'
  <2>1. ASSUME ReadAllSegments, NEW f \in inactive' \ fileIds, NEW i \in 1 .. Len(files[f])
        PROVE  FALSE
    <3>1. f = n
      BY Zenon, <1>1, <1>2, <2>1 DEF IInv, CompactInv, Merging
    <3> QED
      BY <1>2, <2>1, <3>1
  <2> QED
    BY Zenon, <1>1, <2>1 DEF CompactInv, Merging
<1> QED
  BY Zenon, <1>5, <1>6, <1>7, <1>8, <1>9, <1>10, <1>11, <1>12, <1>13, <1>14 DEF IInv

\* What appending a merged entry to the segment being written does: the entry is
\* of a key that is not in the segment yet.
LEMMA WriteBackEffect ==
  ASSUME IInv, pc = "write_back", NEW e \in valueByKey,
         files' = [files EXCEPT ![wbFile] = WriteAt(@, wbOffset, Rewritten(e))]
  PROVE  \E r \in Entry :
           /\ r.key = e.key /\ r.value = e.value /\ r.timestamp = e.timestamp
           /\ r.tombstone = 0
           /\ wbFile \in FileId /\ wbOffset = Len(files[wbFile]) /\ Appended(wbFile, r)
           /\ \A i \in 1 .. Len(files[wbFile]) : files[wbFile][i].key # e.key
<1>1. /\ wbFile \in FileId /\ wbOffset = Len(files[wbFile]) /\ wbOffset \in Nat
      /\ files \in [FileId -> Seq(Entry)] /\ e \in Entry
  BY Zenon DEF IInv, TypeOK, HandleInv
<1>2. PICK r \in Entry : r = Rewritten(e)
  BY Zenon, <1>1 DEF Rewritten, Entry
<1>3. r.key = e.key /\ r.value = e.value /\ r.timestamp = e.timestamp /\ r.tombstone = 0
  BY Zenon, <1>1, <1>2 DEF Rewritten, Entry
<1>4. Appended(wbFile, r)
  BY Zenon, <1>1, <1>2, WriteAppends
<1>5. ASSUME NEW i \in 1 .. Len(files[wbFile]) PROVE files[wbFile][i].key # e.key
  <2>1. files[wbFile][i] \in Entry
    BY <1>1
  <2>2. files[wbFile][i].key \in Key
    BY Zenon, <2>1 DEF Entry
  <2>3. responses[files[wbFile][i].key] # NoEntry
    BY Zenon DEF IInv, OrderInv
  <2> QED
    BY Zenon, <2>2, <2>3 DEF IInv, PointerInv
<1> QED
  BY Zenon, <1>1, <1>3, <1>4, <1>5

\* An append to the segment being written keeps what the invariant says of files.
LEMMA WriteBackFiles ==
  ASSUME IInv, pc = "write_back", NEW e \in valueByKey,
         NEW r \in Entry, r.key = e.key, r.value = e.value, r.timestamp = e.timestamp,
         r.tombstone = 0, wbFile \in FileId, Appended(wbFile, r),
         \A i \in 1 .. Len(files[wbFile]) : files[wbFile][i].key # e.key,
         wall' = wall, written' = written
  PROVE  /\ \A f \in FileId : \A i \in 1 .. Len(files'[f]) : KeptEntry(files[f][i])'
         /\ \A f \in FileId : \A i \in 1 .. Len(files'[f]) : files'[f][i].timestamp <= wall'
         /\ \A f \in FileId : \A i, j \in 1 .. Len(files'[f]) :
              i < j /\ files'[f][i].key = files'[f][j].key
                => files'[f][i].timestamp <= files'[f][j].timestamp
<1>1. KeptEntry(e) /\ e.timestamp <= wall
  BY Zenon DEF IInv, KeptInv, OrderInv
<1>2. files \in [FileId -> Seq(Entry)]
  BY Zenon DEF IInv, TypeOK
<1>3. \A g \in FileId : \A i \in 1 .. Len(files'[g]) :
         \/ g = wbFile /\ i = Len(files[wbFile]) + 1 /\ files'[g][i] = r
         \/ i \in 1 .. Len(files[g]) /\ files'[g][i] = files[g][i]
  BY Zenon DEF Appended
<1>4. ASSUME NEW f \in FileId, NEW i \in 1 .. Len(files'[f])
      PROVE  KeptEntry(files[f][i])' /\ files'[f][i].timestamp <= wall'
  <2>1. CASE files'[f][i] = r
    BY ZenonT(40), <1>1, <2>1 DEF KeptEntry
  <2>2. CASE i \in 1 .. Len(files[f]) /\ files'[f][i] = files[f][i]
    <3>1. KeptEntry(files[f][i]) /\ files[f][i].timestamp <= wall
      BY Zenon, <2>2 DEF IInv, KeptInv, OrderInv
    <3> QED
      BY Zenon, <2>2, <3>1 DEF KeptEntry
  <2> QED
    BY Zenon, <1>3, <2>1, <2>2
<1>5. ASSUME NEW f \in FileId, NEW i \in 1 .. Len(files'[f]), NEW j \in 1 .. Len(files'[f]),
             i < j, files'[f][i].key = files'[f][j].key
      PROVE  files'[f][i].timestamp <= files'[f][j].timestamp
  <2>1. Len(files[f]) \in Nat
    BY SMTT(60), <1>2
  <2>2. i \in 1 .. Len(files[f]) /\ files'[f][i] = files[f][i]
    <3>1. j = Len(files[f]) + 1 \/ j \in 1 .. Len(files[f])
      BY Zenon, <1>3
    <3>2. i # Len(files[f]) + 1
      BY <1>5, <2>1, <3>1
    <3> QED
      BY ZenonT(40), <1>3, <3>2
  <2>3. CASE j \in 1 .. Len(files[f]) /\ files'[f][j] = files[f][j]
    BY Zenon, <1>5, <2>2, <2>3 DEF IInv, OrderInv
  <2>4. CASE f = wbFile /\ files'[f][j] = r
    BY Zenon, <1>5, <2>2, <2>4
  <2> QED
    BY Zenon, <1>3, <2>3, <2>4
<1> QED
  BY Zenon, <1>4, <1>5

\* One iteration of the loop of Segments::write_back keeps the invariant.
LEMMA WriteBackEntryStep ==
  ASSUME IInv, NEW e \in valueByKey, WriteBackEntry(e) PROVE IInv'
<1> USE DEF loop_vars, ghost_vars
<1>1. /\ pc = "write_back" /\ pc' = "write_back"
      /\ files' = [files EXCEPT ![wbFile] = WriteAt(@, wbOffset, Rewritten(e))]
      /\ responses' = [responses EXCEPT ![e.key] = [file |-> wbFile, offset |-> wbOffset]]
      /\ valueByKey' = valueByKey \ {e}
      /\ UNCHANGED <<wall, active, offset, keyDir, counter, pending, fileIds, left, cur, pos,
                     deletedKeys, written, last>>
  BY Zenon DEF WriteBackEntry
<1>2. PICK r \in Entry :
        /\ r.key = e.key /\ r.value = e.value /\ r.timestamp = e.timestamp
        /\ r.tombstone = 0
        /\ wbFile \in FileId /\ wbOffset = Len(files[wbFile]) /\ Appended(wbFile, r)
        /\ \A i \in 1 .. Len(files[wbFile]) : files[wbFile][i].key # e.key
  BY ZenonT(40), <1>1, WriteBackEffect
<1>3. /\ files \in [FileId -> Seq(Entry)] /\ files' \in [FileId -> Seq(Entry)]
      /\ Len(files'[wbFile]) = Len(files[wbFile]) + 1
      /\ \A g \in FileId \ {wbFile} : files'[g] = files[g]
      /\ e \in Entry /\ e.key \in Key /\ responses \in [Key -> Pointer \cup {NoEntry}]
      /\ wbOffset \in Nat /\ wbFile \in inactive /\ wbFile \notin fileIds
      /\ active \in disk /\ active \notin inactive /\ inactive \subseteq disk
      /\ disk \subseteq FileId /\ fileIds \subseteq inactive /\ mono \in Nat
      /\ keyDir \in [Key -> Pointer \cup {NoEntry}]
      /\ \A f \in disk : f <= mono
      /\ \A f \in FileId \ disk : files[f] = <<>>
      /\ \A k \in Key : keyDir[k].file <= mono
  <2>1. \A x \in Entry : x.key \in Key
    BY ZenonT(40) DEF Entry
  <2>2. \A k \in Key : keyDir[k].file <= mono
    BY DEF IInv, TypeOK, PointerInv, NoEntry
  <2>3. mono \in Nat /\ wbOffset \in Nat
    BY DEF IInv, TypeOK
  <2>4. files' \in [FileId -> Seq(Entry)] /\ Len(files'[wbFile]) = Len(files[wbFile]) + 1
        /\ \A g \in FileId \ {wbFile} : files'[g] = files[g]
    BY Zenon, <1>2 DEF Appended
  <2>5. /\ files \in [FileId -> Seq(Entry)] /\ responses \in [Key -> Pointer \cup {NoEntry}]
        /\ keyDir \in [Key -> Pointer \cup {NoEntry}] /\ disk \subseteq FileId /\ e \in Entry
    BY Zenon DEF IInv, TypeOK
  <2>6. pc # "down"
    BY <1>1
  <2>7. /\ wbFile \in inactive /\ wbFile \notin fileIds /\ active \in disk
        /\ active \notin inactive /\ inactive \subseteq disk /\ fileIds \subseteq inactive
        /\ \A f \in disk : f <= mono
        /\ \A f \in FileId \ disk : files[f] = <<>>
    BY Zenon, <1>1, <2>6 DEF IInv, HandleInv, DiskInv
  <2> QED
    BY Zenon, <2>1, <2>2, <2>3, <2>4, <2>5, <2>7
<1>4. \A g \in FileId : \A i \in 1 .. Len(files'[g]) :
         \/ g = wbFile /\ i = Len(files[wbFile]) + 1 /\ files'[g][i] = r
         \/ i \in 1 .. Len(files[g]) /\ files'[g][i] = files[g][i]
  BY Zenon, <1>2 DEF Appended
\* The segment written to next is the same one, or a new and empty one.
<1>5. /\ disk \subseteq disk' /\ disk' \subseteq FileId /\ mono' \in 0 .. MaxFileId /\ mono <= mono'
      /\ \A f \in disk' : f <= mono'
      /\ inactive \subseteq inactive' /\ inactive' \subseteq disk'
      /\ active \notin inactive'
      /\ Live \subseteq Live'
      /\ \A k \in Key : keyDir[k].file \in Live' => keyDir[k].file \in Live
      /\ wbFile' \in inactive' \ fileIds /\ wbOffset' = Len(files'[wbFile']) /\ wbOffset' \in Nat
      /\ wbFile' = wbFile \/ files'[wbFile'] = <<>>
      /\ \A f \in inactive' : f \in inactive \/ files'[f] = <<>>
  <2>1. CASE UNCHANGED <<disk, mono, inactive, wbFile>> /\ wbOffset' = wbOffset + 1
    BY SMTT(60), <1>1, <1>2, <1>3, <2>1 DEF IInv, TypeOK, Live
  <2>2. CASE /\ mono < MaxFileId /\ OpenFile(NextFileId)
             /\ inactive' = inactive \cup {NextFileId}
             /\ wbFile' = NextFileId /\ wbOffset' = 0
    <3> DEFINE n == mono + 1
    <3>1. /\ n \in FileId /\ n \notin disk /\ n \notin inactive
          /\ files[n] = <<>>
          /\ disk' = disk \cup {n} /\ mono' = n /\ inactive' = inactive \cup {n}
          /\ n # active
          /\ \A f \in disk' : f <= mono'
          /\ Live' = Live \cup {n}
          /\ \A k \in Key : keyDir[k].file <= mono' /\ keyDir[k].file # n
      BY Zenon, <1>1, <2>2, OpenEffect
    <3>2. wbFile' = n /\ wbOffset' = 0 /\ mono <= n
      BY SMTT(60), <1>3, <2>2 DEF NextFileId
    <3> HIDE DEF n
    <3>3. files'[n] = <<>> /\ Len(files'[n]) = 0 /\ n \in 0 .. MaxFileId
      BY <1>3, <3>1 DEF FileId
    <3> QED
      BY Zenon, <1>3, <3>1, <3>2, <3>3
  <2> QED
    BY ZenonT(40), <2>1, <2>2 DEF WriteBackEntry
<1>6. /\ \A f \in FileId : \A i \in 1 .. Len(files'[f]) : KeptEntry(files[f][i])'
      /\ \A f \in FileId : \A i \in 1 .. Len(files'[f]) : files'[f][i].timestamp <= wall'
      /\ \A f \in FileId : \A i, j \in 1 .. Len(files'[f]) :
           i < j /\ files'[f][i].key = files'[f][j].key
             => files'[f][i].timestamp <= files'[f][j].timestamp
  BY ZenonT(40), <1>1, <1>2, WriteBackFiles
<1>7. /\ responses'[e.key] = [file |-> wbFile, offset |-> wbOffset]
      /\ responses'[e.key] # NoEntry /\ responses'[e.key] \in Pointer
      /\ \A k \in Key \ {e.key} : responses'[k] = responses[k]
      /\ responses[e.key] = NoEntry
  <2>1. responses[e.key] = NoEntry
    BY ZenonT(40), <1>3 DEF IInv, PointerInv
  <2> QED
    BY <1>1, <1>2, <1>3, <2>1 DEF NoEntry, FileId, Pointer
<1>8. TypeOK'
  <2>1. responses' \in [Key -> Pointer \cup {NoEntry}]
    BY ZenonT(40), <1>1, <1>3, <1>7
  <2>2. disk' \subseteq FileId /\ inactive' \subseteq FileId /\ wbFile' \in 0 .. MaxFileId
    <3>1. wbFile' \in FileId
      BY Zenon, <1>5
    <3>2. wbFile' \in 0 .. MaxFileId
      BY <3>1 DEF FileId
    <3>3. disk' \subseteq FileId /\ inactive' \subseteq FileId
      BY Zenon, <1>5
    <3> QED
      BY Zenon, <3>2, <3>3
  <2>3. valueByKey' \subseteq Entry
    BY Zenon, <1>1 DEF IInv, TypeOK
  <2> QED
    BY ZenonT(40), <1>1, <1>3, <1>5, <2>1, <2>2, <2>3 DEF IInv, TypeOK, PC
<1>9. DiskInv'
  <2>1. wbFile \in disk'
    BY Zenon, <1>3, <1>5
  <2> QED
    BY Zenon, <1>3, <1>5, <2>1 DEF DiskInv
<1>10. HandleInv'
  <2>1. active # wbFile /\ active \in FileId
    BY Zenon, <1>3
  <2>2. offset = Len(files[active])
    BY Zenon, <1>1 DEF IInv, HandleInv
  <2> QED
    BY Zenon, <1>1, <1>3, <1>5, <2>1, <2>2 DEF HandleInv, Merging
<1>11. MergeLoopInv'
  BY Zenon, <1>1 DEF IInv, MergeLoopInv, Merging
<1>12. PointerInv'
  <2>1. ASSUME NEW p \in Pointer, NEW k \in Key, Sound(k, p)
        PROVE  p.offset < Len(files'[p.file]) /\ files'[p.file][p.offset + 1].key = k
    BY Zenon, <1>2, <1>3, <2>1, AppendedSound DEF Sound, EntryAt
  <2>2. ASSUME NEW k \in Key, keyDir[k] # NoEntry
        PROVE  /\ keyDir[k].file <= mono'
               /\ keyDir[k].file \in Live' => Sound(k, keyDir[k])'
    <3>1. keyDir[k] \in Pointer /\ keyDir[k].file \in Nat /\ mono' \in Nat
      BY SMTT(60), <1>3, <1>5, <2>2 DEF Pointer, FileId
    <3>2. keyDir[k].file <= mono'
      BY SMTT(30), <1>3, <1>5, <3>1
    <3>3. ASSUME keyDir[k].file \in Live' PROVE Sound(k, keyDir[k])'
      <4>1. Sound(k, keyDir[k])
        BY Zenon, <1>5, <2>2, <3>3 DEF IInv, PointerInv
      <4> QED
        BY Zenon, <1>1, <2>1, <3>1, <4>1 DEF Sound, EntryAt
    <3> QED
      BY ZenonT(40), <3>2, <3>3
  <2>3. ASSUME NEW k \in Key, responses'[k] # NoEntry
        PROVE  /\ responses'[k].file \in inactive' \ fileIds
               /\ Sound(k, responses[k])'
               /\ \A x \in valueByKey' : x.key # k
    <3>1. CASE k = e.key
      <4>1. Sound(k, responses[k])'
        BY SMTT(60), <1>2, <1>3, <1>7, <3>1 DEF Sound, EntryAt, Appended
      <4>2. \A x \in valueByKey' : x.key # k
        BY ZenonT(40), <1>1, <3>1 DEF IInv, MergeLoopInv
      <4>3. responses'[k].file = wbFile
        BY <1>7, <3>1
      <4> QED
        BY ZenonT(40), <1>3, <1>5, <4>1, <4>2, <4>3
    <3>2. CASE k # e.key
      <4>1. responses'[k] = responses[k] /\ responses[k] \in Pointer
        BY <1>3, <1>7, <2>3, <3>2
      <4>2. /\ responses[k].file \in inactive \ fileIds
            /\ Sound(k, responses[k])
            /\ \A x \in valueByKey : x.key # k
        BY ZenonT(40), <2>3, <4>1 DEF IInv, PointerInv
      <4>3. Sound(k, responses[k])'
        BY ZenonT(40), <2>1, <4>1, <4>2 DEF Sound, EntryAt
      <4> QED
        BY ZenonT(40), <1>1, <1>5, <4>1, <4>2, <4>3
    <3> QED
      BY ZenonT(40), <3>1, <3>2
  <2> QED
    BY Zenon, <1>1, <2>2, <2>3 DEF PointerInv
<1>13. KeptInv'
  BY Zenon, <1>1, <1>6 DEF IInv, KeptInv, KeptEntry
<1>14. DurableInv'
  <2>1. \A k \in KeptKey : Inserted(k)' => keyDir[k] # NoEntry
    BY ZenonT(40), <1>1 DEF IInv, DurableInv, Inserted
  <2>2. \A k \in KeptKey : keyDir[k] # NoEntry => keyDir[k].file \in Live'
    BY ZenonT(40), <1>5 DEF IInv, DurableInv
  <2> QED
    BY Zenon, <1>1, <2>1, <2>2 DEF DurableInv
<1>15. OrderInv'
  <2>1. ASSUME NEW i \in 1 .. Len(files'[wbFile'])
        PROVE  responses'[files'[wbFile'][i].key] # NoEntry
    <3>1. wbFile' = wbFile
      <4>1. files'[wbFile'] # <<>>
        BY SMTT(30)
      <4> QED
        BY ZenonT(40), <1>5, <4>1
    <3>2. CASE i \in 1 .. Len(files[wbFile]) /\ files'[wbFile][i] = files[wbFile][i]
      <4>1. files[wbFile][i] \in Entry
        BY <1>2, <1>3, <3>2
      <4>2. files[wbFile][i].key \in Key \ {e.key}
        BY ZenonT(40), <1>2, <3>2, <4>1 DEF Entry
      <4>3. responses[files[wbFile][i].key] # NoEntry
        BY ZenonT(40), <1>1, <3>2 DEF IInv, OrderInv
      <4>4. responses'[files[wbFile][i].key] = responses[files[wbFile][i].key]
        BY Zenon, <1>7, <4>2
      <4> QED
        BY ZenonT(40), <3>1, <3>2, <4>3, <4>4
    <3>3. CASE files'[wbFile][i] = r
      BY Zenon, <1>2, <1>7, <3>1, <3>3
    <3> QED
      BY ZenonT(40), <1>2, <1>4, <3>1, <3>2, <3>3
  <2> QED
    BY ZenonT(40), <1>1, <1>6, <2>1 DEF IInv, OrderInv
<1>16. MergedInv'
  <2>1. SUFFICES ASSUME NEW f \in fileIds, NEW i \in 1 .. Len(files'[f]),
                        files'[f][i].key \in KeptKey
                 PROVE  InMergedState(files[f][i])' \/ WrittenBack(files[f][i])'
    BY ZenonT(40), <1>1 DEF MergedInv, Merging
  <2>2. f \in FileId /\ files'[f] = files[f] /\ files[f][i] \in Entry
    BY SMTT(30), <1>3, <2>1
  <2>3. files[f][i].key \in Key /\ files[f][i].timestamp \in Nat
    BY Zenon, <2>2, EntryFields
  <2>4. CASE InMergedState(files[f][i])
    <3>1. PICK m \in valueByKey : m.key = files[f][i].key /\ m.timestamp >= files[f][i].timestamp
      BY Zenon, <2>4 DEF InMergedState
    <3>2. CASE m = e
      <4>1. files'[wbFile][wbOffset + 1] = r
        BY Zenon, <1>2 DEF Appended
      <4>2. WrittenBack(files[f][i])'
        <5>1. files'[f][i].key = e.key /\ e.timestamp >= files'[f][i].timestamp
          BY ZenonT(40), <2>2, <3>1, <3>2
        <5>2. responses'[e.key].file = wbFile /\ responses'[e.key].offset = wbOffset
          BY <1>7
        <5>3. files'[responses'[e.key].file][responses'[e.key].offset + 1].timestamp = e.timestamp
          BY Zenon, <1>2, <4>1, <5>2
        <5> QED
          BY Zenon, <1>7, <5>1, <5>3 DEF WrittenBack, EntryAt
      <4> QED
        BY Zenon, <4>2
    <3>3. CASE m # e
      BY Zenon, <1>1, <2>2, <3>1, <3>3 DEF InMergedState
    <3> QED
      BY Zenon, <3>2, <3>3
  <2>5. CASE WrittenBack(files[f][i])
    <3> DEFINE q == responses[files[f][i].key]
    <3>1. q # NoEntry /\ EntryAt(q).timestamp >= files[f][i].timestamp
      BY ZenonT(40), <2>5 DEF WrittenBack
    <3>2. files[f][i].key # e.key /\ q \in Pointer /\ q.offset < Len(files[q.file])
      <4>1. files[f][i].key # e.key
        BY Zenon, <1>7, <3>1
      <4>2. q \in Pointer
        BY ZenonT(40), <1>3, <2>3, <3>1
      <4>3. Sound(files[f][i].key, q)
        BY Zenon, <2>3, <3>1 DEF IInv, PointerInv
      <4> QED
        BY Zenon, <4>1, <4>2, <4>3 DEF Sound
    <3>3. responses'[files[f][i].key] = q
      BY Zenon, <1>7, <2>3, <3>2
    <3> HIDE DEF q
    <3>4. files'[q.file][q.offset + 1] = files[q.file][q.offset + 1]
      BY Zenon, <1>2, <1>3, <3>2, AppendedSound
    <3>5. WrittenBack(files[f][i])'
      BY Zenon, <2>2, <3>1, <3>3, <3>4 DEF WrittenBack, EntryAt
    <3> QED
      BY Zenon, <3>5
  <2> QED
    BY ZenonT(40), <1>1, <2>1, <2>2, <2>4, <2>5 DEF IInv, MergedInv, Merging
<1>17. CompactInv'
  <2>1. SUFFICES ASSUME ReadAllSegments, NEW f \in inactive' \ fileIds, NEW i \in 1 .. Len(files'[f])
                 PROVE  [file |-> f, offset |-> i - 1] = responses'[files'[f][i].key]
    BY ZenonT(40), <1>1 DEF CompactInv, Merging
  <2>2. f \in FileId /\ f \in inactive
    BY <1>3, <1>5, <2>1
  <2>3. CASE f = wbFile /\ i = Len(files[wbFile]) + 1 /\ files'[f][i] = r
    <3>1. i - 1 = wbOffset
      BY <1>2, <1>3, <2>3
    <3> QED
      BY Zenon, <1>2, <1>7, <2>3, <3>1
  <2>4. CASE i \in 1 .. Len(files[f]) /\ files'[f][i] = files[f][i]
    <3>1. [file |-> f, offset |-> i - 1] = responses[files[f][i].key]
      BY ZenonT(40), <1>1, <2>1, <2>2, <2>4 DEF IInv, CompactInv
    <3>2. responses[files[f][i].key] # NoEntry /\ files[f][i] \in Entry
      BY SMTT(60), <1>3, <2>2, <2>4, <3>1 DEF NoEntry, FileId
    <3>3. files[f][i].key \in Key \ {e.key}
      BY Zenon, <1>7, <3>2 DEF Entry
    <3> QED
      BY Zenon, <1>7, <2>4, <3>1, <3>3
  <2> QED
    BY ZenonT(40), <1>4, <2>1, <2>2, <2>3, <2>4
<1> QED
  BY ZenonT(40), <1>8, <1>9, <1>10, <1>11, <1>12, <1>13, <1>14, <1>15, <1>16, <1>17 DEF IInv

\* A sound pointer leads to an entry of its key.
LEMMA SoundEntry ==
  ASSUME NEW k, NEW p \in Pointer, files \in [FileId -> Seq(Entry)], Sound(k, p)
  PROVE  \E i \in 1 .. Len(files[p.file]) : files[p.file][i].key = k
<1>1. p.file \in FileId /\ p.offset \in Nat
  BY Zenon DEF Pointer
<1>2. files[p.file] \in Seq(Entry)
  BY Zenon, <1>1
<1>3. p.offset < Len(files[p.file])
  BY Zenon DEF Sound
<1>4. p.offset + 1 \in 1 .. Len(files[p.file])
  BY <1>1, <1>2, <1>3
<1> QED
  BY Zenon, <1>4 DEF Sound, EntryAt

\* KeyDirectory::bulk_update keeps the invariant: the directory leaves the segments
\* that are about to be removed.
LEMMA FinishWriteBackStep == ASSUME IInv, FinishWriteBack PROVE IInv'
<1> USE DEF disk_vars, loop_vars, state_vars, ghost_vars
<1>1. /\ pc = "write_back" /\ pc' = "remove" /\ valueByKey = {}
      /\ keyDir' = BulkUpdate /\ responses' = [k \in Key |-> NoEntry]
      /\ wbFile' = 0 /\ wbOffset' = 0
      /\ UNCHANGED <<disk, files, mono, wall, active, offset, inactive, counter, pending,
                     fileIds, left, cur, pos, valueByKey, deletedKeys, written, last>>
  BY Zenon DEF FinishWriteBack, EndWriteBack
<1>2. /\ keyDir \in [Key -> Pointer \cup {NoEntry}] /\ responses \in [Key -> Pointer \cup {NoEntry}]
      /\ files \in [FileId -> Seq(Entry)]
      /\ inactive \subseteq disk /\ disk \subseteq FileId /\ \A f \in disk : f <= mono
  BY Zenon, <1>1 DEF IInv, TypeOK, HandleInv, DiskInv
<1>3. \A k \in Key : keyDir'[k] = IF responses[k] # NoEntry THEN responses[k] ELSE keyDir[k]
  BY Zenon, <1>1 DEF BulkUpdate
<1>4. \A k \in Key : responses[k] # NoEntry =>
        /\ responses[k].file \in inactive \ fileIds /\ Sound(k, responses[k])
  BY Zenon, <1>1 DEF IInv, PointerInv
\* An entry of a kept key in a merged segment has been written back.
<1>5. ASSUME NEW f \in fileIds, NEW i \in 1 .. Len(files[f]), files[f][i].key \in KeptKey
      PROVE  WrittenBack(files[f][i])
  BY Zenon, <1>1, <1>5 DEF IInv, MergedInv, InMergedState, Merging
<1>6. TypeOK'
  <2>1. keyDir' \in [Key -> Pointer \cup {NoEntry}]
    BY Zenon, <1>1, <1>2 DEF BulkUpdate
  <2>2. 0 \in 0 .. MaxFileId
    BY ConstantsAssumption DEF ConstantsAssumption
  <2> QED
    BY Zenon, <1>1, <2>1, <2>2 DEF IInv, TypeOK, PC
<1>7. DiskInv'
  BY Zenon, <1>1 DEF IInv, DiskInv
<1>8. HandleInv' /\ MergeLoopInv'
  BY Zenon, <1>1 DEF IInv, HandleInv, MergeLoopInv, Merging
<1>9. PointerInv'
  <2>1. ASSUME NEW k \in Key, keyDir'[k] # NoEntry
        PROVE  keyDir'[k].file <= mono /\ (keyDir'[k].file \in Live => Sound(k, keyDir'[k]))
    <3>1. CASE responses[k] # NoEntry
      BY Zenon, <1>2, <1>3, <1>4, <3>1
    <3>2. CASE responses[k] = NoEntry
      BY Zenon, <1>3, <2>1, <3>2 DEF IInv, PointerInv
    <3> QED
      BY Zenon, <3>1, <3>2
  <2> QED
    BY Zenon, <1>1, <2>1 DEF PointerInv, Sound, EntryAt, Live
<1>10. KeptInv' /\ OrderInv'
  BY ZenonT(40), <1>1 DEF IInv, KeptInv, KeptEntry, OrderInv
<1>11. DurableInv'
  <2>1. ASSUME NEW k \in KeptKey, Inserted(k)
        PROVE  keyDir'[k] # NoEntry
    BY Zenon, <1>1, <1>3, <2>1 DEF IInv, DurableInv, KeptKey
  <2>2. ASSUME NEW k \in KeptKey, keyDir'[k] # NoEntry
        PROVE  keyDir'[k].file \in Live /\ keyDir'[k].file \notin fileIds
    <3>1. CASE responses[k] # NoEntry
      BY Zenon, <1>2, <1>3, <1>4, <3>1 DEF KeptKey, Live
    <3>2. CASE responses[k] = NoEntry
      <4>1. keyDir'[k] = keyDir[k] /\ keyDir[k] \in Pointer /\ k \in Key
        BY Zenon, <1>2, <1>3, <2>2, <3>2 DEF KeptKey
      <4>2. keyDir[k].file \in Live /\ Sound(k, keyDir[k])
        BY Zenon, <2>2, <4>1 DEF IInv, DurableInv, PointerInv
      <4>3. ASSUME keyDir[k].file \in fileIds PROVE FALSE
        <5>1. PICK i \in 1 .. Len(files[keyDir[k].file]) : files[keyDir[k].file][i].key = k
          BY Zenon, <1>2, <4>1, <4>2, SoundEntry
        <5> QED
          BY ZenonT(40), <1>5, <3>2, <4>3, <5>1 DEF WrittenBack
      <4> QED
        BY Zenon, <4>1, <4>2, <4>3
    <3> QED
      BY Zenon, <3>1, <3>2
  <2> QED
    BY Zenon, <1>1, <2>1, <2>2 DEF DurableInv, Inserted, Live
<1>12. MergedInv'
  <2>1. SUFFICES ASSUME NEW f \in fileIds, NEW i \in 1 .. Len(files[f]),
                        files[f][i].key \in KeptKey
                 PROVE  files[keyDir'[files[f][i].key].file][keyDir'[files[f][i].key].offset + 1].timestamp
                          >= files[f][i].timestamp
    BY ZenonT(40), <1>1 DEF MergedInv, Merging, EntryAt
  <2>2. WrittenBack(files[f][i]) /\ files[f][i].key \in Key
    BY Zenon, <1>5, <2>1 DEF KeptKey
  <2> QED
    BY Zenon, <1>3, <2>2 DEF WrittenBack, EntryAt
<1>13. CompactInv'
  <2>1. SUFFICES ASSUME ReadAllSegments, NEW f \in inactive \ fileIds, NEW i \in 1 .. Len(files[f])
                 PROVE  [file |-> f, offset |-> i - 1] = keyDir'[files[f][i].key]
    BY ZenonT(40), <1>1 DEF CompactInv, Merging
  <2>2. [file |-> f, offset |-> i - 1] = responses[files[f][i].key]
    BY Zenon, <1>1, <2>1 DEF IInv, CompactInv
  <2>3. responses[files[f][i].key] # NoEntry /\ files[f][i] \in Entry
    BY <1>2, <2>1, <2>2 DEF NoEntry, FileId
  <2>4. files[f][i].key \in Key
    BY Zenon, <2>3 DEF Entry
  <2> QED
    BY Zenon, <1>3, <2>2, <2>3, <2>4
<1> QED
  BY Zenon, <1>6, <1>7, <1>8, <1>9, <1>10, <1>11, <1>12, <1>13 DEF IInv

\* A write_back that fails, and whose error begin_merge ignores, keeps the invariant.
LEMMA WriteBackFailsStep == ASSUME IInv, WriteBackFails PROVE IInv'
<1> USE DEF mem_vars, ghost_vars
<1>1. /\ pc \in {"take_all", "merge_with", "write_back"} /\ pc' = "append"
      /\ cur' = 0 /\ pos' = 1 /\ valueByKey' = {} /\ deletedKeys' = {} /\ fileIds' = {}
      /\ responses' = [k \in Key |-> NoEntry] /\ wbFile' = 0 /\ wbOffset' = 0
      /\ UNCHANGED <<disk, mono, wall, active, offset, inactive, keyDir, counter, pending, left,
                     written, last>>
  BY Zenon DEF WriteBackFails, MergeRead, Merging, EndLoop, EndWriteBack
<1>2. /\ files \in [FileId -> Seq(Entry)] /\ active \in disk /\ active \in FileId
      /\ keyDir \in [Key -> Pointer \cup {NoEntry}]
      /\ \A k \in Key : responses'[k] = NoEntry
  BY Zenon, <1>1 DEF IInv, TypeOK, HandleInv
\* Nothing was written, or one entry more in the segment being written.
<1>3. /\ files' \in [FileId -> Seq(Entry)]
      /\ \A f \in FileId \ disk : files'[f] = <<>>
      /\ files'[active] = files[active]
      /\ \A p \in Pointer : p.offset < Len(files[p.file]) =>
           p.offset < Len(files'[p.file]) /\ files'[p.file][p.offset + 1] = files[p.file][p.offset + 1]
      /\ \A f \in FileId : \A i \in 1 .. Len(files'[f]) : KeptEntry(files[f][i])'
      /\ \A f \in FileId : \A i \in 1 .. Len(files'[f]) : files'[f][i].timestamp <= wall'
      /\ \A f \in FileId : \A i, j \in 1 .. Len(files'[f]) :
           i < j /\ files'[f][i].key = files'[f][j].key
             => files'[f][i].timestamp <= files'[f][j].timestamp
  <2>1. CASE UNCHANGED files
    <3>1. /\ \A f \in FileId : \A i \in 1 .. Len(files'[f]) : KeptEntry(files[f][i])'
          /\ \A f \in FileId \ disk : files'[f] = <<>>
      BY ZenonT(40), <1>1, <2>1 DEF IInv, DiskInv, KeptInv, KeptEntry
    <3>2. /\ \A f \in FileId : \A i \in 1 .. Len(files'[f]) : files'[f][i].timestamp <= wall'
          /\ \A f \in FileId : \A i, j \in 1 .. Len(files'[f]) :
               i < j /\ files'[f][i].key = files'[f][j].key
                 => files'[f][i].timestamp <= files'[f][j].timestamp
      BY Zenon, <1>1, <2>1 DEF IInv, OrderInv
    <3> QED
      BY Zenon, <1>2, <2>1, <3>1, <3>2
  <2>2. ASSUME pc = "write_back", NEW e \in valueByKey,
               files' = [files EXCEPT ![wbFile] = WriteAt(@, wbOffset, Rewritten(e))]
        PROVE  <1>3!:
    <3>1. PICK r \in Entry :
            /\ r.key = e.key /\ r.value = e.value /\ r.timestamp = e.timestamp
            /\ r.tombstone = 0
            /\ wbFile \in FileId /\ wbOffset = Len(files[wbFile]) /\ Appended(wbFile, r)
            /\ \A i \in 1 .. Len(files[wbFile]) : files[wbFile][i].key # e.key
      BY Zenon, <2>2, WriteBackEffect
    <3>2. /\ \A f \in FileId : \A i \in 1 .. Len(files'[f]) : KeptEntry(files[f][i])'
          /\ \A f \in FileId : \A i \in 1 .. Len(files'[f]) : files'[f][i].timestamp <= wall'
          /\ \A f \in FileId : \A i, j \in 1 .. Len(files'[f]) :
               i < j /\ files'[f][i].key = files'[f][j].key
                 => files'[f][i].timestamp <= files'[f][j].timestamp
      BY Zenon, <1>1, <2>2, <3>1, WriteBackFiles
    <3>3. \A p \in Pointer : p.offset < Len(files[p.file]) =>
            p.offset < Len(files'[p.file]) /\ files'[p.file][p.offset + 1] = files[p.file][p.offset + 1]
      BY Zenon, <1>2, <3>1, AppendedSound
    <3>4. wbFile \in disk /\ wbFile # active
      BY ZenonT(40), <2>2 DEF IInv, HandleInv
    <3> QED
      BY ZenonT(40), <1>2, <3>1, <3>2, <3>3, <3>4 DEF IInv, DiskInv, Appended
  <2> QED
    BY ZenonT(40), <2>1, <2>2 DEF WriteBackFails
<1>4. TypeOK'
  <2>1. 0 \in 0 .. MaxFileId
    BY ConstantsAssumption DEF ConstantsAssumption
  <2>2. pc' \in PC /\ pos' \in Nat \ {0}
    BY <1>1 DEF PC
  <2>3. wbOffset' \in Nat /\ wbFile' \in 0 .. MaxFileId /\ cur' \in 0 .. MaxFileId
    BY Zenon, <1>1, <2>1 DEF IInv, TypeOK
  <2> QED
    BY ZenonT(40), <1>1, <1>3, <2>1, <2>2, <2>3 DEF IInv, TypeOK
<1>5. DiskInv'
  BY Zenon, <1>1, <1>3 DEF IInv, DiskInv
<1>6. HandleInv' /\ MergeLoopInv'
  BY ZenonT(40), <1>1, <1>3 DEF IInv, HandleInv, MergeLoopInv, Merging
<1>7. PointerInv'
  <2>1. ASSUME NEW k \in Key, keyDir[k] # NoEntry, keyDir[k].file \in Live
        PROVE  Sound(k, keyDir[k])'
    <3>1. keyDir[k] \in Pointer /\ Sound(k, keyDir[k])
      BY Zenon, <1>2, <2>1 DEF IInv, PointerInv
    <3> QED
      BY Zenon, <1>1, <1>3, <3>1 DEF Sound, EntryAt
  <2> QED
    BY ZenonT(40), <1>1, <1>2, <2>1 DEF IInv, PointerInv, Live
<1>8. KeptInv' /\ OrderInv'
  BY Zenon, <1>1, <1>3 DEF IInv, KeptInv, OrderInv
<1>9. DurableInv'
  <2>1. \A k \in KeptKey : Inserted(k)' => keyDir[k] # NoEntry
    BY Zenon, <1>1 DEF IInv, DurableInv, Inserted
  <2>2. \A k \in KeptKey : keyDir[k] # NoEntry => keyDir[k].file \in Live'
    BY Zenon, <1>1 DEF IInv, DurableInv, Live
  <2> QED
    BY Zenon, <1>1, <2>1, <2>2 DEF DurableInv
<1>10. MergedInv' /\ CompactInv'
  BY Zenon, <1>1 DEF MergedInv, CompactInv, Merging
<1> QED
  BY ZenonT(40), <1>4, <1>5, <1>6, <1>7, <1>8, <1>9, <1>10 DEF IInv

-----------------------------------------------------------------------------
(* Death of the process and start-up *)

\* The death of the process, at any step, keeps the invariant.
LEMMA CrashStep == ASSUME IInv, Crash PROVE IInv'
<1> USE DEF disk_vars, ghost_vars
<1>1. /\ pc # "down" /\ pc' = "down" /\ active' = 0 /\ offset' = 0 /\ inactive' = {}
      /\ keyDir' = [k \in Key |-> NoEntry] /\ counter' = 0 /\ pending' = {} /\ fileIds' = {}
      /\ left' = {} /\ cur' = 0 /\ pos' = 1 /\ valueByKey' = {} /\ deletedKeys' = {}
      /\ responses' = [k \in Key |-> NoEntry] /\ wbFile' = 0 /\ wbOffset' = 0
      /\ UNCHANGED <<disk, files, mono, wall, written, last>>
  BY ZenonT(40) DEF Crash, EndLoop, EndWriteBack
<1>2. TypeOK'
  <2>1. 0 \in 0 .. MaxFileId
    BY ConstantsAssumption DEF ConstantsAssumption
  <2> QED
    BY <1>1, <2>1 DEF IInv, TypeOK, PC
<1>3. DiskInv' /\ HandleInv' /\ MergeLoopInv' /\ PointerInv'
  BY ZenonT(40), <1>1 DEF IInv, DiskInv, HandleInv, MergeLoopInv, PointerInv, Merging
<1>4. KeptInv' /\ OrderInv'
  BY Zenon, <1>1 DEF IInv, KeptInv, KeptEntry, OrderInv
<1>5. DurableInv'
  <2>1. SUFFICES ASSUME NEW k \in KeptKey, Inserted(k)
                 PROVE  \E f \in disk : HasEntry(f, k)
    BY Zenon, <1>1 DEF DurableInv, Inserted, HasEntry, KeptKey
  <2>2. /\ files \in [FileId -> Seq(Entry)] /\ active \in disk /\ inactive \subseteq disk
        /\ keyDir \in [Key -> Pointer \cup {NoEntry}] /\ k \in Key /\ pos \in Nat \ {0}
        /\ disk \subseteq FileId
    BY Zenon, <1>1 DEF IInv, TypeOK, HandleInv, KeptKey
  <2>3. CASE keyDir[k] # NoEntry
    <3>1. keyDir[k] \in Pointer /\ keyDir[k].file \in Live /\ Sound(k, keyDir[k])
      BY Zenon, <2>2, <2>3 DEF IInv, DurableInv, PointerInv
    <3>2. keyDir[k].file \in disk
      BY Zenon, <2>2, <3>1 DEF Live
    <3>3. HasEntry(keyDir[k].file, k)
      BY <2>2, <3>1 DEF Sound, EntryAt, Pointer, HasEntry
    <3> QED
      BY Zenon, <3>2, <3>3
  <2>4. CASE pc = "reload" /\ keyDir[k] = NoEntry
    <3>1. left \subseteq inactive /\ cur \in inactive \cup {0}
      BY Zenon, <2>4 DEF IInv, HandleInv
    <3>2. CASE \E f \in left : HasEntry(f, k)
      BY Zenon, <2>2, <3>1, <3>2
    <3>3. CASE Unread(k)
      <4>1. cur \in disk
        BY Zenon, <2>2, <3>1, <3>3 DEF Unread
      <4>2. HasEntry(cur, k)
        BY <2>2, <3>3, <4>1 DEF Unread, HasEntry
      <4> QED
        BY Zenon, <4>1, <4>2
    <3> QED
      BY Zenon, <2>1, <2>4, <3>2, <3>3 DEF IInv, DurableInv
  <2> QED
    BY Zenon, <1>1, <2>1, <2>3, <2>4 DEF IInv, DurableInv
<1>6. MergedInv' /\ CompactInv'
  BY Zenon, <1>1 DEF MergedInv, CompactInv, Merging
<1> QED
  BY Zenon, <1>2, <1>3, <1>4, <1>5, <1>6 DEF IInv

\* With a clock that goes on where it was, the new active segment is a new file.
LEMMA StartStepInv == ASSUME IInv, ~ClockRestarts, Start PROVE IInv'
<1> USE DEF state_vars, wb_vars, ghost_vars
<1> DEFINE n == mono + 1
<1>1. /\ pc = "down" /\ pc' = "reload" /\ mono < MaxFileId
      /\ active' = n /\ disk' = disk \cup {n} /\ mono' = n
      /\ inactive' = disk \ {n} /\ left' = disk \ {n}
      /\ UNCHANGED <<files, wall, offset, keyDir, counter, pending, fileIds, cur, pos,
                     valueByKey, deletedKeys, wbFile, wbOffset, responses, written, last>>
  BY Zenon DEF Start, OpenFile
<1>2. /\ disk \subseteq FileId /\ mono \in 0 .. MaxFileId /\ (\A f \in disk : f <= mono)
      /\ offset = 0 /\ cur = 0 /\ keyDir = [k \in Key |-> NoEntry]
      /\ fileIds = {} /\ valueByKey = {} /\ deletedKeys = {}
      /\ \A k \in Key : responses[k] = NoEntry
      /\ \A f \in FileId \ disk : files[f] = <<>>
  BY ZenonT(40), <1>1 DEF IInv, TypeOK, DiskInv, HandleInv, MergeLoopInv, PointerInv, Merging
<1>3. n \in FileId /\ n \notin disk /\ (\A f \in disk' : f <= n)
  BY <1>1, <1>2, ConstantsAssumption DEF ConstantsAssumption, FileId
<1>4. disk \ {n} = disk /\ Len(files[n]) = 0
  BY <1>2, <1>3
<1> HIDE DEF n
<1>5. TypeOK'
  <2>1. n \in 0 .. MaxFileId
    BY <1>3 DEF FileId
  <2>2. disk' \subseteq FileId
    BY Zenon, <1>1, <1>2, <1>3
  <2> QED
    BY ZenonT(40), <1>1, <1>2, <1>4, <2>1, <2>2 DEF IInv, TypeOK, PC
<1>6. DiskInv' /\ HandleInv' /\ MergeLoopInv' /\ PointerInv'
  BY Zenon, <1>1, <1>2, <1>3, <1>4 DEF DiskInv, HandleInv, MergeLoopInv, PointerInv, Merging
<1>7. KeptInv' /\ OrderInv'
  BY ZenonT(40), <1>1 DEF IInv, KeptInv, KeptEntry, OrderInv
<1>8. DurableInv'
  <2>1. \A k \in KeptKey : Inserted(k) => \E f \in disk : HasEntry(f, k)
    BY Zenon, <1>1 DEF IInv, DurableInv
  <2>2. \A k \in KeptKey : keyDir[k] = NoEntry
    BY Zenon, <1>2 DEF KeptKey
  <2>3. left' = disk /\ keyDir' = keyDir /\ files' = files /\ written' = written
    BY Zenon, <1>1, <1>4
  <2>4. ASSUME NEW k \in KeptKey, Inserted(k)'
        PROVE  \E f \in left' : HasEntry(f, k)'
    BY Zenon, <2>1, <2>3, <2>4 DEF Inserted, HasEntry
  <2> QED
    BY Zenon, <1>1, <2>2, <2>3, <2>4 DEF DurableInv
<1>9. MergedInv' /\ CompactInv'
  BY Zenon, <1>1, <1>2 DEF MergedInv, CompactInv, Merging
<1> QED
  BY Zenon, <1>5, <1>6, <1>7, <1>8, <1>9 DEF IInv

\* KeyDirectory::reload of one entry keeps the invariant.
LEMMA ReloadEntryStep == ASSUME IInv, ReloadEntry PROVE IInv'
<1> USE DEF disk_vars, state_vars, wb_vars, ghost_vars
<1>1. /\ pc = "reload" /\ pc' = "reload" /\ cur # 0 /\ ~(pos > Len(files[cur])) /\ pos' = pos + 1
      /\ keyDir' = [keyDir EXCEPT ![files[cur][pos].key] = [file |-> cur, offset |-> pos - 1]]
      /\ UNCHANGED <<disk, files, mono, wall, active, offset, inactive, counter, pending,
                     fileIds, left, cur, valueByKey, deletedKeys, wbFile, wbOffset, responses,
                     written, last>>
  BY Zenon DEF ReloadEntry, SegmentRead
<1>2. /\ cur \in inactive /\ cur \in disk /\ cur \in FileId /\ cur <= mono
      /\ files[cur] \in Seq(Entry)
      /\ keyDir \in [Key -> Pointer \cup {NoEntry}]
  BY ZenonT(40), <1>1 DEF IInv, TypeOK, HandleInv, DiskInv
<1>3. pos \in 1 .. Len(files[cur]) /\ pos - 1 \in Nat /\ pos \in Nat
  BY SMTT(30), <1>1, <1>2 DEF IInv, TypeOK
<1>4. files[cur][pos] \in Entry
  BY <1>2, <1>3
<1>5. PICK x \in Key : x = files[cur][pos].key
  BY Zenon, <1>4 DEF Entry
<1>6. /\ keyDir'[x] = [file |-> cur, offset |-> pos - 1]
      /\ \A k \in Key : k # x => keyDir'[k] = keyDir[k]
      /\ keyDir'[x] \in Pointer /\ keyDir'[x] # NoEntry
      /\ keyDir' \in [Key -> Pointer \cup {NoEntry}]
  BY Zenon, <1>1, <1>2, <1>3, <1>5 DEF Pointer, NoEntry, FileId
<1>7. TypeOK'
  <2>1. pos + 1 \in Nat \ {0}
    BY <1>3
  <2> QED
    BY ZenonT(40), <1>1, <1>6, <2>1 DEF IInv, TypeOK
<1>8. DiskInv' /\ HandleInv' /\ MergeLoopInv'
  BY Zenon, <1>1 DEF IInv, DiskInv, HandleInv, MergeLoopInv, Merging
<1>9. PointerInv'
  <2>1. Sound(x, keyDir[x])'
    <3>1. keyDir'[x].file = cur /\ keyDir'[x].offset = pos - 1
      BY <1>6
    <3>2. pos - 1 < Len(files[cur]) /\ files[cur][(pos - 1) + 1].key = x
      BY <1>2, <1>3, <1>5
    <3> QED
      BY ZenonT(40), <1>1, <3>1, <3>2 DEF Sound, EntryAt
  <2>2. ASSUME NEW k \in Key, keyDir'[k] # NoEntry
        PROVE  /\ keyDir'[k].file <= mono
               /\ keyDir'[k].file \in Live => Sound(k, keyDir[k])'
    <3>1. CASE k = x
      BY SMTT(60), <1>2, <1>6, <2>1, <3>1
    <3>2. CASE k # x
      BY ZenonT(40), <1>1, <1>6, <2>2, <3>2 DEF IInv, PointerInv, Sound, EntryAt
    <3> QED
      BY ZenonT(40), <3>1, <3>2
  <2>3. \A k \in Key : responses'[k] = NoEntry
    BY Zenon, <1>1 DEF IInv, PointerInv
  <2> QED
    BY Zenon, <1>1, <2>2, <2>3 DEF PointerInv, Live
<1>10. KeptInv' /\ OrderInv'
  BY ZenonT(40), <1>1 DEF IInv, KeptInv, KeptEntry, OrderInv
<1>11. DurableInv'
  <2>1. ASSUME NEW k \in KeptKey, Inserted(k), keyDir'[k] = NoEntry
        PROVE  (\E f \in left : HasEntry(f, k)) \/ Unread(k)'
    <3>1. k # x /\ keyDir[k] = NoEntry
      BY Zenon, <1>6, <2>1 DEF KeptKey
    <3>2. CASE \E f \in left : HasEntry(f, k)
      BY Zenon, <3>2
    <3>3. CASE Unread(k)
      <4>1. PICK i \in pos .. Len(files[cur]) : files[cur][i].key = k
        BY Zenon, <3>3 DEF Unread
      <4>2. i # pos
        BY ZenonT(40), <1>5, <3>1, <4>1
      <4>3. i \in pos + 1 .. Len(files[cur])
        BY <1>2, <1>3, <4>1, <4>2
      <4> QED
        BY Zenon, <1>1, <4>1, <4>3 DEF Unread
    <3> QED
      BY ZenonT(40), <1>1, <2>1, <3>1, <3>2, <3>3 DEF IInv, DurableInv
  <2>2. ASSUME NEW k \in KeptKey, keyDir'[k] # NoEntry
        PROVE  keyDir'[k].file \in Live
    <3>1. CASE k = x
      BY <1>2, <1>6, <3>1 DEF Live
    <3>2. CASE k # x
      BY Zenon, <1>6, <2>2, <3>2 DEF IInv, DurableInv, KeptKey
    <3> QED
      BY ZenonT(40), <3>1, <3>2
  <2>3. \A k \in KeptKey, f \in left : HasEntry(f, k) => HasEntry(f, k)'
    BY Zenon, <1>1 DEF HasEntry
  <2>4. \A k \in KeptKey : Inserted(k)' => Inserted(k)
    BY Zenon, <1>1 DEF Inserted
  <2>5. Live' = Live
    BY Zenon, <1>1 DEF Live
  <2> QED
    BY Zenon, <1>1, <2>1, <2>2, <2>3, <2>4, <2>5 DEF DurableInv
<1>12. MergedInv' /\ CompactInv'
  BY Zenon, <1>1 DEF IInv, HandleInv, MergedInv, CompactInv, Merging
<1> QED
  BY Zenon, <1>7, <1>8, <1>9, <1>10, <1>11, <1>12 DEF IInv

\* At the end of KVStore::reload every kept key is in the directory.
LEMMA FinishReloadStep == ASSUME IInv, FinishReload PROVE IInv'
<1> USE DEF disk_vars, mem_vars, state_vars, wb_vars, ghost_vars
<1>1. /\ pc = "reload" /\ pc' = "idle" /\ (cur # 0 => pos > Len(files[cur])) /\ left = {}
      /\ cur' = 0 /\ pos' = 1
      /\ UNCHANGED <<disk, files, mono, wall, active, offset, inactive, keyDir, counter,
                     pending, fileIds, left, valueByKey, deletedKeys, wbFile, wbOffset,
                     responses, written, last>>
  BY ZenonT(40) DEF FinishReload, EndLoop, SegmentRead
<1>2. TypeOK'
  <2>1. 0 \in 0 .. MaxFileId
    BY ConstantsAssumption DEF ConstantsAssumption
  <2> QED
    BY SMTT(60), <1>1, <2>1 DEF IInv, TypeOK, PC
<1>3. DiskInv' /\ HandleInv' /\ MergeLoopInv'
  BY ZenonT(40), <1>1 DEF IInv, DiskInv, HandleInv, MergeLoopInv, Merging
<1>4. PointerInv'
  BY ZenonT(40), <1>1 DEF IInv, PointerInv, Sound, EntryAt, Live
<1>5. KeptInv' /\ OrderInv'
  BY ZenonT(40), <1>1 DEF IInv, KeptInv, KeptEntry, OrderInv
<1>6. DurableInv'
  <2>1. ASSUME NEW k \in KeptKey, Inserted(k)
        PROVE  keyDir[k] # NoEntry
    <3>1. ~Unread(k)
      <4>1. cur # 0 => Len(files[cur]) \in Nat /\ pos \in Nat
        BY DEF IInv, TypeOK, FileId
      <4> QED
        BY SMTT(60), <1>1, <4>1 DEF Unread
    <3> QED
      BY ZenonT(40), <1>1, <2>1, <3>1 DEF IInv, DurableInv
  <2>2. \A k \in KeptKey : keyDir[k] # NoEntry => keyDir[k].file \in Live'
    BY Zenon, <1>1 DEF IInv, DurableInv, Live
  <2>3. \A k \in KeptKey : Inserted(k)' => Inserted(k)
    BY Zenon, <1>1 DEF Inserted
  <2> QED
    BY Zenon, <1>1, <2>1, <2>2, <2>3 DEF DurableInv
<1>7. MergedInv' /\ CompactInv'
  BY Zenon, <1>1 DEF IInv, HandleInv, MergedInv, CompactInv, Merging
<1> QED
  BY Zenon, <1>2, <1>3, <1>4, <1>5, <1>6, <1>7 DEF IInv

\* A stuttering step keeps the invariant.
LEMMA StutterInv == ASSUME IInv, UNCHANGED vars PROVE IInv'
<1> USE DEF vars, disk_vars, mem_vars, merge_vars, loop_vars, state_vars, wb_vars, ghost_vars
<1>1. TypeOK' /\ DiskInv' /\ HandleInv' /\ MergeLoopInv'
  BY ZenonT(40) DEF IInv, TypeOK, DiskInv, HandleInv, MergeLoopInv, Merging
<1>2. PointerInv' /\ KeptInv' /\ OrderInv'
  <2>1. PointerInv'
    BY ZenonT(40) DEF IInv, PointerInv, Sound, EntryAt, Live
  <2>2. KeptInv' /\ OrderInv'
    BY ZenonT(40) DEF IInv, KeptInv, KeptEntry, OrderInv
  <2> QED
    BY Zenon, <2>1, <2>2
<1>3. DurableInv'
  BY DEF IInv, DurableInv, Inserted, HasEntry, Unread, Live
<1>4. MergedInv'
  <2>1. \A f \in fileIds : \A i \in 1 .. Len(files[f]) :
          /\ Read(f, i)' <=> Read(f, i)
          /\ InMergedState(files[f][i])' <=> InMergedState(files[f][i])
          /\ WrittenBack(files[f][i])' <=> WrittenBack(files[f][i])
    BY ZenonT(40) DEF Read, InMergedState, WrittenBack, EntryAt
  <2> QED
    BY ZenonT(40), <2>1 DEF IInv, MergedInv, EntryAt, Merging
<1>5. CompactInv'
  BY ZenonT(40) DEF IInv, CompactInv, Merging
<1> QED
  BY ZenonT(40), <1>1, <1>2, <1>3, <1>4, <1>5 DEF IInv

-----------------------------------------------------------------------------
(* The theorems *)

\* Every step of the store preserves the invariant.
LEMMA NextInv == ASSUME IInv, ~ClockRestarts, [Next]_vars PROVE IInv'
<1>1. CASE ClientStep
  BY Zenon, <1>1, PutStep, BeginMergeStep, DeleteStep, FailsStep DEF ClientStep
<1>2. CASE MergeStep
  BY Zenon, <1>2, MergeEntryStep, StartWriteBackStep, WriteBackEntryStep, FinishWriteBackStep,
     WriteBackFailsStep, RemoveSegmentStep, FinishMergeStep, AppendPendingStep
  DEF MergeStep
<1>3. CASE StartStep
  BY Zenon, <1>3, StartStepInv, ReloadEntryStep, FinishReloadStep DEF StartStep
<1>4. CASE NextSegment
  BY Zenon, <1>4, NextSegmentStep
<1>5. CASE Crash
  BY <1>5, CrashStep
<1>6. CASE UNCHANGED vars
  BY Zenon, <1>6, StutterInv
<1> QED
  BY Zenon, <1>1, <1>2, <1>3, <1>4, <1>5, <1>6 DEF Next, SessionNext

\* The invariant holds in every state of every execution, crashes included, as
\* long as the monotonic clock never hands out a file id twice.
THEOREM Invariance == ~ClockRestarts /\ Spec => []IInv
<1> SUFFICES ASSUME ~ClockRestarts PROVE Spec => []IInv
  OBVIOUS
<1>1. IInv /\ [Next]_vars => IInv'
  BY Zenon, NextInv
<1> QED
  BY <1>1, InitInv, PTL DEF Spec

\* The invariant implies that pointers of the directory are sound.
LEMMA IInvPointersSound == IInv => PointersSound
<1> SUFFICES ASSUME IInv, NEW k \in Key, keyDir[k].file \in Live PROVE Sound(k, keyDir[k])
  BY Zenon DEF PointersSound
<1>1. keyDir[k] # NoEntry
  BY DEF NoEntry, Live, FileId
<1> QED
  BY Zenon, <1>1 DEF IInv, PointerInv

\* The invariant implies that get finds every kept key.
LEMMA IInvKeptKeysReadable == IInv => KeptKeysReadable
<1> SUFFICES ASSUME IInv, pc \notin {"down", "reload"}, NEW k \in KeptKey, Inserted(k)
             PROVE  GetStatus(k) = "Ok" /\ <<k, GetValue(k)>> \in written
  BY Zenon DEF KeptKeysReadable, Inserted
<1>1. keyDir[k] # NoEntry /\ keyDir[k].file \in Live /\ k \in Key
  BY Zenon DEF IInv, DurableInv, KeptKey
<1>2. keyDir[k] \in Pointer /\ Sound(k, keyDir[k]) /\ files \in [FileId -> Seq(Entry)]
  BY ZenonT(40), <1>1 DEF IInv, TypeOK, PointerInv
<1>3. /\ keyDir[k].file \in FileId
      /\ keyDir[k].offset + 1 \in 1 .. Len(files[keyDir[k].file])
  BY <1>2 DEF Pointer, Sound
<1>4. KeptEntry(EntryAt(keyDir[k])) /\ EntryAt(keyDir[k]).key = k
  BY Zenon, <1>2, <1>3 DEF IInv, KeptInv, EntryAt, Sound
<1> QED
  BY Zenon, <1>1, <1>4 DEF GetStatus, GetValue, KeptEntry

\* The invariant implies that a merge removes nothing newer than what it wrote.
LEMMA IInvMergeKeepsNewest == IInv => MergeKeepsNewest
BY Zenon DEF IInv, MergedInv, MergeKeepsNewest, Merging

\* The invariant implies that a merge of all segments leaves one entry per key.
LEMMA IInvMergeCompacts == IInv => MergeCompacts
<1> SUFFICES ASSUME IInv, ReadAllSegments, pc = "remove", fileIds = {},
                    NEW f \in inactive, NEW g \in inactive,
                    NEW i \in 1 .. Len(files[f]), NEW j \in 1 .. Len(files[g]),
                    files[f][i].key = files[g][j].key
             PROVE  f = g /\ i = j
  BY Zenon DEF MergeCompacts
<1>1. /\ [file |-> f, offset |-> i - 1] = keyDir[files[f][i].key]
      /\ [file |-> g, offset |-> j - 1] = keyDir[files[g][j].key]
  BY ZenonT(40) DEF IInv, CompactInv
<1>2. [file |-> f, offset |-> i - 1] = [file |-> g, offset |-> j - 1]
  BY Zenon, <1>1
<1>3. f = g /\ i - 1 = j - 1 /\ i \in Nat /\ j \in Nat
  BY <1>2
<1> QED
  BY <1>3

\* Appending at the end of a file changes nothing that was there.
LEMMA AppendedOnly ==
  ASSUME IInv, NEW f \in FileId, NEW e, Appended(f, e) PROVE AppendOnlyStep
<1>1. disk \subseteq FileId /\ \A g \in FileId : Len(files[g]) \in Nat
  BY SMTT(30) DEF IInv, TypeOK
<1>2. ASSUME NEW g \in disk, NEW i \in 1 .. Len(files[g])
      PROVE  i <= Len(files'[g]) /\ files'[g][i] = files[g][i]
  <2>1. CASE g = f
    BY SMTT(60), <1>1, <2>1 DEF Appended
  <2>2. CASE g # f
    BY <1>1, <2>2 DEF Appended
  <2> QED
    BY Zenon, <2>1, <2>2
<1> QED
  BY ZenonT(40), <1>2 DEF AppendOnlyStep

\* A step that writes no file drops no entry.
LEMMA UnchangedOnly == ASSUME IInv, UNCHANGED files PROVE AppendOnlyStep
<1>1. disk \subseteq FileId /\ \A g \in FileId : Len(files[g]) \in Nat
  BY DEF IInv, TypeOK
<1> QED
  BY <1>1 DEF AppendOnlyStep

\* Segments::append drops and changes no entry.
LEMMA AppendEntryOnly ==
  ASSUME IInv, pc \notin {"down", "reload"}, NEW k \in Key, NEW v \in Value,
         NEW del \in {0, 1},
         \E f \in FileId, o \in 0 .. MaxSegmentSize : AppendEntry(k, v, del, f, o)
  PROVE  AppendOnlyStep
<1>1. PICK f \in FileId, o \in 0 .. MaxSegmentSize : AppendEntry(k, v, del, f, o)
  OBVIOUS
<1>2. o \in Nat
  BY SMTT(30), ConstantsAssumption DEF ConstantsAssumption
<1>3. PICK e \in Entry : Appended(f, e)
  BY <1>1, <1>2, AppendEffect
<1> QED
  BY Zenon, <1>3, AppendedOnly

\* No step of the store drops or changes an entry of a file that stays.
LEMMA NextAppendOnly == ASSUME IInv, [Next]_vars PROVE AppendOnlyStep \/ UNCHANGED vars
<1> USE DEF disk_vars, merge_vars, loop_vars, state_vars, wb_vars, ghost_vars
<1>1. ASSUME NEW k \in Key, NEW v \in Value, PutEntry(k, v), pc \in {"idle", "append"}
      PROVE  AppendOnlyStep
  <2>1. \E f \in FileId, o \in 0 .. MaxSegmentSize : AppendEntry(k, v, 0, f, o)
    BY Zenon, <1>1 DEF PutEntry
  <2>2. pc \notin {"down", "reload"} /\ 0 \in {0, 1}
    BY Zenon, <1>1
  <2> QED
    BY Zenon, <2>1, <2>2, AppendEntryOnly
<1>2. CASE ClientStep
  <2>1. ASSUME NEW k \in Key, NEW v \in Value, Put(k, v) PROVE AppendOnlyStep
    BY Zenon, <1>1, <2>1 DEF Put
  <2>2. ASSUME NEW k \in DeletableKey, Delete(k) PROVE AppendOnlyStep
    BY Zenon, <2>2, AppendEntryOnly, ConstantsAssumption DEF ConstantsAssumption, Delete
  <2>3. ASSUME NEW k \in Key, NEW v \in Value, BeginMerge(k, v) PROVE AppendOnlyStep
    BY Zenon, <2>3, UnchangedOnly DEF BeginMerge
  <2>4. CASE PutFails \/ DeleteFails
    BY Zenon, <2>4, UnchangedOnly DEF PutFails, DeleteFails
  <2> QED
    BY Zenon, <1>2, <2>1, <2>2, <2>3, <2>4 DEF ClientStep
<1>3. CASE MergeStep
  <2>1. CASE MergeEntry \/ StartWriteBack \/ FinishWriteBack \/ FinishMerge
    BY Zenon, <2>1, UnchangedOnly DEF MergeEntry, StartWriteBack, FinishWriteBack, FinishMerge
  <2>2. ASSUME pc = "write_back", NEW e \in valueByKey,
               files' = [files EXCEPT ![wbFile] = WriteAt(@, wbOffset, Rewritten(e))]
        PROVE  AppendOnlyStep
    BY Zenon, <2>2, WriteBackEffect, AppendedOnly
  <2>3. ASSUME NEW e \in valueByKey, WriteBackEntry(e) PROVE AppendOnlyStep
    BY Zenon, <2>2, <2>3 DEF WriteBackEntry
  <2>4. CASE WriteBackFails
    BY Zenon, <2>2, <2>4, UnchangedOnly DEF WriteBackFails
  <2>5. ASSUME NEW g \in fileIds, RemoveSegment(g) PROVE AppendOnlyStep
    <3>1. CASE UNCHANGED <<disk, files>>
      BY ZenonT(40), <3>1, UnchangedOnly
    <3>2. CASE disk' = disk \ {g} /\ files' = [files EXCEPT ![g] = <<>>]
      <4>1. disk \subseteq FileId /\ files \in [FileId -> Seq(Entry)]
        BY Zenon DEF IInv, TypeOK
      <4>2. \A f \in disk \cap disk' : files'[f] = files[f] /\ Len(files[f]) \in Nat
        BY <3>2, <4>1
      <4> QED
        BY <4>2 DEF AppendOnlyStep
    <3> QED
      BY Zenon, <2>5, <3>1, <3>2 DEF RemoveSegment
  <2>6. CASE AppendPending
    <3>1. PICK q \in pending : PutEntry(q[1], q[2])
      BY Zenon, <2>6 DEF AppendPending
    <3>2. q[1] \in Key /\ q[2] \in Value
      BY Zenon DEF IInv, TypeOK
    <3> QED
      BY Zenon, <1>1, <2>6, <3>1, <3>2 DEF AppendPending
  <2> QED
    BY Zenon, <1>3, <2>1, <2>3, <2>4, <2>5, <2>6 DEF MergeStep
<1>4. CASE StartStep \/ NextSegment \/ Crash
  BY Zenon, <1>4, UnchangedOnly DEF StartStep, Start, ReloadEntry, FinishReload, NextSegment, Crash
<1> QED
  BY Zenon, <1>2, <1>3, <1>4 DEF Next, SessionNext

\* The variables of the store keep their types: among other things the directory
\* only ever holds pointers to segment files, and file ids stay within bounds.
THEOREM TypeCorrect == ~ClockRestarts /\ Spec => []TypeOK
<1> SUFFICES ASSUME ~ClockRestarts PROVE Spec => []TypeOK
  OBVIOUS
<1>1. IInv => TypeOK
  BY Zenon DEF IInv
<1> QED
  BY <1>1, Invariance, PTL

\* get never returns another key's value and never decodes bytes that are not an
\* entry, at any point of a merge or of start-up and after any crash.
THEOREM PointersAreSound == ~ClockRestarts /\ Spec => []PointersSound
<1> SUFFICES ASSUME ~ClockRestarts PROVE Spec => []PointersSound
  OBVIOUS
<1> QED
  BY IInvPointersSound, Invariance, PTL

\* No merge, failed merge, failed write, crash or restart loses a key that is
\* never deleted.
THEOREM KeptKeysStayReadable == ~ClockRestarts /\ Spec => []KeptKeysReadable
<1> SUFFICES ASSUME ~ClockRestarts PROVE Spec => []KeptKeysReadable
  OBVIOUS
<1> QED
  BY IInvKeptKeysReadable, Invariance, PTL

\* Whatever order the HashMap yields the segments in, begin_merge removes no entry
\* of a kept key before a copy at least as recent is in the directory.
THEOREM MergeKeepsTheNewest == ~ClockRestarts /\ Spec => []MergeKeepsNewest
<1> SUFFICES ASSUME ~ClockRestarts PROVE Spec => []MergeKeepsNewest
  OBVIOUS
<1> QED
  BY IInvMergeKeepsNewest, Invariance, PTL

\* A merge of all segments leaves at most one entry of each key in the inactive
\* segments.
THEOREM MergeLeavesOnePerKey == ~ClockRestarts /\ Spec => []MergeCompacts
<1> SUFFICES ASSUME ~ClockRestarts PROVE Spec => []MergeCompacts
  OBVIOUS
<1> QED
  BY IInvMergeCompacts, Invariance, PTL

\* Store::append, which writes at the offset the handle remembers, never overwrites
\* an entry.
THEOREM SegmentsAreAppendOnly == ~ClockRestarts /\ Spec => AppendOnly
<1> SUFFICES ASSUME ~ClockRestarts PROVE Spec => AppendOnly
  OBVIOUS
<1>1. IInv /\ [Next]_vars => [AppendOnlyStep]_vars
  BY Zenon, NextAppendOnly
<1> QED
  BY <1>1, Invariance, PTL DEF Spec, AppendOnly

-----------------------------------------------------------------------------
(* One life of the process, up to its first merge *)

\* The process starts with an empty directory.
LEMMA SessionInitInv == Init => SessionInv
BY DEF Init, SessionInv

\* An append leaves the entries of the other keys where they are.
LEMMA AnswerKept ==
  ASSUME IInv, NEW f \in FileId, NEW e, Appended(f, e), Live \subseteq Live',
         NEW k \in Key, keyDir[k] # NoEntry, keyDir[k].file \in Live, keyDir'[k] = keyDir[k]
  PROVE  keyDir'[k].file \in Live' /\ GetValue(k)' = GetValue(k)
<1>1. keyDir[k] \in Pointer /\ files \in [FileId -> Seq(Entry)]
  BY Zenon DEF IInv, TypeOK
<1>2. keyDir[k].offset < Len(files[keyDir[k].file])
  BY Zenon DEF IInv, PointerInv, Sound
<1>3. files'[keyDir[k].file][keyDir[k].offset + 1] = files[keyDir[k].file][keyDir[k].offset + 1]
  BY Zenon, <1>1, <1>2, AppendedSound
<1> QED
  BY Zenon, <1>3 DEF GetValue, EntryAt

\* put and delete change what get answers for their key, and for no other.
LEMMA SessionAppend ==
  ASSUME IInv, SessionInv, pc = "idle", pc' = "idle", NEW k \in Key, NEW v \in Value,
         NEW del \in {0, 1}, NEW f \in FileId, NEW o \in Nat, AppendEntry(k, v, del, f, o),
         \/ /\ keyDir' = [keyDir EXCEPT ![k] = [file |-> f, offset |-> o]]
            /\ last' = [last EXCEPT ![k] = {v}]
         \/ /\ keyDir' = [keyDir EXCEPT ![k] = NoEntry]
            /\ last' = [last EXCEPT ![k] = {}]
  PROVE  SessionInv'
<1>1. pc \notin {"down", "reload"}
  OBVIOUS
<1>2. /\ keyDir \in [Key -> Pointer \cup {NoEntry}] /\ last \in [Key -> SUBSET Value]
      /\ files \in [FileId -> Seq(Entry)]
  BY ZenonT(40) DEF IInv, TypeOK
<1>3. Rollover(f, o) /\ o = Len(files[f])
  BY SMTT(30), <1>1, AppendEffect
<1>4. PICK e \in Entry : e.value = v /\ Appended(f, e)
  BY <1>1, AppendEffect
<1>5. Live \subseteq Live' /\ f \in Live'
  BY Zenon, <1>1, <1>3, RolloverLive
<1>6. ASSUME NEW x \in Key, x # k
      PROVE  \/ keyDir'[x] = NoEntry /\ last'[x] = {}
             \/ /\ keyDir'[x] # NoEntry /\ keyDir'[x].file \in Live'
                /\ last'[x] = {GetValue(x)'}
  <2>1. keyDir'[x] = keyDir[x] /\ last'[x] = last[x]
    BY Zenon, <1>2, <1>6
  <2>2. CASE keyDir[x] = NoEntry /\ last[x] = {}
    BY Zenon, <2>1, <2>2
  <2>3. CASE keyDir[x] # NoEntry /\ keyDir[x].file \in Live /\ last[x] = {GetValue(x)}
    BY Zenon, <1>4, <1>5, <2>1, <2>3, AnswerKept
  <2> QED
    BY Zenon, <2>2, <2>3 DEF SessionInv
<1>7. \/ keyDir'[k] = NoEntry /\ last'[k] = {}
      \/ /\ keyDir'[k] # NoEntry /\ keyDir'[k].file \in Live'
         /\ last'[k] = {GetValue(k)'}
  <2>1. CASE /\ keyDir' = [keyDir EXCEPT ![k] = [file |-> f, offset |-> o]]
             /\ last' = [last EXCEPT ![k] = {v}]
    <3>1. keyDir'[k] = [file |-> f, offset |-> o] /\ last'[k] = {v}
      BY ZenonT(40), <1>2, <2>1
    <3>2. keyDir'[k].file = f /\ keyDir'[k].offset = o /\ keyDir'[k] # NoEntry
      BY <3>1 DEF NoEntry, FileId
    <3>3. files'[f][o + 1] = e
      BY Zenon, <1>3, <1>4 DEF Appended
    <3> QED
      BY Zenon, <1>4, <1>5, <3>1, <3>2, <3>3 DEF GetValue, EntryAt
  <2>2. CASE /\ keyDir' = [keyDir EXCEPT ![k] = NoEntry]
             /\ last' = [last EXCEPT ![k] = {}]
    BY Zenon, <1>2, <2>2
  <2> QED
    BY Zenon, <2>1, <2>2
<1>8. \A x \in Key :
        \/ keyDir'[x] = NoEntry /\ last'[x] = {}
        \/ /\ keyDir'[x] # NoEntry /\ keyDir'[x].file \in Live'
           /\ last'[x] = {GetValue(x)'}
  BY ZenonT(40), <1>6, <1>7
<1>9. pc' \in {"down", "reload", "idle"} /\ pc' # "down" /\ pc' # "reload"
  OBVIOUS
<1> QED
  BY ZenonT(40), <1>8, <1>9 DEF SessionInv

\* A put or delete that fails may have opened a segment, and changes no answer.
LEMMA SessionFails ==
  ASSUME IInv, SessionInv, pc = "idle", pc' = "idle", AppendFails, UNCHANGED <<files, keyDir, last>>
  PROVE  SessionInv'
<1>1. Live \subseteq Live'
  <2>1. CASE UNCHANGED <<inactive, active>>
    BY Zenon, <2>1 DEF Live
  <2>2. CASE \E f \in FileId, o \in 0 .. MaxSegmentSize : Rollover(f, o)
    <3>1. PICK f \in FileId, o \in 0 .. MaxSegmentSize : Rollover(f, o)
      BY Zenon, <2>2
    <3>2. o \in Nat /\ pc \notin {"down", "reload"}
      BY ConstantsAssumption DEF ConstantsAssumption
    <3> QED
      BY Zenon, <3>1, <3>2, RolloverLive
  <2> QED
    BY Zenon, <2>1, <2>2 DEF AppendFails
<1>2. \A k \in Key :
        \/ keyDir'[k] = NoEntry /\ last'[k] = {}
        \/ /\ keyDir'[k] # NoEntry /\ keyDir'[k].file \in Live'
           /\ last'[k] = {GetValue(k)'}
  BY Zenon, <1>1 DEF SessionInv, GetValue, EntryAt
<1>3. pc' \in {"down", "reload", "idle"} /\ pc' # "down" /\ pc' # "reload"
  OBVIOUS
<1> QED
  BY Zenon, <1>2, <1>3 DEF SessionInv

\* Start-up of an empty directory.
LEMMA SessionStart ==
  ASSUME IInv, SessionInv, Start \/ ReloadEntry \/ FinishReload \/ NextSegment, ~Merging
  PROVE  SessionInv'
<1>1. CASE Start
  <2>1. /\ pc = "down" /\ pc' = "reload" /\ left' = disk \ {active'} /\ cur' = cur
        /\ UNCHANGED <<keyDir, last>>
    BY ZenonT(40), <1>1 DEF Start, ghost_vars
  <2>2. disk = {} /\ cur = 0 /\ pc' # "down" /\ pc' # "idle" /\ pc # "idle"
    BY <2>1 DEF IInv, HandleInv, SessionInv
  <2>3. left' = {} /\ cur' = 0
    BY Zenon, <2>1, <2>2
  <2> QED
    BY Zenon, <2>1, <2>2, <2>3 DEF SessionInv
<1>2. CASE ReloadEntry
  BY Zenon, <1>2 DEF ReloadEntry, SessionInv, SegmentRead
<1>3. CASE NextSegment
  BY Zenon, <1>3 DEF NextSegment, SessionInv
<1>4. CASE FinishReload
  <2>1. pc = "reload" /\ pc' = "idle" /\ UNCHANGED <<keyDir, last>>
    BY Zenon, <1>4 DEF FinishReload, mem_vars, ghost_vars
  <2>2. pc # "idle" /\ pc' # "down" /\ pc' # "reload"
    BY <2>1
  <2> QED
    BY Zenon, <2>1, <2>2 DEF SessionInv
<1> QED
  BY Zenon, <1>1, <1>2, <1>3, <1>4

\* The steps of a client that starts no merge.
LEMMA SessionClient == ASSUME IInv, SessionInv, ClientStep, ~Merging' PROVE SessionInv'
<1>1. CASE \E k \in Key, v \in Value : Put(k, v)
  <2>1. PICK k \in Key, v \in Value : Put(k, v)
    BY Zenon, <1>1
  <2>2. PICK f \in FileId, o \in 0 .. MaxSegmentSize :
          /\ AppendEntry(k, v, 0, f, o)
          /\ keyDir' = [keyDir EXCEPT ![k] = [file |-> f, offset |-> o]]
          /\ last' = [last EXCEPT ![k] = {v}]
    BY Zenon, <2>1 DEF Put, PutEntry
  <2>3. o \in Nat /\ 0 \in {0, 1} /\ pc = "idle" /\ pc' = "idle"
    BY <2>1, ConstantsAssumption DEF ConstantsAssumption, Put
  <2> QED
    BY Zenon, <2>2, <2>3, SessionAppend
<1>2. CASE \E k \in DeletableKey : Delete(k)
  <2>1. PICK k \in DeletableKey : Delete(k)
    BY Zenon, <1>2
  <2>2. PICK f \in FileId, o \in 0 .. MaxSegmentSize : AppendEntry(k, Empty, 1, f, o)
    BY Zenon, <2>1 DEF Delete
  <2>3. /\ pc = "idle" /\ pc' = "idle"
        /\ keyDir' = [keyDir EXCEPT ![k] = NoEntry] /\ last' = [last EXCEPT ![k] = {}]
    BY Zenon, <2>1 DEF Delete
  <2>4. o \in Nat /\ 1 \in {0, 1} /\ k \in Key /\ Empty \in Value
    BY ConstantsAssumption DEF ConstantsAssumption
  <2> QED
    BY Zenon, <2>2, <2>3, <2>4, SessionAppend
<1>3. CASE PutFails \/ DeleteFails
  <2>1. /\ AppendFails /\ UNCHANGED <<files, keyDir, last>>
        /\ pc \in {"idle", "append"} /\ pc' \in {"idle", pc}
    BY ZenonT(40), <1>3 DEF PutFails, DeleteFails, ghost_vars
  <2>2. pc = "idle" /\ pc' = "idle"
    BY <2>1 DEF SessionInv
  <2> QED
    BY Zenon, <2>1, <2>2, SessionFails
<1>4. CASE \E k \in Key, v \in Value : BeginMerge(k, v)
  BY Zenon, <1>4 DEF BeginMerge, Merging
<1> QED
  BY Zenon, <1>1, <1>2, <1>3, <1>4 DEF ClientStep

\* Each step up to the first merge keeps the invariant.
LEMMA SessionStep ==
  ASSUME IInv, SessionInv, ~Merging, ~Merging', [SessionNext]_vars
  PROVE  SessionInv'
<1>1. CASE ClientStep
  BY Zenon, <1>1, SessionClient
<1>2. CASE MergeStep
  <2>1. pc \notin {"take_all", "merge_with", "write_back", "remove", "append"}
    BY DEF SessionInv
  <2> QED
    BY ZenonT(40), <1>2, <2>1
    DEF MergeStep, MergeEntry, StartWriteBack, WriteBackEntry, FinishWriteBack, WriteBackFails,
        RemoveSegment, FinishMerge, AppendPending, MergeRead, Merging
<1>3. CASE StartStep \/ NextSegment
  BY Zenon, <1>3, SessionStart DEF StartStep
<1>4. CASE UNCHANGED vars
  <2>1. UNCHANGED <<pc, disk, left, cur, keyDir, last, files, inactive, active>>
    BY Zenon, <1>4 DEF vars, disk_vars, mem_vars, merge_vars, loop_vars, ghost_vars
  <2>2. Live' = Live /\ \A k \in Key : GetValue(k)' = GetValue(k)
    BY Zenon, <2>1 DEF Live, GetValue, EntryAt
  <2> QED
    BY Zenon, <2>1, <2>2 DEF SessionInv
<1> QED
  BY Zenon, <1>1, <1>2, <1>3, <1>4 DEF SessionNext

\* get answers what the last insert or delete of the key says.
LEMMA AnswersAreLast == ASSUME IInv, SessionInv PROVE ReadsLatest
<1>1. ASSUME NEW k \in Key
      PROVE  \/ GetStatus(k) = "EntryNotFound" /\ last[k] = {}
             \/ GetStatus(k) = "Ok" /\ last[k] = {GetValue(k)}
  BY Zenon DEF SessionInv, GetStatus
<1> QED
  BY Zenon, <1>1 DEF ReadsLatest

\* A life of the process is one of the behaviours of the store.
LEMMA SessionInvariance ==
  ~ClockRestarts /\ SessionSpec /\ []~Merging => [](IInv /\ SessionInv)
<1> SUFFICES ASSUME ~ClockRestarts PROVE SessionSpec /\ []~Merging => [](IInv /\ SessionInv)
  OBVIOUS
<1>1. IInv /\ [SessionNext]_vars => IInv'
  BY Zenon, NextInv DEF Next
<1>2. IInv /\ SessionInv /\ ~Merging /\ ~Merging' /\ [SessionNext]_vars => SessionInv'
  BY Zenon, SessionStep
<1> QED
  BY <1>1, <1>2, InitInv, SessionInitInv, PTL DEF SessionSpec

\* From the start of the process to its first merge, get returns what the last insert of
\* the key wrote, and finds nothing after a delete, whatever rollovers and failed writes
\* come between.
THEOREM ReadsAreLatest == ~ClockRestarts /\ SessionSpec /\ []~Merging => []ReadsLatest
<1>1. IInv /\ SessionInv => ReadsLatest
  BY Zenon, AnswersAreLast
<1> QED
  BY <1>1, SessionInvariance, PTL

-----------------------------------------------------------------------------
(* The store implements KvMap *)

\* What get answers for a key stays as it is when the pointer, its segment and its
\* entry do.
LEMMA AnswerSame ==
  ASSUME NEW k \in Key, keyDir'[k] = keyDir[k],
         keyDir[k].file \in Live' <=> keyDir[k].file \in Live,
         keyDir[k].file \in Live => GetValue(k)' = GetValue(k)
  PROVE  Answer(k)' = Answer(k)
<1>1. CASE keyDir[k] = NoEntry
  BY <1>1 DEF Answer, GetStatus
<1>2. CASE keyDir[k] # NoEntry /\ keyDir[k].file \in Live
  BY ZenonT(40), <1>2 DEF Answer, GetStatus
<1>3. CASE keyDir[k] # NoEntry /\ keyDir[k].file \notin Live
  BY <1>3 DEF Answer, GetStatus
<1> QED
  BY ZenonT(40), <1>1, <1>2, <1>3

\* An append changes the answer for its own key only: a put to its value, a delete to
\* nothing.
LEMMA AppendAnswer ==
  ASSUME IInv, pc \notin {"down", "reload"}, NEW k \in Key, NEW v \in Value,
         NEW del \in {0, 1}, NEW f \in FileId, NEW o \in Nat, AppendEntry(k, v, del, f, o),
         NEW p, keyDir' = [keyDir EXCEPT ![k] = p]
  PROVE  /\ \A x \in Key \ {k} : Answer(x)' = Answer(x)
         /\ p = [file |-> f, offset |-> o] => Answer(k)' = {v}
         /\ p = NoEntry => Answer(k)' = {}
<1>1. keyDir \in [Key -> Pointer \cup {NoEntry}]
  BY ZenonT(40) DEF IInv, TypeOK
<1>2. Rollover(f, o) /\ o = Len(files[f])
  BY AppendEffect
<1>3. PICK e \in Entry : e.value = v /\ Appended(f, e)
  BY AppendEffect
<1>4. /\ Live \subseteq Live' /\ f \in Live'
      /\ \A x \in Key : keyDir[x].file \in Live' => keyDir[x].file \in Live
  BY Zenon, <1>2, RolloverLive
<1>5. ASSUME NEW x \in Key \ {k} PROVE Answer(x)' = Answer(x)
  <2>1. keyDir'[x] = keyDir[x]
    BY Zenon, <1>1
  <2>2. ASSUME keyDir[x].file \in Live PROVE GetValue(x)' = GetValue(x)
    <3>1. keyDir[x] # NoEntry
      BY <2>2 DEF NoEntry, Live, FileId
    <3> QED
      BY ZenonT(40), <1>3, <1>4, <2>1, <2>2, <3>1, AnswerKept
  <2> QED
    BY Zenon, <1>4, <2>1, <2>2, AnswerSame
<1>6. ASSUME p = [file |-> f, offset |-> o] PROVE Answer(k)' = {v}
  <2>1. keyDir'[k] = [file |-> f, offset |-> o]
    BY ZenonT(40), <1>1, <1>6
  <2>2. keyDir'[k].file = f /\ keyDir'[k].offset = o /\ keyDir'[k] # NoEntry
    BY <2>1 DEF NoEntry, FileId
  <2>3. files'[f][o + 1] = e
    BY ZenonT(40), <1>2, <1>3 DEF Appended
  <2>4. GetValue(k)' = v
    BY Zenon, <1>3, <2>2, <2>3 DEF GetValue, EntryAt
  <2>5. GetStatus(k)' = "Ok"
    BY Zenon, <1>4, <2>2 DEF GetStatus
  <2> QED
    BY Zenon, <2>4, <2>5 DEF Answer
<1>7. ASSUME p = NoEntry PROVE Answer(k)' = {}
  <2>1. keyDir'[k] = NoEntry
    BY Zenon, <1>1, <1>7
  <2> QED
    BY <2>1 DEF Answer, GetStatus
<1> QED
  BY Zenon, <1>5, <1>6, <1>7

\* A put or delete that fails may have opened a segment, and changes no answer.
LEMMA FailAnswer ==
  ASSUME IInv, pc \notin {"down", "reload"}, AppendFails, UNCHANGED <<files, keyDir>>
  PROVE  \A k \in Key : Answer(k)' = Answer(k)
<1>1. \A k \in Key : GetValue(k)' = GetValue(k)
  BY Zenon DEF GetValue, EntryAt
<1>2. \A k \in Key : keyDir[k].file \in Live' <=> keyDir[k].file \in Live
  <2>1. CASE UNCHANGED <<inactive, active>>
    BY Zenon, <2>1 DEF Live
  <2>2. CASE \E f \in FileId, o \in 0 .. MaxSegmentSize : Rollover(f, o)
    <3>1. PICK f \in FileId, o \in 0 .. MaxSegmentSize : Rollover(f, o)
      BY Zenon, <2>2
    <3>2. o \in Nat
      BY ConstantsAssumption DEF ConstantsAssumption
    <3> QED
      BY Zenon, <3>1, <3>2, RolloverLive
  <2> QED
    BY Zenon, <2>1, <2>2 DEF AppendFails
<1> QED
  BY Zenon, <1>1, <1>2, AnswerSame

\* The entry get reads was written for this key by a client: an inserted value, or for
\* a key that may be deleted the empty one of a tombstone.
LEMMA IInvVersions == IInv => VersionsInv
<1> SUFFICES ASSUME IInv, Running, NEW k \in Key PROVE Answer(k) \in Map!Versions(k)
  BY Zenon DEF VersionsInv
<1>1. CASE keyDir[k] # NoEntry /\ keyDir[k].file \in Live
  <2>1. keyDir[k] \in Pointer /\ Sound(k, keyDir[k]) /\ files \in [FileId -> Seq(Entry)]
    BY ZenonT(40), <1>1 DEF IInv, TypeOK, PointerInv
  <2>2. /\ keyDir[k].file \in FileId
        /\ keyDir[k].offset + 1 \in 1 .. Len(files[keyDir[k].file])
    BY <2>1 DEF Pointer, Sound
  <2>3. KeptEntry(EntryAt(keyDir[k])) /\ EntryAt(keyDir[k]).key = k
    BY ZenonT(40), <2>1, <2>2 DEF IInv, KeptInv, EntryAt, Sound
  <2>4. EntryAt(keyDir[k]) \in Entry
    BY <2>1, <2>2 DEF EntryAt
  <2>5. /\ Answer(k) = {GetValue(k)} /\ GetValue(k) \in Value
        /\ k \in KeptKey => <<k, GetValue(k)>> \in written
        /\ <<k, GetValue(k)>> \in written \/ GetValue(k) = Empty
    BY Zenon, <1>1, <2>3, <2>4 DEF Answer, GetStatus, GetValue, KeptEntry, Entry
  <2> QED
    BY Zenon, <2>5 DEF Map!Versions, KeptKey
<1>2. CASE ~(keyDir[k] # NoEntry /\ keyDir[k].file \in Live)
  <2>1. Answer(k) = {}
    BY <1>2 DEF Answer, GetStatus
  <2>2. k \in KeptKey => ~Inserted(k)
    BY Zenon, <1>2 DEF IInv, DurableInv, Running
  <2> QED
    BY Zenon, <2>1, <2>2 DEF Map!Versions, KeptKey, Inserted
<1> QED
  BY Zenon, <1>1, <1>2

\* What the map sees of a store that is open, and of one that is not.
LEMMA OpenView ==
  ASSUME pc \in PC
  PROVE  /\ pc \notin {"down", "reload"} =>
              Running /\ Status = "open" /\ Answers = [k \in Key |-> Answer(k)]
         /\ pc \in {"down", "reload"} =>
              Status = "closed" /\ Answers = [k \in Key |-> {}]
<1>1. ASSUME pc \notin {"down", "reload"}
      PROVE  Running /\ Status = "open" /\ Answers = [k \in Key |-> Answer(k)]
  <2>1. Running
    BY <1>1 DEF Running
  <2> QED
    BY Zenon, <2>1 DEF Status, Answers
<1>2. ASSUME pc \in {"down", "reload"}
      PROVE  Status = "closed" /\ Answers = [k \in Key |-> {}]
  <2>1. ~Running
    BY <1>2 DEF Running
  <2> QED
    BY Zenon, <2>1 DEF Status, Answers
<1> QED
  BY Zenon, <1>1, <1>2

\* The same after a step.
LEMMA OpenViewAfter ==
  ASSUME pc' \in PC
  PROVE  /\ pc' \notin {"down", "reload"} =>
              Running' /\ Status' = "open" /\ Answers' = [k \in Key |-> Answer(k)']
         /\ pc' \in {"down", "reload"} =>
              Status' = "closed" /\ Answers' = [k \in Key |-> {}]
<1>1. ASSUME pc' \notin {"down", "reload"}
      PROVE  Running' /\ Status' = "open" /\ Answers' = [k \in Key |-> Answer(k)']
  <2>1. Running'
    BY <1>1 DEF Running
  <2> QED
    BY Zenon, <2>1 DEF Status, Answers
<1>2. ASSUME pc' \in {"down", "reload"}
      PROVE  Status' = "closed" /\ Answers' = [k \in Key |-> {}]
  <2>1. ~Running'
    BY <1>2 DEF Running
  <2> QED
    BY Zenon, <2>1 DEF Status, Answers
<1> QED
  BY Zenon, <1>1, <1>2

\* Two answers that differ in one key at most.
LEMMA OneAnswer ==
  ASSUME NEW k \in Key, NEW a, pc \in PC, pc' \in PC,
         pc \notin {"down", "reload"}, pc' \notin {"down", "reload"},
         \A x \in Key \ {k} : Answer(x)' = Answer(x), Answer(k)' = a
  PROVE  Answers' = [Answers EXCEPT ![k] = a]
<1>1. Answers = [x \in Key |-> Answer(x)] /\ Answers' = [x \in Key |-> Answer(x)']
  BY Zenon, OpenView, OpenViewAfter
<1> QED
  BY <1>1

\* The append of a put is an insert of the map.
LEMMA PutEntryMaps ==
  ASSUME IInv, IInv', pc \in {"idle", "append"}, pc' = "idle", NEW k \in Key, NEW v \in Value,
         PutEntry(k, v), pending \subseteq {<<k, v>>}, pending' = {}
  PROVE  Map!Insert(k, v)
<1>1. PICK f \in FileId, o \in 0 .. MaxSegmentSize :
        /\ AppendEntry(k, v, 0, f, o)
        /\ keyDir' = [keyDir EXCEPT ![k] = [file |-> f, offset |-> o]]
        /\ written' = written \cup {<<k, v>>}
        /\ last' = [last EXCEPT ![k] = {v}]
  BY Zenon DEF PutEntry
<1>2. /\ o \in Nat /\ 0 \in {0, 1} /\ pc \in PC /\ pc' \in PC
      /\ pc \notin {"down", "reload"} /\ pc' \notin {"down", "reload"}
  BY ConstantsAssumption DEF ConstantsAssumption, PC
<1>3. (\A x \in Key \ {k} : Answer(x)' = Answer(x)) /\ Answer(k)' = {v}
  <2>1. PICK p : p = [file |-> f, offset |-> o]
    BY Zenon
  <2>2. AppendEntry(k, v, 0, f, o) /\ keyDir' = [keyDir EXCEPT ![k] = p]
    BY Zenon, <1>1, <2>1
  <2> QED
    BY Zenon, <1>2, <2>1, <2>2, AppendAnswer
<1>4. Answers' = [Answers EXCEPT ![k] = {v}]
  BY Zenon, <1>2, <1>3, OneAnswer
<1>5. Status = "open" /\ Status' = "open"
  BY Zenon, <1>2, OpenView, OpenViewAfter
<1> QED
  BY Zenon, <1>1, <1>4, <1>5 DEF Map!Insert

\* delete is the map's.
LEMMA DeleteMaps ==
  ASSUME IInv, PendingInv, NEW k \in DeletableKey, Delete(k)
  PROVE  Map!Delete(k)
<1>1. PICK f \in FileId, o \in 0 .. MaxSegmentSize : AppendEntry(k, Empty, 1, f, o)
  BY Zenon DEF Delete
<1>2. /\ pc = "idle" /\ pc' = pc /\ keyDir' = [keyDir EXCEPT ![k] = NoEntry]
      /\ last' = [last EXCEPT ![k] = {}] /\ pending' = pending /\ written' = written
  BY Zenon DEF Delete, merge_vars
<1>3. /\ o \in Nat /\ 1 \in {0, 1} /\ k \in Key /\ Empty \in Value /\ pc \in PC /\ pc' \in PC
      /\ pc \notin {"down", "reload"} /\ pc' \notin {"down", "reload"} /\ pending = {}
  BY <1>2, ConstantsAssumption DEF ConstantsAssumption, PC, PendingInv
<1>4. (\A x \in Key \ {k} : Answer(x)' = Answer(x)) /\ Answer(k)' = {}
  BY Zenon, <1>1, <1>2, <1>3, AppendAnswer
<1>5. Answers' = [Answers EXCEPT ![k] = {}]
  BY Zenon, <1>3, <1>4, OneAnswer
<1>6. Status = "open" /\ Status' = "open"
  BY Zenon, <1>3, OpenView, OpenViewAfter
<1> QED
  BY Zenon, <1>2, <1>3, <1>5, <1>6 DEF Map!Delete

\* A put or delete that fails changes no answer; after a merge it ends the put.
LEMMA FailsMap ==
  ASSUME IInv, PendingInv, PutFails \/ DeleteFails
  PROVE  Map!InsertFails \/ UNCHANGED Map!map_vars
<1>1. /\ pc \in {"idle", "append"} /\ pc' \in {"idle", pc} /\ AppendFails
      /\ UNCHANGED <<files, keyDir, written, last>>
      /\ pending' \in {{}, pending}
  BY Zenon DEF PutFails, DeleteFails, merge_vars, ghost_vars
<1>2. /\ pc \in PC /\ pc' \in PC
      /\ pc \notin {"down", "reload"} /\ pc' \notin {"down", "reload"}
  BY <1>1 DEF PC
<1>3. \A k \in Key : Answer(k)' = Answer(k)
  BY Zenon, <1>1, <1>2, FailAnswer
<1>4. Answers' = Answers /\ Status' = Status
  BY Zenon, <1>2, <1>3, OpenView, OpenViewAfter
<1>5. CASE pending = {}
  BY Zenon, <1>1, <1>4, <1>5 DEF Map!map_vars
<1>6. CASE pending # {} /\ pending' = {}
  BY Zenon, <1>1, <1>4, <1>6 DEF Map!InsertFails
<1>7. CASE pending' = pending
  BY Zenon, <1>1, <1>4, <1>7 DEF Map!map_vars
<1> QED
  BY Zenon, <1>1, <1>5, <1>6, <1>7

\* The beginning of a merge changes no answer, and the put that begins it waits.
LEMMA BeginMergeMaps ==
  ASSUME IInv, PendingInv, NEW k \in Key, NEW v \in Value, BeginMerge(k, v)
  PROVE  Map!BeginMerge(k, v)
<1>1. /\ pc = "idle" /\ pc' = "take_all" /\ pending' = {<<k, v>>}
      /\ UNCHANGED <<files, keyDir, inactive, active, written, last>>
  BY Zenon DEF BeginMerge, disk_vars, mem_vars, ghost_vars
<1>2. /\ pc \in PC /\ pc' \in PC /\ pending = {}
      /\ pc \notin {"down", "reload"} /\ pc' \notin {"down", "reload"}
  BY <1>1 DEF PC, PendingInv
<1>3. Live' = Live /\ \A x \in Key : GetValue(x)' = GetValue(x)
  BY Zenon, <1>1 DEF Live, GetValue, EntryAt
<1>4. \A x \in Key : Answer(x)' = Answer(x)
  BY Zenon, <1>1, <1>3 DEF Answer, GetStatus
<1>5. Answers' = Answers /\ Status = "open" /\ Status' = "open"
  BY Zenon, <1>2, <1>4, OpenView, OpenViewAfter
<1> QED
  BY Zenon, <1>1, <1>2, <1>5 DEF Map!BeginMerge

\* Whatever the other steps of a merge do to the answers, they stay within their
\* history, while the put that began the merge waits.
LEMMA MergeMaps ==
  ASSUME PendingInv, VersionsInv', pc \in PC, pc' \in PC,
         pc \notin {"down", "reload", "idle"}, pc' \notin {"down", "reload", "idle"},
         UNCHANGED <<pending, written, last>>
  PROVE  Map!Merge
<1>1. pc \notin {"down", "reload"} /\ pc' \notin {"down", "reload"}
  OBVIOUS
<1>2. pending # {}
  BY Zenon DEF PendingInv
<1>3. /\ Status = "open" /\ Status' = "open" /\ Running'
      /\ Answers' = [k \in Key |-> Answer(k)']
  BY Zenon, <1>1, OpenView, OpenViewAfter
<1>4. \A k \in Key : Map!Versions(k)' = Map!Versions(k)
  BY Zenon DEF Map!Versions
<1>5. \A k \in Key : Answers'[k] \in Map!Versions(k)
  BY Zenon, <1>3, <1>4 DEF VersionsInv
<1>6. DOMAIN Answers' = Key
  BY <1>3
<1> QED
  BY ZenonT(40), <1>2, <1>3, <1>5, <1>6 DEF Map!Merge

\* A closed store is opened by the end of start-up.
LEMMA RestartMaps ==
  ASSUME PendingInv, VersionsInv', FinishReload
  PROVE  Map!Restart
<1>1. pc = "reload" /\ pc' = "idle" /\ UNCHANGED <<pending, written, last>>
  BY Zenon DEF FinishReload, ghost_vars
<1>2. /\ pc \in PC /\ pc' \in PC
      /\ pc \in {"down", "reload"} /\ pc' \notin {"down", "reload"}
  BY <1>1 DEF PC
<1>3. /\ Status = "closed" /\ Status' = "open" /\ Running'
      /\ Answers' = [k \in Key |-> Answer(k)']
  BY Zenon, <1>2, OpenView, OpenViewAfter
<1>4. \A k \in Key : Map!Versions(k)' = Map!Versions(k)
  BY Zenon, <1>1 DEF Map!Versions
<1>5. \A k \in Key : Answers'[k] \in Map!Versions(k)
  BY Zenon, <1>3, <1>4 DEF VersionsInv
<1>6. DOMAIN Answers' = Key
  BY <1>3
<1> QED
  BY Zenon, <1>1, <1>3, <1>5, <1>6 DEF Map!Restart

\* A store that is closed stays so until start-up has read all segments.
LEMMA ClosedMaps ==
  ASSUME pc \in PC, pc' \in PC, pc \in {"down", "reload"}, pc' \in {"down", "reload"},
         pending = {}, pending' = {}, UNCHANGED <<written, last>>
  PROVE  UNCHANGED Map!map_vars
<1>1. Answers' = Answers /\ Status' = Status
  BY Zenon, OpenView, OpenViewAfter
<1> QED
  BY Zenon, <1>1 DEF Map!map_vars

\* Death closes the store.
LEMMA CrashMaps ==
  ASSUME IInv, PendingInv, Crash
  PROVE  Map!Die \/ UNCHANGED Map!map_vars
<1>1. pc' = "down" /\ pending' = {} /\ UNCHANGED <<written, last>>
  BY ZenonT(40) DEF Crash, ghost_vars
<1>2. pc' \in PC /\ pc' \in {"down", "reload"} /\ pc \in PC
  BY <1>1 DEF PC, IInv, TypeOK
<1>3. CASE pc \in {"down", "reload"}
  <2>1. pending = {}
    BY <1>3 DEF PendingInv
  <2> QED
    BY Zenon, <1>1, <1>2, <1>3, <2>1, ClosedMaps
<1>4. CASE pc \notin {"down", "reload"}
  <2>1. Status = "open" /\ Status' = "closed" /\ Answers' = [k \in Key |-> {}]
    BY Zenon, <1>2, <1>4, OpenView, OpenViewAfter
  <2> QED
    BY Zenon, <1>1, <2>1 DEF Map!Die, Map!NoAnswer
<1> QED
  BY Zenon, <1>3, <1>4

\* What a step of a merge leaves alone, the append of its put excepted.
LEMMA MergeStepKeeps ==
  ASSUME IInv, (MergeStep /\ ~AppendPending) \/ (NextSegment /\ Merging)
  PROVE  /\ pc \in PC /\ pc' \in PC
         /\ pc \notin {"down", "reload", "idle"} /\ pc' \notin {"down", "reload", "idle"}
         /\ UNCHANGED <<pending, written, last>>
<1>1. CASE MergeEntry \/ StartWriteBack \/ (NextSegment /\ Merging)
  <2>1. /\ pc \in {"take_all", "merge_with"} /\ pc' \in {pc, "merge_with", "write_back"}
        /\ UNCHANGED <<pending, written, last>>
    BY Zenon, <1>1 DEF MergeEntry, StartWriteBack, NextSegment, MergeRead, Merging,
          ghost_vars
  <2> QED
    BY <2>1 DEF PC
<1>2. CASE (\E e \in valueByKey : WriteBackEntry(e)) \/ FinishWriteBack \/ WriteBackFails
  <2>1. /\ pc \in {"take_all", "merge_with", "write_back"}
        /\ pc' \in {pc, "remove", "append"}
        /\ UNCHANGED <<pending, written, last>>
    BY Zenon, <1>2 DEF WriteBackEntry, FinishWriteBack, WriteBackFails, MergeRead, Merging,
          ghost_vars
  <2> QED
    BY <2>1 DEF PC
<1>3. CASE (\E f \in fileIds : RemoveSegment(f)) \/ FinishMerge
  <2>1. /\ pc = "remove" /\ pc' \in {pc, "append"}
        /\ UNCHANGED <<pending, written, last>>
    BY Zenon, <1>3 DEF RemoveSegment, FinishMerge, merge_vars, ghost_vars
  <2> QED
    BY <2>1 DEF PC
<1> QED
  BY Zenon, <1>1, <1>2, <1>3 DEF MergeStep

\* What the steps of start-up leave alone, the last one excepted.
LEMMA ReloadKeeps ==
  ASSUME Start \/ ReloadEntry \/ (NextSegment /\ ~Merging)
  PROVE  /\ pc \in PC /\ pc' \in PC /\ pc \in {"down", "reload"} /\ pc' \in {"down", "reload"}
         /\ UNCHANGED <<pending, written, last>>
<1>1. /\ pc \in {"down", "reload"} /\ pc' = "reload"
      /\ UNCHANGED <<pending, written, last>>
  BY Zenon DEF Start, ReloadEntry, NextSegment, ghost_vars
<1> QED
  BY <1>1 DEF PC

\* A put is pending from the merge it begins to its own append, and at no other time.
LEMMA PendingStep == ASSUME IInv, PendingInv, [Next]_vars PROVE PendingInv'
<1>1. CASE (\E k \in Key, v \in Value : Put(k, v)) \/ (\E k \in DeletableKey : Delete(k))
             \/ DeleteFails \/ UNCHANGED vars
  <2>1. pc' = pc /\ pending' = pending
    BY Zenon, <1>1 DEF Put, Delete, DeleteFails, merge_vars, vars
  <2> QED
    BY Zenon, <2>1 DEF PendingInv
<1>2. CASE PutFails \/ AppendPending
  <2>1. pc' = "idle" /\ pending' = {}
    BY Zenon, <1>2 DEF PutFails, AppendPending
  <2> QED
    BY <2>1 DEF PendingInv
<1>3. CASE \E k \in Key, v \in Value : BeginMerge(k, v)
  <2>1. pc' = "take_all" /\ \E k \in Key, v \in Value : pending' = {<<k, v>>}
    BY Zenon, <1>3 DEF BeginMerge
  <2>2. pc' \notin {"down", "reload", "idle"}
    BY <2>1
  <2> QED
    BY Zenon, <2>1, <2>2 DEF PendingInv
<1>4. CASE (MergeStep /\ ~AppendPending) \/ (NextSegment /\ Merging)
  BY Zenon, <1>4, MergeStepKeeps DEF PendingInv
<1>5. CASE Start \/ ReloadEntry \/ (NextSegment /\ ~Merging)
  <2>1. /\ pc \in {"down", "reload"} /\ pc' \in {"down", "reload"} /\ pending' = pending
    BY Zenon, <1>5, ReloadKeeps
  <2> QED
    BY <2>1 DEF PendingInv
<1>6. CASE FinishReload
  <2>1. pc = "reload" /\ pc' = "idle" /\ pending' = pending
    BY Zenon, <1>6 DEF FinishReload
  <2> QED
    BY <2>1 DEF PendingInv
<1>7. CASE Crash
  <2>1. pc' = "down" /\ pending' = {}
    BY Zenon, <1>7 DEF Crash
  <2> QED
    BY <2>1 DEF PendingInv
<1> QED
  BY ZenonT(40), <1>1, <1>2, <1>3, <1>4, <1>5, <1>6, <1>7
     DEF Next, SessionNext, ClientStep, StartStep, MergeStep

\* Each step of the store is a step of the map or changes nothing a client sees.
LEMMA StepMaps ==
  ASSUME IInv, IInv', PendingInv, PendingInv', VersionsInv', [Next]_vars
  PROVE  [Map!Next]_(Map!map_vars)
<1>1. CASE \E k \in Key, v \in Value : Put(k, v)
  <2>1. PICK k \in Key, v \in Value : Put(k, v)
    BY Zenon, <1>1
  <2>2. pc = "idle" /\ pc' = "idle" /\ PutEntry(k, v) /\ pending' = pending
    BY ZenonT(40), <2>1 DEF Put, merge_vars
  <2>3. pending \subseteq {<<k, v>>} /\ pending' = {} /\ pc \in {"idle", "append"}
    BY <2>2 DEF PendingInv
  <2>4. Map!Insert(k, v)
    BY Zenon, <2>2, <2>3, PutEntryMaps
  <2> QED
    BY Zenon, <2>4 DEF Map!Next
<1>2. CASE AppendPending
  <2>1. /\ pc = "append" /\ pc' = "idle" /\ pending' = {}
        /\ \E p \in pending : PutEntry(p[1], p[2])
    BY ZenonT(40), <1>2 DEF AppendPending
  <2>2. PICK k \in Key, v \in Value : pending = {<<k, v>>}
    BY <2>1 DEF PendingInv
  <2>3. <<k, v>>[1] = k /\ <<k, v>>[2] = v
    OBVIOUS
  <2>4. PutEntry(k, v) /\ pending \subseteq {<<k, v>>} /\ pc \in {"idle", "append"}
    BY Zenon, <2>1, <2>2, <2>3
  <2>5. Map!Insert(k, v)
    BY Zenon, <2>1, <2>4, PutEntryMaps
  <2> QED
    BY Zenon, <2>5 DEF Map!Next
<1>3. CASE \E k \in DeletableKey : Delete(k)
  BY Zenon, <1>3, DeleteMaps DEF Map!Next
<1>4. CASE PutFails \/ DeleteFails
  BY Zenon, <1>4, FailsMap DEF Map!Next
<1>5. CASE \E k \in Key, v \in Value : BeginMerge(k, v)
  BY Zenon, <1>5, BeginMergeMaps DEF Map!Next
<1>6. CASE (MergeStep /\ ~AppendPending) \/ (NextSegment /\ Merging)
  BY Zenon, <1>6, MergeStepKeeps, MergeMaps DEF Map!Next
<1>7. CASE Start \/ ReloadEntry \/ (NextSegment /\ ~Merging)
  <2>1. /\ pc \in PC /\ pc' \in PC /\ pc \in {"down", "reload"} /\ pc' \in {"down", "reload"}
        /\ UNCHANGED <<pending, written, last>>
    BY ZenonT(40), <1>7, ReloadKeeps
  <2>2. pending = {} /\ pending' = {}
    BY <2>1 DEF PendingInv
  <2> QED
    BY Zenon, <2>1, <2>2, ClosedMaps
<1>8. CASE FinishReload
  BY Zenon, <1>8, RestartMaps DEF Map!Next
<1>9. CASE Crash
  BY Zenon, <1>9, CrashMaps DEF Map!Next
<1>10. CASE UNCHANGED vars
  <2>1. UNCHANGED <<files, keyDir, inactive, active, pc, pending, written, last>>
    BY Zenon, <1>10 DEF vars, disk_vars, mem_vars, merge_vars, ghost_vars
  <2>2. Answers' = Answers /\ Status' = Status
    BY Zenon, <2>1 DEF Answers, Answer, GetStatus, GetValue, EntryAt, Live, Status, Running
  <2> QED
    BY ZenonT(40), <2>1, <2>2 DEF Map!map_vars
<1> QED
  BY ZenonT(40), <1>1, <1>2, <1>3, <1>4, <1>5, <1>6, <1>7, <1>8, <1>9, <1>10
     DEF Next, SessionNext, ClientStep, StartStep, MergeStep

\* The store implements the map, over rollovers, failed calls, merges, crashes and
\* restarts, for any number of keys, values, segments and steps: an answer changes
\* only by the put or delete of its key that succeeds, and a merge or a restart can
\* bring back nothing but a version from the key's own history.
THEOREM StoreImplementsMap == ~ClockRestarts /\ Spec => ImplementsMap
<1>1. Init => Map!Init /\ PendingInv
  <2> SUFFICES ASSUME Init PROVE Map!Init /\ PendingInv
    OBVIOUS
  <2>1. /\ pc = "down" /\ pending = {} /\ written = {}
        /\ last = [k \in Key |-> {}]
    BY Zenon DEF Init
  <2>2. pc \in PC /\ pc \in {"down", "reload"}
    BY <2>1 DEF PC
  <2>3. Status = "closed" /\ Answers = [k \in Key |-> {}]
    BY Zenon, <2>2, OpenView
  <2>4. Map!Init
    BY Zenon, <2>1, <2>3 DEF Map!Init, Map!NoAnswer
  <2>5. PendingInv
    BY <2>1 DEF PendingInv
  <2> QED
    BY Zenon, <2>4, <2>5
<1>2. IInv /\ PendingInv /\ [Next]_vars => PendingInv'
  BY Zenon, PendingStep
<1>3. IInv => VersionsInv
  BY Zenon, IInvVersions
<1>4. IInv /\ IInv' /\ PendingInv /\ PendingInv' /\ VersionsInv' /\ [Next]_vars
        => [Map!Next]_(Map!map_vars)
  BY Zenon, StepMaps
<1> QED
  BY <1>1, <1>2, <1>3, <1>4, Invariance, PTL DEF Spec, ImplementsMap, Map!Spec
=============================================================================
