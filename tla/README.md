# TLA+ verification of bitspend-client

bitspend-client is a Bitcoin payment client that runs as WebAssembly components: a
light client that follows the block chain with compact block filters (BIP 157/158), a
watch-only wallet, a signer and a key-value store that keeps their state. This
directory holds TLA+ models of its parts, the TLC instances that check them, and proofs
that TLAPS checks. `PROJECT.json` is the index: which definition models which lines, the
runs, the mutants that show that each property can fail, the findings, and the hazards
of the code with the properties that watch them.

## The system

| Part | Source | State | Operations that change it |
|---|---|---|---|
| Key-value store | `crates/kv/src` | segment files on disk; active and inactive segments; key directory; write counter | `put` (rolls over, merges every `run_merge_every` writes), `delete`, `begin_merge`/`write_back`, `reload` at start |
| Watch-only wallet | `crates/wallet/src/watch_wallet.rs` | `pubkey_map`, `change_depth`, `utxo_map` | `get_receive_address`, `insert_utxos`, `create_psbt_tx` |
| Coin selection | `crates/wallet/src/coin_selection.rs` | none | `coin_select`: branch and bound, then a random draw |
| Signer | `crates/signer/src` | the master key | none |
| Compact chain | `node/src/chain.rs` | `last_block_height`, `last_block_hash` | `sync_state`, which inserts into the wallet |
| Node | `node/src/node.rs` | the parts above, and what is stored of them | `new`, `restore`, `balance`, `get_receive_address`, `send_to_address`, `store_state` |
| Peer | `node/src/p2p.rs`, `tcpsocket.rs` | the connection | handshake, keep-alive, requests with a timeout of a second |
| Block filter | `node/src/util/block_filter.rs` | none | decoding of a filter and the search for scripts in it |
| Message codec | `node/src/messages`, `node/src/util` (`var_int`, `serdes`, `hash256`) | the place in the stream of bytes | read, write and size of every message |
| Test client, example | `client-test`, `examples/mobile-money` | | drivers of the node |

A call of the user runs on one thread: it syncs (`chain` asks the peer and reports
outputs and spends to `wallet`), perhaps builds, signs and sends a transaction, and then
`store_state` inserts four keys into the key-value store, one after the other. What
makes this hard is not parallelism inside the client. It is that the process can end
between any two effects, that requests fail in the middle of a sync, that answers come
late and are told apart by their command only, that the peer's chain grows meanwhile,
and that the store reorganises its files while it runs.

## Modules

| Module | What it is |
|---|---|
| `KvStore` | the store: one action per disk operation, so that a crash can fall between any two |
| `KvMap` | what a client can rely on: a map between merges and restarts, and what these may do to it |
| `KvRefinement` | the mapping under which the store implements `KvMap` |
| `KvSession` | the invariant of the store up to its first merge |
| `KvStoreInv`, `KvStoreProofs` | the store's inductive invariant and the proofs: appends and rollover, the steps of a merge, then crashes, start-up and the theorems |
| `Octets` | bytes, four of them as a number, and `read_exact` |
| `SegmentFile` | one segment file of the store as bytes: encoding and decoding of entries, short and torn writes |
| `WatchWallet` | the wallet, with coin selection given by what it can return |
| `CoinSelection`, `SelectionRefinement` | coin selection step by step (extends `WatchWallet`), and the mapping under which it implements `WatchWallet` |
| `WatchWalletProofs` | sums over finite sets of outputs, and what follows for a selection and the transaction made of it |
| `CoinSelectionProofs` | the proofs about coin selection, the refinement included |
| `CompactChain` | `sync_state` over the wallet (extends `WatchWallet`), and the peer's chain |
| `CompactChainProofs` | its proofs |
| `Node` | the client's calls, its database, kills and restarts (extends `CompactChain`) |
| `NodeProofs`, `NodeTypeProofs` | its proofs, with the lemmas on the loop of `sync_state` from `CompactChainProofs`; then its types, with the lemmas on sums from `WatchWalletProofs` |
| `Peer` | one connection: the calls of `p2p.rs`, the two streams of messages, and the peer |
| `PeerService` | what `chain.rs` expects of a connection: calls that return their whole answer or an error |
| `PeerProofs` | the types of `Peer`, and the proof that it implements `PeerService` |
| `MessageStream` | the framing of messages in a stream of bytes, for any codecs of payloads |
| `Serdes`, `Messages` | numbers, variable length integers and hashes as bytes; the payload of every message, which are the codecs `MessageStream` is used with |
| `BlockFilter` | Golomb-coded sets, bit by bit |
| `Wire` | `Messages`, `MessageStream` and `BlockFilter` together: a filter is what arrives in a message |
| `Codecs` | `Wire` and `SegmentFile`, side by side: one run for all that is bytes |
| `CodecProofs` | the proofs about `MessageStream` and `SegmentFile` |
| `MCKvStore`, `MCWatchWallet`, `MCCoinSelection`, `MCCompactChain`, `MCNode`, `MCPeer`, `MCCodecs` | symmetry sets, samples and constants for TLC |

Definitions whose comment begins with "Mutant" are not part of a specification. Each is a
faulty version of the definition after it, and shows that a property notices the fault.

### KvStore

`files[f]` is the content of segment `f` as a sequence of entries, `keyDir` the key
directory, `active`/`inactive` the open segments. A put without a merge, and a delete,
write once and are one action. A merge (`BeginMerge`, `MergeRead`, the write-back and the
removal of segments) and a start-up (`reload`) are one action per entry or per file. `Crash`
is enabled in all of them, and writes, write-backs and unlinks may fail. The order in
which a `HashMap` yields segments is nondeterministic. `last` and `written` are history:
what a client has asked for. Entries have length 1, so offsets count entries, and a write is
not torn: bytes are the matter of `SegmentFile`. The file id comes from the monotonic clock,
and the switch `ClockRestarts` says whether it may repeat after a restart.

`KvMap` is the store as its interface shows it. `dict` has what `get` answers, `asked` the
insert that is behind the merge it runs first, `inserted` and `last` what has been asked for
so far. `Insert` and `Delete` set the answer of one key to what was asked for; a call that fails
changes none. An answer can change otherwise in two places: while an insert is behind its
merge (`Merge`), and when the store is opened again (`Restart`). There each key may go back to
one of its `Versions`: a value inserted for it before, or, for a key that clients may delete,
nothing, or the empty value of a tombstone. A key that is only inserted always has an answer.
`KvRefinement` maps `dict` to what `get` computes from directory and files, and `asked` to
`pending`. The calls on both sides are tied together by `last` and `written`, which the two
specifications share: a step of the store that puts a value, and answers with another one, or
that fails and changes an answer, is no step of the map.

### SegmentFile

`file` has the bytes of one segment. A byte is a digit of base `Base`, so that a field of a
header has the few values that matter and still several digits. `Encode` is the layout of
an entry (time, size of the key, size of the value with its tombstone, key, value,
tombstone), `DecodeFrom` and `DecodeMulti` are the decoders, with the places where they index
past the end of the file: there the program panics. `DecodeMulti` is its loop, turn by turn;
there are no more turns than bytes. `AppendBytes` is `Segment::append`. `write`
may store only a part of its bytes, and nobody looks at the number it returns: the offset
moves on, and the next write leaves a gap of zeros. `DieInWrite` is a process that
ends in the middle of a write. `FileTold` says what a whole read makes of such a file. As long
as each header but the last is stored, every entry is found where it was written, and those
stored whole with their content; one cut behind its header and followed by another write is
found too, with zeros for what is missing; a last entry that is cut makes the read panic. Of a
file in which a header is cut and another write follows, only `WholeEntryRead` says
something. A read returns all bytes asked for that the file has: that a read may come
back short, which the code does not look at either, is left out.

### WatchWallet and CoinSelection

A script is the derivation path of its key, since deriving and encoding a key is
injective; `pubkeyMap[s]` is the path the wallet believes `s` has. `utxoMap` has the
outputs. Amounts are small integers, and the weights of inputs and change enter as the fees
they cost. `Selections` is the set of results of `coin_select`: the best match of branch and
bound if there is one, and otherwise what a random draw can end with. `txs` is the history
of the transactions made.

`CoinSelection` has the loop of branch and bound (including, leaving out, walking back, and
`BNB_TOTAL_TRIES`), and the random draw, one action per turn. `ImplementsWallet` says that
whatever they return is in `Selections`: the cheapest match if the tries suffice for the
whole tree, and a match or a draw if they do not.

### CompactChain

The peer's chain is given by its height and, for each output, the blocks that create and
spend it. `StartSync`, `FetchHeaders`, `ScanBatch`, `FinishRound`, `SyncFails` and
`SyncReturns` are the steps of `sync_state`, between which the chain may grow. Heights and
hashes are kept apart as in the code: batches are computed from heights and fetched up to a
hash. `scanned` is history: which batch scanned a block last, and the scripts it looked for.

### Node

`step` is where the running call is, `db` the keys in the database with their values. Each
insert of `store_state` is a step of its own. `Crash` ends the client at any point; a panic
(`CreatePanics`, `SendPanics`) ends it likewise. `Restore` loads what is stored. `killed`
remembers whether the client was killed at one of the two points at which a part of its work
is lost: between the inserts of chain and wallet, and between a send and the insert of
its wallet. An insert is atomic here: what the store does with it is the matter of
`KvStore`.

### Peer

A message is its command, the number of the request it belongs to (0 for what a peer sends
of its own) and its place in the answer; `toPeer` and `fromPeer` are the two directions of
the connection, first in, first out. The client looks at nothing but the command, except
where the code compares more (the hash of `inv` and `getdata`, the stop hash of filters).
`Ask` is a `send` and the start of a `receive`, `Timeout` its deadline, the `Read...` actions
what `receive` and its callers do with the next message. A read blocks, so the deadline is
looked at only between two messages (`reading`). The peer is external: it answers requests
in order, leaves some of them out, says notfound, sends other messages and such as do not
decode, and closes the connection.

`behind` is history: a `receive(PONG)` has ended without the pong of its ping, by a timeout
that was followed by a late pong, or by a notfound. After that the client may be one answer
behind for good, and `AnswersCurrent` and `PeerService` promise nothing. Otherwise
`keep_alive` is what makes requests safe: after a timeout the next call starts with a ping,
and everything older is read, and dropped, before its pong.

### MessageStream, Serdes, Messages and BlockFilter

Bytes are digits of base `Base`, and a message is a record with the fields of its type.
`MessageStream` has what is common to all messages, as `write_with_payload` has it for any
`Payload<T>`: the header with the size that the type announces, the checksum, and
`read_partial`, which tells messages without payload, known and unknown ones apart. What a
payload is as bytes is a parameter of it (`WritePayload`, `SizePayload`, `ReadPayload`), which
`Codecs.cfg` sets to the codecs in `Messages`. There, `...Writes`/`...Reads`/`...Size` are the
`write`, `read` and `size` of the types.
`Sample` (in `MCCodecs`) has the messages of the run. `InStep` compares the place of
the reader with the boundaries of messages. What the models keep of the code: lengths of
vectors are variable length integers with the limits of `var_int.rs`; hashes are read with
`read`, not `read_exact`, so a hash cut by the end of a payload is filled with zeros; a
transaction without inputs is taken for one with witnesses; bytes of the payload that a type
does not read are ignored; a message that may have no payload and has one is refused
with the payload left in the stream. The checksum is an external function of the
payload. SipHash is external in `BlockFilter`: a script is the number it maps to.

## Runs

Runs that pass:

| Run | What it shows |
|---|---|
| `kv` | Two keys, one of them deleted at will, segments of one entry, a merge on every put, crashes anywhere: pointers are sound (`PointersSound`), no kept key is lost (`KeptKeysReadable`), a merge keeps the newest entry (`MergeKeepsNewest`) and one per key (`MergeCompacts`), files are append-only (`AppendOnly`), the inductive invariant `IInv` holds, and the store implements `KvMap` (`ImplementsMap`). |
| `kv_partial` | The configuration that merges only some segments, two of them at a time, and two values per key: `ImplementsMap`, through merges of two segments out of two and out of three, write-backs that fail, crashes and restarts. |
| `kv_session` | Within one life of the process and before the first merge a read returns what was written last (`ReadsLatest`). |
| `wallet` | With every step of coin selection: no two transactions share a change script, and the wallet watches every one (`ChangeFresh`); fees are those of the inputs and the change output, plus at most what is too small to be change (`FeeBounded`); the inductive invariant of the search (`SelectInv`); it returns what `WatchWallet` says (`ImplementsWallet`) and ends (`SelectionEnds`). |
| `chain` | `HeightMatchesHash`, `NoGaps`, `OutputsFound`, `NoFalseSpent`, `SpendsFound`, and the inductive invariant `ChainInv`, over rounds, batches, failures and repeated scans. `sync_state` returns (`SyncEnds`), and a client whose requests stop failing reaches the tip (`CatchesUp`). |
| `node` | `NodeKeyLast`, `PaymentsFound`, `ChangeTracked` and `BalanceRight`, and the inductive invariant `NodeInv`, over restarts, panics and kills at all points. Calls return or end the client (`CallsReturn`). |
| `peer` | Timeouts before, within and after any answer, stray and undecodable messages, a connection that closes: answers belong to the request that waits for them (`AnswersCurrent`, from the inductive invariant `PeerInv`), a call returns its whole answer or an error (`ImplementsService`), and every call ends (`CallsEnd`). |
| `codecs` | The reader of messages stays at their boundaries, whatever was sent and wherever the connection ends (`InStep`); a filter matches exactly the scripts that map to one of its numbers (`FilterTold`); as long as only the last header of a file may be cut, every entry is found where it was written, those stored whole with their content, and a last one that is cut is not taken for an entry (`FileTold`); an entry stored whole is read whole by its offset, whatever else was cut (`WholeEntryRead`). |

Runs in which TLC finds what the code's own comments or tests rule out:

| Run | What the counterexample does |
|---|---|
| `kv_stale` | After a restart the directory has the segment the HashMap yielded last, and a read returns an older value. |
| `wallet_keys` | Change is entered with the key of the receive address. |
| `wallet_spent` | Spent outputs are selected again. |
| `chain_missed` | A block right after a full batch, the last of its headers, is never scanned. |

Where a property fails in one of these runs, the passing runs state what remains true:
`NoGaps` says exactly which block can be missed, `SpendsFound` which spends are. In the same
way some properties hold only under a condition that the models make explicit:

* `ReadsLatest` holds in `kv_session`, which ends at the first merge. A merge does not read
  the active segment, so with a smaller `RunMergeEvery` it moves the directory back to an
  older value, or to a key whose tombstone is in the active segment. `ImplementsMap` says what
  holds beyond: which older answers may come back, and when.
* `MergeKeepsNewest` is about keys that are never deleted, and about timestamps: of two entries
  of the same second in two segments the one read first is kept.
* `AppendOnly` needs `~ClockRestarts`: a new segment whose file id repeats an old one
  is written over it from offset 0.
* `SpendsFound` excepts an output that is created and spent in one batch: it counts for
  good, because `insert_utxos` comes after the inputs are looked up.
* `PaymentsFound` excepts a client killed between the inserts of chain and wallet (the chain
  restored is ahead of the wallet restored), and the block of `chain_missed`. `ChangeTracked`
  and `BalanceRight` except one killed after a send and before the insert of its wallet,
  which does not watch the change of what it sent. (Bound: one such kill in a behaviour.)
* `AnswersCurrent` and `ImplementsService` hold until a pong has been missed (`behind`).
* `MayBeInsufficient` includes a random draw that takes outputs costing more than they
  are worth and then reports too little money although there is enough.

The store's faults are not composed with `Node`: its database returns what was inserted last.
The outputs of `node` are spent only by the client itself, while in `chain` the owner of the
keys may spend them elsewhere.

### Bounds

Bounds are constants: `MaxFileId`, `MaxTime` (readings of the clocks), `MaxChange` (change
scripts), `MaxTip` (blocks), `MaxSize` (messages of an answer), `MaxRequests`, `MaxOther`
(messages of the peer's own at once), `MaxEntries` (writes to a file).

With segments of one entry and five file ids there is room in `kv` for a roll-over, a merge
that rolls over itself, a crash within it, and a restart after that. The six file ids of
`kv_partial` are enough for a merge of two of two segments and the append of the put that began
it, and, after restarts, for one that leaves a third segment alone; its keys are
interchangeable (`KeySymmetry`). The keys of `kv_partial` are not deleted; merges over
tombstones are in `kv`, with one value. With
`FilterSize` 2, `MaxHeaders` 4 and five blocks a sync has a full round of two batches and
another one after it, or one round of three headers, whose last block is skipped; failures
fall between any of these. The run `node` has three outputs, two change scripts and three
blocks: two payments and the transaction that spends them, each in a block of its own, with a
kill and a restart anywhere. Its outputs are interchangeable, so a new one takes any outpoint
that is free (`NewOutpoint`). The run `wallet` has an amount below the fee of its input, and 8
tries for a search that needs up to 16. Nine requests and answers of two messages are
enough for a fetch that times out in the middle of its answer, the ping after it, a
handshake after that, and two fetches again. The base of bytes in `codecs` is 8: the
limits of a variable length integer, the widths of fields and the lengths of the samples lie
on both sides of each other, as with 256 (the limit of 2^32 excepted). A remainder in a filter
has 4 bits and a byte 3, so that each remainder crosses bytes, as with 19 and 8.

`CHECK_DEADLOCK FALSE` is set where the system may stop: a stopped client need not be started
again (the store runs out of file ids at `MaxFileId`), the wallet has no more change scripts to
give, a connection that is closed, or has used up its requests, stays as it is, and so does
a stream when all has been read. The runs over the chain and the node, and `kv_session`,
check for deadlock.

### Fairness

Liveness assumes weak fairness of the steps of a running operation, because the client is one
thread that keeps running until its process ends: in `CoinSelection` the turns of its loops, in
`CompactChain` the steps of `sync_state`, in `Node` those of a call. (The loops of `KvStore` run over lists made before they
start, and nothing is claimed about their end.) `CatchesUp` assumes also that the user calls again
and again, and that requests fail only finitely often: a peer that fails every sync keeps the
client behind.

`CallsEnd` is about the timeout of `receive`, which is weaker than it looks: the deadline is
tested between two reads, and a read waits for the next message without limit. So the run
assumes that a peer that does not answer sends something or closes the connection
in the end (weak fairness of the peer), that a receive which comes to the head of its loop
again and again finds the deadline passed at some point (strong fairness of `Timeout`), and
that the client goes on reading.

## Proofs

TLAPS proves, for every value of the constants allowed by the named assumptions:

* `KvStoreProofs`: `Invariance` (`IInv` is inductive), and from it `TypeCorrect`,
  `PointersAreSound`, `KeptKeysStayReadable`, `MergeKeepsTheNewest`, `MergeLeavesOnePerKey`
  and the action property `SegmentsAreAppendOnly`. They assume `~ClockRestarts`: file ids do not
  repeat. The properties say little about the state in the
  middle of a merge, so `IInv` adds what connects it to the files: open handles write at the
  end of their files (`HandleInv`); what a merge has read is in the merged state or in a
  later file, with a timestamp at least as recent (`MergedInv`); an inserted key is on disk,
  or still to be read by start-up, or in the directory and not in a segment about to
  be removed (`DurableInv`).

  `StoreImplementsMap` is the refinement, over all lives of the process, merges, failures and
  crashes, also under `~ClockRestarts`. An append moves no entry, and no pointer names a file
  that a rollover has yet to make, so an append changes the answer of its own key only
  (`AppendAnswer`) and a failed one that of none (`FailAnswer`). What a merge and a start-up may
  do to the answers follows from `IInv`: a pointer into an open segment is at an entry of its key,
  every entry on disk or in the merged state has a value that was inserted, or the empty one of a
  tombstone (`KeptEntry`), and kept keys are never without an entry (`DurableInv`); so each state
  that answers at all answers with versions (`VersionsInv`). `PendingInv` says which put a merge
  belongs to.

  `ReadsAreLatest` is about `SessionSpec`, one life
  of the process, in behaviours that never come to a merge (`[]~Merging`): beyond either of
  these limits it is false, as `kv_stale` and the remark on `ReadsLatest` above say. The
  run `kv_session` has the same limits by its constants. `SessionInv` says that in such a life
  the directory points at the last entry of each key in an open segment, and `IInv` that an
  append or a roll-over moves no other entry.
* `CoinSelectionProofs`: `SelectInvariance` (`SelectInv` is inductive), and from it
  `WalletTypeCorrect`, `ChangeIsFresh` and `FeeIsBounded`, and the refinement
  `SearchImplementsWallet`. That branch and bound returns the cheapest match needs
  to be known of the tree it has not walked: `SearchOK` says that the sums kept along the way
  are those of the outputs included and undecided, and that every match the search has passed
  (`Walked`) costs at least as much as the best so far, so that a branch cut off by
  `OutOfRange` has none, or none cheaper. That the tries suffice needs a count: each try is
  a node of the tree not visited before (`Before`), of which there are fewer than twice as many
  as there are sets of outputs. `DrawOK` says that a draw has not covered the target before its
  last output. These proofs need a finite `Outpoint`, and facts about sums over finite sets,
  which `WatchWalletProofs` proves from a smallest set that would not have them
  (`MinimalSubset`): this is how induction over sets is done here.
* `CompactChainProofs`: `ChainInvariance` (`ChainInv` is inductive), and from it
  `HeightsMatchHashes`, `GapsOnlyAfterFullBatch`, `ScannedOutputsAreFound`,
  `SpentOutputsAreSpent` and `SpendsAreFound`. `NoGaps` speaks about blocks behind
  `last_block_height`, while a round scans blocks ahead of it: `LoopInv` says what the turns of
  the loop have done, that the counter of headers runs in step with the block numbers, and that
  a turn that is not the first follows a full batch (all of this is `SyncInv`). `SpendsFound`
  is about outputs and spends that rounds which failed may have scanned already. A round after
  a failure starts at the same block, so that each block is in the same batch again, and comes
  at least as far (`AheadInv`); and a spend is known once the round has passed its block, not
  only when it is finished (`SpendsInv`).
* `PeerProofs`: `PeerInvariance` (`PeerInv` is inductive), and from it `PeerAnswersCurrent`
  and the refinement `PeerImplementsService`. That a fetch collects its own answer is not
  inductive by itself, since it rests on what may be in the streams when a request is made.
  The pong of a ping comes after everything sent before it (`PongInv`), so nothing is left of
  older answers when it has been read (`IdleInv`); each answer is then read to its last message
  before the next request is made (`FetchInv`: the messages in the stream follow those
  collected, and those the peer has yet to send follow these), or the call fails and the next
  one is a `keep_alive`. `PeerTypeCorrect` has the types; the bound on the requests holds because
  a call begins only if there is room for all the requests it may make (`Reserved`).
* `NodeProofs`: `NodeInvariance` (`NodeInv` is inductive), and from it `NodeKeyIsLast`,
  `PaymentsAreFound`, `ChangeIsTracked` and `BalanceIsRight`. They assume `WalletAssumption` and
  `ChainAssumption`, and use no fact about amounts. The properties speak about what is in memory,
  or would be after a restore. So `NodeInv` says the same of both: a wallet has the outputs of the
  blocks it has scanned (`Kept`), watches the scripts of all outputs on the chain (`Watches`) and
  the change scripts of the transactions sent (`Tracks`), and belongs to a chain state whose blocks
  it has scanned (`Scanned`). `MemoryInv` says it of the running client, together with `LoopInv` for
  a sync under way, and `DbInv` of the stored state, except for the steps at which one
  insert of `store_state` has happened and the next has not (`StoredInv`), and for a transaction
  not stored yet (`Unstored`). A client that ends in one of these steps adds to `killed`, which
  weakens each conjunct by just what is lost. `NetworkInv` says that nothing is paid or sent
  before there is a stored wallet to restore.

  For `BalanceRight` this is not enough. `BooksInv` adds that a wallet, in memory or stored, has
  its outputs from scanned blocks, with their amounts, and has for spent those that a scanned
  block spends (`Booked`); that the inputs of a transaction are from blocks that are not scanned
  again (`Spends`), so that none is created and spent in one batch; and that a sync that has come
  to the end of the chain leaves no block scanned beyond it (`Settled`). The two sums are then
  over the same outputs.

* `NodeTypeProofs`: `NodeTypeCorrect`, and `SentFeesAreBounded` for all the client has ever sent.
  A restart takes its wallet and its chain state from the database, so the types are not
  inductive without those of what is stored. That the change of a transaction is a natural number,
  and what its fee is, follows from the selection it was made of: its outputs are worth at least
  what is paid (`WatchWalletProofs`). `RestTypes` is what has to be added to `NodeInv`.
* `CodecProofs`, about the two models of bytes. Both need that a size of four bytes is read as it
  was written, for every `Base`, and what a part of a joined sequence is.

  `ReaderIsInStep` is about `MessageStream`: for any sample of messages and any cuts, the reader
  is in step (`InStep`). It assumes `CodecsSound`: each message that may be written announces the
  size of its payload, which fits into four bytes, and reading the payload by itself gives the
  message, or an error where it is to be refused. So the theorem is about everything else: headers,
  commands, checksums, what is taken from the stream when a message is refused, and messages
  one after another and cut anywhere. `CodecsSound` holds of the sample of the run `codecs`, or
  `InStep` would fail there for the message that is not sound; the mutant of `TxSize` is such a case.
  `StreamInv` is `InStep` and the types: what is left in the stream are the bytes of the messages not
  yet read, or, once it is closed, a beginning of them. That a cut falls into the next message or
  behind it (`CutBehind`) is the core of the step that reads.

  `SegmentsAreRead` and `WholeEntriesAreRead` are about `SegmentFile`, for any keys and values of less
  than 4 GB, any clock and any length of a short write. The invariant (`LogInv`) says that each write
  begins where the one before it ends, whatever of that was stored, and that the bytes it
  did store are still in the file, with zeros for the others up to the next write. From it follows,
  turn by turn, where the loop of `decode_multi` is: this induction is over the number of turns,
  from a least one that would be elsewhere (`LeastOf`).

TLC checks these invariants too: `IInv` in the run `kv`, `SelectInv` in `wallet`,
`ChainInv` in `chain`, `PeerInv` in `peer` and `NodeInv` in `node`. `SessionInv`, `PendingInv`,
`VersionsInv`, `BoundsInv` (of `Peer`), `RestTypes` and the invariants of `CodecProofs` are steps of the proofs only.

Only model-checked:

* `FilterTold`, and the payloads of the single messages (`CodecsSound`): filters and payloads are
  read by recursive operators, over bits and over the fields of a type, which the prover does not
  support.
* All liveness properties: fairness and `ENABLED` are beyond the prover.

## Not modelled

* Reorganisations: the chain only grows. `getheaders` names one hash, and what a peer answers
  when it no longer has that block is not to be found in this repository.
* The store under `Node`: the database of `Node` returns what was inserted last, which
  `kv_stale` shows not to be so after a restart.
* `KvStore::clear_log`, which has no caller, and `sync`: what is written to a file is taken to
  survive a crash.
* `addr.rs`, `node_addr_ex.rs`, `send_cmpct.rs`, `latch.rs` and `bits.rs`, which nothing in the
  client uses. (`Latch::open` says that it unblocks all waiting calls, and notifies one.)
* Payments of 0 (the selection is then empty, and `create_psbt_tx` panics at its first input), and
  the error of `insert_utxos` for a script without a key, which `chain.rs` never reports.
* Connections that take only a part of a write (the code does not look at the number of bytes
  taken), reads that end early (`Message::Partial`; the stream blocks), and the panic of `Tx::read`
  for a flag other than 1, which is an error here. `Node` calls `new` only where nothing is
  stored to restore: this is the choice of its callers.
* Cryptography: hashes, signatures and key derivation are external functions.
* Generated bindings (more than a third of the lines of the repository), the test client, unit tests and the
  example, which has menus and balances and no state that the client shares.

## Plan

1. Reorganisations in `CompactChain`, with a peer that answers from the fork.
2. `Node` over `KvStore`, to see which of its properties survive a stale read.
3. Proofs: the codecs of the single messages.

## Checking it

    tlc -workers 2 -config Node.cfg MCNode
    tlapm KvStoreProofs.tla

and likewise for the module and configuration of every run in `PROJECT.json`. No run takes
more than three minutes; the longest proofs, `CodecProofs`, `CoinSelectionProofs` and
`NodeProofs`, take a quarter of an hour each.
