# TLA+ verification of the Qubic archiver

The archiver follows the Qubic network tick by tick. For every tick it fetches
the computors' votes, the tick data, the transactions and their status from a
node, validates them, writes them to a pebble database and records how far it
got. An RPC server answers queries from the same database. This directory
models that process and its readers, checks the models with TLC on small
instances and proves, with TLAPS and for every value of the constants, each safety
property that a passing run checks, and that the archiver implements an abstract
ledger.

## Inventory

| Component | State | Operations | Interacts with |
|---|---|---|---|
| `processor` | none of its own; the locals of one attempt | `processOneByOne` in an endless loop: choose the next tick, validate it, `processStatus` | asks nodes through a connection pool, calls the validator, writes status keys |
| `validator` | locals of `ValidateTick` | requests to the node, validation, about a dozen durable writes | store, sub-packages `quorum`, `tick`, `tx`, `txstatus`, `computors`, `chain` |
| `validator/quorum` | none | `Validate` (alignment, thresholds, signatures), `Store` | validator, store |
| `validator/chain` | the digests in the store | `ComputeAndSave`, `ComputeStoreAndSave` | store |
| `validator/tick` | empty-tick counters and lists in the store | `Validate`, `Store`, reset and calculation of empty ticks, interval lookups | startup, validator, RPC |
| `store` | all durable state: seventeen key families | one `db.Set`, `db.Delete` or committed batch per operation | everything |
| `main` | none | open the store, reset, calculate, start the RPC server and the processor, stop on a signal | all |
| `validator/tx`, `validator/txstatus` | none | match transactions with the voted digests, build the transfer lists and statuses | validator, store |
| `validator/computors`, `quorum/models.go` | none | conversions between the node's and the stored form, reconstruction of votes | validator, store, RPC |
| `rpc` | none | interceptor and read-only methods, concurrent with the processor | store, the node fetcher for the chain's tick |
| `protobuff` | none | generated: messages, gRPC stubs, HTTP gateway | HTTP clients, `rpc` |
| network, node connector, pool | external | answer `GetTickInfo`, `GetQuorumVotes`, `GetComputors`, ... | processor, validator |

What is hard in it: nothing in an attempt is atomic. An attempt makes up to
fifteen durable writes, and the process may stop, or a write fail, between any
two of them; the retry starts from the beginning, perhaps with another node. The
status of a tick is spread over four keys. Nodes lag behind, are in another
epoch, or change epoch between two requests. Epochs may follow each other with
or without a gap in the tick numbers, and the network may be restarted inside an
epoch. Readers see every intermediate state.

What makes the components correct:

- processor and store: a tick counts as processed only when all of it is stored;
  every tick is archived or listed as skipped; the last processed tick only moves
  forward; processed ticks are never rewritten.
- digests: they depend on the network only, so that archivers can be compared.
- empty ticks: the count and the list of an epoch agree with the archived ticks.
- quorum: only what the correct computors agreed on is accepted, whatever the
  order of the votes.
- startup: a restart always gets back to processing.
- RPC: a request that passes the bounds check is answered from complete data and
  with data of the tick it asks for, whatever the processor writes meanwhile;
  pages are slices of what matches and a walk along them misses nothing.
- validation: what is archived of a tick is what the computors voted on, however
  peers answer; conversions lose nothing that is needed later.
- gateway: a handler is asked for what path and query say, after the bounds check.

## Modules

| Module | Models |
|---|---|
| `Network` | the network as the archiver sees it (external): tick ranges (segments), epochs, empty ticks, parties of transfers |
| `PebbleStore` | the key families and the atomic writes of `store/store.go` |
| `Validator` | `ValidateTick`, one action per durable write |
| `Processor` | `processOneByOne` and `processStatus` |
| `Startup` | `ResetEmptyTicksForAllEpochs`, `CalculateEmptyTicksForAllEpochs`, restart |
| `TickIntervals` | `WasSkippedByArchive` and the interceptor's check |
| `Archiver` | the composition, crashes and failing writes, and the properties |
| `QuorumVotes` | `quorum.Validate` and what `ValidateTick` does with its result, for one tick |
| `TickLedger` | the abstract ledger: a head that moves forward over archived and announced ticks, and claims |
| `ArchiverLedger` | the refinement mapping from `Archiver` to `TickLedger` |
| `ArchiveService` | the methods of the gRPC service, their messages, and which of them the interceptor checks |
| `RpcServer`, `RpcServerV2` | the interceptor and all methods, one action per read of the store, beside `Archiver` |
| `Paging` | transfer queries, tick lists and page numbers, while the archive grows |
| `TickContent` | what is archived of one tick from the replies of arbitrary peers, and what is answered from it |
| `Computors`, `VoteRecords` | stored computor lists and votes, and `ReconstructQuorumData` |
| `Gateway` | an HTTP request from its path to a handler |
| `MC...` | instances for TLC |
| `ArchiverProofs` | theorems about the processor, startup and their store |
| `RpcProofs`, `QuorumProofs`, `GatewayProofs` | theorems about the readers, the quorum and the gateway |
| `LoopTheorems` | what a loop that appends to a list computes, for inputs of any length |
| `PagingProofs`, `TickContentProofs`, `VoteRecordsProofs` | theorems about pages, the content of a tick, stored votes and computors |

`Network`, `PebbleStore`, `Validator`, `Processor`, `Startup` and `Archiver`
extend one another in this order (`TickIntervals` extends `PebbleStore`).
`ArchiverLedger` and `RpcServer` extend `Archiver`; `RpcServer` and `Gateway`
share `ArchiveService`; `VoteRecords` extends `Computors`. `Paging`,
`TickContent` and `Gateway` stand alone. The first two have the writes of the
processor that they depend on as actions of their own: what a repeated attempt
stores again, perhaps from another peer's reply, and what becomes visible before
its tick is processed.

### How state and actions correspond to the code

The thirteen variables of `PebbleStore` are the durable state. A key family whose
missing key the code tells apart from an empty value is a function on the present
keys. The four records that one tick has (quorum votes, tick data, transactions,
transaction status) are kept as a set of kinds. Their content is left out here:
the tick data and the set of transactions are fixed by the votes, while the order
of the transfer lists and the list of statuses are those of the peer that answered
the attempt, and so is the part of the store digest that hashes the statuses
(`chain/models.go:89`). `TickContent` and `Paging` model what this makes of
retries. A digest is the sequence of the ticks hashed into it. `computors[e]` is
the epoch of the list stored under `e`. The transaction records and the status
records are one batch each in the code and one step each here.

`pc` is the next step of the only thread that writes: startup first, then the
processor goroutine. An attempt goes through `computors`, `target`, `validate`,
`quorum`, `lastQuorum`, `tickData`, `transactions`, `transfers`, `chain`,
`storeDigest`, for an empty tick `emptyInit`, `emptyCount`, `emptyList`, and then
`status`, `skipped`, `lastTick`, `interval`, in the order of the calls. Every
step does at most one durable write. `StoreTransferTransactions` is one step per
identity, in any order, as the code iterates over a map.

`ProcessingFails` is an attempt that ends with an error without a failing write:
a request fails, times out or its answer does not validate, the previous chain
digest is missing, or the empty-tick list is. `WriteFails` is a database call
that returns an error. `Crash` stops the process at any step (a signal has the
same effect: `run` returns without waiting for the processor); the next process
begins at `boot`. `FailureSteps` and `MaxFailures` bound crashes and failing
writes for TLC; the theorems hold for any value of both.

The RPC server (`RpcServer`, `RpcServerV2`) adds one variable, the call in
progress: its request, its next read, what it has read, its answer. An action is
one `Get` or one iterator of the store; the processor, startup and failures act
between any two of them. Calls only read, so one call at a time shows all that a
call can see. `CheckTickWithinArchiverIntervals` is the interceptor's two reads.
A tick number stands for a transaction of that tick, since the transactions of a
tick are one batch and so are their statuses. The calls end when the process
does.

`Paging` keeps the transfers of one identity by tick, the list of one epoch and
the last processed tick; a client walks along the `nextPage` numbers or asks for
any page. None of these requests passes the interceptor, so it sees what
unfinished attempts stored: `PutTransferTransactionsPerTick` writes the list of
any tick that is not processed, a lower one after a higher one too, and writes it
again in any order, which is the order of another peer's reply;
`AppendEmptyTickToEmptyTickListPerEpoch` may list a retried tick again. What an
attempt may still rewrite is excluded from the promise to a walk: `atStart` holds
the *settled* records, those of processed ticks. A query of one kind reads one of
the variables, and the actions on the others are left out of its behaviours; this
only reduces the state space. Not in the model are a reset of the lists by the
operator during a walk, and an interval that is undercut after a crash in a
restarted epoch (see `StartupNeverFails` below). The range of ticks of a transfer
query is any pair of tick numbers, an empty one too. `GetTransfersPage` is one
round of the loop over the ticks, and `GetTransactionsForEntityPaged` the state
after the last round; it is compared with the definition of a page on the
concatenated list. The sorting of the tick lists is defined by the number of ticks
that come before a tick.

`TickContent` follows one tick through attempts with any of the given replies.
`aligned` is the digest the aligned votes carry, `firstEmpty` whether the first
vote of the attempt has none: all combinations occur, and each attempt has its
own first vote. `FirstVoteAgrees` names those in which an empty first vote does
not hide a tick with data; in the others the tick is archived as empty, which is
the defect of `empty_by_first_vote`.
`ValidateReplies` is the chain of checks that must all pass, then one action per
batch. Digests are the hashed content. `MCTickContent` has a non-transfer, a
send-many transaction and a transfer of an identity to itself, replies that
permute, repeat, omit and add transactions, and status lists of other lengths
and orders; `ByteBits = 2` spreads the flags over two bytes. A byte of the flags is
a function of its bits, and a loop that appends to a list is `FlattenSeq` over what
each of its rounds appends.

`VoteRecords` archives the votes of two consecutive ticks by computors that may
dissent, before and after the epoch at which the reconstruction changes from 8 to 4
bytes, and rebuilds the first tick's votes. This release writes the two short
digests with 4 bytes in every epoch (`quorum/models.go:35`); the 8 bytes that
`ReconstructQuorumData` expects for epochs before 151 are those of an earlier
release, which is the variable `release`. `Fields` says what can be rebuilt in each
case: of a tick before epoch 151 that this release archives, neither short digest
is. Bytes are digits of base 3; the hash is injective.

`Gateway` keeps one HTTP request. Texts are strings with the number they denote
given by constants, and `MaxUint32` is scaled down to 7, so that a text may be a
number that does not fit. The ranges that the map gives for the request functions
include their `local_request_` copies, which the archiver does not register.

Abstractions worth knowing:

- A tick number stands for the content of the tick. `QuorumVotes` looks at what
  this leaves out: disagreeing, missing and invalid votes.
- Signature and hash arithmetic is not modelled. Validation of the fetched data
  either passes or fails.
- The epoch under which an attempt stores computors, target and empty ticks is that
  of the first vote (`validator.go:57`), before any vote is verified; it is taken to
  be the epoch of the tick. Whether the tick is empty is taken to be what the
  consensus says, while `validator.go:108` reads the first vote: `TickContent` and
  the run `empty_by_first_vote` have the other case.
- Against the computor list of a later epoch the votes may or may not verify.
- A node's `InitialTick` and `Epoch` belong to one segment, and its tick lies in
  it. A node is assumed to send at most one vote per computor; the code does not
  check this.
- The database contexts' timeouts have no effect in the code (pebble calls take
  no context), and none in the model.

## Runs

| Run | Instance | Checks |
|---|---|---|
| `failures` | two epochs, ticks 2-3 and 4-5, two failures at any step | `TypeOK`, `ArchivedComplete`, `NothingLost`, `BoundsCheckSound`, `DigestAgreement`, `StartupNeverFails`, `EmptyTicksListed`, `AppendOnly`, `NoTickJumped` |
| `restart_in_epoch` | epoch 1 with ticks 2-3 and 5-6, epoch 2 with tick 7; two failures, resets | `DigestAgreement`, `ImplementsLedger` |
| `clean_restarts` | epoch 1 with ticks 2-3 and 5-6, epoch 2 with 7-8, after a gap epoch 3 with 11-12; stops only before an attempt has stored anything of its tick, resets | `StatusPartition`, `EmptyTicksExact`, `LastQuorumPlaced` |
| `catch_up` | two epochs, one failure at any step, fairness | `CatchesUp` |
| `quorum` | five computors, two faulty, quorum of three | `AcceptedIsConsensus`, `MapOrderIrrelevant`, `RejectedOnlyShort`, `AcceptanceStable` |
| `rpc_failures` | two epochs with a gap, all methods, one failure at any step | `CheckedThenAnswered`, `StatusAnswerFinal`, `ApprovedExact`, `InfoNeverMissing`, `EpochTickListExact`, `ReconstructionPossible`, `StatusReplyCovers` |
| `paging` | three ticks with up to two transfers each, stored and rewritten in any order, lists of up to three entries, pages of one, three and invalid sizes | `AscendingWalk`, `WalkComplete`, `PageIsSlice`, `PaginationTrue` |
| `tick_content` | one tick with up to four transactions, empty or not by the first vote and by the aligned votes, arbitrary replies, retries | `ArchivedAsVoted`, `TransfersExact`, `ApprovedExact`, `StoreDigestCanonical` |
| `vote_records` | three computors, epochs 150 and 151, this and an earlier release | `ComputorsRevalidate`, `ReconstructedAsVoted` |
| `gateway` | all methods, five texts, up to two query parameters, three path prefixes | `RouteUnambiguous`, `PathValueServed`, `GatewayChecked` |

`ArchivedComplete`, `NothingLost` and `BoundsCheckSound` are not repeated on the
instance of `restart_in_epoch`: the proofs have them for every network, and the
ledger demands the first two of every step.

Two runs show a defect, where the code does something else than its
documentation and comments say; `findings` in `PROJECT.json` quotes them:

- `last_quorum_overwritten`: in an epoch with two intervals the first tick of the
  second overwrites the full quorum data of the first interval's last tick.
- `empty_by_first_vote`: the first vote received decides about emptiness.

### Known divergences

The properties below state what the documentation, a comment or a message says.
The code does not have them, so no run checks them. Added to the `INVARIANTS` of
the configuration in the second column, each one makes TLC print the behaviour
described.

| Property | Configuration | What the code does, and what is said |
|---|---|---|
| `ComputorsOfEpoch` | `failures` | `validator.go:65`: a node that changes epoch between the request for the votes and the one for the computors gets the wrong list stored. `README.md:408`: "Returns the list of computors for the given epoch". |
| `SkippedTickReported` | `failures` | `store.go:273`: a crash between the two writes of `SetLastProcessedTick` on the first tick of an epoch makes the interceptor report an archived tick as skipped (`middleware.go:83`). |
| `CountedTicksListed` | `restart_in_epoch` | `empty_tick.go:85`, "We have the empty ticks": a crash between the count and the list of empty ticks leaves the list missing; startup does not repair it. |
| `EmptyTicksExact` | `failures` | `validator.go:221`: an attempt at an empty tick that is cut off after the count and repeated counts the tick twice. The message at `validator.go:225` and `emptyTicksPerEpoch` in the reply of `/status` (`rpc_server.go:287`) present the number as that of the epoch's empty ticks. |
| `DigestDetermined` | `quorum` | `chain.go:100`: aligned votes may differ in a field that the digest hashes. `README.md:322`: "mainly used to compare archiver instances". |
| `QuorumOfRequestedTick` | `rpc_failures` | `rpc_server.go:170`: the entry of the current interval holds the next tick's votes before the interval is extended, and is answered for its last tick. |
| `QuorumOfProcessedTick` | `rpc_failures` | `rpc_server.go:160`: the first tick of an interval is processed before it is in an interval; its quorum data is then an internal error. |
| `StatusAvailable` | `rpc_failures` | `rpc_server.go:287`: `GetStatus` fails until the epoch has an empty-tick count. |
| `LatestTickProcessed` | `rpc_failures` | `rpc_server.go:364`: the network's latest tick. `README.md:136`: "the latest tick processed by the archiver instance". |
| `StatusAnswerTrue` | `rpc_failures` | `rpc_server.go:469`: a missing status of a tick that was given up reads as "no money flew". |
| `PreviousPageExists` | `paging` | `v2_endpoints.go:340`: 0 for an empty result, where the comment says "-1 if there is none". |
| `CurrentPageRequested` | `paging` | `v2_endpoints.go:336`: limited by the number of records, not of pages. |
| `TransferListedOnce` | `tick_content` | `tx/validator.go:185`: a transfer to oneself is listed twice. |
| `ApprovedAgreesWithStatus` | `tick_content` with `StatusLists <- MCStatusListsOrNone` | `store.go:617`: statuses of an earlier attempt survive a retry with fewer. |
| `ComputorsRevalidate` | `vote_records` with `KeyLists <- MCKeyListsWithGap` | `computors/models.go:26`: a list with an unused slot in the middle is stored compacted and does not pass its check again. The network's lists have none. |
| `DocumentedRoutesServed` | `gateway` | `archive.pb.gw.go:2391`: the documented paths (`README.md:76`) lack the version. |

Some properties hold under a condition only, and are checked and proved under
it:

- `StartupNeverFails` needs one segment per epoch. In a restarted epoch a crash
  after `AppendProcessedTickInterval` may leave an interval that a later attempt
  appends again; the first of the two keeps a last tick below its initial one, and
  the scan at startup wraps around.
- `EmptyTicksListed` and `EpochTickListExact` need that the operator does not reset
  the keys: after a reset, the divergence of `CountedTicksListed` applies.
- `StatusPartition`, `EmptyTicksExact` and `LastQuorumPlaced` need that no
  crash and no failing write strikes an attempt once it has stored something of its
  tick: a tick whose attempt is repeated is counted twice, an interrupted
  `processStatus` leaves duplicates, and the quorum data of an interval is replaced
  before the interval is extended. They allow such failures at `idle`, `computors`,
  `target`, `validate` and `quorum`, and failing requests and validation anywhere.
  `LastQuorumPlaced` is what remains of `LastQuorumOfInterval`, the documented
  promise that `last_quorum_overwritten` refutes: the full votes of an epoch's last
  processed tick are kept, and each older entry is that of the tick which opened the
  next interval.
- The properties of `TickContent` are about ticks that satisfy `FirstVoteAgrees`,
  except that no transaction is ever stored which was not voted on.
- `AscendingWalk` and `WalkComplete` are about settled records. A list that a retry
  rewrites in another order between two pages of one record loses one of its records
  and repeats another for that walk; once the tick is processed, a new walk is exact.

### Bounds

An attempt depends on the last processed tick, the intervals of one epoch and
the tick before it, so two ticks per segment show the first and a following tick
of a segment, and two segments the change from one to the next: contiguous,
after a gap, within an epoch. Ticks start at 2, so that the first run has a
skipped interval. `StoreDigestFrom = 3` puts the start of the store digests
inside a segment. Two identities give partial transfers. Two failures allow a
failure during the recovery from another one. Three correct and two faulty
computors with a quorum of three satisfy the network's proportions: the faulty
ones cannot form a quorum, and two quorums share a computor.

The RPC instance has an empty tick at the end of the first and at the start of
the second epoch, a gap between them, and requests for every tick number from
before the first tick to the last. In `paging` three ticks let a lower one come
late between two others (`MaxTicks`), two transfers per tick, of which the second
calls a contract (`MaxPerTick`, `ContractCalls`), can be swapped and filtered, and
three entries suffice for a repeated one (`MaxListed`); a client asks for the pages
of its walk and for the first two (`MaxPage`). Pages of one record split a tick's
transactions, pages of three span ticks, and the default size, the maximum and a
size above it all occur. In `tick_content` three attempts suffice to see a record
of one attempt under the answer of another. One failure suffices for the readers:
they keep nothing between calls.

### Fairness

`catch_up` assumes weak fairness of the processor loop and of startup, which are
ordinary loops without blocking, and strong fairness of the requests to the nodes
of the newest segment: the pool hands out peers at random and takes another one
after an error, so an answer of an up-to-date node comes again and again. No
fairness is assumed for answers of other nodes: an epoch may fail to validate
forever, and the archiver must then go on with the next one.

## Proofs

The theorems about the archiver hold for every set of segments that satisfies
`SegmentsAssumption` (segments do not overlap, epochs do not decrease), every
finite set of empty ticks, every `FailureSteps` and every `MaxFailures`, unless the
theorem names a further hypothesis. The other assumptions on constants are types,
and for the quorum the network's proportions. The hypotheses are:

- `OneSegmentPerEpoch`: the network is not restarted inside an epoch;
- `~ResetAllowed`: the operator does not reset the empty-tick keys;
- `CleanStops`: `FailureSteps` are the steps up to and with the one that writes the
  first record, so that no attempt is cut off half way;
- `DistinctSlots` (`TickContent`): the tick data that was voted on lists no
  transaction twice;
- `CompleteStatusLists` (`TickContent`): nodes report a status for every transaction
  of the tick;
- `KeyListsInOrder` (`Computors`): the computor lists that the arbitrator signs have
  their unused slots at the end.

For all but `DistinctSlots` TLC has counterexamples without the hypothesis (see the
known divergences and the list after them). `DistinctSlots` is about the voted data:
the code stores the slots as they were voted, so a transaction that is voted twice is
listed twice in the answers for its tick.

### The processor and its store

- `TypeCorrect`: `TypeOK`. The strengthening `TypeInv` says that an attempt works
  on a tick of the network above the last processed one, in the epoch and with the
  initial tick of its segment, and that the last processed tick is recorded with
  its own epoch. The key lemma is `NextTickInSegment`: what
  `getNextProcessingTick` chooses, bounded by the node's tick, lies in the node's
  segment.
- `IntervalsArchived`, `NoTickLost`, `RequestsAnswered`: `ArchivedComplete`,
  `NothingLost`, `BoundsCheckSound`. They follow from `SafetyInv`, which adds
  `StoredInv` (what is stored at each step of an attempt) and `StatusInv`.
  `ArchivedComplete` alone is not inductive, since `SetLastProcessedTick` extends
  the last interval to a tick far behind its recorded end when a crash kept the
  extension from being written; `ExtensionInv` says that all ticks up to the last
  processed one may be claimed. `GapInv` describes the state between the writes of
  `processStatus`. `PassedOverInv` says that an interval starts above each tick
  that was passed over, which is what the interceptor's walk finds.
- `ProcessedTicksFinal`, `ForwardOnly`: the action properties `AppendOnly` and
  `NoTickJumped`, from `TypeInv`.
- `DigestsAgree`: `DigestAgreement`. A missing previous store digest restarts the
  chain, so the proof needs that the last processed tick is archived
  (`LastArchived`) and that no store digest lies below the first
  (`StoreDigestRange`).

- `LedgerImplemented`: `ImplementsLedger`, that is, `Spec` implies the
  specification of `TickLedger` under the mapping of `ArchiverLedger`: `head` is
  the last processed tick, `archive` the ticks up to it whose records are
  complete, `skipped` the tick numbers of the announced gaps, `claimed` the ticks
  of the intervals. Every write of an attempt leaves the ledger alone, because it
  is about a tick above the head (`TickWriteLedger`); the writes of
  `processStatus` map to `Announce`, `Advance`, `ArchiveTick` and `Claim`
  (`StatusLedger`), which needs `SafetyInv`: a tick that becomes the head is
  completely archived, and what an interval claims is archived
  (`ClaimedArchived`). A claim may shrink: after a crash in a restarted epoch
  `SetLastProcessedTick` can set the end of an interval below its start, so the
  ledger only demands that claims are of archived ticks.

### Startup and uninterrupted attempts

- `RestartsSucceed` (under `OneSegmentPerEpoch`): `StartupNeverFails`. `OrderInv`
  says that no interval ends before it begins, and that an interval which begins
  above the last processed tick begins at the initial tick of its segment: the
  attempt that follows a crash then extends it and does not undercut it.
- `EmptyTicksKept` (under `~ResetAllowed`): `EmptyTicksListed`. The intervals alone
  are not enough: after a crash `SetLastProcessedTick` may extend an interval over
  ticks of earlier attempts. `ListedInv` therefore says that every empty tick which
  is claimed or may still be claimed is listed and that its epoch's count is
  positive, since a count of zero makes `ValidateTick` begin a new list.
- `StatusDivided` (under `CleanStops`): `StatusPartition`. `CleanInv` says that no
  tick above the last processed one has a record except the attempt's own
  (`FreshInv`), that a count comes with a list (`KeyInv`), so that no attempt fails
  on its own, and which intervals and skipped ranges hold each tick number at each
  step of `processStatus` (`CoverInv`).
- `LastQuorumKept` (under `CleanStops`): `LastQuorumPlaced`, for epochs with any
  number of intervals. `QuorumInv` says which entry holds which tick, and from
  `SetQuorumDataForCurrentEpochInterval` on where the tick of the attempt is
  (`AttemptInPlace`): in the newest entry, or in the one before when the tick has
  opened an interval.
- `EmptyTicksCounted` (under `CleanStops`): `EmptyTicksExact`. `EmptyInv` follows
  the tick of an attempt through count, list and last processed tick, and the epochs
  through reset and calculation. An epoch without a count is either one without
  empty ticks or one that the calculation will reach, because a reset that has
  ended has left no count which could end the calculation early. What the
  calculation finds is what is processed, each tick once (`FoundProcessed`): this
  rests on `CoverInv`, with a bijection between the found and the processed ticks.

### The readers

`RpcInv` is what `RpcProofs` needs of the archiver (`ReaderInv`: `SafetyInv`, tick
data before transactions and transfers, the per-epoch ticks, and `ComputorsInv`: an
epoch with a tick's votes has a computor list) and what a call knows
at each step (`CallInv`). A call keeps what it has read while the processor goes on
writing. What it concludes stays true because the processor only adds: `Grows`
lists this, and `CallKept` is the proof that it suffices.

- `TickRequestsAnswered`: `CheckedThenAnswered`. A tick that passes the interceptor
  is archived, because the interceptor's walk over the intervals finds each tick that
  was passed over (`PassedOverInv`). The hypothesis
  `0 \in RequestTicks => 1 \notin Ticks` leaves out one request: tick number 0 passes
  the check in a network that begins at tick 1, after tick 1 is processed and before
  its interval is written.
- `StatusFinal`, `ApprovedAnswers`, `InfoFound`, `DigestsRebuilt`, `StatusReplies`:
  `StatusAnswerFinal`, `ApprovedExact`, `InfoNeverMissing`, `ReconstructionPossible`,
  `StatusReplyCovers`. What a call concluded from its check stays true to its last
  read (`PastCheck`), so that an answer with transactions is of a processed tick.
- `EpochListAnswers` (under `~ResetAllowed`): `EpochTickListExact`. The empty ticks
  of the intervals that were read are listed (`ListedInv`), stay listed
  (`ListedStable`), and no other tick ever is (`OnlyEmptyInv`).

### The quorum and the gateway

- `RejectionsShort`, `ConsensusAccepted`, `MapOrder`, `AcceptanceKept`: all
  properties of `QuorumVotes`, for every number of computors. Positions in the list of votes are
  turned into computors (`PositionsCount`), so that a quorum of votes is a quorum of
  computors; then the faulty ones cannot fill it, and two of them intersect.
- `RoutesUnambiguous`, `PathValues`, `ChecksApplied`: all properties
  of `Gateway`, for every set of texts. `OneRoute` compares the patterns pairwise;
  `GatewayInv` says what is known of a request at each stage.

### Loops over lists

The properties of `Paging`, `TickContent`, `VoteRecords` and `Computors` compare what
a loop computes with a definition, for inputs of any length. The library's induction
theorems take an operator as a parameter and cannot be instantiated here, so
`LoopTheorems` states induction for sets: a set of numbers that has 0 and the
successor of each member is `Nat` (`NatSetInduction`, from the well-foundedness of the
order), and likewise for sequences (`SeqSetInduction`). From this follow the recursion
of `FlattenSeq`, the elements of a flattened list, and the order and injectivity of a
filtered one.

### The content of a tick

`ContentIInv` says of each step of an attempt which records are already those of the
voted tick: the validated replies (`LocalInv`), tick data and transactions
(`ContentInv`), transfer lists (`TransfersInv`), store digest (`DigestInv`). The
properties speak of a processed tick only; the invariant must also speak of records
that earlier attempts left, which is why a transfer list is either the voted one or
not written.

- `ArchivedContent` (under `DistinctSlots`), `ExactTransfers`, `CanonicalStoreDigest`:
  `ArchivedAsVoted`, `TransfersExact`, `StoreDigestCanonical`. A reply that passes
  `tx.Validate` is a list of the voted transactions, each once, since each is removed
  from the map of digests and none remains. The answer for the tick has them in the
  order of the tick data (`InVotedOrder`), which the order of the reply does not enter.
- `ExactApprovals` (under `CompleteStatusLists`): `ApprovedExact`. Reading bit `k % 8`
  of byte `k / 8` gives the flag of digest `k`, for every number of bits in a byte;
  `StatusInv` says that the stored statuses, those of earlier attempts too, are the
  network's flags.

### Stored computors and votes

- `StoredComputorsRevalidate` (under `KeyListsInOrder`): `ComputorsRevalidate`.
  `ComputorsIInv` says that a stored list is the stored form of a signed one. The
  conversion drops the unused slots and the reverse conversion fills up the array,
  which is the same list exactly when the unused slots are at the end
  (`SignedRoundTrip`).
- `RebuiltVotes` (under `KeyListsInOrder`): `ReconstructedAsVoted`. `VotesInv` says
  that the stored and the full records hold the votes as they were cast. The bytes
  of the next tick's digests, written with the width of the release and padded to
  eight, are the bytes that the computors hashed wherever the epoch's format expects
  that width (`FieldFormats`); the identity at an index of the stored list is the key
  of that computor.

### Pages

`PagingIInv`: the archive and the lists are well formed (`ArchiveInv`), the last reply
is a page of what matches now, the answer without pages, or a refusal (`ReplyInv`),
what is known of a walk (`WalkInv`), and that the records which were settled when it
began still are those of the ticks up to the one last processed then (`SettledInv`).

- `PagesAreSlices`: `PageIsSlice`. One round of the loop over the ticks adds the part
  of its tick that lies in the page (`PageRound`); by induction over the ticks the
  loop has assembled that part of the concatenation (`AssembledPage`). A tick list is
  a part of the sorted list (`SortedList`).
- `TruePagination`: `PaginationTrue`. The number of pages is the quotient rounded up,
  and a page is not empty exactly when its number is at most that (`PageNotEmpty`).
- `AscendingWalks`, `CompleteWalks`: `AscendingWalk`, `WalkComplete`. Neither is
  inductive: they say nothing about the place of the next page. `Walk` says that the
  settled records are a contiguous part of what matches (`Placed`), at the front in
  ascending and at the end in descending order, and that each of them is among the
  pages seen or comes at or after the place of the next page (`Covered`). A write to a
  tick above the last processed one leaves that part as it is: a new or lower tick
  adds records behind it, or before it in descending order, where they only push it to
  later pages; a list that is stored again has as many records that pass the filter as
  before (`FilterRearranged`), so that no settled record is pulled back into a page
  that was seen.

### Only model-checked

- `CatchesUp`: liveness under fairness is out of the prover's reach.

## Not modelled

- Configuration, the parameters of the connection pool, metrics, profiling,
  logging and the pebble event listener: no state that the archive depends on.
- Signature and hash arithmetic, `BinarySerialize`, and the marshalling of
  protobuf messages with their generated accessors.
- Code without a caller: `GetTxStatus` and `queryQliServices` at the end of
  `validator/validator.go`, the digest comparison in `txstatus/validator.go`
  (commented out), `GetEmptyTicksForEpochs`, and the local registration of the
  gateway.
- A write that races `db.Close` at shutdown: pebble panics on a closed database,
  so that it is the crash the model has at every step.
- Cancelled and overlapping requests: calls share no state.

## Plan

1. Done: the processor and its store, startup, digests and empty ticks, quorum
   validation, the RPC server beside the processor, paging, the content of a
   tick, stored votes and computors, the gateway, the ledger and its refinement.
2. Done: proofs of every safety property that a passing run checks: of the archiver,
   its readers, the quorum, the gateway, the content of a tick, stored votes and
   computors, and pages.
3. Left to TLC: the liveness property `CatchesUp`.
