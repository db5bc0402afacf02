----------------------------- MODULE RpcServerV2 -----------------------------
(***************************************************************************)
(* The v2 handlers (rpc/v2_endpoints.go), and the archiver with its RPC    *)
(* server: the processor writes while a call reads.                        *)
(***************************************************************************)
EXTENDS RpcServer

\* getTransactionInfo: the tick data for the timestamp, then the status.
InfoTickData(t) ==
  /\ call.step = "infoTickData"
  /\ Require(HasTickData(t), "Internal", Then("infoStatus"))

\* The transactions of a tick with their info; the approved ones are the
\* transfers whose money flew.
TransactionData(t, flew) == [tick |-> t, moneyFlew |-> flew]

GetTickTransactionsV2 ==
  /\ call.handler \in {"GetAllTickTransactionsV2", "GetTransferTickTransactionsV2",
                       "GetApprovedTickTransactionsV2"}
  /\ \/ ReadTransactionIds
     \/ /\ call.step = "transactions"
        /\ Require(HasTransaction(call.arg), "NotFound", Then("infoTickData"))
     \/ InfoTickData(call.arg)
     \/ /\ call.step = "infoStatus"
        /\ LET flew == FlewAccordingToStore(call.arg)
           IN Value(IF call.handler = "GetApprovedTickTransactionsV2" /\ ~flew THEN {}
                    ELSE {TransactionData(call.arg, flew)})

\* A transaction with its info.
TransactionWithInfo ==
  \/ /\ call.step = "start"
     /\ Require(HasTransaction(call.arg), "NotFound", Then("infoTickData"))
  \/ InfoTickData(call.arg)
  \/ /\ call.step = "infoStatus"
     /\ Value({TransactionData(call.arg, FlewAccordingToStore(call.arg))})

GetTransactionV2 == call.handler = "GetTransactionV2" /\ TransactionWithInfo

\* Only for send-many transactions; their payload may be malformed.
GetSendManyTransactionV2 ==
  /\ call.handler = "GetSendManyTransactionV2"
  /\ \/ TransactionWithInfo
     \/ call.step = "start"      /\ Refuse("NotFound")
     \/ call.step = "infoStatus" /\ Refuse("MalformedPayload")

\* The transfers of the identity are one snapshot; the info of each follows,
\* tick by tick.
NextTransfer == CHOOSE t \in call.seen.pending : \A x \in call.seen.pending : t <= x

TransfersWithInfo(found, pending) ==
  IF pending = {} THEN Value(found)
  ELSE call' = [call EXCEPT !.step = "infoTickData",
                  !.seen = Put(Put(NoLocals, "found", found), "pending", pending)]

GetIdentityTransfersInTickRangeV2 ==
  /\ call.handler = "GetIdentityTransfersInTickRangeV2"
  /\ \/ call.step = "start" /\ TransfersWithInfo({}, TransferTicks(call.arg))
     \/ InfoTickData(NextTransfer)
     \/ /\ call.step = "infoStatus"
        /\ TransfersWithInfo(
             call.seen.found \cup
               {TransactionData(NextTransfer, FlewAccordingToStore(NextTransfer))},
             call.seen.pending \ {NextTransfer})

GetEmptyTickListV2 ==
  /\ At("GetEmptyTickListV2", "start")
  /\ Require(call.arg \in DOMAIN emptyTickList, "NotFound", Value(emptyTickList[call.arg]))

IntervalTicksOf(e) == UNION {IntervalTicks(e, k) : k \in DOMAIN processedTickIntervals[e]}

ListedTicks(e) == {t \in Ticks : emptyTickList[e][t] > 0}

EpochTicks(ticks, empty) == Value([ticks |-> ticks, empty |-> ticks \cap empty])

\* Mutant: the empty ticks are read before the intervals.
GetEpochTickListEmptyFirst ==
  /\ call.handler = "GetEpochTickListV2"
  /\ \/ /\ call.step = "start"
        /\ IF call.arg \in DOMAIN emptyTickList
           THEN Keep("empty", ListedTicks(call.arg), "emptyList")
           ELSE Refuse("NotFound")
     \/ /\ call.step = "emptyList"
        /\ IF processedTickIntervals[call.arg] = <<>> THEN Refuse("Internal")
           ELSE EpochTicks(IntervalTicksOf(call.arg), call.seen.empty)

\* The ticks of the epoch's intervals, with the empty ones marked.
GetEpochTickListV2 ==
  /\ call.handler = "GetEpochTickListV2"
  /\ \/ /\ call.step = "start"
        /\ IF processedTickIntervals[call.arg] = <<>> THEN Refuse("Internal")
           ELSE Keep("ticks", IntervalTicksOf(call.arg), "emptyList")
     \/ /\ call.step = "emptyList"
        /\ IF call.arg \in DOMAIN emptyTickList
           THEN EpochTicks(call.seen.ticks, ListedTicks(call.arg))
           ELSE Refuse("NotFound")

V2Handler ==
  \/ GetTickTransactionsV2    \/ GetTransactionV2
  \/ GetSendManyTransactionV2 \/ GetIdentityTransfersInTickRangeV2
  \/ GetEmptyTickListV2       \/ GetEpochTickListV2

RpcStep ==
  /\ UNCHANGED vars
  /\ \/ Receive
     \/ CheckTickWithinArchiverIntervals
     \/ V1Handler
     \/ V2Handler
     \/ Deliver

RpcInit == Init /\ call = NoCall

\* The calls end with the process.
ProcessStep == Next /\ call' = IF pc' \in StartupSteps THEN NoCall ELSE call

RpcNext == ProcessStep \/ RpcStep

RpcSpec == RpcInit /\ [][RpcNext]_rpcVars

-----------------------------------------------------------------------------
(* Properties of the answers, whatever the processor does between reads.   *)

Replied(methods) == call.step = "replied" /\ call.method \in methods

QuorumMethods    == {"GetQuorumTickData", "GetTickQuorumDataV2"}
StoreHashMethods == {"GetStoreHash", "GetTickStoreHashV2"}

\* A request that names a tick number is turned away by the bounds check or
\* answered: no interleaving of the check's two reads and the handler's reads
\* with the processor lets a handler look for a record that is not there.
\* (Store digests begin at StoreDigestFrom; quorum data is treated below.)
CheckedThenAnswered ==
  Replied(TickMethods \ QuorumMethods) =>
    \/ call.code \in {"OK", "FailedPrecondition", "OutOfRange", "NothingProcessed"}
    \/ call.method \in StoreHashMethods /\ call.arg < StoreDigestFrom

\* The status GetTransactionStatus reports is final: it waits for the tick to
\* be processed before it reads a missing status as "no money flew".  Only a
\* tick that was given up half archived and then skipped is answered wrongly.
StatusAnswerFinal ==
  Replied({"GetTransactionStatus"}) /\ call.code = "OK" =>
    \/ call.seen.value = (call.arg \in MoneyFlewTicks)
    \/ InSkippedTicks(call.arg)

\* The tick is processed, and archived completely.
TickProcessed(t) == t \in Ticks /\ Complete(t) /\ t <= lastProcessedTick.tickNumber

\* Transactions are answered for processed ticks only, though they and their
\* statuses are written by several batches, perhaps of several attempts: v1
\* answers exactly the transactions that moved money, v2 all of the tick or,
\* if asked for the approved ones, those, each with the network's flag.
ApprovedExact ==
  /\ (Replied({"GetTickApprovedTransactions"}) /\ call.code = "OK") =>
       /\ TickProcessed(call.arg)
       /\ call.seen.value =
            {t \in {call.arg} : HasTransactions(t) /\ t \in MoneyFlewTicks}
  /\ (Replied({"GetTickTransactionsV2"}) /\ call.code = "OK") =>
       /\ TickProcessed(call.arg)
       /\ call.seen.value =
            {data \in {TransactionData(call.arg, call.arg \in MoneyFlewTicks)} :
               /\ HasTransactions(call.arg)
               /\ call.handler = "GetApprovedTickTransactionsV2" => data.moneyFlew}

\* A stored transaction or transfer always comes with its tick data, even of
\* a tick that is still being archived: these requests are not checked.
InfoNeverMissing ==
  Replied({"GetTransactionV2", "GetSendManyTransactionV2",
           "GetIdentityTransfersInTickRangeV2"}) => call.code # "Internal"

\* The ticks of an epoch's list are marked empty exactly when they are: an
\* interval is read before the list that was written first.
EpochTickListExact ==
  Replied({"GetEpochTickListV2"}) /\ call.code = "OK" =>
    call.seen.value.empty = call.seen.value.ticks \cap EmptyTicks

\* For a tick inside an interval the votes of the next tick, its own votes
\* and the computors of its epoch are there to rebuild its digests from,
\* whatever is written after the intervals were read.
ReconstructionPossible ==
  Replied(QuorumMethods) => call.code \notin {"NoNextTick", "NoOwnVotes", "NoComputors"}

\* The parts of a /status reply, read one after the other while the processor
\* runs, agree: the per-epoch tick is not behind the last processed tick, and
\* every tick below that one is in a reported interval, in a reported gap, or
\* archived in full; a tick no part of the reply mentions is never missing.
StatusReplyCovers ==
  Replied({"GetStatus"}) /\ call.code = "OK" =>
    /\ call.seen.perEpoch[call.seen.last.epoch] >= call.seen.last.tickNumber
    /\ "intervals" \in DOMAIN call.seen =>
         \A n \in 1 .. call.seen.last.tickNumber - 1 :
           \/ \E e \in Epochs : \E k \in DOMAIN call.seen.intervals[e] :
                InInterval(n, call.seen.intervals[e][k])
           \/ \E k \in DOMAIN call.seen.skipped :
                call.seen.skipped[k].startTick <= n /\ n <= call.seen.skipped[k].endTick
           \/ n \in Ticks /\ Complete(n)

-----------------------------------------------------------------------------
(* What the documentation says of the answers.                             *)

\* Quorum data answered for a tick is that of the tick.
QuorumOfRequestedTick ==
  Replied(QuorumMethods) /\ call.code = "OK" => call.seen.value.tick = call.arg

\* A processed tick has quorum data.
QuorumOfProcessedTick ==
  Replied(QuorumMethods) => call.code # "Internal"

\* The status of the instance is available once a tick is processed.
StatusAvailable == Replied({"GetStatus"}) => call.code # "NoEmptyTicks"

\* The latest tick is one the instance has processed.
LatestTickProcessed ==
  Replied({"GetLatestTick"}) /\ call.code = "OK" =>
    call.seen.value <= lastProcessedTick.tickNumber

\* The status of a transaction is what the network decided.
StatusAnswerTrue ==
  Replied({"GetTransactionStatus"}) /\ call.code = "OK" =>
    call.seen.value = (call.arg \in MoneyFlewTicks)
=============================================================================
