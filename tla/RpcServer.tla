------------------------------ MODULE RpcServer ------------------------------
(***************************************************************************)
(* The RPC server beside the processor: the bounds-check interceptor       *)
(* (rpc/middleware.go) and the v1 handlers (rpc/rpc_server.go).  Every     *)
(* action of a handler is one read of the store (an iterator reads a       *)
(* snapshot), so the processor may write between any two of them.          *)
(*                                                                         *)
(* Calls only read, so one call at a time against the running processor    *)
(* shows all that a call can see.  All transactions of a tick are stored   *)
(* by one batch, and so are their statuses: a tick number stands for a     *)
(* transaction of that tick, 0 for a malformed transaction id.             *)
(* The code of an answer is the gRPC code; for an Internal error that the  *)
(* properties tell apart it is the cause.                                  *)
(***************************************************************************)
EXTENDS Archiver, ArchiveService

CONSTANTS
  Methods,         \* the RPC methods that clients call
  RequestTicks,    \* the tick numbers they ask for
  MoneyFlewTicks,  \* ticks whose transactions moved their amount
  SyncThreshold    \* Server.NodeSyncThreshold

ASSUME RequestsAssumption ==
  /\ RequestTicks \subseteq Nat
  /\ MoneyFlewTicks \subseteq Ticks
  /\ SyncThreshold \in Nat

VARIABLE call   \* the call in progress: request, next step, locals, answer

rpcVars == <<vars, call>>

NoLocals == [x \in {} |-> 0]

NoCall == [method |-> "none", handler |-> "none", arg |-> 0, step |-> "none",
           seen |-> NoLocals, code |-> "none"]

-----------------------------------------------------------------------------
(* Methods. *)

\* The functions that may serve a method: v2 methods delegate, and the flags
\* of GetTickTransactionsV2 choose one of three.
Handlers(m) ==
  CASE m = "GetTickQuorumDataV2" -> {"GetQuorumTickData"}
    [] m = "GetTickChainHashV2"  -> {"GetChainHash"}
    [] m = "GetTickStoreHashV2"  -> {"GetStoreHash"}
    [] m = "GetTickTransactionsV2" ->
         {"GetAllTickTransactionsV2", "GetTransferTickTransactionsV2",
          "GetApprovedTickTransactionsV2"}
    [] OTHER -> {m}

HasTransactions(t) == TransferIds[t] # {}

Arguments(m) ==
  CASE m \in TickMethods     -> RequestTicks
    [] m \in TxMethods       -> {t \in Ticks : HasTransactions(t)} \cup {0}
    [] m \in IdentityMethods -> Identities
    [] m \in EpochMethods    -> Epochs
    [] OTHER                 -> {0}

-----------------------------------------------------------------------------
(* Steps of a call. *)

\* run() starts the server after the startup work, and it ends with run().
Serving == pc \notin StartupSteps

Receive ==
  /\ Serving
  /\ call = NoCall
  /\ \E m \in Methods : \E arg \in Arguments(m) : \E h \in Handlers(m) :
       call' = [NoCall EXCEPT
                  !.method = m, !.handler = h, !.arg = arg,
                  !.step = IF RequestType(m) \in CheckedRequests
                           THEN "checkLast" ELSE "start"]

At(handler, step) == call.handler = handler /\ call.step = step

Then(step) == call' = [call EXCEPT !.step = step]

Keep(name, v, step) == call' = [call EXCEPT !.step = step, !.seen = Put(@, name, v)]

Answer(code, v) ==
  call' = [call EXCEPT !.step = "replied", !.code = code, !.seen = v]

Refuse(code) == Answer(code, NoLocals)
Value(v)     == Answer("OK", Put(NoLocals, "value", v))

\* The client has the answer.
Deliver == call.step = "replied" /\ call' = NoCall

\* A read that answers code when the key is missing.
Require(found, code, next) == IF found THEN next ELSE Refuse(code)

-----------------------------------------------------------------------------
(* Reads of the store: is the key present? *)

HasRecord(t, kind) == t \in Ticks /\ kind \in records[t]

HasTickData(t)       == HasRecord(t, "tickData")
HasQuorumTickData(t) == HasRecord(t, "quorum")
HasTransaction(t)    == HasRecord(t, "transactions")
HasTickStatus(t)     == HasRecord(t, "txStatus")
HasTxStatus(t)       == HasRecord(t, "txStatus")
NothingProcessed     == lastProcessedTick = NoTick

-----------------------------------------------------------------------------
(* checkTickWithinArchiverIntervals: two reads. *)

\* Mutant: the intervals are read before the last processed tick.
CheckIntervalsFirst ==
  \/ /\ call.step = "checkLast"
     /\ IF WasSkippedByArchive(call.arg) THEN Refuse("OutOfRange")
        ELSE Then("checkIntervals")
  \/ /\ call.step = "checkIntervals"
     /\ IF NothingProcessed THEN Refuse("NothingProcessed")
        ELSE IF call.arg > lastProcessedTick.tickNumber
             THEN Refuse("FailedPrecondition")
        ELSE Then("start")

CheckTickWithinArchiverIntervals ==
  \/ /\ call.step = "checkLast"
     /\ IF NothingProcessed THEN Refuse("NothingProcessed")
        ELSE IF call.arg > lastProcessedTick.tickNumber
             THEN Refuse("FailedPrecondition")
        ELSE Then("checkIntervals")
  \/ /\ call.step = "checkIntervals"
     /\ IF WasSkippedByArchive(call.arg) THEN Refuse("OutOfRange") ELSE Then("start")

-----------------------------------------------------------------------------
(* Handlers with one or two reads. *)

\* The reply holds no tick data for an empty tick.
GetTickData ==
  /\ At("GetTickData", "start")
  /\ Require(HasTickData(call.arg), "NotFound", Value(call.arg \notin EmptyTicks))

\* The store reads the tick data for the ids and then each transaction.
ReadTransactionIds ==
  /\ call.step = "start"
  /\ Require(HasTickData(call.arg), "NotFound",
             IF HasTransactions(call.arg) THEN Then("transactions") ELSE Value({}))

GetTickTransactions ==
  /\ call.handler \in {"GetTickTransactions", "GetTickTransferTransactions"}
  /\ \/ ReadTransactionIds
     \/ /\ call.step = "transactions"
        /\ Require(HasTransaction(call.arg), "NotFound", Value({call.arg}))

\* A malformed id has no key.
GetTransaction ==
  /\ At("GetTransaction", "start")
  /\ Require(HasTransaction(call.arg), "NotFound", Value({call.arg}))

\* Mutant: the transactions that moved no money are not left out.
GetTickApprovedTransactionsAll ==
  /\ call.handler = "GetTickApprovedTransactions"
  /\ \/ /\ call.step = "start"
        /\ Require(HasTickStatus(call.arg), "NotFound",
                   IF HasTransactions(call.arg) THEN Then("transactions") ELSE Value({}))
     \/ /\ call.step = "transactions"
        /\ Require(HasTransaction(call.arg), "Unknown", Value({call.arg}))

\* The statuses that say the money flew name the transactions to read.
GetTickApprovedTransactions ==
  /\ call.handler = "GetTickApprovedTransactions"
  /\ \/ /\ call.step = "start"
        /\ Require(HasTickStatus(call.arg), "NotFound",
                   IF HasTransactions(call.arg) /\ call.arg \in MoneyFlewTicks
                   THEN Then("transactions") ELSE Value({}))
     \/ /\ call.step = "transactions"
        /\ Require(HasTransaction(call.arg), "Unknown", Value({call.arg}))

\* Mutant: the status is read whether the tick is processed or not.
StatusOfTxWithoutCheck ==
  /\ call.step = "last"
  /\ Then("txStatus")

\* The transaction's tick must be processed.
StatusOfProcessedTx ==
  /\ call.step = "last"
  /\ IF NothingProcessed THEN Refuse("Internal")
     ELSE IF call.arg > lastProcessedTick.tickNumber THEN Refuse("NotFound")
     ELSE Then("txStatus")

\* A missing status reads as "no money flew".
FlewAccordingToStore(t) == HasTxStatus(t) /\ t \in MoneyFlewTicks

GetTransactionStatus ==
  /\ call.handler = "GetTransactionStatus"
  /\ \/ /\ call.step = "start"
        /\ IF call.arg = 0 THEN Refuse("InvalidArgument")
           ELSE Require(HasTransaction(call.arg), "NotFound", Then("last"))
     \/ StatusOfProcessedTx
     \/ /\ call.step = "txStatus"
        /\ \/ Value(FlewAccordingToStore(call.arg))
           \/ Refuse("NotFound")       \* a transaction without an amount

GetChainHash ==
  /\ At("GetChainHash", "start")
  /\ Require(call.arg \in DOMAIN chainDigest, "NotFound", Value(chainDigest[call.arg]))

GetStoreHash ==
  /\ At("GetStoreHash", "start")
  /\ Require(call.arg \in DOMAIN storeDigest, "NotFound", Value(storeDigest[call.arg]))

GetComputors ==
  /\ At("GetComputors", "start")
  /\ Require(call.arg \in DOMAIN computors, "NotFound", Value(computors[call.arg]))

\* Ticks of which the identity has stored transfers, read by one iterator.
TransferTicks(id) == {t \in Ticks : id \in transfers[t]}

GetTransferTransactionsPerTick ==
  /\ At("GetTransferTransactionsPerTick", "start")
  /\ Value(TransferTicks(call.arg))

-----------------------------------------------------------------------------
(* GetQuorumTickData *)

\* GetTickEpoch: the first epoch with an interval that holds the tick.
TickEpochs(t) ==
  {e \in Epochs : \E k \in DOMAIN processedTickIntervals[e] :
                    InInterval(t, processedTickIntervals[e][k])}
GetTickEpoch(t) == CHOOSE e \in TickEpochs(t) : \A x \in TickEpochs(t) : e <= x

\* Mutant: the tick that begins an interval counts as its last one.
LastInIntervalsFirst(t, e) ==
  {k \in DOMAIN processedTickIntervals[e] : processedTickIntervals[e][k].initial = t}

\* IsTickLastInAnyEpochInterval: the intervals of the epoch that end with t,
\* of which the code takes the first.
LastInIntervals(t, e) ==
  {k \in DOMAIN processedTickIntervals[e] : processedTickIntervals[e][k].last = t}
FirstOf(positions) == CHOOSE k \in positions : \A x \in positions : k <= x

QuorumLast ==
  /\ call.step = "start"
  /\ IF NothingProcessed THEN Refuse("Internal")
     ELSE IF call.arg > lastProcessedTick.tickNumber THEN Refuse("FailedPrecondition")
     ELSE Keep("last", lastProcessedTick.tickNumber, "intervals")

QuorumIntervals ==
  /\ call.step = "intervals"
  /\ LET t == call.arg
         e == GetTickEpoch(t)
     IN IF TickEpochs(t) = {} THEN Refuse("Internal")
        ELSE IF LastInIntervals(t, e) # {}
             THEN Keep("at", <<e, FirstOf(LastInIntervals(t, e))>>, "lastQuorum")
        ELSE IF WasSkippedByArchive(t) THEN Refuse("OutOfRange")
        ELSE IF t = call.seen.last THEN Then("stored")
        ELSE Then("next")

QuorumData(t, form) == Value([tick |-> t, form |-> form])

\* The full votes kept for the last tick of the interval; nil when missing.
QuorumOfLastTick ==
  /\ call.step = "lastQuorum"
  /\ LET list == lastTickQuorumData[call.seen.at[1]]
         k    == call.seen.at[2]
     IN QuorumData(IF k \in DOMAIN list THEN list[k] ELSE 0, "full")

\* The last processed tick, without the digests that need the next tick.
QuorumStored ==
  /\ call.step = "stored"
  /\ Require(HasQuorumTickData(call.arg), "NotFound", QuorumData(call.arg, "stored"))

\* The digests are rebuilt from the votes of the next tick.
QuorumReconstructed ==
  \/ /\ call.step = "next"
     /\ Require(HasQuorumTickData(call.arg + 1), "NoNextTick", Then("own"))
  \/ /\ call.step = "own"
     /\ Require(HasQuorumTickData(call.arg), "NoOwnVotes", Then("computors"))
  \/ /\ call.step = "computors"
     /\ Require(EpochOf(call.arg) \in DOMAIN computors, "NoComputors",
                QuorumData(call.arg, "reconstructed"))

GetQuorumTickData ==
  /\ call.handler = "GetQuorumTickData"
  /\ \/ QuorumLast   \/ QuorumIntervals \/ QuorumOfLastTick
     \/ QuorumStored \/ QuorumReconstructed

-----------------------------------------------------------------------------
(* GetStatus, GetHealthCheck, GetLatestTick *)

StatusLast ==
  /\ call.step = "start"
  /\ IF NothingProcessed THEN Refuse("NothingProcessed")
     ELSE Keep("last", lastProcessedTick, "perEpoch")

StatusPerEpoch ==
  call.step = "perEpoch" /\ Keep("perEpoch", lastProcessedTickPerEpoch, "skipped")

\* Without a skipped-ticks key the reply has no intervals either.
StatusSkipped ==
  /\ call.step = "skipped"
  /\ IF skippedTicks = <<>> THEN Answer("OK", call.seen)
     ELSE Keep("skipped", skippedTicks, "intervals")

\* Mutant: the last processed tick of the reply is read with the intervals.
StatusIntervalsWithLast ==
  /\ call.step = "intervals"
  /\ call' = [call EXCEPT !.step = "empty",
                !.seen = Put(Put(@, "intervals", processedTickIntervals),
                             "last", lastProcessedTick)]

StatusIntervals ==
  call.step = "intervals" /\ Keep("intervals", processedTickIntervals, "empty")

StatusEmptyTicks ==
  /\ call.step = "empty"
  /\ IF call.seen.last.epoch \in DOMAIN emptyTicks
     THEN Answer("OK", Put(call.seen, "emptyTicks", emptyTicks[call.seen.last.epoch]))
     ELSE Refuse("NoEmptyTicks")

GetStatus ==
  /\ call.handler = "GetStatus"
  /\ \/ StatusLast \/ StatusPerEpoch \/ StatusSkipped \/ StatusIntervals
     \/ StatusEmptyTicks

\* fetchChainTick: the node fetcher's max tick; no answer is an error.
ChainTicks == Ticks \cup {0}

InSync(chainTick, last) == chainTick - last <= SyncThreshold

GetHealthCheck ==
  /\ call.handler = "GetHealthCheck"
  /\ \/ /\ call.step = "start"
        /\ IF NothingProcessed THEN Refuse("NothingProcessed")
           ELSE Keep("last", lastProcessedTick.tickNumber, "chain")
     \/ /\ call.step = "chain"
        /\ \E chainTick \in ChainTicks :
             IF chainTick # 0 /\ InSync(chainTick, call.seen.last)
             THEN Value(chainTick) ELSE Refuse("Internal")

GetLatestTick ==
  /\ At("GetLatestTick", "start")
  /\ \E chainTick \in ChainTicks :
       IF chainTick # 0 THEN Value(chainTick) ELSE Refuse("Internal")

V1Handler ==
  \/ GetTickData       \/ GetTickTransactions \/ GetTickApprovedTransactions
  \/ GetTransaction    \/ GetTransactionStatus \/ GetTransferTransactionsPerTick
  \/ GetChainHash      \/ GetStoreHash        \/ GetComputors
  \/ GetQuorumTickData \/ GetStatus           \/ GetHealthCheck
  \/ GetLatestTick
=============================================================================
