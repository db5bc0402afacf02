----------------------------- MODULE RpcProofs -----------------------------
(***************************************************************************)
(* Proofs about the answers of the RPC server while the processor writes,  *)
(* crashes and restarts: for every network, every set of requests, every   *)
(* set of failure points and every number of failures.                     *)
(*                                                                         *)
(* A call reads the store step by step.  What it has learned at a step     *)
(* stays true because the processor only adds: records and digests of a    *)
(* tick, skipped intervals, and a last processed tick that moves forward.  *)
(* CallInv says what a call knows at each of its steps, in terms of such   *)
(* facts only; ReaderInv adds to the archiver's invariant what the order   *)
(* of its writes promises to readers.                                      *)
(***************************************************************************)
EXTENDS ArchiverProofs, RpcServerV2

-----------------------------------------------------------------------------
(* What the archiver's store promises to readers. *)

\* The keys a handler reads second are written first: tick data before the
\* tick's transactions and transfers.
WriteOrderInv ==
  \A t \in Ticks :
    ("transactions" \in records[t] \/ transfers[t] # {}) => "tickData" \in records[t]

\* The per-epoch tick of the current epoch is the last processed tick, and
\* none is beyond it.
PerEpochInv ==
  /\ lastProcessedTick.tickNumber = 0 => lastProcessedTick = NoTick
  /\ lastProcessedTick.tickNumber # 0 =>
       /\ lastProcessedTick.epoch \in DOMAIN lastProcessedTickPerEpoch
       /\ lastProcessedTickPerEpoch[lastProcessedTick.epoch] = lastProcessedTick.tickNumber
  /\ \A e \in DOMAIN lastProcessedTickPerEpoch :
       lastProcessedTickPerEpoch[e] <= lastProcessedTick.tickNumber

\* The computors of an epoch are stored before the votes of its first tick,
\* and an attempt that is about to store votes has found or stored them.
ComputorsInv ==
  /\ \A t \in Ticks : "quorum" \in records[t] => EpochOf(t) \in DOMAIN computors
  /\ pc \in {"target", "validate", "quorum"} => EpochOf(tick) \in DOMAIN computors

ReaderInv == SafetyInv /\ WriteOrderInv /\ PerEpochInv /\ ComputorsInv

-----------------------------------------------------------------------------
(* What a call knows at each of its steps. *)

CallShape ==
  /\ call = [method |-> call.method, handler |-> call.handler, arg |-> call.arg,
             step |-> call.step, seen |-> call.seen, code |-> call.code]
  /\ call = NoCall \/ (call.handler \in Handlers(call.method) /\ call.arg \in Arguments(call.method))

\* A request for a tick number is checked first.  Past the check, the tick is
\* archived; tick 0 alone may slip through, before the first interval exists,
\* if the network begins at tick 1.
TickZero == call.arg = 0 /\ 1 \in Ticks

PastCheck ==
  /\ Stored(call.arg) \/ TickZero
  /\ call.arg <= lastProcessedTick.tickNumber

TickCallInv ==
  call.method \in TickMethods =>
    /\ call.step = "checkIntervals" =>
         /\ lastProcessedTick.tickNumber # 0
         /\ call.arg <= lastProcessedTick.tickNumber
    /\ call.step \notin {"checkLast", "checkIntervals", "replied"} => PastCheck
    /\ CheckedThenAnswered \/ TickZero

\* The approved transactions are read only if there are any, and the money
\* flew according to a status that is stored.
ApprovedCallInv ==
  /\ (call.method = "GetTickApprovedTransactions" /\ call.step = "transactions") =>
       HasTransactions(call.arg) /\ call.arg \in MoneyFlewTicks
  /\ (call.method = "GetTickTransactionsV2" /\
        call.step \in {"transactions", "infoTickData", "infoStatus"}) =>
       call.arg \in Ticks /\ HasTransactions(call.arg)
  /\ ApprovedExact

\* The votes of the next tick and the tick's own are stored when they are about
\* to be read.
QuorumCallInv ==
  call.method \in QuorumMethods =>
    /\ call.step = "next" => HasQuorumTickData(call.arg + 1)
    /\ call.step \in {"next", "own", "computors"} => HasQuorumTickData(call.arg)
    /\ ReconstructionPossible

\* The tick data of a transaction that was found, or of the transfers that
\* are left, is stored.
InfoCallInv ==
  /\ (call.method \in {"GetTransactionV2", "GetSendManyTransactionV2"} /\ call.step = "infoTickData") =>
       HasTickData(call.arg)
  /\ (call.method = "GetIdentityTransfersInTickRangeV2" /\ call.step \in {"infoTickData", "infoStatus"}) =>
       call.seen.pending # {} /\ \A t \in call.seen.pending : HasTickData(t)
  /\ InfoNeverMissing

\* The status of a transaction is read when its tick is processed.
TxStatusCallInv ==
  call.method = "GetTransactionStatus" =>
    /\ call.step \in {"last", "txStatus"} => call.arg \in Ticks
    /\ call.step = "txStatus" => call.arg <= lastProcessedTick.tickNumber
    /\ StatusAnswerFinal

\* The parts of a /status reply that are read, against each other and against
\* the store.
ReplyCovers(reply) ==
  \A n \in 1 .. reply.last.tickNumber - 1 :
    \/ Stored(n)
    \/ \E k \in DOMAIN reply.skipped :
         reply.skipped[k].startTick <= n /\ n <= reply.skipped[k].endTick

StatusCallInv ==
  call.method = "GetStatus" =>
    /\ call.step \in {"perEpoch", "skipped", "intervals", "empty"} =>
         /\ call.seen.last \in ProcessedTick
         /\ call.seen.last.tickNumber <= lastProcessedTick.tickNumber
         /\ call.seen.last.epoch \in DOMAIN lastProcessedTickPerEpoch
         /\ call.seen.last.tickNumber <= lastProcessedTickPerEpoch[call.seen.last.epoch]
    /\ call.step \in {"perEpoch", "skipped", "intervals", "empty"} => "last" \in DOMAIN call.seen
    /\ call.step \in {"skipped", "intervals", "empty"} => "perEpoch" \in DOMAIN call.seen
    /\ call.step \in {"intervals", "empty"} => "skipped" \in DOMAIN call.seen
    /\ call.step \in {"skipped", "intervals", "empty"} =>
         call.seen.perEpoch[call.seen.last.epoch] >= call.seen.last.tickNumber
    /\ call.step \in {"intervals", "empty"} => ReplyCovers(call.seen)
    /\ StatusReplyCovers

CallInv ==
  /\ CallShape
  /\ TickCallInv   /\ ApprovedCallInv /\ QuorumCallInv
  /\ InfoCallInv   /\ TxStatusCallInv /\ StatusCallInv

RpcInv == ReaderInv /\ CallInv

-----------------------------------------------------------------------------
(* The store, as a call sees it. *)

\* What a call may rely on after the processor has taken a step.
Grows ==
  /\ \A t, kind : HasRecord(t, kind) => HasRecord(t, kind)'
  /\ \A n : Stored(n) => Stored(n)'
  /\ \A n : InSkippedTicks(n) => InSkippedTicks(n)'
  /\ lastProcessedTick.tickNumber \in Nat /\ lastProcessedTick'.tickNumber \in Nat
  /\ lastProcessedTick.tickNumber <= lastProcessedTick'.tickNumber
  /\ \A e \in DOMAIN lastProcessedTickPerEpoch :
       /\ e \in DOMAIN lastProcessedTickPerEpoch'
       /\ lastProcessedTickPerEpoch[e] \in Nat /\ lastProcessedTickPerEpoch'[e] \in Nat
       /\ lastProcessedTickPerEpoch[e] <= lastProcessedTickPerEpoch'[e]

\* The keys of /status and of the skipped ticks only grow, and the per-epoch
\* ticks follow the last processed one.
LEMMA StatusGrows ==
  ASSUME SafetyInv, PerEpochInv, [Next]_vars
  PROVE  /\ PerEpochInv'
         /\ \A n : InSkippedTicks(n) => InSkippedTicks(n)'
         /\ lastProcessedTick.tickNumber \in Nat
         /\ lastProcessedTick.tickNumber <= lastProcessedTick'.tickNumber
         /\ \A e \in DOMAIN lastProcessedTickPerEpoch :
              /\ e \in DOMAIN lastProcessedTickPerEpoch'
              /\ lastProcessedTickPerEpoch[e] <= lastProcessedTickPerEpoch'[e]
<1>0. /\ lastProcessedTick.tickNumber \in Nat
      /\ \A e \in DOMAIN lastProcessedTickPerEpoch : lastProcessedTickPerEpoch[e] \in Nat
      /\ skippedTicks \in Seq(SkippedInterval)
  BY SegmentOfTick DEF SafetyInv, TypeInv, TypeOK, StoreTypeOK, ProcessedTick, IsKeyValue
<1>1. CASE UNCHANGED statusVars
  BY <1>0, <1>1 DEF statusVars, PerEpochInv, InSkippedTicks
<1>2. CASE SetSkippedTicks
  <2> DEFINE gap == [startTick |-> lastProcessedTick.tickNumber + 1, endTick |-> tick - 1]
  <2>1. /\ skippedTicks' = Append(skippedTicks, gap)
        /\ UNCHANGED <<lastProcessedTick, lastProcessedTickPerEpoch>>
    BY <1>2 DEF SetSkippedTicks, SetSkippedTicksInterval
  <2>2. tick \in Nat \ {0}
    BY <1>2, SegmentOfTick DEF SetSkippedTicks, SafetyInv, TypeInv, AttemptInv, AttemptSteps
  <2>3. gap \in SkippedInterval
    BY <1>0, <2>2 DEF SkippedInterval
  <2> HIDE DEF gap
  <2>4. \A k \in DOMAIN skippedTicks : k \in DOMAIN skippedTicks' /\ skippedTicks'[k] = skippedTicks[k]
    BY <1>0, <2>1, <2>3, AppendFacts
  <2> QED BY <1>0, <2>1, <2>4 DEF PerEpochInv, InSkippedTicks
<1>3. CASE SetLastProcessedTick
  <2>1. /\ lastProcessedTick' = nextTick /\ UNCHANGED skippedTicks
        /\ lastProcessedTickPerEpoch' = Put(lastProcessedTickPerEpoch, nextTick.epoch, tick)
    BY <1>3 DEF SetLastProcessedTick, CommitLastProcessedTick, tick
  <2>2. tick \in Nat \ {0} /\ lastProcessedTick.tickNumber < tick
    BY <1>3, SegmentOfTick DEF SetLastProcessedTick, SafetyInv, TypeInv, AttemptInv, AttemptSteps
  <2>3. /\ DOMAIN lastProcessedTickPerEpoch' = DOMAIN lastProcessedTickPerEpoch \cup {nextTick.epoch}
        /\ lastProcessedTickPerEpoch'[nextTick.epoch] = tick
        /\ \A e \in DOMAIN lastProcessedTickPerEpoch :
             e # nextTick.epoch => lastProcessedTickPerEpoch'[e] = lastProcessedTickPerEpoch[e]
    BY <2>1 DEF Put
  <2>4. lastProcessedTick'.tickNumber = tick /\ lastProcessedTick'.epoch = nextTick.epoch
    BY <2>1 DEF tick
  <2>5. \A e \in DOMAIN lastProcessedTickPerEpoch :
          lastProcessedTickPerEpoch[e] <= lastProcessedTick.tickNumber
    BY DEF PerEpochInv
  <2>6. \A e \in DOMAIN lastProcessedTickPerEpoch' : lastProcessedTickPerEpoch'[e] <= tick
    BY <1>0, <2>2, <2>3, <2>5
  <2>7. PerEpochInv'
    BY <2>2, <2>3, <2>4, <2>6 DEF PerEpochInv
  <2>8. \A e \in DOMAIN lastProcessedTickPerEpoch :
          lastProcessedTickPerEpoch[e] <= lastProcessedTickPerEpoch'[e]
    BY <1>0, <2>2, <2>3, <2>5
  <2> QED BY <1>0, <2>1, <2>2, <2>3, <2>4, <2>7, <2>8 DEF InSkippedTicks
<1>4. CASE ProcessStatus /\ ~SetSkippedTicks /\ ~SetLastProcessedTick
  <2>1. UNCHANGED <<lastProcessedTick, lastProcessedTickPerEpoch, skippedTicks>>
    BY <1>4 DEF ProcessStatus, NoSkippedTicks, AppendInterval, SetProcessedTickInterval,
      storeVars, statusVars
  <2> QED BY <1>0, <2>1 DEF PerEpochInv, InSkippedTicks
<1>5. CASE UNCHANGED vars
  BY <1>1, <1>5 DEF vars, storeVars
<1> QED BY <1>1, <1>2, <1>3, <1>4, <1>5, OtherSteps

\* The records of a tick only grow, and in the order of ValidateTick.
LEMMA RecordsGrow ==
  ASSUME SafetyInv, WriteOrderInv, [Next]_vars
  PROVE  WriteOrderInv' /\ \A t \in Ticks : records[t] \subseteq records'[t]
<1>0. /\ records \in [Ticks -> SUBSET RecordKinds]
      /\ transfers \in [Ticks -> SUBSET Identities]
  BY DEF SafetyInv, TypeInv, TypeOK, StoreTypeOK
<1>1. CASE UNCHANGED tickVars
  BY <1>1 DEF tickVars, WriteOrderInv
<1>2. CASE TickWrite
  <2>1. /\ tick \in Ticks
        /\ \A t \in Ticks : records[t] \subseteq records'[t] /\ transfers[t] \subseteq transfers'[t]
        /\ \A t \in Ticks : t # tick => records'[t] = records[t] /\ transfers'[t] = transfers[t]
    BY <1>2, TickWriteEffect DEF SafetyInv
  <2>2. ("transactions" \in records'[tick] \/ transfers'[tick] # {}) => "tickData" \in records'[tick]
    <3>1. CASE pc \in {"transactions", "transfers", "chain", "storeDigest"}
      <4>1. "tickData" \in records[tick]
        BY <3>1 DEF SafetyInv, StoredInv, RecordKinds
      <4> QED BY <2>1, <4>1
    <3>2. CASE StoreQuorumVotes \/ StoreTickData
      BY <1>0, <2>1, <3>2 DEF StoreQuorumVotes, StoreTickData, SetQuorumTickData, SetTickData,
        StoreRecord, WriteOrderInv
    <3> QED
      BY <1>2, <3>1, <3>2 DEF TickWrite, StoreTickTransactions, StoreTransferTransactions,
        StoreTransactionsStatus, ComputeAndSave, ComputeStoreAndSave
  <2> QED BY <2>1, <2>2 DEF WriteOrderInv
<1> QED BY <1>1, <1>2, TickSteps

\* The computors of an epoch stay, and come before its votes.
LEMMA ComputorsStep ==
  ASSUME SafetyInv, ComputorsInv, [Next]_vars
  PROVE  ComputorsInv'
<1> USE DEF storeVars, epochVars, tickVars, attemptVars, tick, Goto
<1>0. records \in [Ticks -> SUBSET RecordKinds]
  BY DEF SafetyInv, TypeInv, TypeOK, StoreTypeOK
<1>1. CASE UNCHANGED <<computors, records>> /\ pc' \notin {"target", "validate", "quorum"}
  BY <1>1 DEF ComputorsInv
<1>2. CASE StoreComputors
  <2>1. PICK list : computors' = Put(computors, EpochOf(tick), list)
    BY <1>2 DEF StoreComputors, SetComputors
  <2>2. DOMAIN computors' = DOMAIN computors \cup {EpochOf(tick)}
    BY <2>1 DEF Put
  <2> QED BY <1>2, <2>2 DEF StoreComputors, ComputorsInv
<1>3. CASE StoreTargetTickVoteSignature \/ ValidateVotesAndTickData
  BY <1>3 DEF StoreTargetTickVoteSignature, ValidateVotesAndTickData, ComputorsInv
<1>4. CASE StoreQuorumVotes
  BY <1>0, <1>4 DEF StoreQuorumVotes, SetQuorumTickData, StoreRecord, ComputorsInv
<1>5. CASE StoreTickData
  BY <1>0, <1>5 DEF StoreTickData, SetTickData, StoreRecord, ComputorsInv
<1>6. CASE StoreTickTransactions
  BY <1>0, <1>6 DEF StoreTickTransactions, SetTransactions, StoreRecord, ComputorsInv
<1>7. CASE StoreTransactionsStatus
  BY <1>0, <1>7 DEF StoreTransactionsStatus, SetTickTransactionsStatus, StoreRecord, ComputorsInv
<1>8. CASE ProcessOneByOne /\ UNCHANGED <<startupVars, failures>>
  <2>1. CASE GetTickInfo
    BY <1>1, <2>1 DEF GetTickInfo, StartAttempt, TickInTheFuture
  <2>2. CASE ValidateTick
    BY <1>1, <1>2, <1>3, <1>4, <1>5, <1>6, <1>7, <2>2 DEF ValidateTick, StoreLastQuorumOfInterval,
      StoreTransferTransactions, ComputeAndSave, ComputeStoreAndSave, AfterDigests,
      InitEmptyTickList, CountEmptyTick, ListEmptyTick
  <2>3. CASE ProcessStatus
    BY <1>1, <2>3 DEF ProcessStatus, NoSkippedTicks, AppendInterval, SetSkippedTicks,
      SetLastProcessedTick, SetProcessedTickInterval, EndAttempt
  <2>4. CASE ProcessingFails
    BY <1>1, <2>4 DEF ProcessingFails, EndAttempt
  <2> QED BY <1>8, <2>1, <2>2, <2>3, <2>4 DEF ProcessOneByOne
<1>9. CASE StartupNext
  BY <1>1, <1>9 DEF StartupNext, OpenStore, ResetEmptyTicks, ResetEmptyTickList, ResetDone,
    EmptyTicksKnown, CalculateEmptyTicks, CalculateEmptyTickList, CalculationFails,
    CalculationDone, Restart
<1>10. CASE Crash \/ WriteFails
  BY <1>1, <1>10 DEF Crash, WriteFails, EndAttempt
<1>11. CASE UNCHANGED vars
  BY <1>11 DEF vars, ComputorsInv
<1> QED BY <1>8, <1>9, <1>10, <1>11 DEF Next

\* The readers' invariant holds at the start and is kept by every step, which
\* lets what a call relies on grow.
LEMMA ReaderStep ==
  ASSUME ReaderInv, [Next]_vars
  PROVE  ReaderInv' /\ Grows
<1>1. SafetyInv'
  BY TypeStep, StoredStep, StatusStep DEF ReaderInv, SafetyInv
<1>2. WriteOrderInv' /\ \A t \in Ticks : records[t] \subseteq records'[t]
  BY RecordsGrow DEF ReaderInv
<1>3. \A n : Stored(n) => Stored(n)'
  BY <1>1, CompleteStable DEF ReaderInv, SafetyInv, Stored
<1>4. lastProcessedTick'.tickNumber \in Nat
  BY <1>1 DEF SafetyInv, TypeInv, TypeOK, StoreTypeOK, ProcessedTick
<1>5. \A t, kind : HasRecord(t, kind) => HasRecord(t, kind)'
  BY <1>2 DEF HasRecord
<1>6. /\ \A e \in DOMAIN lastProcessedTickPerEpoch : lastProcessedTickPerEpoch[e] \in Nat
      /\ \A e \in DOMAIN lastProcessedTickPerEpoch' : lastProcessedTickPerEpoch'[e] \in Nat
  BY <1>1, SegmentOfTick DEF ReaderInv, SafetyInv, TypeInv, TypeOK, StoreTypeOK, IsKeyValue
<1> QED BY <1>1, <1>2, <1>3, <1>4, <1>5, <1>6, StatusGrows, ComputorsStep DEF ReaderInv, Grows

\* An empty store promises nothing.
LEMMA ReaderInit == Init => ReaderInv
<1> SUFFICES ASSUME Init PROVE ReaderInv
  OBVIOUS
<1>1. SafetyInv
  BY TypeInit, StoredInit, StatusInit DEF SafetyInv
<1>2. WriteOrderInv /\ PerEpochInv /\ ComputorsInv
  BY DEF Init, StoreInit, WriteOrderInv, PerEpochInv, ComputorsInv, NoTick
<1> QED BY <1>1, <1>2 DEF ReaderInv

-----------------------------------------------------------------------------
(* Steps of a call. *)

\* The call goes on: same request, another step.
Moved(step, seen, code) ==
  /\ call'.method = call.method /\ call'.handler = call.handler /\ call'.arg = call.arg
  /\ call'.step = step /\ call'.seen = seen /\ call'.code = code
  /\ call # NoCall => CallShape'

SameRequest ==
  /\ call'.method = call.method /\ call'.handler = call.handler /\ call'.arg = call.arg
  /\ CallShape'

\* What the steps of a call do to its record.
LEMMA CallMoves ==
  ASSUME CallShape
  PROVE  /\ \A step : Then(step) => Moved(step, call.seen, call.code)
         /\ \A name, v, step : Keep(name, v, step) => Moved(step, Put(call.seen, name, v), call.code)
         /\ \A code, v : Answer(code, v) => Moved("replied", v, code)
<1>1. PICK m, h, a, s, seen, code :
        call = [method |-> m, handler |-> h, arg |-> a, step |-> s, seen |-> seen, code |-> code]
  BY DEF CallShape
<1>2. call # NoCall => call.handler \in Handlers(call.method) /\ call.arg \in Arguments(call.method)
  BY DEF CallShape
<1>3. ASSUME NEW step, NEW sn, NEW c,
             call' = [method |-> m, handler |-> h, arg |-> a, step |-> step, seen |-> sn, code |-> c]
      PROVE  Moved(step, sn, c)
  BY <1>1, <1>2, <1>3 DEF Moved, CallShape
<1>4. ASSUME NEW step, Then(step) PROVE Moved(step, call.seen, call.code)
  BY <1>1, <1>3, <1>4 DEF Then
<1>5. ASSUME NEW name, NEW v, NEW step, Keep(name, v, step)
      PROVE  Moved(step, Put(call.seen, name, v), call.code)
  BY <1>1, <1>3, <1>5 DEF Keep
<1>6. ASSUME NEW c, NEW v, Answer(c, v) PROVE Moved("replied", v, c)
  BY <1>1, <1>3, <1>6 DEF Answer
<1> QED BY <1>4, <1>5, <1>6

\* A handler only acts for itself.
LEMMA HandlerGuards ==
  /\ GetTickData => call.handler = "GetTickData"
  /\ GetTickTransactions => call.handler \in {"GetTickTransactions", "GetTickTransferTransactions"}
  /\ GetTickApprovedTransactions => call.handler = "GetTickApprovedTransactions"
  /\ GetTransaction => call.handler = "GetTransaction"
  /\ GetTransactionStatus => call.handler = "GetTransactionStatus"
  /\ GetTransferTransactionsPerTick => call.handler = "GetTransferTransactionsPerTick"
  /\ GetChainHash => call.handler = "GetChainHash"
  /\ GetStoreHash => call.handler = "GetStoreHash"
  /\ GetComputors => call.handler = "GetComputors"
  /\ GetQuorumTickData => call.handler = "GetQuorumTickData"
  /\ GetStatus => call.handler = "GetStatus"
  /\ GetHealthCheck => call.handler = "GetHealthCheck"
  /\ GetLatestTick => call.handler = "GetLatestTick"
  /\ GetTickTransactionsV2 =>
       call.handler \in {"GetAllTickTransactionsV2", "GetTransferTickTransactionsV2",
                         "GetApprovedTickTransactionsV2"}
  /\ GetTransactionV2 => call.handler = "GetTransactionV2"
  /\ GetSendManyTransactionV2 => call.handler = "GetSendManyTransactionV2"
  /\ GetIdentityTransfersInTickRangeV2 => call.handler = "GetIdentityTransfersInTickRangeV2"
  /\ GetEmptyTickListV2 => call.handler = "GetEmptyTickListV2"
  /\ GetEpochTickListV2 => call.handler = "GetEpochTickListV2"
<1>1. /\ GetTickData => call.handler = "GetTickData"
      /\ GetTransaction => call.handler = "GetTransaction"
      /\ GetTransferTransactionsPerTick => call.handler = "GetTransferTransactionsPerTick"
      /\ GetChainHash => call.handler = "GetChainHash"
      /\ GetStoreHash => call.handler = "GetStoreHash"
      /\ GetComputors => call.handler = "GetComputors"
      /\ GetLatestTick => call.handler = "GetLatestTick"
      /\ GetEmptyTickListV2 => call.handler = "GetEmptyTickListV2"
  BY DEF At, GetTickData, GetTransaction, GetTransferTransactionsPerTick, GetChainHash,
    GetStoreHash, GetComputors, GetLatestTick, GetEmptyTickListV2
<1>2. /\ GetTickTransactions => call.handler \in {"GetTickTransactions", "GetTickTransferTransactions"}
      /\ GetTickApprovedTransactions => call.handler = "GetTickApprovedTransactions"
      /\ GetTransactionStatus => call.handler = "GetTransactionStatus"
      /\ GetQuorumTickData => call.handler = "GetQuorumTickData"
  BY DEF GetTickTransactions, GetTickApprovedTransactions, GetTransactionStatus, GetQuorumTickData
<1>3. /\ GetStatus => call.handler = "GetStatus"
      /\ GetHealthCheck => call.handler = "GetHealthCheck"
  BY DEF GetStatus, GetHealthCheck
<1>4. /\ GetTickTransactionsV2 =>
           call.handler \in {"GetAllTickTransactionsV2", "GetTransferTickTransactionsV2",
                             "GetApprovedTickTransactionsV2"}
      /\ GetTransactionV2 => call.handler = "GetTransactionV2"
      /\ GetSendManyTransactionV2 => call.handler = "GetSendManyTransactionV2"
  BY DEF GetTickTransactionsV2, GetTransactionV2, GetSendManyTransactionV2
<1>5. /\ GetIdentityTransfersInTickRangeV2 => call.handler = "GetIdentityTransfersInTickRangeV2"
      /\ GetEpochTickListV2 => call.handler = "GetEpochTickListV2"
  BY DEF GetIdentityTransfersInTickRangeV2, GetEpochTickListV2
<1> QED BY <1>1, <1>2, <1>3, <1>4, <1>5

\* A handler moves its call.
LEMMA HandlersMove ==
  ASSUME CallShape, CheckTickWithinArchiverIntervals \/ V1Handler \/ V2Handler
  PROVE  \E step, seen, code : Moved(step, seen, code)
<1> DEFINE Goes == \E step, seen, code : Moved(step, seen, code)
<1> SUFFICES Goes
  OBVIOUS
<1>1. /\ \A step : Then(step) => Goes
      /\ \A name, v, step : Keep(name, v, step) => Goes
      /\ \A code, v : Answer(code, v) => Goes
  BY CallMoves
<1>2. /\ \A code : Refuse(code) => Goes
      /\ \A v : Value(v) => Goes
  BY <1>1 DEF Refuse, Value
<1>3. \A found, pending : TransfersWithInfo(found, pending) => Goes
  <2> SUFFICES ASSUME NEW found, NEW pending, pending # {}, TransfersWithInfo(found, pending)
               PROVE  Goes
    BY <1>2 DEF TransfersWithInfo
  <2>1. PICK m, h, a, s, seen, code :
          call = [method |-> m, handler |-> h, arg |-> a, step |-> s, seen |-> seen, code |-> code]
    BY DEF CallShape
  <2> DEFINE sn == Put(Put(NoLocals, "found", found), "pending", pending)
  <2>2. call' = [call EXCEPT !.step = "infoTickData", !.seen = sn]
    BY DEF TransfersWithInfo
  <2> HIDE DEF sn
  <2>3. Moved("infoTickData", sn, call.code)
    BY <2>1, <2>2 DEF Moved, CallShape
  <2> HIDE DEF Moved
  <2> QED BY <2>3
<1> HIDE DEF Goes
<1> USE <1>1, <1>2 DEF Require, At
<1>4. CASE CheckTickWithinArchiverIntervals
  BY <1>4 DEF CheckTickWithinArchiverIntervals
<1>5. CASE V1Handler
  <2>1. CASE GetTickData \/ GetTransaction \/ GetChainHash \/ GetStoreHash \/ GetComputors
    BY <2>1 DEF GetTickData, GetTransaction, GetChainHash, GetStoreHash, GetComputors
  <2>2. CASE GetTickTransactions \/ GetTickApprovedTransactions
    BY <2>2 DEF GetTickTransactions, GetTickApprovedTransactions, ReadTransactionIds
  <2>3. CASE GetTransactionStatus \/ GetTransferTransactionsPerTick
    BY <2>3 DEF GetTransactionStatus, StatusOfProcessedTx, GetTransferTransactionsPerTick
  <2>4. CASE GetQuorumTickData
    BY <2>4 DEF GetQuorumTickData, QuorumLast, QuorumIntervals, QuorumOfLastTick, QuorumStored,
      QuorumReconstructed, QuorumData
  <2>5. CASE GetStatus
    BY <2>5 DEF GetStatus, StatusLast, StatusPerEpoch, StatusSkipped, StatusIntervals,
      StatusEmptyTicks
  <2>6. CASE GetHealthCheck \/ GetLatestTick
    BY <2>6 DEF GetHealthCheck, GetLatestTick
  <2> QED BY <1>5, <2>1, <2>2, <2>3, <2>4, <2>5, <2>6 DEF V1Handler
<1>6. CASE V2Handler
  <2>1. CASE GetTickTransactionsV2
    BY <2>1 DEF GetTickTransactionsV2, ReadTransactionIds, InfoTickData
  <2>2. CASE GetTransactionV2 \/ GetSendManyTransactionV2
    BY <2>2 DEF GetTransactionV2, GetSendManyTransactionV2, TransactionWithInfo, InfoTickData
  <2>3. CASE GetIdentityTransfersInTickRangeV2
    BY <1>3, <2>3 DEF GetIdentityTransfersInTickRangeV2, InfoTickData
  <2>4. CASE GetEmptyTickListV2 \/ GetEpochTickListV2
    BY <2>4 DEF GetEmptyTickListV2, GetEpochTickListV2, EpochTicks
  <2> QED BY <1>6, <2>1, <2>2, <2>3, <2>4 DEF V2Handler
<1> QED BY <1>4, <1>5, <1>6

\* A step of the server starts a call, ends it or moves it.
LEMMA CallCases ==
  ASSUME CallShape, RpcStep
  PROVE  \/ Receive
         \/ call' = NoCall
         \/ /\ CheckTickWithinArchiverIntervals \/ V1Handler \/ V2Handler
            /\ call # NoCall
            /\ SameRequest
<1>1. CASE Deliver
  BY <1>1 DEF Deliver
<1>2. CASE CheckTickWithinArchiverIntervals \/ V1Handler \/ V2Handler
  <2>1. PICK step, seen, code : Moved(step, seen, code)
    BY <1>2, HandlersMove
  <2>2. call # NoCall
    <3>1. CASE CheckTickWithinArchiverIntervals
      BY <3>1 DEF CheckTickWithinArchiverIntervals, NoCall
    <3>2. CASE V1Handler \/ V2Handler
      <4>1. call.handler # "none"
        BY <3>2, HandlerGuards DEF V1Handler, V2Handler
      <4> QED BY <4>1 DEF NoCall
    <3> QED BY <1>2, <3>1, <3>2
  <2> QED BY <1>2, <2>1, <2>2 DEF Moved, SameRequest
<1> QED BY <1>1, <1>2 DEF RpcStep

-----------------------------------------------------------------------------
(* Requests for a tick number. *)

TickHandlers ==
  {"GetQuorumTickData", "GetChainHash", "GetStoreHash", "GetTickData", "GetTickTransactions",
   "GetTickTransferTransactions", "GetTickApprovedTransactions", "GetAllTickTransactionsV2",
   "GetTransferTickTransactionsV2", "GetApprovedTickTransactionsV2"}

\* The methods whose request names a tick number, their handlers, and that the
\* type switch of the interceptor has a case for the message of each of them.
LEMMA TickMethodNames ==
  /\ TickMethods =
       {"GetTickQuorumDataV2", "GetTickChainHashV2", "GetTickStoreHashV2", "GetTickTransactionsV2",
        "GetTickData", "GetQuorumTickData", "GetTickTransactions", "GetTickTransferTransactions",
        "GetTickApprovedTransactions", "GetChainHash", "GetStoreHash"}
  /\ "none" \notin TickMethods
  /\ \A m \in TickMethods : RequestType(m) \in CheckedRequests
  /\ \A m \in TickMethods : Arguments(m) = RequestTicks /\ Handlers(m) \subseteq TickHandlers
  /\ \A m \in TickMethods : "GetQuorumTickData" \in Handlers(m) => m \in QuorumMethods
  /\ \A m \in TickMethods : "GetStoreHash" \in Handlers(m) => m \in StoreHashMethods
<1>1. TickMethods =
        {"GetTickQuorumDataV2", "GetTickChainHashV2", "GetTickStoreHashV2", "GetTickTransactionsV2",
         "GetTickData", "GetQuorumTickData", "GetTickTransactions", "GetTickTransferTransactions",
         "GetTickApprovedTransactions", "GetChainHash", "GetStoreHash"}
  BY DEF TickMethods, RequestTypeOfTick
<1>2. \A m \in TickMethods : RequestType(m) \in CheckedRequests
  BY <1>1 DEF RequestType, RequestTypeV2, RequestTypeOfTick, CheckedRequests
<1>3. \A m \in TickMethods : Arguments(m) = RequestTicks
  BY <1>1 DEF Arguments, TxMethods, IdentityMethods, EpochMethods
<1>4. \A m \in TickMethods :
        /\ Handlers(m) \subseteq TickHandlers
        /\ "GetQuorumTickData" \in Handlers(m) => m \in QuorumMethods
        /\ "GetStoreHash" \in Handlers(m) => m \in StoreHashMethods
  BY <1>1 DEF Handlers, TickHandlers, QuorumMethods, StoreHashMethods
<1>5. "none" \notin TickMethods
  BY <1>1
<1> QED BY <1>1, <1>2, <1>3, <1>4, <1>5

\* A step of the server leaves the store alone.
LEMMA StoreUnchanged ==
  ASSUME ReaderInv, RpcStep
  PROVE  /\ ReaderInv' /\ Grows
         /\ UNCHANGED <<lastProcessedTick, lastProcessedTickPerEpoch, skippedTicks, records>>
<1>1. UNCHANGED vars
  BY DEF RpcStep
<1>2. UNCHANGED <<lastProcessedTick, lastProcessedTickPerEpoch, skippedTicks, records>>
  BY <1>1 DEF vars, storeVars, statusVars, tickVars
<1> QED BY <1>1, <1>2, ReaderStep

\* What a new call is.
LEMMA NewCall ==
  ASSUME Receive
  PROVE  \E m \in Methods : \E arg \in Arguments(m) : \E h \in Handlers(m) :
           /\ call' = [method |-> m, handler |-> h, arg |-> arg,
                       step |-> IF RequestType(m) \in CheckedRequests THEN "checkLast" ELSE "start",
                       seen |-> NoLocals, code |-> "none"]
           /\ call'.method = m
           /\ call'.step \in {"checkLast", "start"}
           /\ RequestType(m) \in CheckedRequests => call'.step = "checkLast"
           /\ CallShape'
<1>1. PICK m \in Methods : \E arg \in Arguments(m) : \E h \in Handlers(m) :
        call' = [NoCall EXCEPT !.method = m, !.handler = h, !.arg = arg,
                   !.step = IF RequestType(m) \in CheckedRequests THEN "checkLast" ELSE "start"]
  BY DEF Receive
<1>2. PICK arg \in Arguments(m) : \E h \in Handlers(m) :
        call' = [NoCall EXCEPT !.method = m, !.handler = h, !.arg = arg,
                   !.step = IF RequestType(m) \in CheckedRequests THEN "checkLast" ELSE "start"]
  BY <1>1
<1>3. PICK h \in Handlers(m) :
        call' = [NoCall EXCEPT !.method = m, !.handler = h, !.arg = arg,
                   !.step = IF RequestType(m) \in CheckedRequests THEN "checkLast" ELSE "start"]
  BY <1>2
<1>4. PICK step \in {"checkLast", "start"} :
        step = IF RequestType(m) \in CheckedRequests THEN "checkLast" ELSE "start"
  OBVIOUS
<1>5. call' = [method |-> m, handler |-> h, arg |-> arg, step |-> step,
               seen |-> NoLocals, code |-> "none"]
  BY <1>3, <1>4 DEF NoCall
<1>6. CallShape'
  BY <1>5 DEF CallShape
<1> QED BY <1>4, <1>5, <1>6

\* The two reads of the bounds check: each leaves the call with what the next
\* one needs.
LEMMA BoundsCheckStep ==
  ASSUME RpcInv, call.method \in TickMethods, call # NoCall, CheckTickWithinArchiverIntervals
  PROVE  \/ /\ call'.step = "checkIntervals"
            /\ lastProcessedTick.tickNumber # 0 /\ call.arg <= lastProcessedTick.tickNumber
         \/ call'.step = "start" /\ PastCheck
         \/ /\ call'.step = "replied"
            /\ call'.code \in {"FailedPrecondition", "OutOfRange", "NothingProcessed"}
<1> USE DEF RpcInv, CallInv
<1>1. /\ \A step : Then(step) => call'.step = step
      /\ \A code : Refuse(code) => call'.step = "replied" /\ call'.code = code
  BY CallMoves DEF Moved, Refuse
<1>2. call.arg \in Nat
  BY TickMethodNames, RequestsAssumption DEF CallShape
<1>3. lastProcessedTick.tickNumber \in Nat
  BY DEF ReaderInv, SafetyInv, TypeInv, TypeOK, StoreTypeOK, ProcessedTick
<1>4. CASE call.step = "checkLast"
  <2>1. ~NothingProcessed => lastProcessedTick.tickNumber # 0
    BY DEF NothingProcessed, ReaderInv, PerEpochInv
  <2> QED BY <1>1, <1>2, <1>3, <1>4, <2>1 DEF CheckTickWithinArchiverIntervals
<1>5. CASE call.step = "checkIntervals"
  <2>1. lastProcessedTick.tickNumber # 0 /\ call.arg <= lastProcessedTick.tickNumber
    BY <1>5 DEF TickCallInv
  <2>2. ASSUME ~WasSkippedByArchive(call.arg) PROVE Stored(call.arg) \/ TickZero
    <3>1. CASE call.arg # 0
      BY <1>2, <2>1, <2>2, <3>1, PassedCheckStored DEF TickWithinArchiverIntervals, ReaderInv
    <3>2. CASE call.arg = 0 /\ 1 \notin Ticks
      <4>1. 1 \in 1 .. lastProcessedTick.tickNumber /\ ~Stored(1) /\ ~Stored(0)
        BY <1>3, <2>1, <3>2, SegmentOfTick DEF Stored
      <4>2. PICK e \in Epochs : \E k \in DOMAIN Intervals(e) : 1 < Intervals(e)[k].initial
        BY <4>1 DEF ReaderInv, SafetyInv, StatusInv, PassedOverInv
      <4>3. PICK k \in DOMAIN Intervals(e) : 1 < Intervals(e)[k].initial
        BY <4>2
      <4>4. Intervals(e)[k].initial \in Nat
        BY SegmentOfTick DEF ReaderInv, SafetyInv, StatusInv, IntervalInv
      <4>5. 0 < Intervals(e)[k].initial
        BY <4>3, <4>4
      <4> QED BY <2>2, <3>2, <4>1, <4>5, SkippedByArchive DEF ReaderInv
    <3> QED BY <3>1, <3>2 DEF TickZero
  <2> QED BY <1>1, <1>5, <2>1, <2>2 DEF CheckTickWithinArchiverIntervals, PastCheck
<1> QED BY <1>4, <1>5 DEF CheckTickWithinArchiverIntervals

\* Behind the check a handler finds what it looks for, so it goes on or
\* answers.
LEMMA TickHandlerStep ==
  ASSUME RpcInv, call.method \in TickMethods \ QuorumMethods, V1Handler \/ V2Handler
  PROVE  \/ call'.step \in {"transactions", "infoTickData", "infoStatus"} /\ PastCheck
         \/ call'.step = "replied" /\ call'.code = "OK"
         \/ call'.step = "replied" /\ TickZero
         \/ /\ call'.step = "replied" /\ call.method \in StoreHashMethods
            /\ call.arg < StoreDigestFrom
<1> USE DEF RpcInv, CallInv
<1>1. /\ \A step : Then(step) => call'.step = step
      /\ \A code : Refuse(code) => call'.step = "replied" /\ call'.code = code
      /\ \A v : Value(v) => call'.step = "replied" /\ call'.code = "OK"
  BY CallMoves DEF Moved, Refuse, Value
<1>2. call.handler \in Handlers(call.method) /\ call.arg \in RequestTicks
  BY TickMethodNames DEF CallShape, NoCall
<1>3. /\ call.handler \in TickHandlers /\ call.arg \in Nat
      /\ call.handler # "GetQuorumTickData"
      /\ call.handler = "GetStoreHash" => call.method \in StoreHashMethods
  <2>1. PICK m \in TickMethods : m = call.method
    OBVIOUS
  <2>2. /\ Handlers(m) \subseteq TickHandlers
        /\ "GetQuorumTickData" \in Handlers(m) => m \in QuorumMethods
        /\ "GetStoreHash" \in Handlers(m) => m \in StoreHashMethods
    BY TickMethodNames
  <2> QED BY <1>2, <2>1, <2>2, RequestsAssumption
<1>4. call.step \notin {"checkLast", "checkIntervals", "replied"} =>
        PastCheck /\ (Stored(call.arg) \/ TickZero)
  BY DEF TickCallInv, PastCheck
<1>5. Stored(call.arg) =>
        /\ HasTickData(call.arg) /\ HasTransaction(call.arg) /\ HasTickStatus(call.arg)
        /\ call.arg \in DOMAIN chainDigest
        /\ call.arg >= StoreDigestFrom => call.arg \in DOMAIN storeDigest
  BY DEF Stored, Complete, HasTickData, HasTransaction, HasTickStatus, HasRecord, RecordKinds
<1>6. \/ GetTickData \/ GetTickTransactions \/ GetTickApprovedTransactions
      \/ GetChainHash \/ GetStoreHash \/ GetTickTransactionsV2
  BY <1>3, HandlerGuards DEF V1Handler, V2Handler, TickHandlers
<1>7. CASE GetTickData \/ GetChainHash
  BY <1>1, <1>4, <1>5, <1>7 DEF GetTickData, GetChainHash, At, Require
<1>8. CASE GetTickTransactions
  BY <1>1, <1>4, <1>5, <1>8 DEF GetTickTransactions, ReadTransactionIds, Require
<1>9. CASE GetTickApprovedTransactions
  BY <1>1, <1>4, <1>5, <1>9 DEF GetTickApprovedTransactions, Require
<1>10. CASE GetStoreHash
  BY <1>1, <1>3, <1>4, <1>5, <1>10, StoreDigestAssumption DEF GetStoreHash, At, Require
<1>11. CASE GetTickTransactionsV2
  <2>1. CASE call.step = "infoStatus"
    <3>1. \E v : Value(v)
      BY <1>11, <2>1 DEF GetTickTransactionsV2, ReadTransactionIds, InfoTickData
    <3> QED BY <1>1, <3>1
  <2>2. CASE call.step # "infoStatus"
    BY <1>1, <1>4, <1>5, <1>11, <2>2 DEF GetTickTransactionsV2, ReadTransactionIds, InfoTickData, Require
  <2> QED BY <2>1, <2>2
<1> QED BY <1>6, <1>7, <1>8, <1>9, <1>10, <1>11

\* The handler of quorum data keeps to its own steps.
LEMMA QuorumHandlerStep ==
  ASSUME RpcInv, call.method \in QuorumMethods, V1Handler \/ V2Handler
  PROVE  /\ GetQuorumTickData
         /\ call.step \notin {"checkLast", "checkIntervals", "replied"}
         /\ call'.step \in {"intervals", "lastQuorum", "stored", "next", "own", "computors", "replied"}
<1> USE DEF RpcInv, CallInv
<1>1. /\ \A step : Then(step) => call'.step = step
      /\ \A name, v, step : Keep(name, v, step) => call'.step = step
      /\ \A code : Refuse(code) => call'.step = "replied"
      /\ \A v : Value(v) => call'.step = "replied"
  BY CallMoves DEF Moved, Refuse, Value
<1>2. call.handler = "GetQuorumTickData"
  BY DEF CallShape, NoCall, QuorumMethods, Handlers
<1>3. GetQuorumTickData
  BY <1>2, HandlerGuards DEF V1Handler, V2Handler
<1>4. call.step \notin {"checkLast", "checkIntervals", "replied"}
  BY <1>3 DEF GetQuorumTickData, QuorumLast, QuorumIntervals, QuorumOfLastTick, QuorumStored,
    QuorumReconstructed
<1>5. call'.step \in {"intervals", "lastQuorum", "stored", "next", "own", "computors", "replied"}
  BY <1>1, <1>3 DEF GetQuorumTickData, QuorumLast, QuorumIntervals, QuorumOfLastTick,
    QuorumStored, QuorumReconstructed, QuorumData, Require
<1> QED BY <1>3, <1>4, <1>5

\* A step of the server keeps what is known of a request for a tick.
LEMMA TickCallStep ==
  ASSUME RpcInv, RpcStep
  PROVE  TickCallInv'
<1> USE DEF RpcInv, CallInv
<1>0. /\ \A n : Stored(n) => Stored(n)'
      /\ UNCHANGED lastProcessedTick
  BY StoreUnchanged DEF Grows
<1>1. CASE Receive
  <2>1. call'.method \in TickMethods => call'.step = "checkLast"
    BY <1>1, NewCall, TickMethodNames
  <2> QED BY <2>1 DEF TickCallInv, CheckedThenAnswered, Replied
<1>2. CASE call' = NoCall
  BY <1>2, TickMethodNames DEF TickCallInv, NoCall
<1>3. CASE (CheckTickWithinArchiverIntervals \/ V1Handler \/ V2Handler) /\ call # NoCall /\ SameRequest
  <2> SUFFICES ASSUME call.method \in TickMethods
               PROVE  TickCallInv'
    BY <1>3 DEF TickCallInv, SameRequest
  <2>1. /\ call'.method = call.method /\ call'.arg = call.arg
        /\ TickZero => TickZero'
        /\ PastCheck => PastCheck'
    BY <1>0, <1>3 DEF SameRequest, TickZero, PastCheck
  <2>2. CASE CheckTickWithinArchiverIntervals
    BY <1>0, <1>3, <2>1, <2>2, BoundsCheckStep DEF TickCallInv, CheckedThenAnswered, Replied
  <2>3. CASE (V1Handler \/ V2Handler) /\ call.method \notin QuorumMethods
    BY <1>0, <2>1, <2>3, TickHandlerStep DEF TickCallInv, CheckedThenAnswered, Replied
  <2>4. CASE (V1Handler \/ V2Handler) /\ call.method \in QuorumMethods
    <3>1. /\ call.step \notin {"checkLast", "checkIntervals", "replied"}
          /\ call'.step \in {"intervals", "lastQuorum", "stored", "next", "own", "computors", "replied"}
      BY <2>4, QuorumHandlerStep
    <3>2. PastCheck
      BY <3>1 DEF TickCallInv
    <3> QED BY <1>0, <2>1, <2>4, <3>1, <3>2 DEF TickCallInv, CheckedThenAnswered, Replied
  <2> QED BY <1>3, <2>2, <2>3, <2>4
<1> QED BY <1>1, <1>2, <1>3, CallCases

-----------------------------------------------------------------------------
(* The other facts about calls. *)

\* A set of natural numbers has a least element, which CHOOSE then finds.
LEMMA LeastElement ==
  ASSUME NEW T \in SUBSET Nat, T # {}
  PROVE  \E x \in T : \A y \in T : x <= y
<1> DEFINE R == {ss \in Nat \X Nat : ss[1] < ss[2]}
<1>1. IsWellFoundedOn(R, Nat)
  BY NatLessThanWellFounded DEF OpToRel
<1>2. \A x, y \in T : ~(<<y, x>> \in R) => x <= y
  OBVIOUS
<1> HIDE DEF R
<1>3. \E x \in T : \A y \in T : ~(<<y, x>> \in R)
  BY <1>1, WFMin
<1> QED BY <1>2, <1>3

\* The steps of calls, as the lemmas below use them.
LEMMA StepFacts ==
  ASSUME CallShape
  PROVE  /\ \A step : Then(step) => call'.step = step /\ call'.seen = call.seen
         /\ \A name, v, step :
              Keep(name, v, step) => call'.step = step /\ call'.seen = Put(call.seen, name, v)
         /\ \A code, v : Answer(code, v) => call'.step = "replied" /\ call'.code = code /\ call'.seen = v
         /\ \A code : Refuse(code) => call'.step = "replied" /\ call'.code = code
         /\ \A v : Value(v) => /\ call'.step = "replied" /\ call'.code = "OK"
                               /\ call'.seen.value = v
<1>1. \A v : Put(NoLocals, "value", v).value = v
  BY DEF Put
<1> QED BY <1>1, CallMoves DEF Moved, Refuse, Value

\* A call that has just been received or that has ended is at none of the
\* steps the invariants are about, and the bounds check answers with codes of
\* its own.
LEMMA OutsideHandlers ==
  ASSUME CallShape, RpcStep
  PROVE  \/ call'.step \in {"none", "checkLast", "start", "checkIntervals"} /\ CallShape'
         \/ /\ call'.step = "replied" /\ CallShape'
            /\ call'.code \in {"FailedPrecondition", "OutOfRange", "NothingProcessed"}
         \/ V1Handler /\ call # NoCall /\ SameRequest
         \/ V2Handler /\ call # NoCall /\ SameRequest
<1>1. CASE Receive
  <2>1. call'.step \in {"checkLast", "start"} /\ CallShape'
    BY <1>1, NewCall
  <2> QED BY <2>1
<1>2. CASE call' = NoCall
  BY <1>2 DEF NoCall, CallShape
<1>3. CASE CheckTickWithinArchiverIntervals /\ call # NoCall /\ SameRequest
  <2>1. \/ call'.step \in {"start", "checkIntervals"}
        \/ /\ call'.step = "replied"
           /\ call'.code \in {"FailedPrecondition", "OutOfRange", "NothingProcessed"}
    BY <1>3, StepFacts DEF CheckTickWithinArchiverIntervals
  <2> QED BY <1>3, <2>1 DEF SameRequest
<1> QED BY <1>1, <1>2, <1>3, CallCases

\* The approved transactions of a tick.
LEMMA ApprovedCallStep ==
  ASSUME RpcInv, RpcStep
  PROVE  ApprovedCallInv'
<1> USE DEF RpcInv, CallInv
<1>0. /\ \A n : Stored(n) => Stored(n)'
      /\ UNCHANGED lastProcessedTick
  BY StoreUnchanged DEF Grows
<1>1. CASE (V1Handler \/ V2Handler) /\ call # NoCall /\ SameRequest
  <2>0. call'.method = call.method /\ call'.arg = call.arg /\ call.handler \in Handlers(call.method)
    BY <1>1 DEF SameRequest, CallShape
  <2>4. (/\ call.method \in {"GetTickApprovedTransactions", "GetTickTransactionsV2"}
         /\ call.step \notin {"checkLast", "checkIntervals", "replied"} /\ call.arg \in Ticks) =>
           Stored(call.arg) /\ TickProcessed(call.arg)'
    <3>1. 0 \notin Ticks
      BY SegmentOfTick
    <3> QED BY <1>0, <2>0, <3>1, TickMethodNames
      DEF TickCallInv, PastCheck, TickZero, Stored, TickProcessed
  <2>1. CASE call.method = "GetTickApprovedTransactions"
    <3>1. call.handler = "GetTickApprovedTransactions"
      BY <2>0, <2>1 DEF Handlers
    <3>2. GetTickApprovedTransactions
      BY <1>1, <3>1, HandlerGuards DEF V1Handler, V2Handler
    <3>3. CASE call.step = "start"
      <4>1. (call'.step = "replied" /\ call'.code = "OK") =>
              /\ HasTickStatus(call.arg)
              /\ ~(HasTransactions(call.arg) /\ call.arg \in MoneyFlewTicks)
              /\ call'.seen.value = {}
        BY <3>2, <3>3, StepFacts DEF GetTickApprovedTransactions, Require
      <4>2. call'.step = "transactions" => HasTransactions(call.arg) /\ call.arg \in MoneyFlewTicks
        BY <3>2, <3>3, StepFacts DEF GetTickApprovedTransactions, Require
      <4>3. HasTickStatus(call.arg) => call.arg \in Ticks
        BY DEF HasTickStatus, HasRecord
      <4> QED BY <2>0, <2>1, <2>4, <3>3, <4>1, <4>2, <4>3 DEF ApprovedCallInv, ApprovedExact, Replied
    <3>4. CASE call.step = "transactions"
      <4>1. HasTransactions(call.arg) /\ call.arg \in MoneyFlewTicks
        BY <2>1, <3>4 DEF ApprovedCallInv
      <4>2. /\ call'.step = "replied"
            /\ call'.code = "OK" => call'.seen.value = {call.arg}
        BY <3>2, <3>4, StepFacts DEF GetTickApprovedTransactions, Require
      <4>3. call.arg \in Ticks
        BY <4>1, RequestsAssumption
      <4> QED BY <2>0, <2>1, <2>4, <3>4, <4>1, <4>2, <4>3 DEF ApprovedCallInv, ApprovedExact, Replied
    <3> QED BY <3>2, <3>3, <3>4 DEF GetTickApprovedTransactions
  <2>2. CASE call.method = "GetTickTransactionsV2"
    <3> DEFINE flew == call.arg \in MoneyFlewTicks
               listed == {data \in {TransactionData(call.arg, flew)} :
                            /\ HasTransactions(call.arg)
                            /\ call.handler = "GetApprovedTickTransactionsV2" => data.moneyFlew}
    <3>1. call.handler \in {"GetAllTickTransactionsV2", "GetTransferTickTransactionsV2",
                            "GetApprovedTickTransactionsV2"}
      BY <2>0, <2>2 DEF Handlers
    <3>2. GetTickTransactionsV2
      BY <1>1, <3>1, HandlerGuards DEF V1Handler, V2Handler
    <3>3. ASSUME call.step = "start"
          PROVE  \/ call'.step = "transactions" /\ call.arg \in Ticks /\ HasTransactions(call.arg)
                 \/ call'.step = "replied" /\ call'.code # "OK"
                 \/ /\ call'.step = "replied" /\ call.arg \in Ticks
                    /\ ~HasTransactions(call.arg) /\ call'.seen.value = {}
      BY <3>2, <3>3, StepFacts DEF GetTickTransactionsV2, ReadTransactionIds, InfoTickData, Require,
        HasTickData, HasRecord
    <3>4. ASSUME call.step \in {"transactions", "infoTickData"}
          PROVE  \/ call'.step \in {"infoTickData", "infoStatus"}
                 \/ call'.step = "replied" /\ call'.code # "OK"
      BY <3>2, <3>4, StepFacts DEF GetTickTransactionsV2, ReadTransactionIds, InfoTickData, Require
    <3>5. call.step \in {"transactions", "infoTickData", "infoStatus"} =>
            call.arg \in Ticks /\ HasTransactions(call.arg)
      BY <2>2 DEF ApprovedCallInv
    <3>6. ASSUME call.step = "infoStatus"
          PROVE  call'.step = "replied" /\ call'.seen.value = listed
      <4>1. Stored(call.arg)
        BY <2>2, <2>4, <3>5, <3>6
      <4>2. FlewAccordingToStore(call.arg) = flew
        BY <4>1 DEF Stored, Complete, HasTxStatus, HasRecord, RecordKinds, FlewAccordingToStore
      <4>3. call'.step = "replied" /\
            call'.seen.value = IF call.handler = "GetApprovedTickTransactionsV2" /\ ~flew THEN {}
                               ELSE {TransactionData(call.arg, flew)}
        BY <3>2, <3>6, <4>2, StepFacts
        DEF GetTickTransactionsV2, ReadTransactionIds, InfoTickData
      <4>4. TransactionData(call.arg, flew).moneyFlew = flew
        BY DEF TransactionData
      <4> QED BY <3>5, <3>6, <4>3, <4>4
    <3>7. call.step \in {"start", "transactions", "infoTickData", "infoStatus"}
      BY <3>2 DEF GetTickTransactionsV2, ReadTransactionIds, InfoTickData
    <3>8. ASSUME call'.step = "replied", call'.code = "OK"
          PROVE  call.arg \in Ticks /\ call'.seen.value = listed
      BY <3>3, <3>4, <3>5, <3>6, <3>7, <3>8
    <3>9. call'.handler = call.handler
      BY <1>1 DEF SameRequest
    <3>10. call'.step \in {"transactions", "infoTickData", "infoStatus"} =>
             call.arg \in Ticks /\ HasTransactions(call.arg)
      BY <3>3, <3>4, <3>5, <3>6, <3>7
    <3>11. ApprovedExact'
      BY <2>0, <2>2, <2>4, <3>7, <3>8, <3>9 DEF ApprovedExact, Replied
    <3> QED BY <2>0, <2>2, <3>10, <3>11 DEF ApprovedCallInv
  <2>3. CASE call.method \notin {"GetTickApprovedTransactions", "GetTickTransactionsV2"}
    BY <2>0, <2>3 DEF ApprovedCallInv, ApprovedExact, Replied
  <2> QED BY <2>1, <2>2, <2>3
<1>2. CASE \/ call'.step \in {"none", "checkLast", "start", "checkIntervals"}
           \/ call'.step = "replied" /\ call'.code # "OK"
  BY <1>2 DEF ApprovedCallInv, ApprovedExact, Replied
<1> QED BY <1>1, <1>2, OutsideHandlers

\* A tick inside an interval, and not its last, has a next one: the votes of
\* that tick are there when the digests are rebuilt.
LEMMA QuorumCallStep ==
  ASSUME RpcInv, RpcStep
  PROVE  QuorumCallInv'
<1> USE DEF RpcInv, CallInv
<1>0. UNCHANGED records
  BY StoreUnchanged
<1>1. CASE (V1Handler \/ V2Handler) /\ call # NoCall /\ SameRequest
  <2> SUFFICES ASSUME call.method \in QuorumMethods
               PROVE  /\ call'.step = "next" => HasQuorumTickData(call.arg + 1)
                      /\ call'.step \in {"next", "own", "computors"} => HasQuorumTickData(call.arg)
                      /\ call'.step = "replied" =>
                           call'.code \notin {"NoNextTick", "NoOwnVotes", "NoComputors"}
    BY <1>0, <1>1 DEF QuorumCallInv, ReconstructionPossible, Replied, SameRequest,
      HasQuorumTickData, HasRecord
  <2>1. GetQuorumTickData
    BY <1>1, QuorumHandlerStep
  <2>2. /\ call.step = "next" => HasQuorumTickData(call.arg + 1)
        /\ call.step \in {"next", "own", "computors"} => HasQuorumTickData(call.arg)
    BY DEF QuorumCallInv
  <2>3. CASE QuorumIntervals
    <3> DEFINE t == call.arg
               e == GetTickEpoch(t)
    <3>1. CASE call'.step = "next"
      <4>1. TickEpochs(t) # {} /\ LastInIntervals(t, e) = {}
        BY <2>3, <3>1, StepFacts DEF QuorumIntervals
      <4>2. TickEpochs(t) \subseteq Nat /\ TickEpochs(t) \subseteq Epochs
        BY SegmentsAssumption DEF TickEpochs, Epochs
      <4>3. e \in TickEpochs(t)
        <5>1. \E x \in TickEpochs(t) : \A y \in TickEpochs(t) : x <= y
          BY <4>1, <4>2, LeastElement
        <5> QED BY <5>1 DEF GetTickEpoch
      <4>4. e \in Epochs
        BY <4>2, <4>3
      <4> HIDE DEF e
      <4>5. PICK k \in DOMAIN Intervals(e) : InInterval(t, Intervals(e)[k])
        BY <4>3 DEF TickEpochs, Intervals
      <4>6. Intervals(e)[k] \in ProcessedTickInterval
        <5>1. Intervals(e) \in Seq(ProcessedTickInterval)
          BY <4>4 DEF ReaderInv, SafetyInv, TypeInv, TypeOK, StoreTypeOK, Intervals
        <5> QED BY <5>1
      <4>7. Intervals(e)[k].last # t
        BY <4>1 DEF LastInIntervals, Intervals
      <4>8. t \in Nat
        BY <1>1, TickMethodNames, RequestsAssumption DEF CallShape, QuorumMethods
      <4>9. t + 1 \in Intervals(e)[k].initial .. Intervals(e)[k].last
        BY <4>5, <4>6, <4>7, <4>8 DEF InInterval, ProcessedTickInterval
      <4>10. Archived(t + 1, e) /\ Archived(t, e)
        <5>1. t \in Intervals(e)[k].initial .. Intervals(e)[k].last
          BY <4>5, <4>6, <4>8 DEF InInterval, ProcessedTickInterval
        <5> QED BY <4>4, <4>9, <5>1 DEF ReaderInv, SafetyInv, StatusInv, IntervalInv
      <4> QED BY <3>1, <4>10 DEF Archived, Complete, RecordKinds, HasQuorumTickData, HasRecord
    <3>2. CASE call'.step # "next"
      BY <2>3, <3>2, StepFacts DEF QuorumIntervals
    <3> QED BY <3>1, <3>2
  <2>4. CASE QuorumLast \/ QuorumOfLastTick \/ QuorumStored
    BY <2>4, StepFacts DEF QuorumLast, QuorumOfLastTick, QuorumStored, QuorumData, Require
  <2>5. CASE QuorumReconstructed
    <3>1. HasQuorumTickData(call.arg) => EpochOf(call.arg) \in DOMAIN computors
      BY DEF ReaderInv, ComputorsInv, HasQuorumTickData, HasRecord
    <3> QED BY <2>2, <2>5, <3>1, StepFacts DEF QuorumReconstructed, QuorumData, Require
  <2> QED BY <2>1, <2>3, <2>4, <2>5 DEF GetQuorumTickData
<1>2. CASE \/ call'.step \in {"none", "checkLast", "start", "checkIntervals"}
           \/ /\ call'.step = "replied"
              /\ call'.code \notin {"NoNextTick", "NoOwnVotes", "NoComputors"}
  BY <1>2 DEF QuorumCallInv, ReconstructionPossible, Replied
<1> QED BY <1>1, <1>2, OutsideHandlers

\* The locals of GetIdentityTransfersInTickRangeV2.
LEMMA TransfersWithInfoStep ==
  ASSUME CallShape, NEW found, NEW pending, TransfersWithInfo(found, pending)
  PROVE  \/ call'.step = "replied" /\ call'.code = "OK"
         \/ call'.step = "infoTickData" /\ pending # {} /\ call'.seen.pending = pending
<1>1. CASE pending = {}
  BY <1>1, StepFacts DEF TransfersWithInfo
<1>2. CASE pending # {}
  <2>1. PICK m, h, a, s, seen, code :
          call = [method |-> m, handler |-> h, arg |-> a, step |-> s, seen |-> seen, code |-> code]
    BY DEF CallShape
  <2> DEFINE sn == Put(Put(NoLocals, "found", found), "pending", pending)
  <2>2. call' = [call EXCEPT !.step = "infoTickData", !.seen = sn]
    BY <1>2 DEF TransfersWithInfo
  <2>3. sn.pending = pending
    BY DEF Put
  <2> HIDE DEF sn
  <2> QED BY <1>2, <2>1, <2>2, <2>3
<1> QED BY <1>1, <1>2

\* What is looked up for a transaction or a transfer that was found is there.
LEMMA InfoCallStep ==
  ASSUME RpcInv, RpcStep
  PROVE  InfoCallInv'
<1> USE DEF RpcInv, CallInv
<1>0. UNCHANGED records
  BY StoreUnchanged
<1>1. CASE (V1Handler \/ V2Handler) /\ call # NoCall /\ SameRequest
  <2>0. call'.method = call.method /\ call'.arg = call.arg /\ call.handler \in Handlers(call.method)
    BY <1>1 DEF SameRequest, CallShape
  <2>1. CASE call.method \in {"GetTransactionV2", "GetSendManyTransactionV2"}
    <3>1. call.handler = call.method
      BY <2>0, <2>1 DEF Handlers
    <3>2. GetTransactionV2 \/ GetSendManyTransactionV2
      BY <1>1, <2>1, <3>1, HandlerGuards DEF V1Handler, V2Handler
    <3>3. HasTransaction(call.arg) => HasTickData(call.arg)
      BY DEF ReaderInv, WriteOrderInv, HasTransaction, HasTickData, HasRecord
    <3>4. call.step = "infoTickData" => HasTickData(call.arg)
      BY <2>1 DEF InfoCallInv
    <3>5. /\ call'.step = "infoTickData" => HasTickData(call.arg)
          /\ call'.step = "replied" => call'.code # "Internal"
      BY <3>2, <3>3, <3>4, StepFacts DEF GetTransactionV2, GetSendManyTransactionV2,
        TransactionWithInfo, InfoTickData, Require
    <3> QED BY <1>0, <2>0, <2>1, <3>5 DEF InfoCallInv, InfoNeverMissing, Replied, HasTickData, HasRecord
  <2>2. CASE call.method = "GetIdentityTransfersInTickRangeV2"
    <3>1. call.handler = call.method
      BY <2>0, <2>2 DEF Handlers
    <3>2. GetIdentityTransfersInTickRangeV2
      BY <1>1, <2>2, <3>1, HandlerGuards DEF V1Handler, V2Handler
    <3> DEFINE Left(S) == S # {} /\ \A t \in S : HasTickData(t)
    <3>3. call.step \in {"infoTickData", "infoStatus"} => Left(call.seen.pending)
      BY <2>2 DEF InfoCallInv
    <3>4. \/ call'.step = "replied" /\ call'.code # "Internal"
          \/ call'.step \in {"infoTickData", "infoStatus"} /\ Left(call'.seen.pending)
      <4>1. CASE call.step = "start"
        <5>1. TransfersWithInfo({}, TransferTicks(call.arg))
          BY <3>2, <4>1 DEF GetIdentityTransfersInTickRangeV2, InfoTickData
        <5>2. \A t \in TransferTicks(call.arg) : HasTickData(t)
          BY DEF TransferTicks, ReaderInv, WriteOrderInv, HasTickData, HasRecord
        <5> QED BY <5>1, <5>2, TransfersWithInfoStep
      <4>2. CASE call.step = "infoTickData"
        <5>1. InfoTickData(NextTransfer)
          BY <3>2, <4>2 DEF GetIdentityTransfersInTickRangeV2
        <5>2. call.seen.pending \subseteq Nat /\ call.seen.pending # {}
          BY <3>3, <4>2, SegmentOfTick DEF HasTickData, HasRecord
        <5>3. NextTransfer \in call.seen.pending
          BY <5>2, LeastElement DEF NextTransfer
        <5>4. HasTickData(NextTransfer)
          BY <3>3, <4>2, <5>3
        <5>5. call'.step = "infoStatus" /\ call'.seen = call.seen
          BY <5>1, <5>4, StepFacts DEF InfoTickData, Require
        <5> QED BY <3>3, <4>2, <5>5
      <4>3. CASE call.step = "infoStatus"
        <5>1. PICK found : TransfersWithInfo(found, call.seen.pending \ {NextTransfer})
          BY <3>2, <4>3 DEF GetIdentityTransfersInTickRangeV2, InfoTickData
        <5>2. \A t \in call.seen.pending \ {NextTransfer} : HasTickData(t)
          BY <3>3, <4>3
        <5> QED BY <5>1, <5>2, TransfersWithInfoStep
      <4> QED BY <3>2, <4>1, <4>2, <4>3 DEF GetIdentityTransfersInTickRangeV2, InfoTickData
    <3> QED BY <1>0, <2>0, <2>2, <3>4 DEF InfoCallInv, InfoNeverMissing, Replied, HasTickData, HasRecord
  <2>3. CASE call.method \notin {"GetTransactionV2", "GetSendManyTransactionV2",
                                 "GetIdentityTransfersInTickRangeV2"}
    BY <2>0, <2>3 DEF InfoCallInv, InfoNeverMissing, Replied
  <2> QED BY <2>1, <2>2, <2>3
<1>2. CASE \/ call'.step \in {"none", "checkLast", "start", "checkIntervals"}
           \/ call'.step = "replied" /\ call'.code # "Internal"
  BY <1>2 DEF InfoCallInv, InfoNeverMissing, Replied
<1> QED BY <1>1, <1>2, OutsideHandlers

\* The status of a transaction is read from a tick that is processed, so that
\* a missing status is one the network never gave, or one of a skipped tick.
LEMMA TxStatusCallStep ==
  ASSUME RpcInv, RpcStep
  PROVE  TxStatusCallInv'
<1> USE DEF RpcInv, CallInv
<1>0. UNCHANGED <<lastProcessedTick, skippedTicks>>
  BY StoreUnchanged
<1>1. CASE (V1Handler \/ V2Handler) /\ call # NoCall /\ SameRequest
  <2> SUFFICES ASSUME call.method = "GetTransactionStatus"
               PROVE  /\ call'.step \in {"last", "txStatus"} => call.arg \in Ticks
                      /\ call'.step = "txStatus" => call.arg <= lastProcessedTick.tickNumber
                      /\ (call'.step = "replied" /\ call'.code = "OK") =>
                           \/ call'.seen.value = (call.arg \in MoneyFlewTicks)
                           \/ InSkippedTicks(call.arg)
    BY <1>0, <1>1 DEF TxStatusCallInv, StatusAnswerFinal, Replied, SameRequest, InSkippedTicks
  <2>1. call.handler = "GetTransactionStatus"
    BY <1>1 DEF CallShape, Handlers
  <2>2. GetTransactionStatus
    BY <1>1, <2>1, HandlerGuards DEF V1Handler, V2Handler
  <2>3. call.step \in {"last", "txStatus"} => call.arg \in Ticks
    BY DEF TxStatusCallInv
  <2>4. CASE call.step = "start"
    BY <2>2, <2>4, StepFacts DEF GetTransactionStatus, StatusOfProcessedTx, Require,
      HasTransaction, HasRecord
  <2>5. CASE call.step = "last"
    <3>1. call.arg \in Nat /\ lastProcessedTick.tickNumber \in Nat
      BY <2>3, <2>5, SegmentOfTick DEF ReaderInv, SafetyInv, TypeInv, TypeOK, StoreTypeOK, ProcessedTick
    <3> QED BY <2>2, <2>3, <2>5, <3>1, StepFacts DEF GetTransactionStatus, StatusOfProcessedTx
  <2>6. CASE call.step = "txStatus"
    <3>1. call.arg \in Ticks /\ call.arg <= lastProcessedTick.tickNumber
      BY <2>6 DEF TxStatusCallInv
    <3>2. call.arg \in 1 .. lastProcessedTick.tickNumber
      BY <3>1, SegmentOfTick DEF ReaderInv, SafetyInv, TypeInv, TypeOK, StoreTypeOK, ProcessedTick
    <3>3. Stored(call.arg) \/ InSkippedTicks(call.arg)
      BY <3>2 DEF ReaderInv, SafetyInv, StatusInv, PassedOverInv
    <3>4. Stored(call.arg) => (FlewAccordingToStore(call.arg) = (call.arg \in MoneyFlewTicks))
      BY DEF Stored, Complete, FlewAccordingToStore, HasTxStatus, HasRecord, RecordKinds
    <3>5. \/ call'.step = "replied" /\ call'.code = "NotFound"
          \/ call'.step = "replied" /\ call'.seen.value = FlewAccordingToStore(call.arg)
      BY <2>2, <2>6, StepFacts DEF GetTransactionStatus, StatusOfProcessedTx
    <3> QED BY <3>3, <3>4, <3>5
  <2> QED BY <2>2, <2>4, <2>5, <2>6 DEF GetTransactionStatus, StatusOfProcessedTx
<1>2. CASE \/ call'.step \in {"none", "checkLast", "start", "checkIntervals"}
           \/ call'.step = "replied" /\ call'.code # "OK"
  BY <1>2 DEF TxStatusCallInv, StatusAnswerFinal, Replied
<1> QED BY <1>1, <1>2, OutsideHandlers

\* The parts of a /status reply: the last processed tick first, the skipped
\* ticks when the ticks below it are archived or skipped.
LEMMA StatusCallStep ==
  ASSUME RpcInv, RpcStep
  PROVE  StatusCallInv'
<1> USE DEF RpcInv, CallInv
<1>0. UNCHANGED <<lastProcessedTick, lastProcessedTickPerEpoch>> /\ \A n : Stored(n)' = Stored(n)
  <2>1. UNCHANGED <<lastProcessedTick, lastProcessedTickPerEpoch, records, transfers,
                    chainDigest, storeDigest>>
    BY DEF RpcStep, vars, storeVars, statusVars, tickVars
  <2> QED BY <2>1 DEF Stored, Complete
<1>1. CASE (V1Handler \/ V2Handler) /\ call # NoCall /\ SameRequest
  <2>0. call'.method = call.method
    BY <1>1 DEF SameRequest
  <2>1. CASE call.method # "GetStatus"
    BY <2>0, <2>1 DEF StatusCallInv, StatusReplyCovers, Replied
  <2>2. CASE call.method = "GetStatus"
    <3> DEFINE Last(s) == /\ "last" \in DOMAIN s
                          /\ s.last \in ProcessedTick
                          /\ s.last.tickNumber <= lastProcessedTick.tickNumber
                          /\ s.last.epoch \in DOMAIN lastProcessedTickPerEpoch
                          /\ s.last.tickNumber <= lastProcessedTickPerEpoch[s.last.epoch]
               PerEpoch(s) == /\ "perEpoch" \in DOMAIN s
                              /\ s.perEpoch[s.last.epoch] >= s.last.tickNumber
               Skipped(s) == "skipped" \in DOMAIN s /\ ReplyCovers(s)
               AllStored(s) == \A n \in 1 .. s.last.tickNumber - 1 : Stored(n)
    <3>1. GetStatus
      <4>1. call.handler = "GetStatus"
        BY <1>1, <2>2 DEF CallShape, Handlers
      <4> QED BY <1>1, <4>1, HandlerGuards DEF V1Handler, V2Handler
    <3>2. /\ call.step \in {"perEpoch", "skipped", "intervals", "empty"} => Last(call.seen)
          /\ call.step \in {"skipped", "intervals", "empty"} => PerEpoch(call.seen)
          /\ call.step \in {"intervals", "empty"} => Skipped(call.seen)
      BY <2>2 DEF StatusCallInv
    <3>3. SUFFICES \/ call'.step = "perEpoch" /\ Last(call'.seen)
                   \/ call'.step = "skipped" /\ Last(call'.seen) /\ PerEpoch(call'.seen)
                   \/ /\ call'.step \in {"intervals", "empty"}
                      /\ Last(call'.seen) /\ PerEpoch(call'.seen) /\ Skipped(call'.seen)
                   \/ call'.step = "replied" /\ call'.code # "OK"
                   \/ /\ call'.step = "replied" /\ PerEpoch(call'.seen)
                      /\ AllStored(call'.seen) \/ ReplyCovers(call'.seen)
      <4>1. /\ call'.step \in {"perEpoch", "skipped", "intervals", "empty"} => Last(call'.seen)
            /\ call'.step \in {"skipped", "intervals", "empty"} => PerEpoch(call'.seen)
            /\ call'.step \in {"intervals", "empty"} => Skipped(call'.seen)
        BY <3>3
      <4>2. \A s : ReplyCovers(s)' <=> ReplyCovers(s)
        BY <1>0 DEF ReplyCovers
      <4>3. (call'.step = "replied" /\ call'.code = "OK") =>
              PerEpoch(call'.seen) /\ (AllStored(call'.seen) \/ ReplyCovers(call'.seen))
        BY <3>3
      <4>4. StatusReplyCovers'
        BY <1>0, <4>3 DEF StatusReplyCovers, Replied, ReplyCovers, Stored
      <4> QED BY <1>0, <4>1, <4>4 DEF StatusCallInv, ReplyCovers
    <3>4. \A n \in 1 .. lastProcessedTick.tickNumber : Stored(n) \/ InSkippedTicks(n)
      BY DEF ReaderInv, SafetyInv, StatusInv, PassedOverInv
    <3>5. lastProcessedTick \in ProcessedTick
      BY DEF ReaderInv, SafetyInv, TypeInv, TypeOK, StoreTypeOK
    <3>6. CASE StatusLast
      <4>1. CASE NothingProcessed
        BY <3>6, <4>1, StepFacts DEF StatusLast
      <4>2. CASE ~NothingProcessed
        <5>1. call'.step = "perEpoch" /\ call'.seen = Put(call.seen, "last", lastProcessedTick)
          BY <3>6, <4>2, StepFacts DEF StatusLast
        <5>2. "last" \in DOMAIN call'.seen /\ call'.seen.last = lastProcessedTick
          BY <5>1 DEF Put
        <5>3. /\ lastProcessedTick.epoch \in DOMAIN lastProcessedTickPerEpoch
              /\ lastProcessedTickPerEpoch[lastProcessedTick.epoch] = lastProcessedTick.tickNumber
          BY <4>2 DEF NothingProcessed, ReaderInv, PerEpochInv
        <5> QED BY <3>5, <5>1, <5>2, <5>3 DEF ProcessedTick
      <4> QED BY <4>1, <4>2
    <3>7. CASE StatusPerEpoch
      <4>1. /\ call'.step = "skipped"
            /\ call'.seen = Put(call.seen, "perEpoch", lastProcessedTickPerEpoch)
        BY <3>7, StepFacts DEF StatusPerEpoch
      <4>2. Last(call.seen)
        BY <3>2, <3>7 DEF StatusPerEpoch
      <4>3. /\ DOMAIN call'.seen = DOMAIN call.seen \cup {"perEpoch"}
            /\ call'.seen.perEpoch = lastProcessedTickPerEpoch /\ call'.seen.last = call.seen.last
        BY <4>1, <4>2 DEF Put
      <4> QED BY <4>1, <4>2, <4>3
    <3>8. CASE StatusSkipped
      <4>0. Last(call.seen) /\ PerEpoch(call.seen)
        BY <3>2, <3>8 DEF StatusSkipped
      <4>1. \A n \in 1 .. call.seen.last.tickNumber - 1 : n \in 1 .. lastProcessedTick.tickNumber
        BY <3>5, <4>0 DEF ProcessedTick
      <4>2. CASE skippedTicks = <<>>
        <5>1. AllStored(call.seen)
          BY <3>4, <4>1, <4>2 DEF InSkippedTicks
        <5>2. call'.step = "replied" /\ call'.seen = call.seen
          BY <3>8, <4>2, StepFacts DEF StatusSkipped
        <5> QED BY <4>0, <5>1, <5>2
      <4>3. CASE skippedTicks # <<>>
        <5>1. call'.step = "intervals" /\ call'.seen = Put(call.seen, "skipped", skippedTicks)
          BY <3>8, <4>3, StepFacts DEF StatusSkipped
        <5>2. /\ DOMAIN call'.seen = DOMAIN call.seen \cup {"skipped"}
              /\ call'.seen.perEpoch = call.seen.perEpoch /\ call'.seen.last = call.seen.last
              /\ call'.seen.skipped = skippedTicks
          BY <4>0, <5>1 DEF Put
        <5>3. ReplyCovers(call'.seen)
          BY <3>4, <4>1, <5>2 DEF ReplyCovers, InSkippedTicks
        <5> QED BY <4>0, <5>1, <5>2, <5>3
      <4> QED BY <4>2, <4>3
    <3>9. CASE StatusIntervals
      <4>0. Last(call.seen) /\ PerEpoch(call.seen) /\ Skipped(call.seen)
        BY <3>2, <3>9 DEF StatusIntervals
      <4>1. /\ call'.step = "empty"
            /\ call'.seen = Put(call.seen, "intervals", processedTickIntervals)
        BY <3>9, StepFacts DEF StatusIntervals
      <4>2. /\ DOMAIN call'.seen = DOMAIN call.seen \cup {"intervals"}
            /\ call'.seen.perEpoch = call.seen.perEpoch /\ call'.seen.last = call.seen.last
            /\ call'.seen.skipped = call.seen.skipped
        BY <4>0, <4>1 DEF Put
      <4> QED BY <4>0, <4>1, <4>2 DEF ReplyCovers
    <3>10. CASE StatusEmptyTicks
      <4>0. Last(call.seen) /\ PerEpoch(call.seen) /\ Skipped(call.seen)
        BY <3>2, <3>10 DEF StatusEmptyTicks
      <4>1. CASE call.seen.last.epoch \in DOMAIN emptyTicks
        <5>1. /\ call'.step = "replied"
              /\ call'.seen = Put(call.seen, "emptyTicks", emptyTicks[call.seen.last.epoch])
          BY <3>10, <4>1, StepFacts DEF StatusEmptyTicks
        <5>2. /\ DOMAIN call'.seen = DOMAIN call.seen \cup {"emptyTicks"}
              /\ call'.seen.perEpoch = call.seen.perEpoch /\ call'.seen.last = call.seen.last
              /\ call'.seen.skipped = call.seen.skipped
          BY <4>0, <5>1 DEF Put
        <5> QED BY <4>0, <5>1, <5>2 DEF ReplyCovers
      <4>2. CASE call.seen.last.epoch \notin DOMAIN emptyTicks
        BY <3>10, <4>2, StepFacts DEF StatusEmptyTicks
      <4> QED BY <4>1, <4>2
    <3> QED BY <3>1, <3>6, <3>7, <3>8, <3>9, <3>10 DEF GetStatus
  <2> QED BY <2>1, <2>2
<1>2. CASE \/ call'.step \in {"none", "checkLast", "start", "checkIntervals"}
           \/ call'.step = "replied" /\ call'.code # "OK"
  BY <1>2 DEF StatusCallInv, StatusReplyCovers, Replied
<1> QED BY <1>1, <1>2, OutsideHandlers

-----------------------------------------------------------------------------
(* The invariant of the archiver with its server. *)

\* A step of the server keeps the invariant.
LEMMA ServerStep ==
  ASSUME RpcInv, RpcStep
  PROVE  RpcInv'
<1>1. CallShape'
  BY OutsideHandlers DEF RpcInv, CallInv, SameRequest
<1>2. ReaderInv'
  BY StoreUnchanged DEF RpcInv
<1> QED BY <1>1, <1>2, TickCallStep, ApprovedCallStep, QuorumCallStep, InfoCallStep,
  TxStatusCallStep, StatusCallStep DEF RpcInv, CallInv

\* A call that stays as it is knows as much as before when the store has
\* grown.
LEMMA CallKept ==
  ASSUME CallInv, Grows, UNCHANGED call
  PROVE  CallInv'
<1> USE DEF CallInv
<1>1. CallShape'
  BY DEF CallShape
<1>2. TickCallInv'
  <2>1. SUFFICES ASSUME call.method \in TickMethods
                 PROVE  TickCallInv'
    BY DEF TickCallInv
  <2>2. call.arg \in Nat
    BY <2>1, TickMethodNames, RequestsAssumption DEF CallShape, NoCall
  <2>3. call.step = "checkIntervals" =>
          call.arg <= lastProcessedTick'.tickNumber /\ lastProcessedTick'.tickNumber # 0
    BY <2>1, <2>2 DEF TickCallInv, Grows
  <2>4. call.step \notin {"checkLast", "checkIntervals", "replied"} => PastCheck'
    BY <2>1, <2>2 DEF TickCallInv, PastCheck, TickZero, Grows
  <2> QED BY <2>1, <2>3, <2>4 DEF TickCallInv, TickZero, CheckedThenAnswered, Replied, Grows
<1>3. ApprovedCallInv'
  <2>1. \A t : TickProcessed(t) => TickProcessed(t)'
    <3> SUFFICES ASSUME NEW t, TickProcessed(t) PROVE TickProcessed(t)'
      OBVIOUS
    <3>1. t \in Nat /\ Stored(t)'
      BY SegmentOfTick DEF TickProcessed, Stored, Grows
    <3> QED BY <3>1 DEF TickProcessed, Stored, Grows
  <2> QED BY <2>1 DEF ApprovedCallInv, ApprovedExact, Replied
<1>4. QuorumCallInv'
  BY DEF QuorumCallInv, ReconstructionPossible, Replied, HasQuorumTickData, Grows
<1>5. InfoCallInv'
  BY DEF InfoCallInv, InfoNeverMissing, Replied, HasTickData, Grows
<1>6. TxStatusCallInv'
  <2>1. SUFFICES ASSUME call.method = "GetTransactionStatus"
                 PROVE  TxStatusCallInv'
    BY DEF TxStatusCallInv
  <2>2. call.step = "txStatus" => call.arg \in Nat
    BY <2>1, SegmentOfTick DEF TxStatusCallInv
  <2>3. call.step = "txStatus" => call.arg <= lastProcessedTick'.tickNumber
    BY <2>1, <2>2 DEF TxStatusCallInv, Grows
  <2>4. StatusAnswerFinal'
    BY <2>1 DEF TxStatusCallInv, StatusAnswerFinal, Replied, Grows
  <2> QED BY <2>1, <2>3, <2>4 DEF TxStatusCallInv
<1>7. StatusCallInv'
  <2>1. SUFFICES ASSUME call.method = "GetStatus"
                 PROVE  StatusCallInv'
    BY DEF StatusCallInv
  <2>2. ASSUME call.step \in {"perEpoch", "skipped", "intervals", "empty"}
        PROVE  /\ call.seen.last.tickNumber <= lastProcessedTick'.tickNumber
               /\ call.seen.last.epoch \in DOMAIN lastProcessedTickPerEpoch'
               /\ call.seen.last.tickNumber <= lastProcessedTickPerEpoch'[call.seen.last.epoch]
    <3>1. /\ call.seen.last.tickNumber \in Nat
          /\ call.seen.last.tickNumber <= lastProcessedTick.tickNumber
          /\ call.seen.last.epoch \in DOMAIN lastProcessedTickPerEpoch
          /\ call.seen.last.tickNumber <= lastProcessedTickPerEpoch[call.seen.last.epoch]
      BY <2>1, <2>2 DEF StatusCallInv, ProcessedTick
    <3> QED BY <3>1 DEF Grows
  <2>3. StatusReplyCovers'
    BY <2>1 DEF StatusCallInv, StatusReplyCovers, Stored, Replied, Grows
  <2>4. ReplyCovers(call.seen) => ReplyCovers(call.seen)'
    BY DEF ReplyCovers, Grows
  <2> QED BY <2>1, <2>2, <2>3, <2>4 DEF StatusCallInv
<1> QED BY <1>1, <1>2, <1>3, <1>4, <1>5, <1>6, <1>7

\* The invariant holds at the start and is kept by the server and by the
\* processor, whose end takes the calls with it.
LEMMA RpcInvariant == RpcSpec => []RpcInv
<1>1. RpcInit => RpcInv
  <2> SUFFICES ASSUME RpcInit PROVE RpcInv
    OBVIOUS
  <2>1. call = NoCall
    BY DEF RpcInit
  <2>2. call.method = "none" /\ call.step = "none"
    BY <2>1 DEF NoCall
  <2>3. CallInv
    BY <2>1, <2>2, TickMethodNames DEF CallInv, CallShape, TickCallInv, CheckedThenAnswered,
      ApprovedCallInv, ApprovedExact, QuorumCallInv, ReconstructionPossible, InfoCallInv,
      InfoNeverMissing, TxStatusCallInv, StatusCallInv, Replied, NoCall, QuorumMethods
  <2> QED BY <2>3, ReaderInit DEF RpcInit, RpcInv
<1>2. RpcInv /\ [RpcNext]_rpcVars => RpcInv'
  <2> SUFFICES ASSUME RpcInv, [RpcNext]_rpcVars PROVE RpcInv'
    OBVIOUS
  <2>1. CASE RpcStep
    BY <2>1, ServerStep
  <2>2. CASE UNCHANGED call /\ [Next]_vars
    BY <2>2, ReaderStep, CallKept DEF RpcInv
  <2>3. CASE call' = NoCall /\ [Next]_vars
    <3>1. ReaderInv'
      BY <2>3, ReaderStep DEF RpcInv
    <3>2. call'.method = "none" /\ call'.step = "none"
      BY <2>3 DEF NoCall
    <3>3. CallInv'
      BY <2>3, <3>2, TickMethodNames DEF CallInv, CallShape, TickCallInv, CheckedThenAnswered,
        ApprovedCallInv, ApprovedExact, QuorumCallInv, ReconstructionPossible, InfoCallInv,
        InfoNeverMissing, TxStatusCallInv, StatusCallInv, Replied, NoCall, QuorumMethods
    <3> QED BY <3>1, <3>3 DEF RpcInv
  <2> QED BY <2>1, <2>2, <2>3 DEF RpcNext, ProcessStep, rpcVars
<1> QED BY <1>1, <1>2, PTL DEF RpcSpec

-----------------------------------------------------------------------------
(* What clients may rely on. *)

\* A request that names a tick number and passes
\* checkTickWithinArchiverIntervals finds the records its handler reads.  The
\* hypothesis leaves out one request only, for the number 0 in a network that
\* begins at tick 1: before the first interval is written the check lets it
\* through.
THEOREM TickRequestsAnswered ==
  ASSUME 0 \in RequestTicks => 1 \notin Ticks
  PROVE  RpcSpec => []CheckedThenAnswered
<1>1. RpcInv => CheckedThenAnswered
  <2> SUFFICES ASSUME RpcInv PROVE CheckedThenAnswered
    OBVIOUS
  <2>1. call.method \in TickMethods => ~TickZero
    BY TickMethodNames DEF RpcInv, CallInv, CallShape, NoCall, TickZero
  <2> QED BY <2>1 DEF RpcInv, CallInv, TickCallInv, CheckedThenAnswered, Replied
<1> QED BY <1>1, RpcInvariant, PTL

\* GetTransactionStatus answers with the status the network gave, unless the
\* tick is one the processor skipped half archived.
THEOREM StatusFinal == RpcSpec => []StatusAnswerFinal
<1>1. RpcInv => StatusAnswerFinal
  BY DEF RpcInv, CallInv, TxStatusCallInv, StatusAnswerFinal, Replied
<1> QED BY <1>1, RpcInvariant, PTL

\* GetTickApprovedTransactions and GetTickTransactionsV2 answer for processed
\* ticks only, with exactly the transactions that were asked for and the
\* network's flag of each, whatever was written between their reads.
THEOREM ApprovedAnswers == RpcSpec => []ApprovedExact
<1>1. RpcInv => ApprovedExact
  BY DEF RpcInv, CallInv, ApprovedCallInv
<1> QED BY <1>1, RpcInvariant, PTL

\* getTransactionInfo finds the tick data of every transaction and transfer
\* the store returned, of half archived ticks too.
THEOREM InfoFound == RpcSpec => []InfoNeverMissing
<1>1. RpcInv => InfoNeverMissing
  BY DEF RpcInv, CallInv, InfoCallInv
<1> QED BY <1>1, RpcInvariant, PTL

\* GetQuorumTickData finds the votes of the next tick, the tick's own votes and
\* the computors of its epoch when it rebuilds the digests of a tick inside an
\* interval.
THEOREM DigestsRebuilt == RpcSpec => []ReconstructionPossible
<1>1. RpcInv => ReconstructionPossible
  BY DEF RpcInv, CallInv, QuorumCallInv, ReconstructionPossible, Replied
<1> QED BY <1>1, RpcInvariant, PTL

\* The parts of a GetStatus reply agree, though each is read while the
\* processor runs: no tick below the last processed one is missing from all.
THEOREM StatusReplies == RpcSpec => []StatusReplyCovers
<1>1. RpcInv => StatusReplyCovers
  BY DEF RpcInv, CallInv, StatusCallInv, StatusReplyCovers, Replied
<1> QED BY <1>1, RpcInvariant, PTL

-----------------------------------------------------------------------------
(* The lists of empty ticks, which startup may reset and the other answers   *)
(* do not depend on.                                                         *)

\* The archiver beside the server is the archiver.
LEMMA ServerIsAside == RpcSpec => Spec
<1>1. RpcInit => Init
  BY DEF RpcInit
<1>2. [RpcNext]_rpcVars => [Next]_vars
  BY DEF RpcNext, ProcessStep, RpcStep, rpcVars
<1> QED BY <1>1, <1>2, PTL DEF RpcSpec, Spec

\* The empty ticks among the ticks that GetEpochTickListV2 has read are listed.
EpochListCallInv ==
  /\ (call.method = "GetEpochTickListV2" /\ call.step = "emptyList") =>
       \A t \in call.seen.ticks \cap EmptyTicks : EpochOf(t) = call.arg /\ Listed(t)
  /\ EpochTickListExact

\* The intervals are read before the list, which was written before them.
LEMMA EpochListCallStep ==
  ASSUME RpcInv, ListedInv, OnlyEmptyInv, EpochListCallInv, RpcStep
  PROVE  EpochListCallInv'
<1> USE DEF RpcInv, CallInv
<1>0. \A t : Listed(t)' <=> Listed(t)
  <2>1. UNCHANGED <<emptyTicks, emptyTickList>>
    BY DEF RpcStep, vars, storeVars, emptyVars
  <2> QED BY <2>1 DEF Listed, EmptyTicksOf
<1>1. CASE (V1Handler \/ V2Handler) /\ call # NoCall /\ SameRequest
  <2>0. /\ call'.method = call.method /\ call'.arg = call.arg
        /\ call.handler \in Handlers(call.method) /\ call.arg \in Arguments(call.method)
    BY <1>1 DEF SameRequest, CallShape
  <2>1. CASE call.method = "GetEpochTickListV2"
    <3>1. call.handler = "GetEpochTickListV2" /\ call.arg \in Epochs
      BY <2>0, <2>1 DEF Handlers, Arguments, TickMethods, TxMethods, IdentityMethods, EpochMethods
    <3>2. GetEpochTickListV2
      BY <1>1, <3>1, HandlerGuards DEF V1Handler, V2Handler
    <3>3. CASE call.step = "start"
      <4>1. \A t \in IntervalTicksOf(call.arg) \cap EmptyTicks : EpochOf(t) = call.arg /\ Listed(t)
        <5> SUFFICES ASSUME NEW t \in EmptyTicks, NEW k \in DOMAIN Intervals(call.arg),
                            t \in Intervals(call.arg)[k].initial .. Intervals(call.arg)[k].last
                     PROVE  EpochOf(t) = call.arg /\ Listed(t)
          BY DEF IntervalTicksOf, IntervalTicks, Intervals
        <5>1. EpochOf(t) = call.arg
          BY <3>1 DEF ReaderInv, SafetyInv, StatusInv, IntervalInv, Archived
        <5>2. Listed(t)
          BY <3>1 DEF ListedInv, Claimable, InStoredInterval
        <5> QED BY <5>1, <5>2
      <4>2. \/ call'.step = "replied" /\ call'.code = "Internal"
            \/ call'.step = "emptyList" /\ call'.seen = Put(call.seen, "ticks", IntervalTicksOf(call.arg))
        BY <3>2, <3>3, StepFacts DEF GetEpochTickListV2
      <4>3. Put(call.seen, "ticks", IntervalTicksOf(call.arg)).ticks = IntervalTicksOf(call.arg)
        BY DEF Put
      <4> QED BY <1>0, <2>0, <4>1, <4>2, <4>3 DEF EpochListCallInv, EpochTickListExact, Replied
    <3>4. CASE call.step = "emptyList"
      <4>1. ASSUME call.arg \in DOMAIN emptyTickList
            PROVE  call.seen.ticks \cap ListedTicks(call.arg) = call.seen.ticks \cap EmptyTicks
        <5>1. \A t \in ListedTicks(call.arg) : t \in EmptyTicks
          BY <4>1 DEF ListedTicks, OnlyEmptyInv
        <5>2. \A t \in call.seen.ticks \cap EmptyTicks : t \in ListedTicks(call.arg)
          BY <2>1, <3>4, ContentAssumption DEF EpochListCallInv, Listed, ListedTicks
        <5> QED BY <5>1, <5>2
      <4>2. \/ call'.step = "replied" /\ call'.code = "NotFound"
            \/ /\ call'.step = "replied" /\ call.arg \in DOMAIN emptyTickList
               /\ call'.seen.value = [ticks |-> call.seen.ticks,
                                      empty |-> call.seen.ticks \cap ListedTicks(call.arg)]
        BY <3>2, <3>4, StepFacts DEF GetEpochTickListV2, EpochTicks
      <4> QED BY <4>1, <4>2 DEF EpochListCallInv, EpochTickListExact, Replied
    <3> QED BY <3>2, <3>3, <3>4 DEF GetEpochTickListV2
  <2>2. CASE call.method # "GetEpochTickListV2"
    BY <2>0, <2>2 DEF EpochListCallInv, EpochTickListExact, Replied
  <2> QED BY <2>1, <2>2
<1>2. CASE \/ call'.step \in {"none", "checkLast", "start", "checkIntervals"}
           \/ call'.step = "replied" /\ call'.code # "OK"
  BY <1>2 DEF EpochListCallInv, EpochTickListExact, Replied
<1> QED BY <1>1, <1>2, OutsideHandlers

\* GetEpochTickListV2 marks the empty ticks of an epoch, and no others, though
\* the processor may extend the intervals and the list between its two reads.
\* The operator does not reset the keys.
THEOREM EpochListAnswers ==
  ASSUME ~ResetAllowed
  PROVE  RpcSpec => []EpochTickListExact
<1>1. RpcInit => EpochListCallInv
  BY DEF RpcInit, NoCall, EpochListCallInv, EpochTickListExact, Replied
<1>2. RpcInv /\ ListedInv /\ OnlyEmptyInv /\ EpochListCallInv /\ [RpcNext]_rpcVars
        => EpochListCallInv'
  <2> SUFFICES ASSUME RpcInv, ListedInv, OnlyEmptyInv, EpochListCallInv, [RpcNext]_rpcVars
               PROVE  EpochListCallInv'
    OBVIOUS
  <2>1. CASE RpcStep
    BY <2>1, EpochListCallStep
  <2>2. CASE UNCHANGED call /\ [Next]_vars
    <3>1. \A t \in EmptyTicks : Listed(t) => Listed(t)'
      BY <2>2, ListedStable DEF RpcInv, ReaderInv
    <3> QED BY <2>2, <3>1 DEF EpochListCallInv, EpochTickListExact, Replied
  <2>3. CASE call' = NoCall
    BY <2>3 DEF NoCall, EpochListCallInv, EpochTickListExact, Replied
  <2> QED BY <2>1, <2>2, <2>3 DEF RpcNext, ProcessStep, rpcVars
<1>3. EpochListCallInv => EpochTickListExact
  BY DEF EpochListCallInv
<1> QED
  BY <1>1, <1>2, <1>3, RpcInvariant, ServerIsAside, ListedInvariant, OnlyEmptyInvariant, PTL DEF RpcSpec
=============================================================================
