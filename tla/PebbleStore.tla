---------------------------- MODULE PebbleStore ----------------------------
(***************************************************************************)
(* The durable state of the archiver: the key families of store/keys.go    *)
(* and the atomic writes of store/store.go.  Every write is one            *)
(* db.Set(..., pebble.Sync), db.Delete or batch.Commit, so it is durable   *)
(* when it returns, and a crash falls between two of the operators below.  *)
(* A family whose missing key the code tells apart from an empty value is  *)
(* a function on the set of present keys; the others are total.            *)
(***************************************************************************)
EXTENDS Network, Sequences

VARIABLES
  lastProcessedTick,          \* [tickNumber, epoch]; tickNumber 0: no key
  lastProcessedTickPerEpoch,  \* epoch |-> tick
  processedTickIntervals,     \* epoch |-> sequence of [initial, last]
  skippedTicks,               \* sequence of [startTick, endTick]
  computors,                  \* epoch |-> the epoch of the stored list
  targetTickVoteSignature,    \* epochs that have a stored target
  records,                    \* tick |-> kinds of per-tick records stored
  transfers,                  \* tick |-> identities whose transfers are stored
  chainDigest, storeDigest,   \* tick |-> the hash chain up to it
  lastTickQuorumData,         \* epoch |-> interval position |-> tick
  emptyTicks,                 \* epoch |-> number of empty ticks
  emptyTickList               \* epoch |-> tick |-> occurrences in the list

statusVars == <<lastProcessedTick, lastProcessedTickPerEpoch,
                processedTickIntervals, skippedTicks>>
epochVars  == <<computors, targetTickVoteSignature>>
tickVars   == <<records, transfers, chainDigest, storeDigest>>
emptyVars  == <<emptyTicks, emptyTickList>>
storeVars  == <<statusVars, epochVars, tickVars, emptyVars, lastTickQuorumData>>

(* Functions on the present keys. *)
IsKeyValue(f, K, V) == DOMAIN f \subseteq K /\ f \in [DOMAIN f -> V]
Put(f, k, v) == [x \in DOMAIN f \cup {k} |-> IF x = k THEN v ELSE f[x]]
Remove(f, k) == [x \in DOMAIN f \ {k} |-> f[x]]

ProcessedTick         == [tickNumber : Nat, epoch : Nat]
ProcessedTickInterval == [initial : Nat, last : Nat]
SkippedInterval       == [startTick : Nat, endTick : Nat]
RecordKinds           == {"quorum", "tickData", "transactions", "txStatus"}
NoTick                == [tickNumber |-> 0, epoch |-> 0]
EmptyList             == [t \in Ticks |-> 0]

StoreTypeOK ==
  /\ lastProcessedTick \in ProcessedTick
  /\ IsKeyValue(lastProcessedTickPerEpoch, Epochs, Ticks)
  /\ processedTickIntervals \in [Epochs -> Seq(ProcessedTickInterval)]
  /\ skippedTicks \in Seq(SkippedInterval)
  /\ IsKeyValue(computors, Epochs, Epochs)
  /\ targetTickVoteSignature \in SUBSET Epochs
  /\ records \in [Ticks -> SUBSET RecordKinds]
  /\ transfers \in [Ticks -> SUBSET Identities]
  /\ IsKeyValue(chainDigest, Ticks, Seq(Ticks))
  /\ IsKeyValue(storeDigest, Ticks, Seq(Ticks))
  /\ DOMAIN lastTickQuorumData = Epochs
  /\ \A e \in Epochs : IsKeyValue(lastTickQuorumData[e], Nat, Ticks)
  /\ IsKeyValue(emptyTicks, Epochs, Nat)
  /\ IsKeyValue(emptyTickList, Epochs, [Ticks -> Nat])

StoreInit ==
  /\ lastProcessedTick = NoTick
  /\ lastProcessedTickPerEpoch = [e \in {} |-> 0]
  /\ processedTickIntervals = [e \in Epochs |-> <<>>]
  /\ skippedTicks = <<>>
  /\ computors = [e \in {} |-> 0]
  /\ targetTickVoteSignature = {}
  /\ records = [t \in Ticks |-> {}]
  /\ transfers = [t \in Ticks |-> {}]
  /\ chainDigest = [t \in {} |-> <<>>]
  /\ storeDigest = [t \in {} |-> <<>>]
  /\ lastTickQuorumData = [e \in Epochs |-> [k \in {} |-> 0]]
  /\ emptyTicks = [e \in {} |-> 0]
  /\ emptyTickList = [e \in {} |-> EmptyList]

-----------------------------------------------------------------------------
(* Per-tick records.  Storing a tick again overwrites its keys.  The kinds   *)
(* are kept, not the content: that the transfer lists and statuses of a      *)
(* repeated attempt are those of another peer is modelled in TickContent and *)
(* Paging.                                                                   *)

StoreRecord(t, kind) == records' = [records EXCEPT ![t] = @ \cup {kind}]

SetQuorumTickData(t)         == StoreRecord(t, "quorum")
SetTickData(t)               == StoreRecord(t, "tickData")
SetTransactions(t)           == StoreRecord(t, "transactions")
SetTickTransactionsStatus(t) == StoreRecord(t, "txStatus")

PutTransferTransactionsPerTick(id, t) ==
  transfers' = [transfers EXCEPT ![t] = @ \cup {id}]

PutChainDigest(t, digest) == chainDigest' = Put(chainDigest, t, digest)
PutStoreDigest(t, digest) == storeDigest' = Put(storeDigest, t, digest)

-----------------------------------------------------------------------------
(* Per-epoch keys. *)

SetComputors(e, list) == computors' = Put(computors, e, list)

SetTargetTickVoteSignature(e) ==
  targetTickVoteSignature' = targetTickVoteSignature \cup {e}

\* Mutant: the data is kept for the interval after the current one.
CurrentIntervalNext(e) == Len(processedTickIntervals[e]) + 1

\* The position of the epoch's current interval (the code counts from 0).
CurrentInterval(e) ==
  IF processedTickIntervals[e] = <<>> THEN 1 ELSE Len(processedTickIntervals[e])

SetQuorumDataForCurrentEpochInterval(e, t) ==
  lastTickQuorumData' =
    [lastTickQuorumData EXCEPT ![e] = Put(@, CurrentInterval(e), t)]

\* GetEmptyTicksForEpoch with ErrNotFound read as 0, as ValidateTick reads it.
EmptyTicksOf(e) == IF e \in DOMAIN emptyTicks THEN emptyTicks[e] ELSE 0

SetEmptyTicksForEpoch(e, n)       == emptyTicks' = Put(emptyTicks, e, n)
SetEmptyTickListPerEpoch(e, list) == emptyTickList' = Put(emptyTickList, e, list)

\* Fails when the list key is missing.
AppendEmptyTickToEmptyTickListPerEpoch(e, t) ==
  /\ e \in DOMAIN emptyTickList
  /\ SetEmptyTickListPerEpoch(e, [emptyTickList[e] EXCEPT ![t] = @ + 1])

DeleteEmptyTicksKeyForEpoch(e)    == emptyTicks' = Remove(emptyTicks, e)
DeleteEmptyTickListKeyForEpoch(e) == emptyTickList' = Remove(emptyTickList, e)

-----------------------------------------------------------------------------
(* Processing status. *)

AppendProcessedTickInterval(e, t) ==
  processedTickIntervals' =
    [processedTickIntervals EXCEPT ![e] = Append(@, [initial |-> t, last |-> t])]

SetSkippedTicksInterval(first, last) ==
  skippedTicks' = Append(skippedTicks, [startTick |-> first, endTick |-> last])

\* The batch of SetLastProcessedTick: both keys in one commit.
CommitLastProcessedTick(next) ==
  /\ lastProcessedTickPerEpoch' =
       Put(lastProcessedTickPerEpoch, next.epoch, next.tickNumber)
  /\ lastProcessedTick' = next

\* The second write of SetLastProcessedTick, after the batch is committed.
ExtendProcessedTickInterval(next) ==
  LET ptie == processedTickIntervals[next.epoch]
      t    == next.tickNumber
  IN processedTickIntervals' =
       [processedTickIntervals EXCEPT ![next.epoch] =
          IF ptie = <<>> THEN <<[initial |-> t, last |-> t]>>
          ELSE [ptie EXCEPT ![Len(ptie)] = [@ EXCEPT !.last = t]]]
=============================================================================
