----------------------------- MODULE Validator -----------------------------
(***************************************************************************)
(* ValidateTick: fetch a tick from the contacted node, validate it, and    *)
(* persist it.  The action names are the calls of the code in their order; *)
(* pc names the call that is next.  Each action performs one durable write *)
(* so that the process may stop between any two of them.                   *)
(***************************************************************************)
EXTENDS PebbleStore

CONSTANT StoreDigestFrom   \* first tick that has a store digest (13752150)

ASSUME StoreDigestAssumption == StoreDigestFrom \in Nat

VARIABLES
  pc,                 \* the processor goroutine's (or the startup's) next step
  nextTick,           \* the tick being processed, NoTick when there is none
  initialEpochTick,   \* TickInfo.InitialTick the node reported for it
  pendingIdentities   \* identities storeTransferTransactions has yet to write

attemptVars == <<nextTick, initialEpochTick, pendingIdentities>>

tick == nextTick.tickNumber
Goto(step) == pc' = step

\* Leave the attempt, on success or on an error: the locals are gone.
EndAttempt ==
  /\ Goto("idle")
  /\ nextTick' = NoTick
  /\ initialEpochTick' = 0
  /\ pendingIdentities' = {}

-----------------------------------------------------------------------------
(* Validation.  GetQuorumVotes has answered with votes of EpochOf(tick).    *)

\* The stored list of the votes' epoch wins; otherwise the node is asked and
\* the arbitrator's signature is all that is checked of its list.
StoreComputors ==
  /\ pc = "computors"
  /\ LET e == EpochOf(tick)
     IN \E list \in IF e \in DOMAIN computors THEN {computors[e]} ELSE NodeEpochs(e) :
          SetComputors(e, list)
  /\ Goto("target")
  /\ UNCHANGED <<targetTickVoteSignature, statusVars, tickVars, emptyVars,
                 lastTickQuorumData, attemptVars>>

\* A missing target is fetched and stored under the epoch the node is in.
StoreTargetTickVoteSignature ==
  /\ pc = "target"
  /\ LET e == EpochOf(tick)
     IN IF e \in targetTickVoteSignature
        THEN UNCHANGED targetTickVoteSignature
        ELSE \E nodeEpoch \in NodeEpochs(e) : SetTargetTickVoteSignature(nodeEpoch)
  /\ Goto("validate")
  /\ UNCHANGED <<computors, statusVars, tickVars, emptyVars,
                 lastTickQuorumData, attemptVars>>

\* Votes, tick data, transactions and their status pass.  Against the computor
\* list or the target of a later epoch too few votes may verify, so that the
\* tick never passes: ValidateTickFails is always possible instead.
ValidateVotesAndTickData ==
  /\ pc = "validate"
  /\ Goto("quorum")
  /\ UNCHANGED <<storeVars, attemptVars>>

-----------------------------------------------------------------------------
(* Persisting. *)

StoreQuorumVotes ==
  /\ pc = "quorum"
  /\ SetQuorumTickData(tick)
  /\ Goto("lastQuorum")
  /\ UNCHANGED <<transfers, chainDigest, storeDigest, statusVars, epochVars,
                 emptyVars, lastTickQuorumData, attemptVars>>

\* Mutant: the tick data is not stored.
StoreLastQuorumAndNoTickData ==
  /\ pc = "lastQuorum"
  /\ SetQuorumDataForCurrentEpochInterval(EpochOf(tick), tick)
  /\ Goto("transactions")
  /\ UNCHANGED <<tickVars, statusVars, epochVars, emptyVars, attemptVars>>

StoreLastQuorumOfInterval ==
  /\ pc = "lastQuorum"
  /\ SetQuorumDataForCurrentEpochInterval(EpochOf(tick), tick)
  /\ Goto("tickData")
  /\ UNCHANGED <<tickVars, statusVars, epochVars, emptyVars, attemptVars>>

StoreTickData ==
  /\ pc = "tickData"
  /\ SetTickData(tick)
  /\ Goto("transactions")
  /\ UNCHANGED <<transfers, chainDigest, storeDigest, statusVars, epochVars,
                 emptyVars, lastTickQuorumData, attemptVars>>

StoreTickTransactions ==
  /\ pc = "transactions"
  /\ SetTransactions(tick)
  /\ Goto("transfers")
  /\ pendingIdentities' = TransferIds[tick]
  /\ UNCHANGED <<transfers, chainDigest, storeDigest, statusVars, epochVars,
                 emptyVars, lastTickQuorumData, nextTick, initialEpochTick>>

\* One write per identity, in the order of a Go map: any.
StoreTransferTransactions ==
  /\ pc = "transfers"
  /\ \E id \in pendingIdentities :
       /\ PutTransferTransactionsPerTick(id, tick)
       /\ pendingIdentities' = pendingIdentities \ {id}
  /\ UNCHANGED <<records, chainDigest, storeDigest, statusVars, epochVars,
                 emptyVars, lastTickQuorumData, nextTick, initialEpochTick, pc>>

\* Mutant: the status is stored while transfers are still to be written.
StoreTransactionsStatusEarly ==
  /\ pc = "transfers"
  /\ SetTickTransactionsStatus(tick)
  /\ Goto("chain")
  /\ UNCHANGED <<transfers, chainDigest, storeDigest, statusVars, epochVars,
                 emptyVars, lastTickQuorumData, attemptVars>>

StoreTransactionsStatus ==
  /\ pc = "transfers"
  /\ pendingIdentities = {}
  /\ SetTickTransactionsStatus(tick)
  /\ Goto("chain")
  /\ UNCHANGED <<transfers, chainDigest, storeDigest, statusVars, epochVars,
                 emptyVars, lastTickQuorumData, attemptVars>>

\* Mutant: the initial tick of a segment needs a previous digest too.
HasPrevChainDigestAlways == tick - 1 \in DOMAIN chainDigest

\* getPrevChainDigest succeeds.
HasPrevChainDigest == tick = initialEpochTick \/ tick - 1 \in DOMAIN chainDigest

\* Mutant: the chain is not restarted at the initial tick.
ComputeAndSaveWithoutRestart ==
  /\ pc = "chain"
  /\ HasPrevChainDigest
  /\ PutChainDigest(tick,
       IF tick - 1 \in DOMAIN chainDigest THEN Append(chainDigest[tick - 1], tick)
       ELSE <<tick>>)
  /\ Goto("storeDigest")
  /\ UNCHANGED <<records, transfers, storeDigest, statusVars, epochVars,
                 emptyVars, lastTickQuorumData, attemptVars>>

\* The digest hashes the tick's vote with the previous digest; a hash chain
\* is the sequence of what was hashed into it.
ComputeAndSave ==
  /\ pc = "chain"
  /\ HasPrevChainDigest
  /\ PutChainDigest(tick,
       IF tick = initialEpochTick THEN <<tick>>
       ELSE Append(chainDigest[tick - 1], tick))
  /\ Goto("storeDigest")
  /\ UNCHANGED <<records, transfers, storeDigest, statusVars, epochVars,
                 emptyVars, lastTickQuorumData, attemptVars>>

\* Mutant: an epoch whose count is already stored is not counted again.
AfterDigestsOnce ==
  IF tick \in EmptyTicks /\ EmptyTicksOf(EpochOf(tick)) = 0
  THEN "emptyInit" ELSE "status"

\* CheckIfTickIsEmpty decides what follows the digests.
AfterDigests == IF tick \in EmptyTicks THEN "emptyInit" ELSE "status"

\* A missing previous store digest restarts the chain instead of failing.
ComputeStoreAndSave ==
  /\ pc = "storeDigest"
  /\ IF tick < StoreDigestFrom THEN UNCHANGED storeDigest
     ELSE PutStoreDigest(tick,
            IF tick = initialEpochTick \/ tick - 1 \notin DOMAIN storeDigest
            THEN <<tick>>
            ELSE Append(storeDigest[tick - 1], tick))
  /\ Goto(AfterDigests)
  /\ UNCHANGED <<records, transfers, chainDigest, statusVars, epochVars,
                 emptyVars, lastTickQuorumData, attemptVars>>

-----------------------------------------------------------------------------
(* The empty-tick counters of the votes' epoch. *)

\* Mutant: the list is initialised for every empty tick.
InitEmptyTickListAlways ==
  /\ pc = "emptyInit"
  /\ SetEmptyTickListPerEpoch(EpochOf(tick), EmptyList)
  /\ Goto("emptyCount")
  /\ UNCHANGED <<emptyTicks, tickVars, statusVars, epochVars,
                 lastTickQuorumData, attemptVars>>

InitEmptyTickList ==
  /\ pc = "emptyInit"
  /\ IF EmptyTicksOf(EpochOf(tick)) = 0
     THEN SetEmptyTickListPerEpoch(EpochOf(tick), EmptyList)
     ELSE UNCHANGED emptyTickList
  /\ Goto("emptyCount")
  /\ UNCHANGED <<emptyTicks, tickVars, statusVars, epochVars,
                 lastTickQuorumData, attemptVars>>

CountEmptyTick ==
  /\ pc = "emptyCount"
  /\ SetEmptyTicksForEpoch(EpochOf(tick), EmptyTicksOf(EpochOf(tick)) + 1)
  /\ Goto("emptyList")
  /\ UNCHANGED <<emptyTickList, tickVars, statusVars, epochVars,
                 lastTickQuorumData, attemptVars>>

ListEmptyTick ==
  /\ pc = "emptyList"
  /\ AppendEmptyTickToEmptyTickListPerEpoch(EpochOf(tick), tick)
  /\ Goto("status")
  /\ UNCHANGED <<emptyTicks, tickVars, statusVars, epochVars,
                 lastTickQuorumData, attemptVars>>

-----------------------------------------------------------------------------
\* An error return that needs no failing write: the node times out, answers
\* badly or its data does not validate, or a key the step reads is missing.
ValidateTickFails ==
  \/ pc \in {"computors", "target", "validate"}
  \/ pc = "chain" /\ ~HasPrevChainDigest
  \/ pc = "emptyList" /\ EpochOf(tick) \notin DOMAIN emptyTickList

ValidateTick ==
  \/ StoreComputors            \/ StoreTargetTickVoteSignature
  \/ ValidateVotesAndTickData  \/ StoreQuorumVotes
  \/ StoreLastQuorumOfInterval \/ StoreTickData
  \/ StoreTickTransactions     \/ StoreTransferTransactions
  \/ StoreTransactionsStatus   \/ ComputeAndSave
  \/ ComputeStoreAndSave       \/ InitEmptyTickList
  \/ CountEmptyTick            \/ ListEmptyTick
=============================================================================
