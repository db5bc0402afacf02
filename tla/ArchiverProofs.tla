--------------------------- MODULE ArchiverProofs ---------------------------
(***************************************************************************)
(* Theorems about the archiver, for every network, every set of failure    *)
(* points and every number of failures: type correctness, the safety       *)
(* properties, the digests, the refinement of the ledger, and what         *)
(* failures and restarts leave behind.                                     *)
(***************************************************************************)
EXTENDS ArchiverLedger, FiniteSetTheorems, SequenceTheorems, TLAPS

-----------------------------------------------------------------------------
(***************************************************************************)
(* Facts about the network and the store's functions, and the proof that   *)
(* the archiver is type correct, for every network, every set of failure   *)
(* points and every number of failures.                                    *)
(***************************************************************************)

-----------------------------------------------------------------------------
(* The network. *)

\* A tick lies in the segment SegmentOf gives for it.
LEMMA SegmentOfTick ==
  ASSUME NEW t \in Ticks
  PROVE  /\ SegmentOf(t) \in Segments
         /\ t \in SegmentOf(t).initial .. SegmentOf(t).final
         /\ SegmentOf(t).initial \in Nat \ {0}
         /\ SegmentOf(t).final \in Nat
         /\ EpochOf(t) \in Epochs
         /\ EpochOf(t) \in Nat \ {0}
         /\ t \in Nat \ {0}
<1>1. PICK s \in Segments : t \in s.initial .. s.final
  BY DEF Ticks
<1>2. SegmentOf(t) \in Segments /\ t \in SegmentOf(t).initial .. SegmentOf(t).final
  BY <1>1 DEF SegmentOf
<1> QED
  BY <1>2, SegmentsAssumption DEF EpochOf, Epochs

\* Segments do not overlap: a tick lies in no other segment.
LEMMA SegmentUnique ==
  ASSUME NEW s \in Segments, NEW t \in s.initial .. s.final
  PROVE  t \in Ticks /\ SegmentOf(t) = s
<1>1. t \in Ticks
  BY DEF Ticks
<1>2. SegmentOf(t) \in Segments /\ t \in SegmentOf(t).initial .. SegmentOf(t).final
  BY <1>1, SegmentOfTick
<1> QED
  BY <1>1, <1>2, SegmentsAssumption DEF Precedes

\* Epochs grow with the ticks.
LEMMA EpochMonotone ==
  ASSUME NEW t \in Ticks, NEW u \in Ticks, t <= u
  PROVE  EpochOf(t) <= EpochOf(u)
<1>1. /\ SegmentOf(t) \in Segments /\ t \in SegmentOf(t).initial .. SegmentOf(t).final
      /\ SegmentOf(u) \in Segments /\ u \in SegmentOf(u).initial .. SegmentOf(u).final
  BY SegmentOfTick
<1> QED
  BY <1>1, SegmentsAssumption DEF EpochOf, Precedes

\* The initial tick of a tick's segment is a tick of the same segment.
LEMMA InitialTick ==
  ASSUME NEW s \in Segments
  PROVE  s.initial \in Ticks /\ SegmentOf(s.initial) = s /\ s.initial \in Nat \ {0}
BY SegmentUnique, SegmentsAssumption

-----------------------------------------------------------------------------
(* The store's functions on the present keys. *)

\* A put of a well-typed key and value keeps the type.
LEMMA PutType ==
  ASSUME NEW f, NEW K, NEW V, NEW k \in K, NEW v \in V, IsKeyValue(f, K, V)
  PROVE  IsKeyValue(Put(f, k, v), K, V)
BY DEF IsKeyValue, Put

\* A deletion keeps the type.
LEMMA RemoveType ==
  ASSUME NEW f, NEW K, NEW V, NEW k, IsKeyValue(f, K, V)
  PROVE  IsKeyValue(Remove(f, k), K, V)
BY DEF IsKeyValue, Remove

\* What startup counts is a natural number.
LEMMA FoundEmptyTicksFinite ==
  ASSUME NEW e \in Epochs, processedTickIntervals \in [Epochs -> Seq(ProcessedTickInterval)]
  PROVE  /\ IsFiniteSet(FoundEmptyTicks(e))
         /\ Cardinality(FoundEmptyTicks(e)) \in Nat
         /\ FoundEmptyTickList(e) \in [Ticks -> Nat]
<1>1. Len(processedTickIntervals[e]) \in Nat
      /\ DOMAIN processedTickIntervals[e] = 1 .. Len(processedTickIntervals[e])
  OBVIOUS
<1>2. IsFiniteSet(DOMAIN processedTickIntervals[e])
  BY <1>1, FS_Interval
<1>3. IsFiniteSet((DOMAIN processedTickIntervals[e]) \X EmptyTicks)
  BY <1>2, FS_Product, ContentAssumption
<1>4. IsFiniteSet(FoundEmptyTicks(e))
  BY <1>3, FS_Subset DEF FoundEmptyTicks
<1>5. \A t : IsFiniteSet({f \in FoundEmptyTicks(e) : f[2] = t})
  BY <1>4, FS_Subset
<1> QED
  BY <1>4, <1>5, FS_CardinalityType DEF FoundEmptyTickList

-----------------------------------------------------------------------------
(* Types.  An attempt works on a tick of the network, above the last        *)
(* processed one and in the epoch it records for it; without this the keys  *)
(* an attempt writes would not be typed.                                    *)

AttemptInv ==
  pc \in AttemptSteps =>
    /\ tick \in Ticks
    /\ nextTick.epoch = EpochOf(tick)
    /\ initialEpochTick = SegmentOf(tick).initial
    /\ pc = "interval" => lastProcessedTick = nextTick
    /\ pc # "interval" =>
         /\ lastProcessedTick.tickNumber < tick
         /\ tick = lastProcessedTick.tickNumber + 1 \/ tick = initialEpochTick

LastTickInv ==
  lastProcessedTick.tickNumber # 0 =>
    /\ lastProcessedTick.tickNumber \in Ticks
    /\ lastProcessedTick.epoch = EpochOf(lastProcessedTick.tickNumber)

StartupInv == pc = "calculateList" => currentEpoch \in Epochs

TypeInv == TypeOK /\ AttemptInv /\ LastTickInv /\ StartupInv

\* The network assumption and the bound of the node's answer make the next
\* tick a tick of the node's segment.
LEMMA NextTickInSegment ==
  ASSUME TypeOK, LastTickInv, NEW s \in Segments, NEW now \in s.initial .. s.final,
         NextProcessingTick(s).tickNumber <= now
  PROVE  LET next == NextProcessingTick(s)
         IN /\ next \in ProcessedTick
            /\ next.tickNumber \in Ticks
            /\ SegmentOf(next.tickNumber) = s
            /\ next.epoch = s.epoch
            /\ lastProcessedTick.tickNumber < next.tickNumber
            /\ \/ next.tickNumber = lastProcessedTick.tickNumber + 1
               \/ next.tickNumber = s.initial
<1> DEFINE last == lastProcessedTick.tickNumber
<1>1. /\ s.initial \in Nat \ {0} /\ s.final \in Nat /\ s.epoch \in Nat
      /\ s.initial <= s.final /\ now \in Nat
      /\ last \in Nat /\ lastProcessedTick.epoch \in Nat
  BY SegmentsAssumption DEF TypeOK, StoreTypeOK, ProcessedTick
<1>2. CASE s.initial > last
  BY <1>1, <1>2, InitialTick DEF NextProcessingTick, ProcessedTick
<1>3. CASE ~(s.initial > last)
  <2>1. last \in s.initial .. s.final /\ last + 1 \in s.initial .. s.final /\ last # 0
    BY <1>1, <1>3 DEF NextProcessingTick
  <2>2. SegmentOf(last) = s /\ SegmentOf(last + 1) = s /\ last + 1 \in Ticks
    BY <2>1, SegmentUnique
  <2>3. lastProcessedTick.epoch = s.epoch
    BY <2>1, <2>2 DEF LastTickInv, EpochOf
  <2> QED
    BY <1>1, <1>3, <2>2, <2>3 DEF NextProcessingTick, ProcessedTick
<1> QED
  BY <1>2, <1>3

\* An empty store and the booting process are well typed.
LEMMA TypeInit == Init => TypeInv
BY DEF Init, StoreInit, TypeInv, TypeOK, StoreTypeOK, AttemptInv, LastTickInv, StartupInv,
       IsKeyValue, NoTick, ProcessedTick, EmptyList, AttemptSteps, StartupSteps

\* Every step keeps the types and what is known of the attempt's tick.
LEMMA TypeStep == TypeInv /\ [Next]_vars => TypeInv'
<1> SUFFICES ASSUME TypeInv, [Next]_vars
             PROVE  TypeInv'
  OBVIOUS
<1> USE DEF TypeInv, TypeOK, StoreTypeOK, AttemptInv, LastTickInv, StartupInv,
            storeVars, statusVars, epochVars, tickVars, emptyVars, attemptVars,
            startupVars, Goto, tick, AttemptSteps, StartupSteps
<1> DEFINE e == EpochOf(tick)
<1>0. pc \in AttemptSteps => e \in Epochs /\ tick \in Nat /\ nextTick.epoch = e
  BY SegmentOfTick
<1>1. CASE ProcessOneByOne /\ UNCHANGED <<startupVars, failures>>
  <2>1. CASE GetTickInfo
    <3>0. PICK s \in Segments : \E now \in s.initial .. s.final :
            StartAttempt(s, now) \/ TickInTheFuture(s, now)
      BY <2>1 DEF GetTickInfo
    <3>1. PICK now \in s.initial .. s.final :
            StartAttempt(s, now) \/ TickInTheFuture(s, now)
      BY <3>0
    <3>2. CASE StartAttempt(s, now)
      <4>1. /\ nextTick' \in ProcessedTick
            /\ nextTick'.tickNumber \in Ticks
            /\ SegmentOf(nextTick'.tickNumber) = s
            /\ nextTick'.epoch = s.epoch
            /\ lastProcessedTick.tickNumber < nextTick'.tickNumber
            /\ \/ nextTick'.tickNumber = lastProcessedTick.tickNumber + 1
               \/ nextTick'.tickNumber = s.initial
        <5>1. NextProcessingTick(s).tickNumber <= now /\ nextTick' = NextProcessingTick(s)
          BY <3>2 DEF StartAttempt
        <5>2. TypeOK /\ LastTickInv
          OBVIOUS
        <5> HIDE DEF TypeOK, LastTickInv
        <5> QED BY <5>1, <5>2, NextTickInSegment
      <4>2. initialEpochTick' = s.initial /\ s.initial \in Nat
        BY <3>2, SegmentsAssumption DEF StartAttempt
      <4> QED
        BY <1>1, <3>2, <4>1, <4>2 DEF StartAttempt, EpochOf
    <3>3. CASE TickInTheFuture(s, now)
      BY <1>1, <3>3 DEF TickInTheFuture
    <3> QED BY <3>1, <3>2, <3>3
  <2>2. CASE ValidateTick
    <3>1. CASE StoreComputors
      <4>1. PICK list \in Epochs : computors' = Put(computors, e, list)
        BY <1>0, <3>1 DEF StoreComputors, SetComputors, NodeEpochs, IsKeyValue
      <4>2. IsKeyValue(computors', Epochs, Epochs)
        BY <1>0, <3>1, <4>1, PutType DEF StoreComputors
      <4> QED BY <1>1, <3>1, <4>2 DEF StoreComputors
    <3>2. CASE StoreTargetTickVoteSignature
      BY <1>0, <1>1, <3>2 DEF StoreTargetTickVoteSignature, SetTargetTickVoteSignature, NodeEpochs
    <3>3. CASE ValidateVotesAndTickData
      BY <1>1, <3>3 DEF ValidateVotesAndTickData
    <3>4. CASE StoreQuorumVotes
      BY <1>1, <3>4 DEF StoreQuorumVotes, SetQuorumTickData, StoreRecord, RecordKinds
    <3>5. CASE StoreLastQuorumOfInterval
      <4>1. CurrentInterval(e) \in Nat
        BY <1>0, <3>5 DEF StoreLastQuorumOfInterval, CurrentInterval
      <4>2. IsKeyValue(Put(lastTickQuorumData[e], CurrentInterval(e), tick), Nat, Ticks)
        BY <1>0, <3>5, <4>1, PutType DEF StoreLastQuorumOfInterval
      <4> QED
        BY <1>0, <1>1, <3>5, <4>2
        DEF StoreLastQuorumOfInterval, SetQuorumDataForCurrentEpochInterval
    <3>6. CASE StoreTickData
      BY <1>1, <3>6 DEF StoreTickData, SetTickData, StoreRecord, RecordKinds
    <3>7. CASE StoreTickTransactions
      BY <1>1, <3>7, ContentAssumption
      DEF StoreTickTransactions, SetTransactions, StoreRecord, RecordKinds
    <3>8. CASE StoreTransferTransactions
      BY <1>1, <3>8 DEF StoreTransferTransactions, PutTransferTransactionsPerTick
    <3>9. CASE StoreTransactionsStatus
      BY <1>1, <3>9 DEF StoreTransactionsStatus, SetTickTransactionsStatus, StoreRecord, RecordKinds
    <3>10. CASE ComputeAndSave
      <4> DEFINE digest == IF tick = initialEpochTick THEN <<tick>>
                           ELSE Append(chainDigest[tick - 1], tick)
      <4>0. tick = initialEpochTick \/ chainDigest[tick - 1] \in Seq(Ticks)
        BY <3>10 DEF ComputeAndSave, HasPrevChainDigest, IsKeyValue
      <4>1. digest \in Seq(Ticks) /\ chainDigest' = Put(chainDigest, tick, digest)
        BY <3>10, <4>0 DEF ComputeAndSave, PutChainDigest
      <4>2. IsKeyValue(chainDigest', Ticks, Seq(Ticks))
        BY <3>10, <4>1, PutType DEF ComputeAndSave
      <4> QED BY <1>1, <3>10, <4>2 DEF ComputeAndSave
    <3>11. CASE ComputeStoreAndSave
      <4>1. CASE tick < StoreDigestFrom
        BY <1>1, <3>11, <4>1 DEF ComputeStoreAndSave, AfterDigests
      <4>2. CASE ~(tick < StoreDigestFrom)
        <5> DEFINE digest ==
                     IF tick = initialEpochTick \/ tick - 1 \notin DOMAIN storeDigest
                     THEN <<tick>> ELSE Append(storeDigest[tick - 1], tick)
        <5>0. tick - 1 \in DOMAIN storeDigest => storeDigest[tick - 1] \in Seq(Ticks)
          BY DEF IsKeyValue
        <5>1. digest \in Seq(Ticks) /\ storeDigest' = Put(storeDigest, tick, digest)
          BY <3>11, <4>2, <5>0 DEF ComputeStoreAndSave, PutStoreDigest
        <5>2. IsKeyValue(storeDigest', Ticks, Seq(Ticks))
          BY <3>11, <5>1, PutType DEF ComputeStoreAndSave
        <5> QED BY <1>1, <3>11, <5>2 DEF ComputeStoreAndSave, AfterDigests
      <4> QED BY <4>1, <4>2
    <3>12. CASE InitEmptyTickList
      <4>1. IsKeyValue(Put(emptyTickList, e, EmptyList), Epochs, [Ticks -> Nat])
        BY <1>0, <3>12, PutType DEF InitEmptyTickList, EmptyList
      <4> QED
        BY <1>1, <3>12, <4>1 DEF InitEmptyTickList, SetEmptyTickListPerEpoch
    <3>13. CASE CountEmptyTick
      <4>1. EmptyTicksOf(e) + 1 \in Nat
        BY <1>0, <3>13 DEF CountEmptyTick, EmptyTicksOf, IsKeyValue
      <4>2. IsKeyValue(emptyTicks', Epochs, Nat)
        BY <1>0, <3>13, <4>1, PutType DEF CountEmptyTick, SetEmptyTicksForEpoch
      <4> QED BY <1>1, <3>13, <4>2 DEF CountEmptyTick
    <3>14. CASE ListEmptyTick
      <4> DEFINE list == [emptyTickList[e] EXCEPT ![tick] = @ + 1]
      <4>0. e \in DOMAIN emptyTickList /\ emptyTickList' = Put(emptyTickList, e, list)
        BY <3>14 DEF ListEmptyTick, AppendEmptyTickToEmptyTickListPerEpoch,
                     SetEmptyTickListPerEpoch
      <4>1. list \in [Ticks -> Nat]
        <5>1. emptyTickList[e] \in [Ticks -> Nat]
          BY <4>0 DEF IsKeyValue
        <5>2. tick \in Ticks
          BY <3>14 DEF ListEmptyTick
        <5>3. emptyTickList[e][tick] + 1 \in Nat
          BY <5>1, <5>2
        <5> QED BY <5>1, <5>3
      <4>2. IsKeyValue(emptyTickList', Epochs, [Ticks -> Nat])
        BY <1>0, <3>14, <4>0, <4>1, PutType DEF ListEmptyTick
      <4> QED BY <1>1, <3>14, <4>2 DEF ListEmptyTick
    <3> QED
      BY <2>2, <3>1, <3>2, <3>3, <3>4, <3>5, <3>6, <3>7, <3>8, <3>9, <3>10,
         <3>11, <3>12, <3>13, <3>14 DEF ValidateTick
  <2>3. CASE ProcessStatus
    <3>1. CASE NoSkippedTicks
      BY <1>1, <3>1 DEF NoSkippedTicks
    <3>2. CASE AppendInterval
      BY <1>0, <1>1, <3>2 DEF AppendInterval, AppendProcessedTickInterval, ProcessedTickInterval
    <3>3. CASE SetSkippedTicks
      BY <1>0, <1>1, <3>3 DEF SetSkippedTicks, SetSkippedTicksInterval, SkippedInterval, ProcessedTick
    <3>4. CASE SetLastProcessedTick
      <4>1. IsKeyValue(lastProcessedTickPerEpoch', Epochs, Ticks)
        BY <1>0, <3>4, PutType DEF SetLastProcessedTick, CommitLastProcessedTick
      <4> QED
        BY <1>0, <1>1, <3>4, <4>1 DEF SetLastProcessedTick, CommitLastProcessedTick, ProcessedTick
    <3>5. CASE SetProcessedTickInterval
      <4> DEFINE ptie == processedTickIntervals[e]
                 new  == IF ptie = <<>> THEN <<[initial |-> tick, last |-> tick]>>
                         ELSE [ptie EXCEPT ![Len(ptie)] = [@ EXCEPT !.last = tick]]
      <4>1. new \in Seq(ProcessedTickInterval)
        <5>1. ptie \in Seq(ProcessedTickInterval) /\ tick \in Nat
          BY <1>0, <3>5 DEF SetProcessedTickInterval
        <5>2. CASE ptie = <<>>
          BY <5>1, <5>2 DEF ProcessedTickInterval
        <5>3. CASE ptie # <<>>
          <6>1. Len(ptie) \in 1 .. Len(ptie) /\ ptie[Len(ptie)] \in ProcessedTickInterval
            BY <5>1, <5>3
          <6>2. [ptie[Len(ptie)] EXCEPT !.last = tick] \in ProcessedTickInterval
            BY <5>1, <6>1 DEF ProcessedTickInterval
          <6> QED BY <5>1, <5>3, <6>1, <6>2
        <5> QED BY <5>2, <5>3
      <4>2. processedTickIntervals' = [processedTickIntervals EXCEPT ![e] = new]
        BY <1>0, <3>5 DEF SetProcessedTickInterval, ExtendProcessedTickInterval
      <4> HIDE DEF new
      <4> QED
        BY <1>1, <3>5, <4>1, <4>2
        DEF SetProcessedTickInterval, EndAttempt, NoTick, ProcessedTick
    <3> QED
      BY <2>3, <3>1, <3>2, <3>3, <3>4, <3>5 DEF ProcessStatus
  <2>4. CASE ProcessingFails
    BY <1>1, <2>4 DEF ProcessingFails, EndAttempt, NoTick, ProcessedTick
  <2> QED
    BY <1>1, <2>1, <2>2, <2>3, <2>4 DEF ProcessOneByOne
<1>2. CASE StartupNext /\ UNCHANGED failures
  <2>1. StoredEpochs \subseteq Epochs
    BY DEF StoredEpochs, IsKeyValue
  <2>2. CASE OpenStore
    BY <1>2, <2>1, <2>2 DEF OpenStore
  <2>3. CASE ResetEmptyTicks
    BY <1>2, <2>3, RemoveType DEF ResetEmptyTicks, DeleteEmptyTicksKeyForEpoch
  <2>4. CASE ResetEmptyTickList
    BY <1>2, <2>4, RemoveType DEF ResetEmptyTickList, DeleteEmptyTickListKeyForEpoch
  <2>5. CASE ResetDone
    BY <1>2, <2>1, <2>5 DEF ResetDone
  <2>6. CASE EmptyTicksKnown
    BY <1>2, <2>6 DEF EmptyTicksKnown
  <2>7. CASE CalculateEmptyTicks
    <3>1. PICK x \in pendingEpochs :
            /\ emptyTicks' = Put(emptyTicks, x, Cardinality(FoundEmptyTicks(x)))
            /\ pendingEpochs' = pendingEpochs \ {x} /\ currentEpoch' = x
      BY <2>7 DEF CalculateEmptyTicks, SetEmptyTicksForEpoch
    <3>2. IsKeyValue(emptyTicks', Epochs, Nat)
      BY <3>1, PutType, FoundEmptyTicksFinite
    <3> QED BY <1>2, <2>7, <3>1, <3>2 DEF CalculateEmptyTicks
  <2>8. CASE CalculateEmptyTickList
    BY <1>2, <2>8, PutType, FoundEmptyTicksFinite
    DEF CalculateEmptyTickList, SetEmptyTickListPerEpoch
  <2>9. CASE CalculationFails
    BY <1>2, <2>9 DEF CalculationFails
  <2>10. CASE CalculationDone
    BY <1>2, <2>10 DEF CalculationDone
  <2>11. CASE Restart
    BY <1>2, <2>11 DEF Restart
  <2> QED
    BY <1>2, <2>2, <2>3, <2>4, <2>5, <2>6, <2>7, <2>8, <2>9, <2>10, <2>11 DEF StartupNext
<1>3. CASE Crash
  BY <1>3 DEF Crash, Fail, NoTick, ProcessedTick
<1>4. CASE WriteFails
  BY <1>4 DEF WriteFails, Fail, EndAttempt, NoTick, ProcessedTick
<1>5. CASE UNCHANGED vars
  BY <1>5 DEF vars
<1> QED
  BY <1>1, <1>2, <1>3, <1>4, <1>5 DEF Next

\* The strengthened type invariant.
LEMMA TypeInvariant == Spec => []TypeInv
BY TypeInit, TypeStep, PTL DEF Spec

\* The types of the store and of the processor's state hold in every state,
\* however startup, attempts, crashes and failed writes follow one another.
THEOREM TypeCorrect == Spec => []TypeOK
<1>1. TypeInv => TypeOK
  BY DEF TypeInv
<1> QED
  BY <1>1, TypeInvariant, PTL

-----------------------------------------------------------------------------
(***************************************************************************)
(* Proofs of the archiver's safety properties, for every network, every    *)
(* set of failure points and every number of failures.                     *)
(*                                                                         *)
(* The properties speak of the stored intervals, skipped ticks and digests; *)
(* none is inductive alone.  StoredInv says what an attempt has written at  *)
(* each of its steps, StatusInv relates the intervals and the skipped ticks *)
(* to the last processed tick, also in the middle of processStatus.         *)
(***************************************************************************)

\* The steps of an attempt at which ValidateTick has stored all of the tick.
StatusSteps ==
  {"emptyInit", "emptyCount", "emptyList", "status", "skipped", "lastTick", "interval"}

StoredInv ==
  /\ \A t \in Ticks : transfers[t] \subseteq TransferIds[t]
  /\ pc \in {"lastQuorum", "tickData"} => {"quorum"} \subseteq records[tick]
  /\ pc = "transactions" => {"quorum", "tickData"} \subseteq records[tick]
  /\ pc = "transfers" =>
       /\ {"quorum", "tickData", "transactions"} \subseteq records[tick]
       /\ pendingIdentities \subseteq TransferIds[tick]
       /\ TransferIds[tick] \subseteq transfers[tick] \cup pendingIdentities
  /\ pc \in {"chain", "storeDigest"} =>
       records[tick] = RecordKinds /\ transfers[tick] = TransferIds[tick]
  /\ pc = "storeDigest" => tick \in DOMAIN chainDigest
  /\ pc \in StatusSteps => Complete(tick)

\* Ticks of epoch e that are archived.
Archived(t, e) == t \in Ticks /\ EpochOf(t) = e /\ Complete(t)

Intervals(e) == processedTickIntervals[e]
LastInterval(e) == Intervals(e)[Len(Intervals(e))]

\* An interval starts at a tick of its epoch, and its ticks are archived.
IntervalInv ==
  \A e \in Epochs : \A k \in DOMAIN Intervals(e) :
    /\ Intervals(e)[k].initial \in Ticks
    /\ EpochOf(Intervals(e)[k].initial) = e
    /\ \A t \in Intervals(e)[k].initial .. Intervals(e)[k].last : Archived(t, e)

\* The last interval of the current epoch may be extended up to the last
\* processed tick, even if a crash kept SetLastProcessedTick from doing so.
ExtensionInv ==
  \A e \in Epochs :
    (e = lastProcessedTick.epoch /\ Intervals(e) # <<>>) =>
      \A t \in LastInterval(e).initial .. lastProcessedTick.tickNumber : Archived(t, e)

\* Between the writes of processStatus after a gap: the new interval is there,
\* and then the skipped ticks.
GapInv ==
  /\ pc = "skipped" => TickGap # 1
  /\ (pc \in {"skipped", "lastTick"} /\ TickGap # 1) =>
       /\ Intervals(nextTick.epoch) # <<>>
       /\ LastInterval(nextTick.epoch).initial = tick
  /\ (pc = "lastTick" /\ TickGap # 1) =>
       \E k \in DOMAIN skippedTicks :
         skippedTicks[k] = [startTick |-> lastProcessedTick.tickNumber + 1,
                            endTick |-> tick - 1]

\* A tick number that was passed over, be it a tick of the network or not, is
\* listed as skipped, and an interval starts after it.
Stored(n) == n \in Ticks /\ Complete(n)

PassedOverInv ==
  \A n \in 1 .. lastProcessedTick.tickNumber :
    ~Stored(n) =>
      /\ InSkippedTicks(n)
      /\ \E e \in Epochs : \E k \in DOMAIN Intervals(e) : n < Intervals(e)[k].initial

StatusInv == IntervalInv /\ ExtensionInv /\ GapInv /\ PassedOverInv

SafetyInv == TypeInv /\ StoredInv /\ StatusInv

-----------------------------------------------------------------------------
(* Which steps write what. *)

TickWrite ==
  \/ StoreQuorumVotes           \/ StoreTickData
  \/ StoreTickTransactions      \/ StoreTransferTransactions
  \/ StoreTransactionsStatus    \/ ComputeAndSave
  \/ ComputeStoreAndSave

\* A step that is not one of processStatus leaves the status keys alone and
\* does not enter the middle of processStatus.
LEMMA OtherSteps ==
  ASSUME [Next]_vars
  PROVE  \/ ProcessStatus
         \/ UNCHANGED statusVars /\ pc' \notin {"skipped", "lastTick"}
         \/ UNCHANGED vars
<1> USE DEF storeVars, Goto
<1>1. CASE ProcessOneByOne /\ UNCHANGED <<startupVars, failures>>
  <2>1. CASE GetTickInfo
    BY <2>1 DEF GetTickInfo, StartAttempt, TickInTheFuture
  <2>2. CASE ValidateTick
    BY <2>2 DEF ValidateTick, StoreComputors, StoreTargetTickVoteSignature,
      ValidateVotesAndTickData, StoreQuorumVotes, StoreLastQuorumOfInterval,
      StoreTickData, StoreTickTransactions, StoreTransferTransactions,
      StoreTransactionsStatus, ComputeAndSave, ComputeStoreAndSave, AfterDigests,
      InitEmptyTickList, CountEmptyTick, ListEmptyTick
  <2>3. CASE ProcessingFails
    BY <2>3 DEF ProcessingFails, EndAttempt
  <2> QED
    BY <1>1, <2>1, <2>2, <2>3 DEF ProcessOneByOne
<1>2. CASE StartupNext
  BY <1>2 DEF StartupNext, OpenStore, ResetEmptyTicks, ResetEmptyTickList, ResetDone,
    EmptyTicksKnown, CalculateEmptyTicks, CalculateEmptyTickList, CalculationFails,
    CalculationDone, Restart
<1>3. CASE Crash
  BY <1>3 DEF Crash
<1>4. CASE WriteFails
  BY <1>4 DEF WriteFails, EndAttempt
<1> QED
  BY <1>1, <1>2, <1>3, <1>4 DEF Next

\* The per-tick keys are only written by the steps of ValidateTick that store
\* the tick.
LEMMA TickSteps ==
  ASSUME [Next]_vars
  PROVE  TickWrite \/ UNCHANGED tickVars
<1> USE DEF storeVars
<1>1. CASE ProcessOneByOne /\ UNCHANGED <<startupVars, failures>>
  <2>1. CASE GetTickInfo
    BY <2>1 DEF GetTickInfo, StartAttempt, TickInTheFuture
  <2>2. CASE ValidateTick
    BY <2>2 DEF ValidateTick, TickWrite, StoreComputors, StoreTargetTickVoteSignature,
      ValidateVotesAndTickData, StoreLastQuorumOfInterval,
      InitEmptyTickList, CountEmptyTick, ListEmptyTick
  <2>3. CASE ProcessStatus
    BY <2>3 DEF ProcessStatus, NoSkippedTicks, AppendInterval, SetSkippedTicks,
      SetLastProcessedTick, SetProcessedTickInterval
  <2>4. CASE ProcessingFails
    BY <2>4 DEF ProcessingFails
  <2> QED
    BY <1>1, <2>1, <2>2, <2>3, <2>4 DEF ProcessOneByOne
<1>2. CASE StartupNext
  BY <1>2 DEF StartupNext, OpenStore, ResetEmptyTicks, ResetEmptyTickList, ResetDone,
    EmptyTicksKnown, CalculateEmptyTicks, CalculateEmptyTickList, CalculationFails,
    CalculationDone, Restart
<1>3. CASE Crash
  BY <1>3 DEF Crash
<1>4. CASE WriteFails
  BY <1>4 DEF WriteFails
<1>5. CASE UNCHANGED vars
  BY <1>5 DEF vars
<1> QED
  BY <1>1, <1>2, <1>3, <1>4, <1>5 DEF Next

\* Such a write is in an attempt, adds to the keys of its tick and touches
\* those of no other.
LEMMA TickWriteEffect ==
  ASSUME TypeInv, TickWrite
  PROVE  /\ tick \in Ticks /\ lastProcessedTick.tickNumber < tick
         /\ \A t \in Ticks : records[t] \subseteq records'[t] /\ transfers[t] \subseteq transfers'[t]
         /\ \A t \in Ticks : t # tick => records'[t] = records[t] /\ transfers'[t] = transfers[t]
         /\ DOMAIN chainDigest \subseteq DOMAIN chainDigest'
         /\ DOMAIN chainDigest' \subseteq DOMAIN chainDigest \cup {tick}
         /\ \A t \in DOMAIN chainDigest : t # tick => chainDigest'[t] = chainDigest[t]
         /\ DOMAIN storeDigest \subseteq DOMAIN storeDigest'
         /\ DOMAIN storeDigest' \subseteq DOMAIN storeDigest \cup {tick}
         /\ \A t \in DOMAIN storeDigest : t # tick => storeDigest'[t] = storeDigest[t]
<1>0. pc \in AttemptSteps /\ pc # "interval"
  BY DEF TickWrite, StoreQuorumVotes, StoreTickData, StoreTickTransactions,
    StoreTransferTransactions, StoreTransactionsStatus, ComputeAndSave,
    ComputeStoreAndSave, AttemptSteps
<1>1. tick \in Ticks /\ lastProcessedTick.tickNumber < tick
  BY <1>0 DEF TypeInv, AttemptInv
<1>2. records \in [Ticks -> SUBSET RecordKinds] /\ transfers \in [Ticks -> SUBSET Identities]
  BY DEF TypeInv, TypeOK, StoreTypeOK
<1>3. ASSUME NEW kind, StoreRecord(tick, kind), UNCHANGED <<transfers, chainDigest, storeDigest>>
      PROVE  /\ \A t \in Ticks : records[t] \subseteq records'[t]
             /\ \A t \in Ticks : t # tick => records'[t] = records[t]
  BY <1>1, <1>2, <1>3 DEF StoreRecord
<1>4. CASE StoreQuorumVotes
  BY <1>1, <1>3, <1>4 DEF StoreQuorumVotes, SetQuorumTickData
<1>5. CASE StoreTickData
  BY <1>1, <1>3, <1>5 DEF StoreTickData, SetTickData
<1>6. CASE StoreTickTransactions
  BY <1>1, <1>3, <1>6 DEF StoreTickTransactions, SetTransactions
<1>7. CASE StoreTransferTransactions
  BY <1>1, <1>2, <1>7 DEF StoreTransferTransactions, PutTransferTransactionsPerTick
<1>8. CASE StoreTransactionsStatus
  BY <1>1, <1>3, <1>8 DEF StoreTransactionsStatus, SetTickTransactionsStatus
<1>9. CASE ComputeAndSave
  BY <1>1, <1>9 DEF ComputeAndSave, PutChainDigest, Put
<1>10. CASE ComputeStoreAndSave
  BY <1>1, <1>10 DEF ComputeStoreAndSave, PutStoreDigest, Put
<1> QED
  BY <1>4, <1>5, <1>6, <1>7, <1>8, <1>9, <1>10 DEF TickWrite

-----------------------------------------------------------------------------
(* What an attempt has stored. *)

\* Nothing is stored at the start, and no attempt is under way.
LEMMA StoredInit == Init => StoredInv
BY ContentAssumption DEF Init, StoreInit, StoredInv, StatusSteps

\* A step outside of ValidateTick and processStatus ends or starts an attempt,
\* or does not touch it: none enters a step with something stored.
LEMMA ControlSteps ==
  ASSUME [Next]_vars
  PROVE  \/ ValidateTick \/ ProcessStatus \/ UNCHANGED vars
         \/ /\ UNCHANGED tickVars
            /\ pc' \in {"idle", "computors"} \cup StartupSteps
<1> USE DEF storeVars, Goto, StartupSteps
<1>1. CASE ProcessOneByOne /\ UNCHANGED <<startupVars, failures>>
  <2>1. CASE GetTickInfo
    BY <2>1 DEF GetTickInfo, StartAttempt, TickInTheFuture
  <2>2. CASE ProcessingFails
    BY <2>2 DEF ProcessingFails, EndAttempt
  <2> QED
    BY <1>1, <2>1, <2>2 DEF ProcessOneByOne
<1>2. CASE StartupNext
  BY <1>2 DEF StartupNext, OpenStore, ResetEmptyTicks, ResetEmptyTickList, ResetDone,
    EmptyTicksKnown, CalculateEmptyTicks, CalculateEmptyTickList, CalculationFails,
    CalculationDone, Restart
<1>3. CASE Crash
  BY <1>3 DEF Crash
<1>4. CASE WriteFails
  BY <1>4 DEF WriteFails, EndAttempt
<1> QED
  BY <1>1, <1>2, <1>3, <1>4 DEF Next

\* Each write of an attempt finds what the writes before it have stored.
LEMMA StoredStep ==
  ASSUME TypeInv, StoredInv, [Next]_vars
  PROVE  StoredInv'
<1>0. /\ records \in [Ticks -> SUBSET RecordKinds]
      /\ transfers \in [Ticks -> SUBSET Identities]
      /\ pc \in AttemptSteps => tick \in Ticks
      /\ TransferIds \in [Ticks -> SUBSET Identities]
  BY ContentAssumption DEF TypeInv, TypeOK, StoreTypeOK, AttemptInv
<1> USE DEF StoredInv, storeVars, tickVars, attemptVars, Goto, tick, AttemptSteps, StatusSteps
<1>1. CASE ValidateTick
  <2>1. CASE StoreComputors
    BY <1>0, <2>1 DEF StoreComputors
  <2>2. CASE StoreTargetTickVoteSignature
    BY <1>0, <2>2 DEF StoreTargetTickVoteSignature
  <2>3. CASE ValidateVotesAndTickData
    BY <1>0, <2>3 DEF ValidateVotesAndTickData
  <2>4. CASE StoreQuorumVotes
    BY <1>0, <2>4 DEF StoreQuorumVotes, SetQuorumTickData, StoreRecord
  <2>5. CASE StoreLastQuorumOfInterval
    BY <1>0, <2>5 DEF StoreLastQuorumOfInterval
  <2>6. CASE StoreTickData
    BY <1>0, <2>6 DEF StoreTickData, SetTickData, StoreRecord
  <2>7. CASE StoreTickTransactions
    BY <1>0, <2>7 DEF StoreTickTransactions, SetTransactions, StoreRecord
  <2>8. CASE StoreTransferTransactions
    BY <1>0, <2>8 DEF StoreTransferTransactions, PutTransferTransactionsPerTick
  <2>9. CASE StoreTransactionsStatus
    BY <1>0, <2>9
    DEF StoreTransactionsStatus, SetTickTransactionsStatus, StoreRecord, RecordKinds
  <2>10. CASE ComputeAndSave
    BY <1>0, <2>10 DEF ComputeAndSave, PutChainDigest, Put
  <2>11. CASE ComputeStoreAndSave
    <3>1. tick \in Nat
      BY <1>0, <2>11, SegmentOfTick DEF ComputeStoreAndSave
    <3>2. tick >= StoreDigestFrom => tick \in DOMAIN storeDigest'
      BY <3>1, <2>11, StoreDigestAssumption DEF ComputeStoreAndSave, PutStoreDigest, Put
    <3> QED
      BY <1>0, <2>11, <3>2 DEF ComputeStoreAndSave, AfterDigests, Complete
  <2>12. CASE InitEmptyTickList
    BY <1>0, <2>12 DEF InitEmptyTickList, Complete
  <2>13. CASE CountEmptyTick
    BY <1>0, <2>13 DEF CountEmptyTick, Complete
  <2>14. CASE ListEmptyTick
    BY <1>0, <2>14 DEF ListEmptyTick, Complete
  <2> QED
    BY <1>1, <2>1, <2>2, <2>3, <2>4, <2>5, <2>6, <2>7, <2>8, <2>9, <2>10, <2>11,
       <2>12, <2>13, <2>14 DEF ValidateTick
<1>2. CASE ProcessStatus
  <2>1. UNCHANGED tickVars /\ pc \in StatusSteps
        /\ \/ pc' \in StatusSteps /\ UNCHANGED nextTick
           \/ pc' = "idle"
    BY <1>2 DEF ProcessStatus, NoSkippedTicks, AppendInterval, SetSkippedTicks,
      SetLastProcessedTick, SetProcessedTickInterval, EndAttempt
  <2> QED
    BY <1>0, <2>1 DEF Complete
<1>3. CASE UNCHANGED vars
  BY <1>3 DEF vars, Complete
<1>4. CASE UNCHANGED tickVars /\ pc' \in {"idle", "computors"} \cup StartupSteps
  BY <1>0, <1>4 DEF StartupSteps
<1> QED
  BY <1>1, <1>2, <1>3, <1>4, ControlSteps

\* What is archived stays archived.
LEMMA CompleteStable ==
  ASSUME TypeInv, TypeInv', StoredInv', [Next]_vars, NEW t \in Ticks, Complete(t)
  PROVE  Complete(t)'
<1>1. CASE UNCHANGED tickVars
  BY <1>1 DEF tickVars, Complete
<1>2. CASE TickWrite
  <2>1. /\ records[t] \subseteq records'[t] /\ transfers[t] \subseteq transfers'[t]
        /\ DOMAIN chainDigest \subseteq DOMAIN chainDigest'
        /\ DOMAIN storeDigest \subseteq DOMAIN storeDigest'
    BY <1>2, TickWriteEffect
  <2>2. records'[t] \subseteq RecordKinds /\ transfers'[t] \subseteq TransferIds[t]
    BY DEF TypeInv, TypeOK, StoreTypeOK, StoredInv
  <2> QED
    BY <2>1, <2>2 DEF Complete
<1> QED
  BY <1>1, <1>2, TickSteps

-----------------------------------------------------------------------------
(* Sequences: what Append and the extension of the last interval leave alone. *)

\* Append adds one element at the end and keeps the others in place.
LEMMA AppendFacts ==
  ASSUME NEW S, NEW s \in Seq(S), NEW x \in S
  PROVE  /\ Append(s, x) # <<>> /\ Len(Append(s, x)) \in DOMAIN Append(s, x)
         /\ Append(s, x)[Len(Append(s, x))] = x
         /\ \A k \in DOMAIN s : k \in DOMAIN Append(s, x) /\ Append(s, x)[k] = s[k]
         /\ \A k \in DOMAIN Append(s, x) : k \in DOMAIN s \/ k = Len(Append(s, x))
<1> DEFINE r == Append(s, x)
<1>1. /\ r \in Seq(S) /\ Len(r) = Len(s) + 1 /\ Len(s) \in Nat
      /\ r[Len(s) + 1] = x /\ \A k \in 1 .. Len(s) : r[k] = s[k]
  OBVIOUS
<1>2. DOMAIN s = 1 .. Len(s) /\ DOMAIN r = 1 .. Len(r)
  BY <1>1
<1> HIDE DEF r
<1>3. r # <<>>
  BY <1>1
<1>4. r[Len(r)] = x /\ Len(r) \in DOMAIN r
  BY <1>1, <1>2
<1>5. \A k \in DOMAIN s : k \in DOMAIN r /\ r[k] = s[k]
  BY <1>1, <1>2
<1>6. \A k \in DOMAIN r : k \in DOMAIN s \/ k = Len(r)
  BY <1>1, <1>2
<1> QED BY <1>3, <1>4, <1>5, <1>6 DEF r

\* Moving the end of the last interval keeps every start and the other ends.
LEMMA ExtendFacts ==
  ASSUME NEW s \in Seq(ProcessedTickInterval), s # <<>>, NEW n \in Nat, NEW r,
         r = [s EXCEPT ![Len(s)] = [@ EXCEPT !.last = n]]
  PROVE  /\ Len(s) \in DOMAIN s /\ DOMAIN r = DOMAIN s /\ Len(r) = Len(s)
         /\ \A k \in DOMAIN s : r[k].initial = s[k].initial
         /\ \A k \in DOMAIN s : k # Len(s) => r[k] = s[k]
         /\ r[Len(s)].last = n
<1>1. Len(s) \in Nat /\ DOMAIN s = 1 .. Len(s) /\ Len(s) \in DOMAIN s
  OBVIOUS
<1>2. s[Len(s)] \in ProcessedTickInterval
  BY <1>1
<1>3. PICK x : x = [s[Len(s)] EXCEPT !.last = n]
  OBVIOUS
<1>4. x.initial = s[Len(s)].initial /\ x.last = n /\ x \in ProcessedTickInterval
  BY <1>2, <1>3 DEF ProcessedTickInterval
<1>5. r = [s EXCEPT ![Len(s)] = x]
  BY <1>3
<1>6. DOMAIN r = DOMAIN s /\ \A k \in DOMAIN s : r[k] = IF k = Len(s) THEN x ELSE s[k]
  BY <1>1, <1>5
<1>7. Len(r) = Len(s)
  <2>1. r \in Seq(ProcessedTickInterval)
    BY <1>1, <1>4, <1>5
  <2> QED BY <1>1, <1>6, <2>1
<1> QED BY <1>1, <1>4, <1>6, <1>7

-----------------------------------------------------------------------------
(* The processing status. *)

\* No tick is processed at the start and no interval exists.
LEMMA StatusInit == Init => StatusInv
<1> SUFFICES ASSUME Init PROVE StatusInv
  OBVIOUS
<1>1. \A t \in Ticks : t \in Nat \ {0}
  BY SegmentOfTick
<1> QED
  BY <1>1 DEF Init, StoreInit, StatusInv, IntervalInv, ExtensionInv, GapInv, PassedOverInv,
    Intervals, NoTick

\* Each write of processStatus keeps the intervals and the skipped ticks
\* truthful, so that a crash after any of them does no harm.
LEMMA StatusStep ==
  ASSUME SafetyInv, TypeInv', StoredInv', [Next]_vars
  PROVE  StatusInv'
<1> USE DEF SafetyInv, StatusInv
<1>0. /\ processedTickIntervals \in [Epochs -> Seq(ProcessedTickInterval)]
      /\ skippedTicks \in Seq(SkippedInterval)
      /\ lastProcessedTick.tickNumber \in Nat
      /\ nextTick \in ProcessedTick
  BY DEF TypeInv, TypeOK, StoreTypeOK, ProcessedTick
<1>1. \A t, e : Archived(t, e) => Archived(t, e)'
  BY CompleteStable DEF Archived
<1>2. \A n : ~Stored(n)' => ~Stored(n)
  BY CompleteStable DEF Stored
<1>3. CASE UNCHANGED vars
  BY <1>3 DEF vars, storeVars, statusVars, attemptVars, tickVars, IntervalInv, ExtensionInv,
    GapInv, PassedOverInv, Stored, Intervals, LastInterval, Archived, Complete, InSkippedTicks,
    TickGap, tick
<1>4. CASE UNCHANGED statusVars /\ pc' \notin {"skipped", "lastTick"}
  <2>1. UNCHANGED <<processedTickIntervals, skippedTicks, lastProcessedTick>>
    BY <1>4 DEF statusVars
  <2>2. IntervalInv'
    BY <1>1, <2>1 DEF IntervalInv, Intervals
  <2>3. ExtensionInv'
    BY <1>1, <2>1 DEF ExtensionInv, Intervals, LastInterval
  <2>4. GapInv'
    BY <1>4 DEF GapInv
  <2>5. PassedOverInv'
    BY <1>2, <2>1 DEF PassedOverInv, Intervals, InSkippedTicks
  <2> QED BY <2>2, <2>3, <2>4, <2>5
<1>5. CASE ProcessStatus
  <2>0. /\ tick \in Ticks /\ tick \in Nat \ {0} /\ nextTick.epoch \in Epochs /\ nextTick.epoch = EpochOf(tick)
        /\ pc # "interval" => lastProcessedTick.tickNumber < tick
        /\ pc = "interval" => lastProcessedTick = nextTick
        /\ Archived(tick, nextTick.epoch)
    <3>1. pc \in StatusSteps /\ pc \in AttemptSteps
      BY <1>5 DEF ProcessStatus, NoSkippedTicks, AppendInterval, SetSkippedTicks,
        SetLastProcessedTick, SetProcessedTickInterval, StatusSteps, AttemptSteps
    <3> QED
      BY <3>1, SegmentOfTick DEF TypeInv, AttemptInv, StoredInv, Archived
  <2>1. CASE NoSkippedTicks
    <3>1. UNCHANGED <<processedTickIntervals, skippedTicks, lastProcessedTick, nextTick>>
          /\ pc' = "lastTick" /\ TickGap = 1
      BY <2>1 DEF NoSkippedTicks, storeVars, statusVars, attemptVars, Goto
    <3>2. IntervalInv'
      BY <1>1, <3>1 DEF IntervalInv, Intervals
    <3>3. ExtensionInv'
      BY <1>1, <3>1 DEF ExtensionInv, Intervals, LastInterval
    <3>4. GapInv'
      BY <3>1 DEF GapInv, TickGap, tick
    <3>5. PassedOverInv'
      BY <1>2, <3>1 DEF PassedOverInv, Intervals, InSkippedTicks
    <3> QED BY <3>2, <3>3, <3>4, <3>5
  <2>2. CASE AppendInterval
    <3>e. PICK e \in Epochs : e = nextTick.epoch
      BY <2>0
    <3>n. PICK n \in Ticks : n = tick
      BY <2>0
    <3>0. /\ n \in Nat \ {0} /\ e = EpochOf(n) /\ Archived(n, e)
          /\ pc # "interval" => lastProcessedTick.tickNumber < n
          /\ pc = "interval" => lastProcessedTick.tickNumber = n /\ lastProcessedTick.epoch = e
      BY <2>0, <3>e, <3>n DEF tick
    <3> DEFINE new == Append(Intervals(e), [initial |-> n, last |-> n])
    <3>1. /\ processedTickIntervals' = [processedTickIntervals EXCEPT ![e] = new]
          /\ UNCHANGED <<skippedTicks, lastProcessedTick, nextTick>>
          /\ pc = "status" /\ pc' = "skipped" /\ TickGap # 1
      BY <1>0, <3>0, <3>e, <3>n, <2>2 DEF AppendInterval, AppendProcessedTickInterval, attemptVars, Goto, Intervals
    <3>2. /\ Intervals(e)' = new
          /\ \A x \in Epochs : x # e => Intervals(x)' = Intervals(x)
      BY <1>0, <3>0, <3>1 DEF Intervals
    <3>3. /\ new # <<>> /\ Len(new) \in DOMAIN new
          /\ new[Len(new)] = [initial |-> n, last |-> n]
          /\ \A k \in DOMAIN Intervals(e) : k \in DOMAIN new /\ new[k] = Intervals(e)[k]
          /\ \A k \in DOMAIN new : k \in DOMAIN Intervals(e) \/ k = Len(new)
      <4>1. /\ Intervals(e) \in Seq(ProcessedTickInterval)
            /\ [initial |-> n, last |-> n] \in ProcessedTickInterval
        BY <1>0, <3>0 DEF Intervals, ProcessedTickInterval
      <4> QED BY <4>1, AppendFacts
    <3> HIDE DEF new
    <3>4. IntervalInv'
      <4> SUFFICES ASSUME NEW x \in Epochs, NEW k \in DOMAIN Intervals(x)'
                   PROVE  /\ Intervals(x)'[k].initial \in Ticks
                          /\ EpochOf(Intervals(x)'[k].initial) = x
                          /\ \A t \in Intervals(x)'[k].initial .. Intervals(x)'[k].last :
                               Archived(t, x)'
        BY DEF IntervalInv
      <4>1. CASE x # e \/ k \in DOMAIN Intervals(e)
        BY <1>1, <3>2, <3>3, <4>1 DEF IntervalInv
      <4>2. CASE x = e /\ k = Len(new)
        BY <1>1, <3>0, <3>2, <3>3, <4>2
      <4> QED BY <3>2, <3>3, <4>1, <4>2
    <3>5. ExtensionInv'
      <4> SUFFICES ASSUME NEW x \in Epochs, x = lastProcessedTick.epoch, Intervals(x)' # <<>>,
                          NEW t \in LastInterval(x)'.initial .. lastProcessedTick.tickNumber
                   PROVE  Archived(t, x)'
        BY <3>1 DEF ExtensionInv
      <4>1. CASE x # e
        BY <1>1, <3>2, <4>1 DEF ExtensionInv, LastInterval
      <4>2. CASE x = e
        <5>1. LastInterval(e)'.initial = n
          BY <3>2, <3>3 DEF LastInterval
        <5> QED BY <1>0, <3>0, <3>1, <4>2, <5>1
      <4> QED BY <4>1, <4>2
    <3>6. GapInv'
      <4>1. LastInterval(e)'.initial = n
        BY <3>2, <3>3 DEF LastInterval
      <4> QED BY <3>1, <3>2, <3>3, <3>e, <3>n, <4>1 DEF GapInv, TickGap, tick
    <3>7. PassedOverInv'
      BY <1>2, <3>1, <3>2, <3>3 DEF PassedOverInv, InSkippedTicks
    <3> QED BY <3>4, <3>5, <3>6, <3>7
  <2>3. CASE SetSkippedTicks
    <3> DEFINE gap == [startTick |-> lastProcessedTick.tickNumber + 1, endTick |-> tick - 1]
    <3>1. /\ skippedTicks' = Append(skippedTicks, gap)
          /\ UNCHANGED <<processedTickIntervals, lastProcessedTick, nextTick>>
          /\ pc = "skipped" /\ pc' = "lastTick"
      BY <2>3 DEF SetSkippedTicks, SetSkippedTicksInterval, attemptVars, Goto
    <3>2. /\ \A k \in DOMAIN skippedTicks : k \in DOMAIN skippedTicks' /\ skippedTicks'[k] = skippedTicks[k]
          /\ \E k \in DOMAIN skippedTicks' : skippedTicks'[k] = gap
      <4>1. gap \in SkippedInterval
        BY <1>0, <2>0 DEF SkippedInterval
      <4> HIDE DEF gap
      <4> QED BY <1>0, <3>1, <4>1, AppendFacts
    <3>3. IntervalInv'
      BY <1>1, <3>1 DEF IntervalInv, Intervals
    <3>4. ExtensionInv'
      BY <1>1, <3>1 DEF ExtensionInv, Intervals, LastInterval
    <3>5. GapInv'
      BY <3>1, <3>2 DEF GapInv, TickGap, tick, Intervals, LastInterval
    <3>6. PassedOverInv'
      BY <1>2, <3>1, <3>2 DEF PassedOverInv, Intervals, InSkippedTicks
    <3> QED BY <3>3, <3>4, <3>5, <3>6
  <2>4. CASE SetLastProcessedTick
    <3> DEFINE last == lastProcessedTick.tickNumber
               e == nextTick.epoch
    <3>1. /\ lastProcessedTick' = nextTick
          /\ UNCHANGED <<processedTickIntervals, skippedTicks, nextTick>>
          /\ pc = "lastTick" /\ pc' = "interval"
      BY <2>4 DEF SetLastProcessedTick, CommitLastProcessedTick, attemptVars, Goto
    <3>2. IntervalInv'
      BY <1>1, <3>1 DEF IntervalInv, Intervals
    <3>3. ExtensionInv'
      <4> SUFFICES ASSUME Intervals(e) # <<>>,
                          NEW t \in LastInterval(e).initial .. tick
                   PROVE  Archived(t, e)
        BY <1>1, <3>1 DEF ExtensionInv, Intervals, LastInterval, tick
      <4>1. CASE TickGap # 1
        <5>1. LastInterval(e).initial = tick
          BY <3>1, <4>1 DEF GapInv
        <5> QED BY <2>0, <5>1
      <4>2. CASE TickGap = 1 /\ t # tick
        <5>1. /\ LastInterval(e).initial \in Ticks
              /\ EpochOf(LastInterval(e).initial) = e
              /\ LastInterval(e).initial \in Nat \ {0}
          <6>1. Len(Intervals(e)) \in DOMAIN Intervals(e)
            BY <1>0, <2>0 DEF Intervals
          <6> QED BY <2>0, <6>1, SegmentOfTick DEF IntervalInv, LastInterval
        <5>2. tick = last + 1 /\ t \in LastInterval(e).initial .. last /\ last # 0
          BY <1>0, <2>0, <4>2, <5>1 DEF TickGap
        <5>3. last \in Ticks /\ lastProcessedTick.epoch = EpochOf(last)
          BY <5>2 DEF TypeInv, LastTickInv
        <5>4. EpochOf(last) = e
          <6>1. LastInterval(e).initial <= last /\ last <= tick
            BY <1>0, <5>1, <5>2
          <6>2. e <= EpochOf(last) /\ EpochOf(last) <= e
            BY <2>0, <5>1, <5>3, <6>1, EpochMonotone
          <6>3. e \in Nat /\ EpochOf(last) \in Nat
            BY <2>0, <5>3, SegmentOfTick
          <6> QED BY <6>2, <6>3
        <5> QED BY <2>0, <5>2, <5>3, <5>4 DEF ExtensionInv
      <4>3. CASE t = tick
        BY <2>0, <4>3
      <4> QED BY <4>1, <4>2, <4>3
    <3>4. GapInv'
      BY <3>1 DEF GapInv
    <3>5. PassedOverInv'
      <4> SUFFICES ASSUME NEW t \in 1 .. tick, ~Stored(t)
                   PROVE  /\ InSkippedTicks(t)
                          /\ \E x \in Epochs : \E k \in DOMAIN Intervals(x) : t < Intervals(x)[k].initial
        BY <1>2, <3>1 DEF PassedOverInv, InSkippedTicks, Intervals, tick
      <4>1. t \in Nat /\ t # tick
        BY <2>0 DEF Archived, Stored
      <4>2. CASE t <= last
        BY <1>0, <4>1, <4>2 DEF PassedOverInv
      <4>3. CASE last < t
        <5>1. TickGap # 1
          BY <1>0, <2>0, <4>1, <4>3 DEF TickGap
        <5>2. InSkippedTicks(t)
          <6>1. PICK k \in DOMAIN skippedTicks :
                  skippedTicks[k] = [startTick |-> last + 1, endTick |-> tick - 1]
            BY <3>1, <5>1 DEF GapInv
          <6>2. last + 1 <= t /\ t <= tick - 1
            BY <1>0, <2>0, <4>1, <4>3
          <6> QED BY <6>1, <6>2 DEF InSkippedTicks
        <5>3. Len(Intervals(e)) \in DOMAIN Intervals(e) /\ Intervals(e)[Len(Intervals(e))].initial = tick
          <6>1. Intervals(e) # <<>> /\ LastInterval(e).initial = tick
            BY <3>1, <5>1 DEF GapInv
          <6> QED BY <1>0, <2>0, <6>1 DEF Intervals, LastInterval
        <5>4. t < tick
          BY <2>0, <4>1
        <5> QED BY <2>0, <5>2, <5>3, <5>4
      <4> QED BY <1>0, <4>1, <4>2, <4>3
    <3> QED BY <3>2, <3>3, <3>4, <3>5
  <2>5. CASE SetProcessedTickInterval
    <3>e. PICK e \in Epochs : e = nextTick.epoch
      BY <2>0
    <3>n. PICK n \in Ticks : n = tick
      BY <2>0
    <3>0. /\ n \in Nat \ {0} /\ e = EpochOf(n) /\ Archived(n, e)
          /\ pc # "interval" => lastProcessedTick.tickNumber < n
          /\ pc = "interval" => lastProcessedTick.tickNumber = n /\ lastProcessedTick.epoch = e
      BY <2>0, <3>e, <3>n DEF tick
    <3> DEFINE ptie == Intervals(e)
               new  == IF ptie = <<>> THEN <<[initial |-> n, last |-> n]>>
                       ELSE [ptie EXCEPT ![Len(ptie)] = [@ EXCEPT !.last = n]]
    <3>1. /\ processedTickIntervals' = [processedTickIntervals EXCEPT ![e] = new]
          /\ UNCHANGED <<skippedTicks, lastProcessedTick>>
          /\ pc = "interval" /\ pc' = "idle"
      BY <2>5, <3>e, <3>n DEF SetProcessedTickInterval, ExtendProcessedTickInterval, EndAttempt, Goto, tick, Intervals
    <3>2. /\ Intervals(e)' = new
          /\ \A x \in Epochs : x # e => Intervals(x)' = Intervals(x)
      BY <1>0, <3>0, <3>1 DEF Intervals
    <3>3. CASE ptie = <<>>
      <4>1. /\ new = <<[initial |-> n, last |-> n]>> /\ DOMAIN new = {1} /\ Len(new) = 1
            /\ new[1].initial = n /\ new[1].last = n /\ DOMAIN ptie = {}
        BY <3>3
      <4> HIDE DEF new, ptie
      <4>2. IntervalInv'
        <5>1. \A k \in DOMAIN new : new[k].initial = n /\ new[k].last = n
          BY <4>1
        <5>2. \A k \in DOMAIN Intervals(e)' :
                /\ Intervals(e)'[k].initial \in Ticks /\ EpochOf(Intervals(e)'[k].initial) = e
                /\ \A t \in Intervals(e)'[k].initial .. Intervals(e)'[k].last : Archived(t, e)'
          BY <1>1, <3>0, <3>2, <5>1
        <5>3. \A x \in Epochs : x # e => \A k \in DOMAIN Intervals(x)' :
                /\ Intervals(x)'[k].initial \in Ticks /\ EpochOf(Intervals(x)'[k].initial) = x
                /\ \A t \in Intervals(x)'[k].initial .. Intervals(x)'[k].last : Archived(t, x)'
          BY <1>1, <3>2 DEF IntervalInv
        <5> QED BY <5>2, <5>3 DEF IntervalInv
      <4>3. ExtensionInv'
        <5>1. LastInterval(e)'.initial = n
          BY <3>2, <4>1 DEF LastInterval
        <5> QED BY <1>1, <3>0, <3>1, <5>1 DEF ExtensionInv
      <4>4. PassedOverInv'
        BY <1>2, <3>1, <3>2, <4>1 DEF PassedOverInv, InSkippedTicks, ptie
      <4> QED BY <3>1, <4>2, <4>3, <4>4 DEF GapInv
    <3>4. CASE ptie # <<>>
      <4>1. /\ Len(ptie) \in DOMAIN ptie /\ DOMAIN new = DOMAIN ptie /\ Len(new) = Len(ptie)
            /\ \A k \in DOMAIN ptie : new[k].initial = ptie[k].initial
            /\ \A k \in DOMAIN ptie : k # Len(ptie) => new[k] = ptie[k]
            /\ new[Len(ptie)].last = n
        <5>1. ptie \in Seq(ProcessedTickInterval)
          BY <1>0, <3>0 DEF Intervals
        <5>2. new = [ptie EXCEPT ![Len(ptie)] = [@ EXCEPT !.last = n]]
          BY <3>4
        <5> HIDE DEF new, ptie
        <5> QED BY <3>0, <3>4, <5>1, <5>2, ExtendFacts
      <4> HIDE DEF new
      <4>2. \A t \in LastInterval(e).initial .. n : Archived(t, e)
        BY <3>0, <3>1, <3>4 DEF ExtensionInv
      <4>3. IntervalInv'
        <5>1. \A k \in DOMAIN Intervals(e)' :
                /\ Intervals(e)'[k].initial \in Ticks /\ EpochOf(Intervals(e)'[k].initial) = e
                /\ \A t \in Intervals(e)'[k].initial .. Intervals(e)'[k].last : Archived(t, e)'
          <6> SUFFICES ASSUME NEW k \in DOMAIN ptie
                       PROVE  /\ new[k].initial \in Ticks /\ EpochOf(new[k].initial) = e
                              /\ \A t \in new[k].initial .. new[k].last : Archived(t, e)
            BY <1>1, <3>2, <4>1
          <6>1. CASE k # Len(ptie)
            BY <3>0, <4>1, <6>1 DEF IntervalInv
          <6>2. CASE k = Len(ptie)
            BY <3>0, <4>1, <4>2, <6>2 DEF IntervalInv, LastInterval
          <6> QED BY <6>1, <6>2
        <5>2. \A x \in Epochs : x # e => \A k \in DOMAIN Intervals(x)' :
                /\ Intervals(x)'[k].initial \in Ticks /\ EpochOf(Intervals(x)'[k].initial) = x
                /\ \A t \in Intervals(x)'[k].initial .. Intervals(x)'[k].last : Archived(t, x)'
          BY <1>1, <3>2 DEF IntervalInv
        <5> QED BY <5>1, <5>2 DEF IntervalInv
      <4>4. ExtensionInv'
        <5>1. LastInterval(e)'.initial = LastInterval(e).initial
          BY <3>2, <4>1 DEF LastInterval
        <5> QED BY <1>1, <3>0, <3>1, <4>2, <5>1 DEF ExtensionInv
      <4>5. PassedOverInv'
        BY <1>2, <3>1, <3>2, <4>1 DEF PassedOverInv, InSkippedTicks
      <4> QED BY <3>1, <4>3, <4>4, <4>5 DEF GapInv
    <3> QED BY <3>3, <3>4
  <2> QED
    BY <1>5, <2>1, <2>2, <2>3, <2>4, <2>5 DEF ProcessStatus
<1> QED
  BY <1>3, <1>4, <1>5, OtherSteps

-----------------------------------------------------------------------------
(* The theorems. *)

\* The strengthened invariant: types, what the attempt has stored, and the
\* processing status.
LEMMA SafetyInvariant == Spec => []SafetyInv
<1>1. Init => SafetyInv
  BY TypeInit, StoredInit, StatusInit DEF SafetyInv
<1>2. SafetyInv /\ [Next]_vars => SafetyInv'
  BY TypeStep, StoredStep, StatusStep DEF SafetyInv
<1> QED
  BY <1>1, <1>2, PTL DEF Spec

\* Every tick of a processed interval is archived completely under the
\* interval's epoch: the intervals that SetLastProcessedTick and
\* AppendProcessedTickInterval write can be trusted at any point of time.
THEOREM IntervalsArchived == Spec => []ArchivedComplete
<1>1. SafetyInv => ArchivedComplete
  <2> SUFFICES ASSUME IntervalInv, NEW p \in Positions,
                      NEW t \in IntervalAt(p).initial .. IntervalAt(p).last
               PROVE  t \in Ticks /\ EpochOf(t) = p[1] /\ Complete(t)
    BY DEF SafetyInv, StatusInv, ArchivedComplete
  <2>1. p[1] \in Epochs /\ p[2] \in DOMAIN Intervals(p[1])
    BY DEF Positions, Intervals
  <2> QED
    BY <2>1 DEF IntervalInv, IntervalAt, Intervals, Archived
<1> QED
  BY <1>1, SafetyInvariant, PTL

\* No tick up to the last processed one is lost: it is archived or the skipped
\* ticks name it, whatever crashes fell between the writes of processStatus.
THEOREM NoTickLost == Spec => []NothingLost
<1>1. SafetyInv => NothingLost
  BY SegmentOfTick DEF SafetyInv, StatusInv, PassedOverInv, Stored, NothingLost, TypeInv,
    TypeOK, StoreTypeOK, ProcessedTick
<1> QED
  BY <1>1, SafetyInvariant, PTL

\* A number up to the last processed tick below the start of some interval is
\* turned away by the interceptor, unless it is stored: no interval holds it.
LEMMA SkippedByArchive ==
  ASSUME SafetyInv, NEW n \in Nat, ~Stored(n),
         NEW e \in Epochs, NEW k \in DOMAIN Intervals(e), n < Intervals(e)[k].initial
  PROVE  WasSkippedByArchive(n)
<1>1. <<e, k>> \in Positions /\ n < IntervalAt(<<e, k>>).initial
  BY DEF Positions, Intervals, IntervalAt
<1>2. ASSUME NEW q \in Positions, InInterval(n, IntervalAt(q))
      PROVE  FALSE
  <2>1. q[1] \in Epochs /\ q[2] \in DOMAIN Intervals(q[1])
    BY DEF Positions, Intervals
  <2>2. Intervals(q[1])[q[2]].initial \in Nat
    BY <2>1, SegmentOfTick DEF SafetyInv, StatusInv, IntervalInv
  <2>3. /\ Intervals(q[1])[q[2]].initial <= n
        /\ n <= Intervals(q[1])[q[2]].last
    BY <1>2 DEF InInterval, IntervalAt, Intervals
  <2>4. Intervals(q[1])[q[2]].last \in Nat
    <3>1. Intervals(q[1]) \in Seq(ProcessedTickInterval)
      BY <2>1 DEF SafetyInv, TypeInv, TypeOK, StoreTypeOK, Intervals
    <3>2. Intervals(q[1])[q[2]] \in ProcessedTickInterval
      BY <2>1, <3>1
    <3> QED BY <3>2 DEF ProcessedTickInterval
  <2> QED
    BY <2>1, <2>2, <2>3, <2>4 DEF SafetyInv, StatusInv, IntervalInv, Archived, Stored
<1> QED
  BY <1>1, <1>2 DEF WasSkippedByArchive

\* A tick number that passes the interceptor's check is one of an archived
\* tick, also if the network never produced a tick of that number.
LEMMA PassedCheckStored ==
  ASSUME SafetyInv, NEW n \in Nat \ {0}, TickWithinArchiverIntervals(n)
  PROVE  Stored(n)
<1>1. n \in 1 .. lastProcessedTick.tickNumber
  BY DEF TickWithinArchiverIntervals, SafetyInv, TypeInv, TypeOK, StoreTypeOK, ProcessedTick
<1> SUFFICES ASSUME ~Stored(n) PROVE WasSkippedByArchive(n)
  BY DEF TickWithinArchiverIntervals
<1>2. PICK e \in Epochs : \E k \in DOMAIN Intervals(e) : n < Intervals(e)[k].initial
  BY <1>1 DEF SafetyInv, StatusInv, PassedOverInv
<1> QED
  BY <1>2, SkippedByArchive

\* The interceptor lets a request for a tick pass only if the tick is archived.
THEOREM RequestsAnswered == Spec => []BoundsCheckSound
<1>1. SafetyInv => BoundsCheckSound
  BY PassedCheckStored, SegmentOfTick DEF BoundsCheckSound, Stored
<1> QED
  BY <1>1, SafetyInvariant, PTL

\* A processed tick's records and digests are never written again: attempts
\* write only above the last processed tick.
THEOREM ProcessedTicksFinal == Spec => AppendOnly
<1> DEFINE Kept == \A t \in Ticks :
       t <= lastProcessedTick.tickNumber =>
         /\ records'[t] = records[t]
         /\ transfers'[t] = transfers[t]
         /\ t \in DOMAIN chainDigest <=> t \in DOMAIN chainDigest'
         /\ t \in DOMAIN storeDigest <=> t \in DOMAIN storeDigest'
         /\ t \in DOMAIN chainDigest => chainDigest'[t] = chainDigest[t]
         /\ t \in DOMAIN storeDigest => storeDigest'[t] = storeDigest[t]
<1>1. TypeInv /\ [Next]_vars => Kept
  <2> SUFFICES ASSUME TypeInv, [Next]_vars PROVE Kept
    OBVIOUS
  <2>1. CASE UNCHANGED tickVars
    BY <2>1 DEF tickVars
  <2>2. CASE TickWrite
    <3>1. tick \in Nat /\ lastProcessedTick.tickNumber \in Nat
      BY <2>2, TickWriteEffect, SegmentOfTick DEF TypeInv, TypeOK, StoreTypeOK, ProcessedTick
    <3>2. \A t \in Ticks : t <= lastProcessedTick.tickNumber => t # tick
      BY <2>2, <3>1, TickWriteEffect, SegmentOfTick
    <3> QED
      BY <2>2, <3>2, TickWriteEffect
  <2> QED
    BY <2>1, <2>2, TickSteps
<1>2. TypeInv /\ [Next]_vars => [Kept]_vars
  BY <1>1
<1> HIDE DEF Kept
<1>3. Spec => [][Kept]_vars
  BY <1>2, TypeInvariant, PTL DEF Spec
<1> QED
  BY <1>3 DEF AppendOnly, Kept

\* The last processed tick moves to the next tick or, forward, to the initial
\* tick of a segment, whichever nodes answer in whichever order.
THEOREM ForwardOnly == Spec => NoTickJumped
<1> DEFINE Moves ==
       \/ lastProcessedTick' = lastProcessedTick
       \/ lastProcessedTick'.tickNumber = lastProcessedTick.tickNumber + 1
       \/ /\ lastProcessedTick'.tickNumber > lastProcessedTick.tickNumber
          /\ \E s \in Segments : lastProcessedTick' =
                                 [tickNumber |-> s.initial, epoch |-> s.epoch]
<1>1. TypeInv /\ [Next]_vars => Moves
  <2> SUFFICES ASSUME TypeInv, [Next]_vars PROVE Moves
    OBVIOUS
  <2>1. CASE SetLastProcessedTick
    <3>1. /\ lastProcessedTick' = nextTick /\ nextTick \in ProcessedTick
          /\ tick \in Ticks /\ nextTick.epoch = EpochOf(tick)
          /\ lastProcessedTick.tickNumber < tick
          /\ tick = lastProcessedTick.tickNumber + 1 \/ tick = SegmentOf(tick).initial
      BY <2>1 DEF SetLastProcessedTick, CommitLastProcessedTick, TypeInv, TypeOK,
        AttemptInv, AttemptSteps
    <3>2. /\ SegmentOf(tick) \in Segments
          /\ tick \in Nat /\ lastProcessedTick.tickNumber \in Nat
      BY <3>1, SegmentOfTick DEF TypeInv, TypeOK, StoreTypeOK, ProcessedTick
    <3>3. nextTick = [tickNumber |-> tick, epoch |-> SegmentOf(tick).epoch]
      BY <3>1 DEF ProcessedTick, tick, EpochOf
    <3>4. lastProcessedTick'.tickNumber = tick
      BY <3>1 DEF tick
    <3>5. CASE tick = lastProcessedTick.tickNumber + 1
      BY <3>4, <3>5
    <3>6. CASE tick = SegmentOf(tick).initial
      <4>1. lastProcessedTick' = [tickNumber |-> SegmentOf(tick).initial, epoch |-> SegmentOf(tick).epoch]
        BY <3>1, <3>3, <3>6
      <4> QED BY <3>1, <3>2, <3>4, <4>1
    <3> QED BY <3>1, <3>5, <3>6
  <2>2. CASE ProcessStatus /\ ~SetLastProcessedTick
    BY <2>2 DEF ProcessStatus, NoSkippedTicks, AppendInterval, SetSkippedTicks,
      SetProcessedTickInterval, storeVars, statusVars
  <2>3. CASE UNCHANGED statusVars \/ UNCHANGED vars
    BY <2>3 DEF statusVars, storeVars, vars
  <2> QED
    BY <2>1, <2>2, <2>3, OtherSteps
<1>2. TypeInv /\ [Next]_vars => [Moves]_vars
  BY <1>1
<1> HIDE DEF Moves
<1>3. Spec => [][Moves]_vars
  BY <1>2, TypeInvariant, PTL DEF Spec
<1> QED
  BY <1>3 DEF NoTickJumped, Moves

-----------------------------------------------------------------------------
(***************************************************************************)
(* Proof that the digests of a tick depend on the network only, for every  *)
(* network and every history of failures.                                  *)
(*                                                                         *)
(* A missing previous store digest restarts the store chain, so the proof  *)
(* needs that the tick before is archived completely whenever the tick is  *)
(* not the initial one (LastArchived), and that no store digest lies below *)
(* the first tick that has one (StoreDigestRange).                         *)
(***************************************************************************)

\* The last processed tick is archived completely.
LastArchived ==
  lastProcessedTick.tickNumber # 0 => Complete(lastProcessedTick.tickNumber)

StoreDigestRange == \A t \in DOMAIN storeDigest : t >= StoreDigestFrom

DigestInv == SafetyInv /\ LastArchived /\ StoreDigestRange /\ DigestAgreement

-----------------------------------------------------------------------------
(* Hash chains. *)

\* Hashing t onto the chain of the ticks before it gives the chain up to t.
LEMMA ChainAppend ==
  ASSUME NEW first \in Nat, NEW t \in Nat, first < t
  PROVE  Append(ChainFrom(first, t - 1), t) = ChainFrom(first, t)
<1> DEFINE n == t - first
           s == ChainFrom(first, t - 1)
           r == ChainFrom(first, t)
<1>1. n \in Nat \ {0} /\ t - 1 - first + 1 = n /\ t - first + 1 = n + 1
  OBVIOUS
<1>2. s = [k \in 1 .. n |-> first + k - 1] /\ r = [k \in 1 .. n + 1 |-> first + k - 1]
  BY <1>1 DEF ChainFrom
<1>3. s \in Seq(Int) /\ Len(s) = n /\ \A k \in 1 .. n : s[k] = first + k - 1
  BY <1>1, <1>2
<1>4. r \in Seq(Int) /\ Len(r) = n + 1 /\ \A k \in 1 .. n + 1 : r[k] = first + k - 1
  BY <1>1, <1>2
<1> HIDE DEF s, r
<1>5. /\ Append(s, t) \in Seq(Int) /\ Len(Append(s, t)) = n + 1
      /\ Append(s, t)[n + 1] = t /\ \A k \in 1 .. n : Append(s, t)[k] = s[k]
  BY <1>1, <1>3
<1>6. ASSUME NEW k \in 1 .. n + 1 PROVE Append(s, t)[k] = r[k]
  <2>1. r[k] = first + k - 1
    BY <1>4
  <2>2. CASE k \in 1 .. n
    BY <1>3, <1>5, <2>1, <2>2
  <2>3. CASE k = n + 1
    <3>1. first + (n + 1) - 1 = t
      OBVIOUS
    <3> HIDE DEF n
    <3> QED BY <1>5, <2>1, <2>3, <3>1
  <2>4. k \in 1 .. n \/ k = n + 1
    <3> HIDE DEF n
    <3> QED BY <1>1
  <2> QED BY <2>2, <2>3, <2>4, Zenon
<1>7. Append(s, t) = r
  BY <1>4, <1>5, <1>6, SeqEqual
<1> QED BY <1>7 DEF s, r

\* The chain of one tick.
LEMMA ChainOfOne ==
  ASSUME NEW t \in Nat
  PROVE  <<t>> = ChainFrom(t, t)
BY DEF ChainFrom

-----------------------------------------------------------------------------
(* The inductive step. *)

\* Only SetLastProcessedTick moves the last processed tick, when the tick is
\* stored, and what is stored stays.
LEMMA LastArchivedStep ==
  ASSUME SafetyInv, SafetyInv', LastArchived, [Next]_vars
  PROVE  LastArchived'
<1>0. TypeInv /\ TypeInv' /\ StoredInv /\ StoredInv'
  BY DEF SafetyInv
<1>1. CASE SetLastProcessedTick
  <2>1. /\ lastProcessedTick' = nextTick /\ tick \in Ticks /\ Complete(tick)
    BY <1>0, <1>1 DEF SetLastProcessedTick, CommitLastProcessedTick, StoredInv, StatusSteps,
      TypeInv, AttemptInv, AttemptSteps
  <2>2. PICK n \in Ticks : n = tick /\ Complete(n)
    BY <2>1
  <2>3. Complete(n)'
    BY <1>0, <2>2, CompleteStable
  <2> QED
    BY <2>1, <2>2, <2>3 DEF LastArchived, tick, Complete
<1>2. CASE UNCHANGED lastProcessedTick
  <2>1. CASE lastProcessedTick.tickNumber = 0
    BY <1>2, <2>1 DEF LastArchived
  <2>2. CASE lastProcessedTick.tickNumber # 0
    <3>1. PICK n \in Ticks : n = lastProcessedTick.tickNumber /\ Complete(n)
      BY <1>0, <2>2 DEF LastArchived, TypeInv, LastTickInv
    <3>2. Complete(n)'
      BY <1>0, <3>1, CompleteStable
    <3> QED
      BY <1>2, <3>1, <3>2 DEF LastArchived, Complete
  <2> QED BY <2>1, <2>2
<1>3. SetLastProcessedTick \/ UNCHANGED lastProcessedTick
  <2>1. CASE ProcessStatus
    BY <2>1 DEF ProcessStatus, NoSkippedTicks, AppendInterval, SetSkippedTicks,
      SetProcessedTickInterval, storeVars, statusVars
  <2>2. CASE UNCHANGED statusVars \/ UNCHANGED vars
    BY <2>2 DEF statusVars, storeVars, vars
  <2> QED BY <2>1, <2>2, OtherSteps
<1> QED BY <1>1, <1>2, <1>3

\* A tick after the initial one of its segment follows a processed tick of the
\* same segment, the one just processed.
LEMMA PreviousTick ==
  ASSUME SafetyInv, LastArchived, pc \in AttemptSteps, pc # "interval", tick # initialEpochTick
  PROVE  /\ tick - 1 \in Ticks /\ SegmentOf(tick - 1) = SegmentOf(tick)
         /\ Complete(tick - 1)
         /\ SegmentOf(tick).initial < tick
<1>1. /\ tick \in Ticks /\ initialEpochTick = SegmentOf(tick).initial
      /\ tick = lastProcessedTick.tickNumber + 1
      /\ lastProcessedTick.tickNumber \in Nat
  BY DEF SafetyInv, TypeInv, AttemptInv, TypeOK, StoreTypeOK, ProcessedTick
<1>2. /\ SegmentOf(tick) \in Segments /\ SegmentOf(tick).initial \in Nat \ {0}
      /\ SegmentOf(tick).final \in Nat
      /\ tick \in SegmentOf(tick).initial .. SegmentOf(tick).final
  BY <1>1, SegmentOfTick
<1>3. /\ tick - 1 \in SegmentOf(tick).initial .. SegmentOf(tick).final
      /\ SegmentOf(tick).initial < tick
      /\ tick - 1 = lastProcessedTick.tickNumber /\ tick - 1 # 0
  BY <1>1, <1>2
<1>4. tick - 1 \in Ticks /\ SegmentOf(tick - 1) = SegmentOf(tick)
  BY <1>2, <1>3, SegmentUnique
<1>5. Complete(tick - 1)
  BY <1>3 DEF LastArchived
<1> QED BY <1>3, <1>4, <1>5

\* Each digest written extends the chain of its segment by the tick.
LEMMA DigestStep ==
  ASSUME DigestInv, [Next]_vars
  PROVE  DigestAgreement'
<1>0. SafetyInv /\ TypeInv /\ LastArchived /\ StoreDigestRange /\ DigestAgreement
  BY DEF DigestInv, SafetyInv
<1>1. CASE ComputeAndSave
  <2>1. PICK n \in Ticks : n = tick
    BY <1>0, <1>1 DEF ComputeAndSave, TypeInv, AttemptInv, AttemptSteps
  <2>2. /\ n \in Nat /\ SegmentOf(n).initial \in Nat /\ initialEpochTick = SegmentOf(n).initial
        /\ pc = "chain" /\ UNCHANGED storeDigest
    BY <1>0, <1>1, <2>1, SegmentOfTick
    DEF ComputeAndSave, TypeInv, AttemptInv, AttemptSteps
  <2>3. PICK d : /\ d = IF n = initialEpochTick THEN <<n>> ELSE Append(chainDigest[n - 1], n)
                 /\ chainDigest' = Put(chainDigest, n, d)
    BY <1>1, <2>1 DEF ComputeAndSave, PutChainDigest
  <2>4. d = ChainFrom(SegmentOf(n).initial, n)
    <3>1. CASE n = initialEpochTick
      BY <2>2, <2>3, <3>1, ChainOfOne
    <3>2. CASE n # initialEpochTick
      <4>1. /\ n - 1 \in Ticks /\ SegmentOf(n - 1) = SegmentOf(n) /\ SegmentOf(n).initial < n
        BY <1>0, <2>1, <2>2, <3>2, PreviousTick DEF AttemptSteps
      <4>2. n - 1 \in DOMAIN chainDigest
        BY <1>1, <2>1, <3>2 DEF ComputeAndSave, HasPrevChainDigest
      <4>3. chainDigest[n - 1] = ChainFrom(SegmentOf(n).initial, n - 1)
        BY <1>0, <4>1, <4>2 DEF DigestAgreement
      <4> QED BY <2>2, <2>3, <3>2, <4>1, <4>3, ChainAppend
    <3> QED BY <3>1, <3>2
  <2>5. /\ DOMAIN chainDigest' = DOMAIN chainDigest \cup {n}
        /\ \A t \in DOMAIN chainDigest' :
             chainDigest'[t] = IF t = n THEN d ELSE chainDigest[t]
    BY <2>3 DEF Put
  <2> QED BY <1>0, <2>2, <2>4, <2>5 DEF DigestAgreement
<1>2. CASE ComputeStoreAndSave
  <2>1. PICK n \in Ticks : n = tick
    BY <1>0, <1>2 DEF ComputeStoreAndSave, TypeInv, AttemptInv, AttemptSteps
  <2>2. /\ n \in Nat /\ SegmentOf(n).initial \in Nat /\ initialEpochTick = SegmentOf(n).initial
        /\ pc = "storeDigest" /\ UNCHANGED chainDigest /\ StoreDigestFrom \in Nat
    BY <1>0, <1>2, <2>1, SegmentOfTick, StoreDigestAssumption
    DEF ComputeStoreAndSave, TypeInv, AttemptInv, AttemptSteps
  <2>3. CASE n < StoreDigestFrom
    BY <1>0, <1>2, <2>1, <2>2, <2>3 DEF ComputeStoreAndSave, DigestAgreement
  <2>4. CASE ~(n < StoreDigestFrom)
    <3> DEFINE first == LaterOf(SegmentOf(n).initial, StoreDigestFrom)
    <3>1. PICK d : /\ d = IF n = initialEpochTick \/ n - 1 \notin DOMAIN storeDigest
                          THEN <<n>> ELSE Append(storeDigest[n - 1], n)
                   /\ storeDigest' = Put(storeDigest, n, d)
      BY <1>2, <2>1, <2>4 DEF ComputeStoreAndSave, PutStoreDigest
    <3>2. d = ChainFrom(first, n)
      <4>1. CASE n = initialEpochTick
        <5>1. first = n
          BY <2>2, <2>4, <4>1 DEF LaterOf
        <5> QED BY <2>2, <3>1, <4>1, <5>1, ChainOfOne
      <4>2. CASE n # initialEpochTick
        <5>1. /\ n - 1 \in Ticks /\ SegmentOf(n - 1) = SegmentOf(n) /\ SegmentOf(n).initial < n
              /\ Complete(n - 1)
          BY <1>0, <2>1, <2>2, <4>2, PreviousTick DEF AttemptSteps
        <5>2. CASE n - 1 \notin DOMAIN storeDigest
          <6>1. ~(n - 1 >= StoreDigestFrom)
            BY <5>1, <5>2 DEF Complete
          <6>2. first = n
            BY <2>2, <2>4, <5>1, <6>1 DEF LaterOf
          <6> QED BY <2>2, <3>1, <5>2, <6>2, ChainOfOne
        <5>3. CASE n - 1 \in DOMAIN storeDigest
          <6>1. storeDigest[n - 1] = ChainFrom(first, n - 1)
            BY <1>0, <5>1, <5>3 DEF DigestAgreement
          <6>2. CASE first < n
            BY <2>2, <3>1, <4>2, <5>3, <6>1, <6>2, ChainAppend DEF LaterOf
          <6>3. CASE ~(first < n)
            <7>1. n = StoreDigestFrom /\ n - 1 < StoreDigestFrom
              BY <2>2, <2>4, <5>1, <6>3 DEF LaterOf
            <7> QED BY <1>0, <2>2, <5>3, <7>1 DEF StoreDigestRange
          <6> QED BY <6>2, <6>3
        <5> QED BY <5>2, <5>3
      <4> QED BY <4>1, <4>2
    <3>3. /\ DOMAIN storeDigest' = DOMAIN storeDigest \cup {n}
          /\ \A t \in DOMAIN storeDigest' :
               storeDigest'[t] = IF t = n THEN d ELSE storeDigest[t]
      BY <3>1 DEF Put
    <3> QED BY <1>0, <2>2, <3>2, <3>3 DEF DigestAgreement
  <2> QED BY <2>3, <2>4
<1>3. CASE UNCHANGED <<chainDigest, storeDigest>>
  BY <1>0, <1>3 DEF DigestAgreement
<1>4. ComputeAndSave \/ ComputeStoreAndSave \/ UNCHANGED <<chainDigest, storeDigest>>
  <2>1. CASE TickWrite
    BY <2>1 DEF TickWrite, StoreQuorumVotes, StoreTickData, StoreTickTransactions,
      StoreTransferTransactions, StoreTransactionsStatus
  <2>2. CASE UNCHANGED tickVars
    BY <2>2 DEF tickVars
  <2> QED BY <2>1, <2>2, TickSteps
<1> QED BY <1>1, <1>2, <1>3, <1>4

\* ComputeStoreAndSave leaves the ticks below StoreDigestFrom out.
LEMMA StoreDigestRangeStep ==
  ASSUME TypeInv, StoreDigestRange, [Next]_vars
  PROVE  StoreDigestRange'
<1>1. CASE ComputeStoreAndSave
  <2>1. tick \in Nat
    BY <1>1, SegmentOfTick DEF ComputeStoreAndSave, TypeInv, AttemptInv, AttemptSteps
  <2> QED
    BY <1>1, <2>1, StoreDigestAssumption DEF ComputeStoreAndSave, PutStoreDigest, Put, StoreDigestRange
<1>2. CASE UNCHANGED storeDigest
  BY <1>2 DEF StoreDigestRange
<1>3. ComputeStoreAndSave \/ UNCHANGED storeDigest
  <2>1. CASE TickWrite
    BY <2>1 DEF TickWrite, StoreQuorumVotes, StoreTickData, StoreTickTransactions,
      StoreTransferTransactions, StoreTransactionsStatus, ComputeAndSave
  <2>2. CASE UNCHANGED tickVars
    BY <2>2 DEF tickVars
  <2> QED BY <2>1, <2>2, TickSteps
<1> QED BY <1>1, <1>2, <1>3

-----------------------------------------------------------------------------
\* The chain and store digests of a tick are those of the ticks of its segment
\* up to it: two archivers of one network agree on every digest both have,
\* whatever crashes, failed writes and retries ComputeAndSave and
\* ComputeStoreAndSave went through.
THEOREM DigestsAgree == Spec => []DigestAgreement
<1>1. Init => DigestInv
  <2>1. Init => SafetyInv
    BY TypeInit, StoredInit, StatusInit DEF SafetyInv
  <2> QED
    BY <2>1 DEF Init, StoreInit, NoTick, DigestInv, LastArchived, StoreDigestRange, DigestAgreement
<1>2. DigestInv /\ [Next]_vars => DigestInv'
  <2> SUFFICES ASSUME DigestInv, [Next]_vars PROVE DigestInv'
    OBVIOUS
  <2>1. SafetyInv'
    BY TypeStep, StoredStep, StatusStep DEF DigestInv, SafetyInv
  <2> QED
    BY <2>1, LastArchivedStep, StoreDigestRangeStep, DigestStep DEF DigestInv, SafetyInv
<1>3. DigestInv => DigestAgreement
  BY DEF DigestInv
<1> QED
  BY <1>1, <1>2, <1>3, PTL DEF Spec

-----------------------------------------------------------------------------
(***************************************************************************)
(* The archiver implements the ledger, for every network, every set of     *)
(* failure points and every number of failures.                            *)
(***************************************************************************)

-----------------------------------------------------------------------------
(* The ledger's view of the store. *)

\* The last processed tick and the two interval lists decide the head, the
\* skipped and the claimed ticks; the per-tick keys decide the archive.
LEMMA LedgerView ==
  /\ UNCHANGED tickVars => UNCHANGED ArchivedTicks
  /\ UNCHANGED skippedTicks => UNCHANGED SkippedTickNumbers
  /\ UNCHANGED processedTickIntervals => UNCHANGED ClaimedTicks
<1>1. UNCHANGED tickVars => UNCHANGED ArchivedTicks
  BY DEF tickVars, ArchivedTicks, Complete
<1>2. UNCHANGED skippedTicks => UNCHANGED SkippedTickNumbers
  BY DEF SkippedTickNumbers, InSkippedTicks
<1>3. UNCHANGED processedTickIntervals => UNCHANGED ClaimedTicks
  BY DEF ClaimedTicks, Positions, IntervalAt, InInterval
<1> QED BY <1>1, <1>2, <1>3

\* The intervals claim archived ticks only.
LEMMA ClaimedArchived == IntervalInv => ClaimedTicks \subseteq ArchivedTicks
<1> SUFFICES ASSUME IntervalInv, NEW t \in Ticks, NEW p \in Positions, InInterval(t, IntervalAt(p))
             PROVE  Complete(t)
  BY DEF ClaimedTicks, ArchivedTicks
<1>1. p[1] \in Epochs /\ p[2] \in DOMAIN Intervals(p[1])
  BY DEF Positions, Intervals
<1>2. IntervalAt(p) = Intervals(p[1])[p[2]]
  BY DEF IntervalAt, Intervals
<1>3. IntervalAt(p).initial \in Nat /\ t \in Nat
  BY <1>1, <1>2, SegmentOfTick DEF IntervalInv
<1>4. CASE t \in IntervalAt(p).initial .. IntervalAt(p).last
  BY <1>1, <1>2, <1>4 DEF IntervalInv, Archived
<1> QED BY <1>3, <1>4 DEF InInterval

\* A write of ValidateTick touches none of the status keys.
LEMMA TickWriteStatus == TickWrite => UNCHANGED statusVars
BY DEF TickWrite, StoreQuorumVotes, StoreTickData, StoreTickTransactions,
  StoreTransferTransactions, StoreTransactionsStatus, ComputeAndSave,
  ComputeStoreAndSave, storeVars

-----------------------------------------------------------------------------
(* The steps. *)

\* A write of ValidateTick archives its tick, which is above the head, or is
\* not the last that the tick needs.
LEMMA TickWriteLedger ==
  ASSUME SafetyInv, SafetyInv', [Next]_vars, TickWrite
  PROVE  [Ledger!LedgerNext]_(Ledger!ledgerVars)
<1>1. UNCHANGED <<lastProcessedTick.tickNumber, SkippedTickNumbers, ClaimedTicks>>
  BY TickWriteStatus, LedgerView DEF statusVars
<1>2. tick \in Ticks /\ tick > lastProcessedTick.tickNumber
  <2>1. tick \in Ticks /\ lastProcessedTick.tickNumber < tick
    BY TickWriteEffect DEF SafetyInv
  <2>2. tick \in Nat /\ lastProcessedTick.tickNumber \in Nat
    BY <2>1, SegmentOfTick DEF SafetyInv, TypeInv, TypeOK, StoreTypeOK, ProcessedTick
  <2> QED BY <2>1, <2>2
<1>3. ArchivedTicks \subseteq ArchivedTicks'
  BY CompleteStable DEF ArchivedTicks, SafetyInv
<1>4. ArchivedTicks' \subseteq ArchivedTicks \cup {tick}
  <2> SUFFICES ASSUME NEW t \in Ticks, t # tick, Complete(t)' PROVE Complete(t)
    BY DEF ArchivedTicks
  <2> QED BY TickWriteEffect DEF SafetyInv, Complete
<1>5. ArchivedTicks' = ArchivedTicks \/ ArchivedTicks' = ArchivedTicks \cup {tick}
  BY <1>3, <1>4
<1>6. CASE ArchivedTicks' = ArchivedTicks
  BY <1>1, <1>6 DEF Ledger!ledgerVars
<1>7. CASE ArchivedTicks' = ArchivedTicks \cup {tick}
  <2>1. Ledger!ArchiveTick(tick)
    BY <1>1, <1>2, <1>7 DEF Ledger!ArchiveTick
  <2> QED BY <1>2, <2>1 DEF Ledger!LedgerNext
<1> QED BY <1>5, <1>6, <1>7

\* A write of processStatus announces the skipped ticks, moves the head or
\* changes the claims.
LEMMA StatusLedger ==
  ASSUME SafetyInv, SafetyInv', [Next]_vars, ProcessStatus
  PROVE  [Ledger!LedgerNext]_(Ledger!ledgerVars)
<1> USE DEF SafetyInv, StatusInv
<1>0. UNCHANGED tickVars /\ pc \in StatusSteps /\ pc \in AttemptSteps
  BY DEF ProcessStatus, NoSkippedTicks, AppendInterval, SetSkippedTicks,
    SetLastProcessedTick, SetProcessedTickInterval, storeVars, StatusSteps, AttemptSteps
<1>1. UNCHANGED ArchivedTicks
  BY <1>0, LedgerView
<1>2. ClaimedTicks' \subseteq ArchivedTicks
  <2>1. (IntervalInv => ClaimedTicks \subseteq ArchivedTicks)'
    BY ClaimedArchived, PTL
  <2> QED BY <1>1, <2>1
<1>3. CASE NoSkippedTicks
  <2>1. UNCHANGED <<lastProcessedTick, skippedTicks, processedTickIntervals>>
    BY <1>3 DEF NoSkippedTicks, storeVars, statusVars
  <2> QED BY <1>1, <2>1, LedgerView DEF Ledger!ledgerVars
<1>4. CASE AppendInterval \/ SetProcessedTickInterval
  <2>1. UNCHANGED <<lastProcessedTick, skippedTicks>>
    BY <1>4 DEF AppendInterval, SetProcessedTickInterval
  <2>2. Ledger!Claim
    BY <1>1, <1>2, <2>1, LedgerView DEF Ledger!Claim
  <2> QED BY <2>2 DEF Ledger!LedgerNext
<1>5. CASE SetSkippedTicks
  <2> DEFINE gap == [startTick |-> lastProcessedTick.tickNumber + 1, endTick |-> tick - 1]
  <2>1. /\ skippedTicks' = Append(skippedTicks, gap)
        /\ UNCHANGED <<lastProcessedTick, processedTickIntervals>>
    BY <1>5 DEF SetSkippedTicks, SetSkippedTicksInterval
  <2>2. \A k \in DOMAIN skippedTicks :
          k \in DOMAIN skippedTicks' /\ skippedTicks'[k] = skippedTicks[k]
    <3>1. skippedTicks \in Seq(SkippedInterval) /\ skippedTicks' \in Seq(SkippedInterval)
      BY DEF TypeInv, TypeOK, StoreTypeOK
    <3>2. gap \in SkippedInterval
      <4>1. /\ tick \in Nat \ {0} /\ lastProcessedTick.tickNumber \in Nat
        BY <1>0, SegmentOfTick DEF TypeInv, TypeOK, StoreTypeOK, ProcessedTick, AttemptInv
      <4> QED BY <4>1 DEF SkippedInterval
    <3> HIDE DEF gap
    <3> QED BY <2>1, <3>1, <3>2, AppendFacts
  <2>3. SkippedTickNumbers \subseteq SkippedTickNumbers' /\ SkippedTickNumbers' \subseteq Ticks
    BY <2>2 DEF SkippedTickNumbers, InSkippedTicks
  <2>4. Ledger!Announce
    BY <1>1, <2>1, <2>3, LedgerView DEF Ledger!Announce
  <2> QED BY <2>4 DEF Ledger!LedgerNext
<1>6. CASE SetLastProcessedTick
  <2> DEFINE last == lastProcessedTick.tickNumber
  <2>1. /\ lastProcessedTick' = nextTick /\ pc = "lastTick"
        /\ UNCHANGED <<skippedTicks, processedTickIntervals>>
    BY <1>6 DEF SetLastProcessedTick, CommitLastProcessedTick
  <2>2. /\ tick \in Ticks /\ last < tick
        /\ tick = last + 1 \/ tick = SegmentOf(tick).initial
        /\ Complete(tick)
    BY <1>0, <2>1 DEF TypeInv, AttemptInv, StoredInv
  <2>3. /\ SegmentOf(tick) \in Segments
        /\ tick \in Nat /\ last \in Nat
    BY <2>2, SegmentOfTick DEF TypeInv, TypeOK, StoreTypeOK, ProcessedTick
  <2>4. lastProcessedTick'.tickNumber = tick
    BY <2>1 DEF tick
  <2>5. {n \in Ticks : last < n /\ n < tick} \subseteq SkippedTickNumbers
    <3> SUFFICES ASSUME NEW n \in Ticks, last < n, n < tick PROVE InSkippedTicks(n)
      BY DEF SkippedTickNumbers
    <3>1. n \in Nat
      BY SegmentOfTick
    <3>2. TickGap # 1
      BY <2>3, <3>1 DEF TickGap
    <3>3. PICK k \in DOMAIN skippedTicks :
            skippedTicks[k] = [startTick |-> last + 1, endTick |-> tick - 1]
      BY <2>1, <3>2 DEF GapInv
    <3>4. last + 1 <= n /\ n <= tick - 1
      BY <2>3, <3>1
    <3> QED BY <3>3, <3>4 DEF InSkippedTicks
  <2>6. tick > last /\ tick \in ArchivedTicks
    BY <2>2, <2>3 DEF ArchivedTicks
  <2>7. tick = last + 1 \/ tick \in {s.initial : s \in Segments}
    BY <2>2, <2>3
  <2>8. Ledger!Advance(tick)
    BY <1>1, <2>1, <2>4, <2>5, <2>6, <2>7, LedgerView DEF Ledger!Advance
  <2> QED BY <2>2, <2>8 DEF Ledger!LedgerNext
<1> QED
  BY <1>3, <1>4, <1>5, <1>6 DEF ProcessStatus

\* The archiver implements the ledger: with SafetyInv before and after a step,
\* the step is one of the ledger's or changes nothing the ledger sees.
THEOREM LedgerImplemented == Spec => ImplementsLedger
<1>1. Init => Ledger!LedgerInit
  <2> SUFFICES ASSUME Init PROVE Ledger!LedgerInit
    OBVIOUS
  <2>1. lastProcessedTick.tickNumber = 0
    BY DEF Init, StoreInit, NoTick
  <2>2. ArchivedTicks = {}
    BY DEF Init, StoreInit, ArchivedTicks, Complete, RecordKinds
  <2>3. SkippedTickNumbers = {}
    BY DEF Init, StoreInit, SkippedTickNumbers, InSkippedTicks
  <2>4. ClaimedTicks = {}
    BY DEF Init, StoreInit, ClaimedTicks, Positions
  <2> QED BY <2>1, <2>2, <2>3, <2>4 DEF Ledger!LedgerInit
<1>2. SafetyInv /\ SafetyInv' /\ [Next]_vars => [Ledger!LedgerNext]_(Ledger!ledgerVars)
  <2> SUFFICES ASSUME SafetyInv, SafetyInv', [Next]_vars
               PROVE  [Ledger!LedgerNext]_(Ledger!ledgerVars)
    OBVIOUS
  <2>1. CASE TickWrite
    BY <2>1, TickWriteLedger
  <2>2. CASE ProcessStatus
    BY <2>2, StatusLedger
  <2>3. CASE UNCHANGED tickVars /\ UNCHANGED statusVars
    BY <2>3, LedgerView DEF statusVars, Ledger!ledgerVars
  <2>4. CASE UNCHANGED vars
    <3>1. UNCHANGED tickVars /\ UNCHANGED statusVars
      BY <2>4 DEF vars, storeVars
    <3> QED BY <2>3, <3>1
  <2> QED BY <2>1, <2>2, <2>3, <2>4, OtherSteps, TickSteps
<1> QED
  BY <1>1, <1>2, SafetyInvariant, PTL DEF Spec, ImplementsLedger, Ledger!LedgerSpec

-----------------------------------------------------------------------------
(***************************************************************************)
(* Proofs about what failures and restarts leave behind: startup, the      *)
(* empty ticks, and the status that /status shows.                         *)
(*                                                                         *)
(* OrderInv keeps the scan of startup away from an interval that ends       *)
(* before it begins; it needs that an epoch has one segment.  ListedInv     *)
(* keeps the empty ticks of the intervals in the lists; it needs that no    *)
(* operator resets the empty-tick keys.  Both are false without, and hold   *)
(* for failures at any step.                                                *)
(*                                                                         *)
(* The second half is about an archiver whose attempts are not interrupted  *)
(* once they have stored something of their tick (CleanStops).  Its intervals *)
(* and skipped ticks divide the tick numbers, its empty-tick counts are     *)
(* exact, and each interval has the quorum data of its last tick.           *)
(***************************************************************************)

-----------------------------------------------------------------------------
(* The ticks an interval of the epoch claims, or will claim as soon as       *)
(* SetLastProcessedTick extends it.                                          *)

InStoredInterval(t, e) ==
  \E k \in DOMAIN Intervals(e) : t \in Intervals(e)[k].initial .. Intervals(e)[k].last

Extendable(t, e) ==
  /\ e = lastProcessedTick.epoch
  /\ Intervals(e) # <<>>
  /\ t \in LastInterval(e).initial .. lastProcessedTick.tickNumber

Claimable(t, e) == InStoredInterval(t, e) \/ Extendable(t, e)

\* Where processStatus is in an attempt.
LEMMA StatusTick ==
  ASSUME SafetyInv, ProcessStatus
  PROVE  /\ tick \in Ticks /\ tick \in Nat \ {0} /\ nextTick.epoch \in Epochs
         /\ nextTick.epoch = EpochOf(tick)
         /\ pc \in {"status", "skipped", "lastTick", "interval"}
         /\ pc # "interval" => lastProcessedTick.tickNumber < tick
         /\ pc = "interval" => lastProcessedTick = nextTick
<1>1. pc \in {"status", "skipped", "lastTick", "interval"} /\ pc \in AttemptSteps
  BY DEF ProcessStatus, NoSkippedTicks, AppendInterval, SetSkippedTicks,
    SetLastProcessedTick, SetProcessedTickInterval, AttemptSteps
<1> QED
  BY <1>1, SegmentOfTick DEF SafetyInv, TypeInv, AttemptInv

\* A step of processStatus adds at most its own tick to what is claimed; no
\* other step adds a tick.
LEMMA ClaimStep ==
  ASSUME SafetyInv, TypeInv', [Next]_vars, NEW x \in Epochs, NEW t \in Nat, Claimable(t, x)'
  PROVE  Claimable(t, x) \/ (ProcessStatus /\ t = tick)
<1>0. /\ processedTickIntervals \in [Epochs -> Seq(ProcessedTickInterval)]
      /\ lastProcessedTick.tickNumber \in Nat
      /\ nextTick \in ProcessedTick
  BY DEF SafetyInv, TypeInv, TypeOK, StoreTypeOK, ProcessedTick
<1>1. CASE UNCHANGED <<processedTickIntervals, lastProcessedTick>>
  BY <1>1 DEF Claimable, InStoredInterval, Extendable, LastInterval, Intervals
<1>2. CASE ProcessStatus
  <2>0. PICK e \in Epochs, n \in Ticks : e = nextTick.epoch /\ n = tick
    BY <1>2, StatusTick
  <2>1. /\ n \in Nat \ {0} /\ e = EpochOf(n)
        /\ pc # "interval" => lastProcessedTick.tickNumber < n
        /\ pc = "interval" => lastProcessedTick.tickNumber = n /\ lastProcessedTick.epoch = e
    BY <1>2, <2>0, StatusTick DEF tick
  <2>2. Intervals(e) \in Seq(ProcessedTickInterval)
    BY <1>0 DEF Intervals
  <2>3. CASE NoSkippedTicks \/ SetSkippedTicks
    BY <1>1, <2>3 DEF NoSkippedTicks, SetSkippedTicks, storeVars, statusVars
  <2>4. CASE AppendInterval
    <3> DEFINE new == Append(Intervals(e), [initial |-> n, last |-> n])
    <3>1. /\ processedTickIntervals' = [processedTickIntervals EXCEPT ![e] = new]
          /\ UNCHANGED lastProcessedTick /\ pc = "status"
      BY <1>0, <2>0, <2>4 DEF AppendInterval, AppendProcessedTickInterval, Intervals
    <3>2. /\ Intervals(e)' = new
          /\ \A y \in Epochs : y # e => Intervals(y)' = Intervals(y)
      BY <1>0, <3>1 DEF Intervals
    <3>3. /\ new[Len(new)] = [initial |-> n, last |-> n]
          /\ \A k \in DOMAIN new : (k \in DOMAIN Intervals(e) /\ new[k] = Intervals(e)[k]) \/ k = Len(new)
      <4>1. [initial |-> n, last |-> n] \in ProcessedTickInterval
        BY <2>1 DEF ProcessedTickInterval
      <4> QED BY <2>2, <4>1, AppendFacts
    <3> HIDE DEF new
    <3>4. CASE x # e
      BY <3>1, <3>2, <3>4 DEF Claimable, InStoredInterval, Extendable, LastInterval
    <3>5. CASE x = e /\ InStoredInterval(t, e)'
      <4>1. PICK k \in DOMAIN new : t \in new[k].initial .. new[k].last
        BY <3>2, <3>5 DEF InStoredInterval
      <4>2. CASE k = Len(new)
        BY <1>2, <2>0, <2>1, <3>3, <4>1, <4>2
      <4>3. CASE k # Len(new)
        BY <3>3, <3>5, <4>1, <4>3 DEF Claimable, InStoredInterval
      <4> QED BY <4>2, <4>3
    <3>6. CASE x = e /\ Extendable(t, e)'
      <4>1. t \in n .. lastProcessedTick.tickNumber
        BY <3>1, <3>2, <3>3, <3>6 DEF Extendable, LastInterval
      <4> QED BY <1>0, <2>1, <3>1, <4>1
    <3> QED BY <3>4, <3>5, <3>6 DEF Claimable
  <2>5. CASE SetLastProcessedTick
    <3> DEFINE last == lastProcessedTick.tickNumber
    <3>1. /\ lastProcessedTick' = nextTick /\ nextTick.tickNumber = n
          /\ UNCHANGED processedTickIntervals /\ pc = "lastTick"
      BY <2>0, <2>5 DEF SetLastProcessedTick, CommitLastProcessedTick, tick
    <3>2. CASE InStoredInterval(t, x)'
      BY <3>1, <3>2 DEF Claimable, InStoredInterval, Intervals
    <3>3. CASE Extendable(t, x)' /\ t # n
      <4>1. x = e /\ Intervals(e) # <<>> /\ t \in LastInterval(e).initial .. n
        BY <2>0, <3>1, <3>3 DEF Extendable, Intervals, LastInterval
      <4>2. TickGap = 1
        <5>1. TickGap # 1 => LastInterval(e).initial = n
          BY <2>0, <3>1 DEF SafetyInv, StatusInv, GapInv
        <5> QED BY <2>1, <3>3, <4>1, <5>1
      <4>3. /\ LastInterval(e).initial \in Ticks
            /\ EpochOf(LastInterval(e).initial) = e
            /\ LastInterval(e).initial \in Nat \ {0}
        <5>1. Len(Intervals(e)) \in DOMAIN Intervals(e)
          BY <2>2, <4>1
        <5> QED BY <5>1, SegmentOfTick DEF SafetyInv, StatusInv, IntervalInv, LastInterval
      <4>4. n = last + 1 /\ t \in LastInterval(e).initial .. last /\ last # 0
        BY <1>0, <2>0, <2>1, <3>3, <4>1, <4>2, <4>3 DEF TickGap
      <4>5. last \in Ticks /\ lastProcessedTick.epoch = EpochOf(last)
        BY <4>4 DEF SafetyInv, TypeInv, LastTickInv
      <4>6. EpochOf(last) = e
        <5>1. LastInterval(e).initial <= last /\ last <= n
          BY <1>0, <4>3, <4>4
        <5>2. e <= EpochOf(last) /\ EpochOf(last) <= e
          BY <2>1, <4>3, <4>5, <5>1, EpochMonotone
        <5>3. e \in Nat /\ EpochOf(last) \in Nat
          BY <2>1, <4>5, SegmentOfTick
        <5> QED BY <5>2, <5>3
      <4> QED BY <4>1, <4>4, <4>5, <4>6 DEF Claimable, Extendable
    <3>4. CASE t = n
      BY <1>2, <2>0, <3>4
    <3> QED BY <3>2, <3>3, <3>4 DEF Claimable
  <2>6. CASE SetProcessedTickInterval
    <3> DEFINE ptie == Intervals(e)
               new  == IF ptie = <<>> THEN <<[initial |-> n, last |-> n]>>
                       ELSE [ptie EXCEPT ![Len(ptie)] = [@ EXCEPT !.last = n]]
    <3>1. /\ processedTickIntervals' = [processedTickIntervals EXCEPT ![e] = new]
          /\ UNCHANGED lastProcessedTick /\ pc = "interval"
      BY <2>0, <2>6 DEF SetProcessedTickInterval, ExtendProcessedTickInterval, tick, Intervals
    <3>2. /\ Intervals(e)' = new
          /\ \A y \in Epochs : y # e => Intervals(y)' = Intervals(y)
      BY <1>0, <3>1 DEF Intervals
    <3>3. lastProcessedTick.tickNumber = n /\ lastProcessedTick.epoch = e
      BY <2>1, <3>1
    <3>4. CASE x # e
      BY <3>1, <3>2, <3>4 DEF Claimable, InStoredInterval, Extendable, LastInterval
    <3>5. CASE x = e /\ ptie = <<>>
      <4>1. new = <<[initial |-> n, last |-> n]>> /\ DOMAIN new = {1} /\ Len(new) = 1
            /\ new[1].initial = n /\ new[1].last = n
        BY <3>5
      <4> HIDE DEF new
      <4>2. t \in n .. n
        BY <3>1, <3>2, <3>3, <3>5, <4>1 DEF Claimable, InStoredInterval, Extendable, LastInterval
      <4> QED BY <1>2, <2>0, <2>1, <4>2
    <3>6. CASE x = e /\ ptie # <<>>
      <4>1. /\ Len(ptie) \in DOMAIN ptie /\ DOMAIN new = DOMAIN ptie /\ Len(new) = Len(ptie)
            /\ \A k \in DOMAIN ptie : new[k].initial = ptie[k].initial
            /\ \A k \in DOMAIN ptie : k # Len(ptie) => new[k] = ptie[k]
            /\ new[Len(ptie)].last = n
        <5>1. new = [ptie EXCEPT ![Len(ptie)] = [@ EXCEPT !.last = n]] /\ ptie \in Seq(ProcessedTickInterval)
          BY <2>2, <3>6
        <5> HIDE DEF new, ptie
        <5> QED BY <2>1, <3>6, <5>1, ExtendFacts
      <4> HIDE DEF new
      <4>2. CASE InStoredInterval(t, e)'
        <5>1. PICK k \in DOMAIN ptie : t \in new[k].initial .. new[k].last
          BY <3>2, <4>1, <4>2 DEF InStoredInterval
        <5>2. CASE k # Len(ptie)
          BY <3>6, <4>1, <5>1, <5>2 DEF Claimable, InStoredInterval
        <5>3. CASE k = Len(ptie)
          <6>1. t \in LastInterval(e).initial .. n
            BY <4>1, <5>1, <5>3 DEF LastInterval
          <6> QED BY <3>3, <3>6, <6>1 DEF Claimable, Extendable
        <5> QED BY <5>2, <5>3
      <4>3. CASE Extendable(t, e)'
        <5>1. t \in LastInterval(e).initial .. n
          BY <3>1, <3>2, <3>3, <4>1, <4>3 DEF Extendable, LastInterval
        <5> QED BY <3>3, <3>6, <5>1 DEF Claimable, Extendable
      <4> QED BY <3>6, <4>2, <4>3 DEF Claimable
    <3> QED BY <3>4, <3>5, <3>6
  <2> QED
    BY <1>2, <2>3, <2>4, <2>5, <2>6 DEF ProcessStatus
<1> QED
  BY <1>1, <1>2, OtherSteps DEF vars, storeVars, statusVars

-----------------------------------------------------------------------------
(* The order of an interval's ends. *)

\* The network was not restarted inside an epoch.
OneSegmentPerEpoch == \A s, r \in Segments : s.epoch = r.epoch => s = r

\* An interval does not end before it begins, and none begins after the next
\* tick of its epoch: AppendProcessedTickInterval writes the initial tick of the
\* segment before the tick is processed, every other start is processed.
OrderInv ==
  \A e \in Epochs : \A k \in DOMAIN Intervals(e) :
    /\ Intervals(e)[k].initial <= Intervals(e)[k].last
    /\ \/ Intervals(e)[k].initial = SegmentOf(Intervals(e)[k].initial).initial
       \/ Intervals(e)[k].initial <= lastProcessedTick.tickNumber

\* An interval after a step is an old one, the one-tick interval of a gap, or
\* one that SetLastProcessedTick made end at the attempt's tick.
LEMMA IntervalChange ==
  ASSUME SafetyInv, [Next]_vars, NEW x \in Epochs, NEW k \in DOMAIN Intervals(x)'
  PROVE  \/ k \in DOMAIN Intervals(x) /\ Intervals(x)'[k] = Intervals(x)[k]
         \/ /\ AppendInterval /\ x = EpochOf(tick)
            /\ Intervals(x)'[k] = [initial |-> tick, last |-> tick]
         \/ /\ SetProcessedTickInterval /\ x = EpochOf(tick)
            /\ Intervals(x)'[k].last = tick
            /\ \/ Intervals(x)'[k].initial = tick
               \/ /\ k \in DOMAIN Intervals(x)
                  /\ Intervals(x)'[k].initial = Intervals(x)[k].initial
<1>0. processedTickIntervals \in [Epochs -> Seq(ProcessedTickInterval)]
  BY DEF SafetyInv, TypeInv, TypeOK, StoreTypeOK
<1>1. CASE UNCHANGED processedTickIntervals
  BY <1>1 DEF Intervals
<1>2. CASE ProcessStatus
  <2>0. PICK e \in Epochs, n \in Ticks : e = nextTick.epoch /\ n = tick
    BY <1>2, StatusTick
  <2>1. n \in Nat /\ e = EpochOf(n)
    BY <1>2, <2>0, StatusTick
  <2>2. Intervals(e) \in Seq(ProcessedTickInterval)
    BY <1>0 DEF Intervals
  <2>3. CASE AppendInterval
    <3> DEFINE new == Append(Intervals(e), [initial |-> n, last |-> n])
    <3>1. processedTickIntervals' = [processedTickIntervals EXCEPT ![e] = new]
      BY <1>0, <2>0, <2>3 DEF AppendInterval, AppendProcessedTickInterval, Intervals
    <3>2. /\ Intervals(e)' = new
          /\ \A y \in Epochs : y # e => Intervals(y)' = Intervals(y)
      BY <1>0, <3>1 DEF Intervals
    <3>3. /\ new[Len(new)] = [initial |-> n, last |-> n]
          /\ \A i \in DOMAIN new : (i \in DOMAIN Intervals(e) /\ new[i] = Intervals(e)[i]) \/ i = Len(new)
      <4>1. [initial |-> n, last |-> n] \in ProcessedTickInterval
        BY <2>1 DEF ProcessedTickInterval
      <4> QED BY <2>2, <4>1, AppendFacts
    <3> HIDE DEF new
    <3> QED BY <2>0, <2>1, <2>3, <3>2, <3>3
  <2>4. CASE SetProcessedTickInterval
    <3> DEFINE ptie == Intervals(e)
               new  == IF ptie = <<>> THEN <<[initial |-> n, last |-> n]>>
                       ELSE [ptie EXCEPT ![Len(ptie)] = [@ EXCEPT !.last = n]]
    <3>1. processedTickIntervals' = [processedTickIntervals EXCEPT ![e] = new]
      BY <2>0, <2>4 DEF SetProcessedTickInterval, ExtendProcessedTickInterval, tick, Intervals
    <3>2. /\ Intervals(e)' = new
          /\ \A y \in Epochs : y # e => Intervals(y)' = Intervals(y)
      BY <1>0, <3>1 DEF Intervals
    <3>3. CASE ptie = <<>>
      <4>1. DOMAIN new = {1} /\ new[1].initial = n /\ new[1].last = n
        BY <3>3
      <4> HIDE DEF new, ptie
      <4> QED BY <2>0, <2>1, <2>4, <3>2, <4>1
    <3>4. CASE ptie # <<>>
      <4>1. /\ DOMAIN new = DOMAIN ptie
            /\ \A i \in DOMAIN ptie : new[i].initial = ptie[i].initial
            /\ \A i \in DOMAIN ptie : i # Len(ptie) => new[i] = ptie[i]
            /\ new[Len(ptie)].last = n
        <5>1. new = [ptie EXCEPT ![Len(ptie)] = [@ EXCEPT !.last = n]] /\ ptie \in Seq(ProcessedTickInterval)
          BY <2>2, <3>4
        <5> HIDE DEF new, ptie
        <5> QED BY <2>1, <3>4, <5>1, ExtendFacts
      <4> HIDE DEF new
      <4> QED BY <2>0, <2>1, <2>4, <3>2, <4>1
    <3> QED BY <3>3, <3>4
  <2>5. CASE ~AppendInterval /\ ~SetProcessedTickInterval
    BY <1>1, <1>2, <2>5 DEF ProcessStatus, NoSkippedTicks, SetSkippedTicks,
      SetLastProcessedTick, storeVars, statusVars
  <2> QED
    BY <2>3, <2>4, <2>5
<1> QED
  BY <1>1, <1>2, OtherSteps DEF vars, storeVars, statusVars

\* The last processed tick never moves back.
LEMMA LastTickForward ==
  ASSUME SafetyInv, [Next]_vars
  PROVE  lastProcessedTick.tickNumber <= lastProcessedTick'.tickNumber
<1>0. lastProcessedTick.tickNumber \in Nat
  BY DEF SafetyInv, TypeInv, TypeOK, StoreTypeOK, ProcessedTick
<1>1. CASE UNCHANGED lastProcessedTick
  BY <1>0, <1>1
<1>2. CASE SetLastProcessedTick
  <2>1. lastProcessedTick'.tickNumber = tick /\ ProcessStatus /\ pc = "lastTick"
    BY <1>2 DEF SetLastProcessedTick, CommitLastProcessedTick, tick, ProcessStatus
  <2> QED
    BY <1>0, <2>1, StatusTick
<1> QED
  BY <1>1, <1>2, OtherSteps
  DEF vars, storeVars, statusVars, ProcessStatus, NoSkippedTicks, AppendInterval,
    SetSkippedTicks, SetProcessedTickInterval

\* Every step keeps the order: a gap opens an interval at the initial tick of
\* its segment, and an interval is extended to a tick of its only segment.
LEMMA OrderStep ==
  ASSUME OneSegmentPerEpoch, SafetyInv, SafetyInv', OrderInv, [Next]_vars
  PROVE  OrderInv'
<1> SUFFICES ASSUME NEW e \in Epochs, NEW k \in DOMAIN Intervals(e)'
             PROVE  /\ Intervals(e)'[k].initial <= Intervals(e)'[k].last
                    /\ \/ Intervals(e)'[k].initial = SegmentOf(Intervals(e)'[k].initial).initial
                       \/ Intervals(e)'[k].initial <= lastProcessedTick'.tickNumber
  BY DEF OrderInv
<1>0. /\ lastProcessedTick.tickNumber \in Nat /\ lastProcessedTick'.tickNumber \in Nat
      /\ lastProcessedTick.tickNumber <= lastProcessedTick'.tickNumber
  BY LastTickForward DEF SafetyInv, TypeInv, TypeOK, StoreTypeOK, ProcessedTick
<1>1. ASSUME NEW y \in Epochs, NEW i \in DOMAIN Intervals(y)
      PROVE  /\ Intervals(y)[i].initial \in Ticks /\ EpochOf(Intervals(y)[i].initial) = y
             /\ Intervals(y)[i].initial \in Nat
  BY SegmentOfTick DEF SafetyInv, StatusInv, IntervalInv
<1>2. CASE k \in DOMAIN Intervals(e) /\ Intervals(e)'[k] = Intervals(e)[k]
  BY <1>0, <1>1, <1>2 DEF OrderInv
<1>3. CASE AppendInterval /\ Intervals(e)'[k] = [initial |-> tick, last |-> tick]
  <2>1. ProcessStatus /\ pc = "status" /\ TickGap # 1
    BY <1>3 DEF ProcessStatus, AppendInterval
  <2>2. tick \in Nat /\ tick = SegmentOf(tick).initial
    BY <1>0, <2>1, StatusTick DEF SafetyInv, TypeInv, AttemptInv, AttemptSteps, TickGap
  <2> QED
    BY <1>3, <2>2
<1>4. CASE /\ SetProcessedTickInterval /\ e = EpochOf(tick)
           /\ Intervals(e)'[k].last = tick
           /\ \/ Intervals(e)'[k].initial = tick
              \/ /\ k \in DOMAIN Intervals(e)
                 /\ Intervals(e)'[k].initial = Intervals(e)[k].initial
  <2>1. ProcessStatus /\ pc = "interval" /\ lastProcessedTick' = lastProcessedTick
    BY <1>4 DEF ProcessStatus, SetProcessedTickInterval
  <2>2. tick \in Ticks /\ tick \in Nat /\ lastProcessedTick.tickNumber = tick
    BY <2>1, StatusTick DEF tick
  <2>3. CASE Intervals(e)'[k].initial = tick
    BY <1>4, <2>1, <2>2, <2>3
  <2>4. CASE k \in DOMAIN Intervals(e) /\ Intervals(e)'[k].initial = Intervals(e)[k].initial
    <3> DEFINE first == Intervals(e)[k].initial
    <3>1. first \in Ticks /\ first \in Nat /\ EpochOf(first) = EpochOf(tick)
      BY <1>1, <1>4, <2>4
    <3>2. SegmentOf(first) = SegmentOf(tick)
      BY <2>2, <3>1, SegmentOfTick DEF OneSegmentPerEpoch, EpochOf
    <3>3. SegmentOf(first).initial <= tick
      BY <2>2, <3>2, SegmentOfTick
    <3>4. first <= tick
      BY <2>2, <2>4, <3>1, <3>3 DEF OrderInv
    <3> QED
      BY <1>4, <2>1, <2>2, <2>4, <3>4
  <2> QED
    BY <1>4, <2>3, <2>4
<1> QED
  BY <1>2, <1>3, <1>4, IntervalChange

\* Where the intervals are in order the scan of an epoch finds all tick data.
LEMMA ScanSucceeds ==
  ASSUME SafetyInv, NEW e \in Epochs,
         \A k \in DOMAIN Intervals(e) : Intervals(e)[k].initial <= Intervals(e)[k].last
  PROVE  ~ScanFails(e)
<1> SUFFICES ASSUME NEW k \in DOMAIN Intervals(e)
             PROVE  /\ ~(Intervals(e)[k].last + 1 < Intervals(e)[k].initial)
                    /\ \A t \in Intervals(e)[k].initial .. Intervals(e)[k].last :
                         "tickData" \in records[t]
  BY DEF ScanFails, IntervalTicks, Intervals
<1>1. Intervals(e)[k] \in ProcessedTickInterval
  BY DEF SafetyInv, TypeInv, TypeOK, StoreTypeOK, Intervals
<1>2. Intervals(e)[k].initial \in Nat /\ Intervals(e)[k].last \in Nat
  BY <1>1 DEF ProcessedTickInterval
<1>3. Intervals(e)[k].initial <= Intervals(e)[k].last
  OBVIOUS
<1>4. \A t \in Intervals(e)[k].initial .. Intervals(e)[k].last : Archived(t, e)
  BY DEF SafetyInv, StatusInv, IntervalInv
<1> QED
  BY <1>2, <1>3, <1>4 DEF Archived, Complete, RecordKinds

\* CalculateEmptyTicksForAllEpochs never fails, so that run() starts the
\* processor after every crash: the scan of an epoch's intervals finds the tick
\* data of each of their ticks and never wraps around.  The network is not
\* restarted inside an epoch.
THEOREM RestartsSucceed ==
  ASSUME OneSegmentPerEpoch
  PROVE  Spec => []StartupNeverFails
<1> DEFINE Inv == OrderInv /\ StartupNeverFails
<1>1. Init => Inv
  BY DEF Init, StoreInit, OrderInv, StartupNeverFails, Intervals
<1>2. SafetyInv /\ SafetyInv' /\ Inv /\ [Next]_vars => Inv'
  <2> SUFFICES ASSUME SafetyInv, SafetyInv', Inv, [Next]_vars
               PROVE  Inv'
    OBVIOUS
  <2>1. OrderInv'
    BY OrderStep
  <2>2. ~CalculationFails
    <3>1. pendingEpochs \subseteq Epochs
      BY DEF SafetyInv, TypeInv, TypeOK
    <3> QED
      BY <3>1, ScanSucceeds DEF CalculationFails, OrderInv
  <2>3. StartupNeverFails'
    <3> USE DEF StartupNeverFails, Goto
    <3>1. CASE UNCHANGED vars
      BY <3>1 DEF vars
    <3>2. CASE ValidateTick
      BY <3>2 DEF ValidateTick, StoreComputors, StoreTargetTickVoteSignature,
        ValidateVotesAndTickData, StoreQuorumVotes, StoreLastQuorumOfInterval,
        StoreTickData, StoreTickTransactions, StoreTransferTransactions,
        StoreTransactionsStatus, ComputeAndSave, ComputeStoreAndSave, AfterDigests,
        InitEmptyTickList, CountEmptyTick, ListEmptyTick
    <3>3. CASE GetTickInfo \/ ProcessStatus \/ ProcessingFails
      BY <3>3 DEF GetTickInfo, StartAttempt, TickInTheFuture, ProcessStatus, NoSkippedTicks,
        AppendInterval, SetSkippedTicks, SetLastProcessedTick, SetProcessedTickInterval,
        ProcessingFails, EndAttempt
    <3>4. CASE StartupNext
      BY <2>2, <3>4 DEF StartupNext, OpenStore, ResetEmptyTicks, ResetEmptyTickList, ResetDone,
        EmptyTicksKnown, CalculateEmptyTicks, CalculateEmptyTickList, CalculationDone, Restart
    <3>5. CASE Crash \/ WriteFails
      BY <3>5 DEF Crash, WriteFails, EndAttempt
    <3> QED
      BY <3>1, <3>2, <3>3, <3>4, <3>5 DEF Next, ProcessOneByOne
  <2> QED BY <2>1, <2>3
<1> QED
  BY <1>1, <1>2, SafetyInvariant, PTL DEF Spec

-----------------------------------------------------------------------------
(* The lists of empty ticks. *)

\* The empty tick t is in its epoch's list, and the count of the epoch says so:
\* a count of zero makes ValidateTick begin a new list.
Listed(t) ==
  /\ EpochOf(t) \in DOMAIN emptyTickList
  /\ emptyTickList[EpochOf(t)][t] > 0
  /\ EmptyTicksOf(EpochOf(t)) > 0

\* What the intervals claim or will claim is listed, and so is the tick of an
\* attempt from processStatus on.  Startup counts an epoch again only when
\* there is nothing to count, so that the list it stores loses nothing.
ListedInv ==
  /\ pc \notin {"reset", "resetList"}
  /\ \A e \in Epochs : \A t \in EmptyTicks : Claimable(t, e) => Listed(t)
  /\ (pc \in {"status", "skipped", "lastTick", "interval"} /\ tick \in EmptyTicks) => Listed(tick)
  /\ pc = "emptyList" => EmptyTicksOf(EpochOf(tick)) > 0
  /\ pc = "calculateList" => EmptyTicksOf(currentEpoch) = 0

\* The keys of the empty ticks are written by these steps only.
LEMMA EmptyWrites ==
  ASSUME [Next]_vars
  PROVE  \/ UNCHANGED emptyVars
         \/ InitEmptyTickList \/ CountEmptyTick \/ ListEmptyTick
         \/ ResetEmptyTicks \/ ResetEmptyTickList
         \/ CalculateEmptyTicks \/ CalculateEmptyTickList
<1> USE DEF storeVars
<1>1. CASE ProcessOneByOne
  BY <1>1 DEF ProcessOneByOne, GetTickInfo, StartAttempt, TickInTheFuture, ProcessingFails,
    ValidateTick, StoreComputors, StoreTargetTickVoteSignature,
    ValidateVotesAndTickData, StoreQuorumVotes, StoreLastQuorumOfInterval,
    StoreTickData, StoreTickTransactions, StoreTransferTransactions,
    StoreTransactionsStatus, ComputeAndSave, ComputeStoreAndSave,
    ProcessStatus, NoSkippedTicks, AppendInterval, SetSkippedTicks,
    SetLastProcessedTick, SetProcessedTickInterval
<1>2. CASE StartupNext
  BY <1>2 DEF StartupNext, OpenStore, ResetDone, EmptyTicksKnown, CalculationFails,
    CalculationDone, Restart
<1>3. CASE Crash \/ WriteFails \/ UNCHANGED vars
  BY <1>3 DEF Crash, WriteFails, vars
<1> QED
  BY <1>1, <1>2, <1>3 DEF Next

\* An epoch without a count has no empty tick in its intervals, so that startup
\* counts none.
LEMMA NothingToCount ==
  ASSUME SafetyInv, ListedInv, NEW e \in Epochs, EmptyTicksOf(e) = 0
  PROVE  FoundEmptyTicks(e) = {} /\ Cardinality(FoundEmptyTicks(e)) = 0
<1>1. ASSUME NEW f \in FoundEmptyTicks(e)
      PROVE  FALSE
  <2>1. /\ f[1] \in DOMAIN Intervals(e) /\ f[2] \in EmptyTicks
        /\ f[2] \in Intervals(e)[f[1]].initial .. Intervals(e)[f[1]].last
    BY DEF FoundEmptyTicks, IntervalTicks, Intervals
  <2>2. EpochOf(f[2]) = e
    BY <2>1 DEF SafetyInv, StatusInv, IntervalInv, Archived
  <2>3. Listed(f[2])
    BY <2>1 DEF ListedInv, Claimable, InStoredInterval
  <2> QED BY <2>2, <2>3 DEF Listed
<1> QED
  BY <1>1, FS_EmptySet

\* No step takes a tick off a list or sets a count back to zero.
LEMMA ListedStable ==
  ASSUME SafetyInv, ListedInv, [Next]_vars, NEW t \in EmptyTicks, Listed(t)
  PROVE  Listed(t)'
<1>0. /\ t \in Ticks /\ EpochOf(t) \in Epochs
      /\ IsKeyValue(emptyTicks, Epochs, Nat)
      /\ IsKeyValue(emptyTickList, Epochs, [Ticks -> Nat])
  BY ContentAssumption, SegmentOfTick DEF SafetyInv, TypeInv, TypeOK, StoreTypeOK
<1>1. EpochOf(t) \in DOMAIN emptyTicks /\ emptyTicks[EpochOf(t)] > 0
      /\ EpochOf(t) \in DOMAIN emptyTickList /\ emptyTickList[EpochOf(t)][t] > 0
  BY DEF Listed, EmptyTicksOf
<1>2. emptyTicks[EpochOf(t)] \in Nat /\ emptyTickList[EpochOf(t)][t] \in Nat
      /\ emptyTickList[EpochOf(t)] \in [Ticks -> Nat]
  BY <1>0, <1>1 DEF IsKeyValue
<1>3. CASE UNCHANGED emptyVars
  BY <1>3 DEF emptyVars, Listed, EmptyTicksOf
<1>4. CASE InitEmptyTickList
  BY <1>1, <1>4 DEF InitEmptyTickList, SetEmptyTickListPerEpoch, Put, Listed, EmptyTicksOf
<1>5. CASE CountEmptyTick
  BY <1>1, <1>2, <1>5 DEF CountEmptyTick, SetEmptyTicksForEpoch, Put, Listed, EmptyTicksOf
<1>6. CASE ListEmptyTick
  <2> DEFINE e == EpochOf(tick)
             list == [emptyTickList[e] EXCEPT ![tick] = @ + 1]
  <2>1. e \in DOMAIN emptyTickList /\ emptyTickList' = Put(emptyTickList, e, list)
        /\ UNCHANGED emptyTicks
    BY <1>6 DEF ListEmptyTick, AppendEmptyTickToEmptyTickListPerEpoch, SetEmptyTickListPerEpoch
  <2>2. e = EpochOf(t) => list[t] > 0
    BY <1>0, <1>1, <1>2
  <2> HIDE DEF list
  <2> QED
    BY <1>1, <2>1, <2>2 DEF Put, Listed, EmptyTicksOf
<1>7. CASE ResetEmptyTicks \/ ResetEmptyTickList
  BY <1>7 DEF ListedInv, ResetEmptyTicks, ResetEmptyTickList
<1>8. CASE CalculateEmptyTicks
  BY <1>1, <1>8 DEF CalculateEmptyTicks, SetEmptyTicksForEpoch, Put, Listed, EmptyTicksOf
<1>9. CASE CalculateEmptyTickList
  <2>1. EmptyTicksOf(currentEpoch) = 0
    BY <1>9 DEF CalculateEmptyTickList, ListedInv
  <2>2. EpochOf(t) # currentEpoch
    BY <1>1, <2>1 DEF EmptyTicksOf
  <2> QED
    BY <1>1, <1>9, <2>2 DEF CalculateEmptyTickList, SetEmptyTickListPerEpoch, Put, Listed, EmptyTicksOf
<1> QED
  BY <1>3, <1>4, <1>5, <1>6, <1>7, <1>8, <1>9, EmptyWrites

\* Every step keeps the lists complete, as long as nobody resets them.
LEMMA ListedStep ==
  ASSUME ~ResetAllowed, SafetyInv, SafetyInv', ListedInv, [Next]_vars
  PROVE  ListedInv'
<1>0. /\ IsKeyValue(emptyTicks, Epochs, Nat)
      /\ IsKeyValue(emptyTickList, Epochs, [Ticks -> Nat])
      /\ pendingEpochs \subseteq Epochs
  BY DEF SafetyInv, TypeInv, TypeOK, StoreTypeOK
<1>1. \A e \in Epochs : \A t \in EmptyTicks : Claimable(t, e)' => Listed(t)'
  <2> SUFFICES ASSUME NEW e \in Epochs, NEW t \in EmptyTicks, Claimable(t, e)'
               PROVE  Listed(t)'
    OBVIOUS
  <2>1. t \in Nat
    BY ContentAssumption, SegmentOfTick
  <2>2. Claimable(t, e) \/ (ProcessStatus /\ t = tick)
    BY <2>1, ClaimStep DEF SafetyInv
  <2>3. Listed(t)
    BY <2>2, StatusTick DEF ListedInv
  <2> QED BY <2>3, ListedStable
<1> DEFINE Rest ==
      /\ pc' \notin {"reset", "resetList"}
      /\ (pc' \in {"status", "skipped", "lastTick", "interval"} /\ tick' \in EmptyTicks) => Listed(tick)'
      /\ pc' = "emptyList" => EmptyTicksOf(EpochOf(tick))' > 0
      /\ pc' = "calculateList" => EmptyTicksOf(currentEpoch)' = 0
<1> SUFFICES Rest
  BY <1>1 DEF ListedInv
<1>2. CASE UNCHANGED vars
  BY <1>2 DEF ListedInv, vars, storeVars, emptyVars, attemptVars, startupVars, Listed,
    EmptyTicksOf, tick
<1>3. CASE ProcessStatus
  <2>1. pc' \in {"skipped", "lastTick", "interval"} => tick' = tick
    BY <1>3 DEF ProcessStatus, NoSkippedTicks, AppendInterval, SetSkippedTicks,
      SetLastProcessedTick, SetProcessedTickInterval, EndAttempt, Goto, attemptVars, tick
  <2>2. pc' \in {"skipped", "lastTick", "interval", "idle"}
    BY <1>3 DEF ProcessStatus, NoSkippedTicks, AppendInterval, SetSkippedTicks,
      SetLastProcessedTick, SetProcessedTickInterval, EndAttempt, Goto
  <2>3. PICK n \in Ticks : n = tick
    BY <1>3, StatusTick
  <2>4. n \in EmptyTicks => Listed(n)'
    <3>1. n \in EmptyTicks => Listed(n)
      BY <1>3, <2>3, StatusTick DEF ListedInv
    <3> QED BY <3>1, ListedStable
  <2> QED
    BY <2>1, <2>2, <2>3, <2>4 DEF Listed, EmptyTicksOf
<1>4. CASE CountEmptyTick
  <2>1. /\ emptyTicks' = Put(emptyTicks, EpochOf(tick), EmptyTicksOf(EpochOf(tick)) + 1)
        /\ pc' = "emptyList" /\ tick' = tick
    BY <1>4 DEF CountEmptyTick, SetEmptyTicksForEpoch, Goto, attemptVars, tick
  <2>2. EmptyTicksOf(EpochOf(tick)) \in Nat
    BY <1>0 DEF EmptyTicksOf, IsKeyValue
  <2> QED
    BY <2>1, <2>2 DEF EmptyTicksOf, Put
<1>5. CASE ListEmptyTick
  <2> DEFINE e == EpochOf(tick)
             list == [emptyTickList[e] EXCEPT ![tick] = @ + 1]
  <2>1. /\ e \in DOMAIN emptyTickList /\ emptyTickList' = Put(emptyTickList, e, list)
        /\ UNCHANGED emptyTicks /\ pc = "emptyList" /\ pc' = "status" /\ tick' = tick
    BY <1>5 DEF ListEmptyTick, AppendEmptyTickToEmptyTickListPerEpoch, SetEmptyTickListPerEpoch,
      Goto, attemptVars, tick
  <2>2. tick \in Ticks
    BY <2>1 DEF SafetyInv, TypeInv, AttemptInv, AttemptSteps
  <2>3. list[tick] > 0
    <3>1. emptyTickList[e] \in [Ticks -> Nat]
      BY <1>0, <2>1 DEF IsKeyValue
    <3> QED BY <2>2, <3>1
  <2>4. EmptyTicksOf(e) > 0
    BY <2>1 DEF ListedInv
  <2> HIDE DEF list
  <2> QED
    BY <2>1, <2>3, <2>4 DEF Put, Listed, EmptyTicksOf
<1>6. CASE ComputeStoreAndSave
  BY <1>6 DEF ComputeStoreAndSave, AfterDigests, Goto, attemptVars, tick
<1>7. CASE ValidateTick /\ ~CountEmptyTick /\ ~ListEmptyTick /\ ~ComputeStoreAndSave
  <2>1. pc' \in AttemptSteps \ {"status", "skipped", "lastTick", "interval", "emptyList"}
    BY <1>7 DEF ValidateTick, StoreComputors, StoreTargetTickVoteSignature,
      ValidateVotesAndTickData, StoreQuorumVotes, StoreLastQuorumOfInterval,
      StoreTickData, StoreTickTransactions, StoreTransferTransactions,
      StoreTransactionsStatus, ComputeAndSave, InitEmptyTickList, Goto, AttemptSteps
  <2> QED BY <2>1 DEF AttemptSteps
<1>8. CASE CalculateEmptyTicks
  <2>1. PICK e \in pendingEpochs \ DOMAIN emptyTicks :
          /\ emptyTicks' = Put(emptyTicks, e, Cardinality(FoundEmptyTicks(e)))
          /\ currentEpoch' = e
    BY <1>8 DEF CalculateEmptyTicks, SetEmptyTicksForEpoch
  <2>2. e \in Epochs /\ EmptyTicksOf(e) = 0
    BY <1>0, <2>1 DEF EmptyTicksOf
  <2>3. Cardinality(FoundEmptyTicks(e)) = 0
    BY <2>2, NothingToCount
  <2>4. emptyTicks'[currentEpoch'] = 0
    BY <2>1, <2>3 DEF Put
  <2>5. pc' = "calculateList"
    BY <1>8 DEF CalculateEmptyTicks, Goto
  <2> QED
    BY <2>4, <2>5 DEF EmptyTicksOf
<1>9. CASE StartupNext /\ ~CalculateEmptyTicks
  BY <1>9 DEF StartupNext, OpenStore, ResetEmptyTicks, ResetEmptyTickList, ResetDone,
    EmptyTicksKnown, CalculateEmptyTickList, CalculationFails, CalculationDone, Restart,
    ListedInv, Goto
<1>10. CASE GetTickInfo \/ ProcessingFails \/ Crash \/ WriteFails
  BY <1>10 DEF GetTickInfo, StartAttempt, TickInTheFuture, ProcessingFails, Crash, WriteFails,
    EndAttempt, Goto
<1> HIDE DEF Rest
<1> QED
  BY <1>2, <1>3, <1>4, <1>5, <1>6, <1>7, <1>8, <1>9, <1>10 DEF Next, ProcessOneByOne

\* The lists stay complete.
LEMMA ListedInvariant ==
  ASSUME ~ResetAllowed
  PROVE  Spec => []ListedInv
<1>1. Init => ListedInv
  BY DEF Init, StoreInit, ListedInv, Claimable, InStoredInterval, Extendable, Intervals
<1>2. SafetyInv /\ SafetyInv' /\ ListedInv /\ [Next]_vars => ListedInv'
  BY ListedStep
<1> QED
  BY <1>1, <1>2, SafetyInvariant, PTL DEF Spec

\* A list holds empty ticks only.
OnlyEmptyInv ==
  /\ pc \in {"emptyInit", "emptyCount", "emptyList"} => tick \in EmptyTicks
  /\ \A e \in DOMAIN emptyTickList : \A t \in Ticks :
       emptyTickList[e][t] > 0 => t \in EmptyTicks

\* No step lists a tick that is not empty.
LEMMA OnlyEmptyStep ==
  ASSUME SafetyInv, OnlyEmptyInv, [Next]_vars
  PROVE  OnlyEmptyInv'
<1> DEFINE Marks(list) == \A t \in Ticks : list[t] > 0 => t \in EmptyTicks
           Lists == \A e \in DOMAIN emptyTickList : Marks(emptyTickList[e])
           Attempt == pc \in {"emptyInit", "emptyCount", "emptyList"} => tick \in EmptyTicks
<1>1. Attempt'
  <2>1. CASE ValidateTick
    BY <2>1 DEF OnlyEmptyInv, ValidateTick, StoreComputors, StoreTargetTickVoteSignature,
      ValidateVotesAndTickData, StoreQuorumVotes, StoreLastQuorumOfInterval,
      StoreTickData, StoreTickTransactions, StoreTransferTransactions,
      StoreTransactionsStatus, ComputeAndSave, ComputeStoreAndSave, AfterDigests,
      InitEmptyTickList, CountEmptyTick, ListEmptyTick, Goto, attemptVars, tick
  <2>2. CASE ProcessOneByOne /\ ~ValidateTick
    BY <2>2 DEF ProcessOneByOne, GetTickInfo, StartAttempt, TickInTheFuture, ProcessingFails,
      EndAttempt, ProcessStatus, NoSkippedTicks, AppendInterval, SetSkippedTicks,
      SetLastProcessedTick, SetProcessedTickInterval, Goto
  <2>3. CASE StartupNext
    BY <2>3 DEF StartupNext, OpenStore, ResetEmptyTicks, ResetEmptyTickList, ResetDone,
      EmptyTicksKnown, CalculateEmptyTicks, CalculateEmptyTickList, CalculationFails,
      CalculationDone, Restart, Goto
  <2>4. CASE Crash \/ WriteFails
    BY <2>4 DEF Crash, WriteFails, EndAttempt, Goto
  <2>5. CASE UNCHANGED vars
    BY <2>5 DEF OnlyEmptyInv, vars, attemptVars, tick
  <2> QED BY <2>1, <2>2, <2>3, <2>4, <2>5 DEF Next
<1>2. Lists
  BY DEF OnlyEmptyInv
<1>3. ASSUME NEW list, NEW e, Marks(list), emptyTickList' = Put(emptyTickList, e, list)
      PROVE  Lists'
  BY <1>2, <1>3 DEF Put
<1>4. Lists'
  <2>1. CASE UNCHANGED emptyTickList
    BY <1>2, <2>1
  <2>2. CASE InitEmptyTickList
    <3>1. Marks(EmptyList)
      BY DEF EmptyList
    <3> QED BY <1>3, <2>1, <2>2, <3>1 DEF InitEmptyTickList, SetEmptyTickListPerEpoch
  <2>3. CASE ListEmptyTick
    <3>1. PICK e, n : e = EpochOf(tick) /\ n = tick
      OBVIOUS
    <3>2. /\ e \in DOMAIN emptyTickList /\ n \in EmptyTicks
          /\ emptyTickList' = Put(emptyTickList, e, [emptyTickList[e] EXCEPT ![n] = @ + 1])
      BY <2>3, <3>1 DEF ListEmptyTick, AppendEmptyTickToEmptyTickListPerEpoch,
        SetEmptyTickListPerEpoch, OnlyEmptyInv
    <3>3. emptyTickList[e] \in [Ticks -> Nat]
      BY <3>2 DEF SafetyInv, TypeInv, TypeOK, StoreTypeOK, IsKeyValue
    <3>4. Marks([emptyTickList[e] EXCEPT ![n] = @ + 1])
      BY <1>2, <3>2, <3>3
    <3> QED BY <1>3, <3>2, <3>4
  <2>4. CASE CalculateEmptyTickList
    <3>1. Marks(FoundEmptyTickList(currentEpoch))
      <4> SUFFICES ASSUME NEW t \in Ticks, t \notin EmptyTicks
                   PROVE  ~(FoundEmptyTickList(currentEpoch)[t] > 0)
        OBVIOUS
      <4>1. {f \in FoundEmptyTicks(currentEpoch) : f[2] = t} = {}
        BY DEF FoundEmptyTicks
      <4> QED BY <4>1, FS_EmptySet DEF FoundEmptyTickList
    <3> QED BY <1>3, <2>4, <3>1 DEF CalculateEmptyTickList, SetEmptyTickListPerEpoch
  <2>5. CASE ResetEmptyTickList
    BY <1>2, <2>5 DEF ResetEmptyTickList, DeleteEmptyTickListKeyForEpoch, Remove
  <2> QED
    BY <2>1, <2>2, <2>3, <2>4, <2>5, EmptyWrites DEF emptyVars, CountEmptyTick, ResetEmptyTicks,
      CalculateEmptyTicks
<1> QED BY <1>1, <1>4 DEF OnlyEmptyInv

\* The lists never hold a tick that is not empty.
LEMMA OnlyEmptyInvariant == Spec => []OnlyEmptyInv
<1>1. Init => OnlyEmptyInv
  BY DEF Init, StoreInit, OnlyEmptyInv
<1>2. SafetyInv /\ OnlyEmptyInv /\ [Next]_vars => OnlyEmptyInv'
  BY OnlyEmptyStep
<1> QED
  BY <1>1, <1>2, SafetyInvariant, PTL DEF Spec

\* Every empty tick of a processed interval is in the list of its epoch, from
\* which GetEmptyTickListPerEpoch answers, whatever fell between the writes of
\* the count, the list and the intervals.  The operator does not reset the keys.
THEOREM EmptyTicksKept ==
  ASSUME ~ResetAllowed
  PROVE  Spec => []EmptyTicksListed
<1>1. SafetyInv /\ ListedInv => EmptyTicksListed
  <2> SUFFICES ASSUME SafetyInv, ListedInv, NEW p \in Positions, NEW t \in EmptyTicks,
                      InInterval(t, IntervalAt(p))
               PROVE  p[1] \in DOMAIN emptyTickList /\ emptyTickList[p[1]][t] > 0
    BY DEF EmptyTicksListed
  <2>1. p[1] \in Epochs /\ p[2] \in DOMAIN Intervals(p[1])
    BY DEF Positions, Intervals
  <2>2. t \in Intervals(p[1])[p[2]].initial .. Intervals(p[1])[p[2]].last
    <3>1. t \in Nat
      BY ContentAssumption, SegmentOfTick
    <3>2. Intervals(p[1])[p[2]] \in ProcessedTickInterval
      BY <2>1 DEF SafetyInv, TypeInv, TypeOK, StoreTypeOK, Intervals
    <3> QED
      BY <3>1, <3>2 DEF InInterval, IntervalAt, Intervals, ProcessedTickInterval
  <2>3. EpochOf(t) = p[1]
    BY <2>1, <2>2 DEF SafetyInv, StatusInv, IntervalInv, Archived
  <2>4. Listed(t)
    BY <2>1, <2>2 DEF ListedInv, Claimable, InStoredInterval
  <2> QED BY <2>3, <2>4 DEF Listed
<1> QED
  BY <1>1, SafetyInvariant, ListedInvariant, PTL

-----------------------------------------------------------------------------
(* Attempts that are not interrupted.                                        *)

\* Failures strike an attempt before it has stored anything of its tick.
CleanSteps == {"idle", "computors", "target", "validate", "quorum"}
CleanStops == FailureSteps \subseteq CleanSteps

\* The attempt has stored something of its tick and has not recorded it as the
\* last processed one.
UnfinishedSteps ==
  {"lastQuorum", "tickData", "transactions", "transfers", "chain", "storeDigest",
   "emptyInit", "emptyCount", "emptyList", "status", "skipped", "lastTick"}

\* A count of empty ticks comes with a list, so that no attempt fails for want
\* of one; between the two writes of startup there may be one of the two.
KeyInv ==
  /\ \A e \in DOMAIN emptyTicks :
       e \in DOMAIN emptyTickList \/ (pc = "calculateList" /\ e = currentEpoch)
  /\ pc \in {"emptyCount", "emptyList"} => EpochOf(tick) \in DOMAIN emptyTickList
  /\ pc = "resetList" => currentEpoch \notin DOMAIN emptyTicks

\* An attempt that has stored something goes on to its end.
LEMMA NotGivenUp ==
  ASSUME CleanStops, SafetyInv, LastArchived, KeyInv, [Next]_vars,
         pc \in UnfinishedSteps \cup {"interval"}
  PROVE  ValidateTick \/ ProcessStatus \/ UNCHANGED vars
<1>0. pc \notin CleanSteps /\ pc \notin StartupSteps /\ pc \in AttemptSteps
  BY DEF UnfinishedSteps, CleanSteps, StartupSteps, AttemptSteps
<1>1. ~Crash /\ ~WriteFails
  BY <1>0 DEF Crash, WriteFails, Fail, CleanStops
<1>2. ~StartupNext
  BY <1>0 DEF StartupNext, OpenStore, ResetEmptyTicks, ResetEmptyTickList, ResetDone,
    EmptyTicksKnown, CalculateEmptyTicks, CalculateEmptyTickList, CalculationFails,
    CalculationDone, Restart, StartupSteps
<1>3. ~GetTickInfo
  BY <1>0 DEF GetTickInfo, StartAttempt, TickInTheFuture, CleanSteps
<1>4. ~ProcessingFails
  <2>1. pc = "chain" => HasPrevChainDigest
    <3> SUFFICES ASSUME pc = "chain", tick # initialEpochTick
                 PROVE  tick - 1 \in DOMAIN chainDigest
      BY DEF HasPrevChainDigest
    <3> QED BY <1>0, PreviousTick DEF Complete
  <2> QED BY <1>0, <2>1 DEF ProcessingFails, ValidateTickFails, KeyInv, CleanSteps
<1> QED
  BY <1>1, <1>2, <1>3, <1>4 DEF Next, ProcessOneByOne

\* Every step keeps the keys of the empty ticks together.
LEMMA KeyStep ==
  ASSUME CleanStops, SafetyInv, LastArchived, KeyInv, [Next]_vars
  PROVE  KeyInv'
<1> USE DEF KeyInv, Goto, tick, attemptVars, storeVars, emptyVars
<1>1. CASE UNCHANGED vars
  BY <1>1 DEF vars, startupVars
<1>2. CASE ValidateTick
  <2>0. pc \in AttemptSteps
    BY <1>2 DEF ValidateTick, StoreComputors, StoreTargetTickVoteSignature,
      ValidateVotesAndTickData, StoreQuorumVotes, StoreLastQuorumOfInterval,
      StoreTickData, StoreTickTransactions, StoreTransferTransactions,
      StoreTransactionsStatus, ComputeAndSave, ComputeStoreAndSave,
      InitEmptyTickList, CountEmptyTick, ListEmptyTick, AttemptSteps
  <2>1. CASE InitEmptyTickList
    BY <2>1 DEF InitEmptyTickList, SetEmptyTickListPerEpoch, EmptyTicksOf, Put
  <2>2. CASE CountEmptyTick
    BY <2>2 DEF CountEmptyTick, SetEmptyTicksForEpoch, Put
  <2>3. CASE ListEmptyTick
    BY <2>3 DEF ListEmptyTick, AppendEmptyTickToEmptyTickListPerEpoch,
      SetEmptyTickListPerEpoch, Put
  <2>4. CASE ~InitEmptyTickList /\ ~CountEmptyTick /\ ~ListEmptyTick
    <3>1. UNCHANGED emptyVars
          /\ pc' \in AttemptSteps \ {"emptyCount", "emptyList"}
      BY <1>2, <2>4 DEF ValidateTick, StoreComputors, StoreTargetTickVoteSignature,
        ValidateVotesAndTickData, StoreQuorumVotes, StoreLastQuorumOfInterval,
        StoreTickData, StoreTickTransactions, StoreTransferTransactions,
        StoreTransactionsStatus, ComputeAndSave, ComputeStoreAndSave, AfterDigests,
        AttemptSteps
    <3> QED BY <2>0, <3>1 DEF AttemptSteps
  <2> QED BY <2>1, <2>2, <2>3, <2>4
<1>3. CASE GetTickInfo \/ ProcessStatus \/ ProcessingFails
  <2>1. /\ UNCHANGED emptyVars /\ pc # "calculateList"
        /\ pc' \in {"idle", "computors", "skipped", "lastTick", "interval"}
    BY <1>3 DEF GetTickInfo, StartAttempt, TickInTheFuture, ProcessStatus, NoSkippedTicks,
      AppendInterval, SetSkippedTicks, SetLastProcessedTick, SetProcessedTickInterval,
      ProcessingFails, ValidateTickFails, EndAttempt
  <2> QED BY <2>1
<1>4. CASE Crash \/ WriteFails
  BY <1>4 DEF Crash, WriteFails, Fail, EndAttempt, CleanStops, CleanSteps
<1>5. CASE StartupNext
  <2>1. CASE ResetEmptyTicks
    BY <2>1 DEF ResetEmptyTicks, DeleteEmptyTicksKeyForEpoch, Remove
  <2>2. CASE ResetEmptyTickList
    BY <2>2 DEF ResetEmptyTickList, DeleteEmptyTickListKeyForEpoch, Remove
  <2>3. CASE CalculateEmptyTicks
    BY <2>3 DEF CalculateEmptyTicks, SetEmptyTicksForEpoch, Put
  <2>4. CASE CalculateEmptyTickList
    BY <2>4 DEF CalculateEmptyTickList, SetEmptyTickListPerEpoch, Put
  <2>5. CASE OpenStore \/ ResetDone \/ EmptyTicksKnown \/ CalculationFails
             \/ CalculationDone \/ Restart
    BY <2>5 DEF OpenStore, ResetDone, EmptyTicksKnown, CalculationFails, CalculationDone, Restart
  <2> QED
    BY <1>5, <2>1, <2>2, <2>3, <2>4, <2>5 DEF StartupNext
<1> QED
  BY <1>1, <1>2, <1>3, <1>4, <1>5 DEF Next, ProcessOneByOne

\* Above the last processed tick only the tick of an unfinished attempt has
\* records: a tick that was passed over has none.
FreshInv ==
  \A t \in Ticks :
    (lastProcessedTick.tickNumber < t /\ records[t] # {}) =>
      pc \in UnfinishedSteps /\ t = tick

\* Every step keeps ticks that were not attempted without records.
LEMMA FreshStep ==
  ASSUME CleanStops, SafetyInv, SafetyInv', LastArchived, KeyInv, FreshInv, [Next]_vars
  PROVE  FreshInv'
<1>0. /\ lastProcessedTick.tickNumber \in Nat /\ lastProcessedTick'.tickNumber \in Nat
      /\ lastProcessedTick.tickNumber <= lastProcessedTick'.tickNumber
      /\ \A t \in Ticks : t \in Nat
  BY LastTickForward, SegmentOfTick DEF SafetyInv, TypeInv, TypeOK, StoreTypeOK, ProcessedTick
<1>1. CASE UNCHANGED vars
  BY <1>1 DEF vars, storeVars, statusVars, tickVars, attemptVars, tick, FreshInv
<1>2. CASE TickWrite
  <2>1. pc' \in UnfinishedSteps /\ tick' = tick
    BY <1>2 DEF TickWrite, StoreQuorumVotes, StoreTickData, StoreTickTransactions,
      StoreTransferTransactions, StoreTransactionsStatus, ComputeAndSave,
      ComputeStoreAndSave, AfterDigests, Goto, attemptVars, tick, UnfinishedSteps
  <2>2. \A t \in Ticks : t # tick => records'[t] = records[t]
    BY <1>2, TickWriteEffect DEF SafetyInv
  <2>3. ASSUME NEW t \in Ticks, lastProcessedTick'.tickNumber < t, records'[t] # {}
        PROVE  t = tick
    BY <1>0, <2>2, <2>3 DEF FreshInv
  <2> QED BY <2>1, <2>3 DEF FreshInv
<1>3. CASE UNCHANGED tickVars /\ pc \notin UnfinishedSteps
  BY <1>0, <1>3 DEF FreshInv, tickVars
<1>4. CASE ProcessStatus
  <2>0. UNCHANGED records
    BY <1>4 DEF ProcessStatus, NoSkippedTicks, AppendInterval, SetSkippedTicks,
      SetLastProcessedTick, SetProcessedTickInterval, storeVars, tickVars
  <2>1. CASE SetLastProcessedTick
    <3>1. lastProcessedTick'.tickNumber = tick /\ lastProcessedTick.tickNumber < tick
      BY <1>4, <2>1, StatusTick DEF SetLastProcessedTick, CommitLastProcessedTick, tick
    <3>2. tick \in Nat
      BY <1>4, StatusTick
    <3> QED BY <1>0, <2>0, <3>1, <3>2 DEF FreshInv
  <2>2. CASE SetProcessedTickInterval
    <3>1. pc = "interval" /\ UNCHANGED lastProcessedTick
      BY <2>2 DEF SetProcessedTickInterval
    <3> QED BY <2>0, <3>1 DEF FreshInv, UnfinishedSteps
  <2>3. CASE NoSkippedTicks \/ AppendInterval \/ SetSkippedTicks
    <3>1. pc' \in UnfinishedSteps /\ UNCHANGED <<lastProcessedTick, nextTick>>
      BY <2>3 DEF NoSkippedTicks, AppendInterval, SetSkippedTicks, Goto, storeVars, statusVars,
        attemptVars, UnfinishedSteps
    <3> QED BY <2>0, <3>1 DEF FreshInv, tick
  <2> QED BY <1>4, <2>1, <2>2, <2>3 DEF ProcessStatus
<1>5. CASE ValidateTick /\ ~TickWrite /\ pc \in UnfinishedSteps
  <2>1. /\ pc' \in UnfinishedSteps
        /\ UNCHANGED <<lastProcessedTick, nextTick, records>>
    BY <1>5 DEF ValidateTick, TickWrite, StoreComputors, StoreTargetTickVoteSignature,
      ValidateVotesAndTickData, StoreLastQuorumOfInterval, InitEmptyTickList, CountEmptyTick,
      ListEmptyTick, Goto, statusVars, tickVars, attemptVars, UnfinishedSteps
  <2> QED BY <2>1 DEF FreshInv, tick
<1> QED
  BY <1>1, <1>2, <1>3, <1>4, <1>5, TickSteps, NotGivenUp

-----------------------------------------------------------------------------
(* The intervals and the skipped ticks divide the tick numbers.               *)

\* The intervals that hold tick number n, and the skipped intervals that do.
HeldBy(n) == {p \in Positions : InInterval(n, IntervalAt(p))}
SkippedBy(n) ==
  {k \in DOMAIN skippedTicks : skippedTicks[k].startTick <= n /\ n <= skippedTicks[k].endTick}

\* The position of the last interval of epoch e.
LastPosition(e) == <<e, Len(Intervals(e))>>
EndsAt(e, n) == Intervals(e) # <<>> /\ LastInterval(e).last = n

\* n is in one interval, or in one skipped interval and not stored.
Once(n) ==
  \/ \E p \in Positions : HeldBy(n) = {p} /\ SkippedBy(n) = {}
  \/ \E k \in DOMAIN skippedTicks : HeldBy(n) = {} /\ SkippedBy(n) = {k} /\ ~Stored(n)

\* A gap is being recorded.
GapOpen == pc \in {"skipped", "lastTick"} /\ TickGap # 1

\* Up to the last processed tick every number is in one interval; only a tick
\* that was just recorded may be about to extend the last one.
BelowInv ==
  \A n \in 1 .. lastProcessedTick.tickNumber :
    IF pc = "interval" /\ n = tick
    THEN /\ SkippedBy(n) = {}
         /\ \/ /\ EndsAt(nextTick.epoch, n)
               /\ HeldBy(n) = {LastPosition(nextTick.epoch)}
            \/ /\ Intervals(nextTick.epoch) = <<>> \/ EndsAt(nextTick.epoch, n - 1)
               /\ HeldBy(n) = {}
    ELSE Once(n)

\* Above it there are only the new interval and the skipped ticks of a gap.
AboveInv ==
  \A n \in Nat :
    lastProcessedTick.tickNumber < n =>
      /\ HeldBy(n) = IF GapOpen /\ n = tick THEN {LastPosition(nextTick.epoch)} ELSE {}
      /\ SkippedBy(n) = IF GapOpen /\ pc = "lastTick" /\ n < tick
                        THEN {Len(skippedTicks)} ELSE {}
      /\ GapOpen /\ n = tick => EndsAt(nextTick.epoch, n)

\* The last interval of the current epoch ends at the last processed tick.
EndInv ==
  (lastProcessedTick.tickNumber # 0 /\ pc # "interval" /\ ~GapOpen) =>
    EndsAt(lastProcessedTick.epoch, lastProcessedTick.tickNumber)

NonemptyInv ==
  \A e \in Epochs : \A k \in DOMAIN Intervals(e) :
    Intervals(e)[k].initial <= Intervals(e)[k].last

CoverInv == BelowInv /\ AboveInv /\ EndInv /\ NonemptyInv

\* A position holds the numbers of its interval.
LEMMA HeldFacts ==
  ASSUME SafetyInv, NEW n \in Nat, NEW p
  PROVE  p \in HeldBy(n) <=>
           \E e \in Epochs : \E k \in DOMAIN Intervals(e) :
             /\ p = <<e, k>>
             /\ Intervals(e)[k].initial <= n /\ n <= Intervals(e)[k].last
BY DEF HeldBy, Positions, IntervalAt, InInterval, Intervals

\* AppendProcessedTickInterval adds the tick, and no other number, to the
\* last interval of the epoch.
LEMMA HeldAfterAppend ==
  ASSUME SafetyInv, SafetyInv', AppendInterval
  PROVE  /\ EndsAt(nextTick.epoch, tick)'
         /\ LastPosition(nextTick.epoch)' \in Positions'
         /\ \A n \in Nat : HeldBy(n)' =
              HeldBy(n) \cup (IF n = tick THEN {LastPosition(nextTick.epoch)'} ELSE {})
         /\ NonemptyInv => NonemptyInv'
<1>0. /\ processedTickIntervals \in [Epochs -> Seq(ProcessedTickInterval)] /\ ProcessStatus
  BY DEF SafetyInv, TypeInv, TypeOK, StoreTypeOK, ProcessStatus
<1>1. PICK e \in Epochs, m \in Ticks : e = nextTick.epoch /\ m = tick
  BY <1>0, StatusTick
<1>2. m \in Nat /\ nextTick' = nextTick
  BY <1>0, <1>1, StatusTick DEF AppendInterval, attemptVars
<1> DEFINE new == Append(Intervals(e), [initial |-> m, last |-> m])
<1>3. processedTickIntervals' = [processedTickIntervals EXCEPT ![e] = new]
  BY <1>0, <1>1 DEF AppendInterval, AppendProcessedTickInterval, Intervals
<1>4. /\ Intervals(e)' = new
      /\ \A y \in Epochs : y # e => Intervals(y)' = Intervals(y)
  BY <1>0, <1>3 DEF Intervals
<1>5. /\ new # <<>> /\ Len(new) \in DOMAIN new /\ new[Len(new)] = [initial |-> m, last |-> m]
      /\ \A k \in DOMAIN Intervals(e) : k \in DOMAIN new /\ new[k] = Intervals(e)[k]
      /\ \A k \in DOMAIN new : k \in DOMAIN Intervals(e) \/ k = Len(new)
      /\ Len(new) \notin DOMAIN Intervals(e)
  <2>1. /\ Intervals(e) \in Seq(ProcessedTickInterval)
        /\ [initial |-> m, last |-> m] \in ProcessedTickInterval
    BY <1>0, <1>2 DEF Intervals, ProcessedTickInterval
  <2>2. Len(new) \notin DOMAIN Intervals(e)
    BY <2>1
  <2> QED BY <2>1, <2>2, AppendFacts
<1> HIDE DEF new
<1>6. EndsAt(nextTick.epoch, tick)' /\ LastPosition(nextTick.epoch)' = <<e, Len(new)>>
  BY <1>1, <1>2, <1>4, <1>5 DEF EndsAt, LastInterval, LastPosition, tick
<1>7. <<e, Len(new)>> \in Positions'
  BY <1>4, <1>5 DEF Positions, Intervals
<1>8. ASSUME NEW n \in Nat, NEW p
      PROVE  p \in HeldBy(n)' <=> p \in HeldBy(n) \/ (n = m /\ p = <<e, Len(new)>>)
  <2>1. p \in HeldBy(n)' <=>
          \E y \in Epochs : \E k \in DOMAIN Intervals(y)' :
            /\ p = <<y, k>>
            /\ Intervals(y)'[k].initial <= n /\ n <= Intervals(y)'[k].last
    BY DEF HeldBy, Positions, IntervalAt, InInterval, Intervals
  <2>2. \A y \in Epochs : \A k \in DOMAIN Intervals(y) :
          k \in DOMAIN Intervals(y)' /\ Intervals(y)'[k] = Intervals(y)[k]
    BY <1>4, <1>5
  <2>3. \A y \in Epochs : \A k \in DOMAIN Intervals(y)' :
          k \in DOMAIN Intervals(y) \/ (y = e /\ k = Len(new))
    BY <1>4, <1>5
  <2>4. Len(new) \in DOMAIN Intervals(e)' /\ Intervals(e)'[Len(new)] = [initial |-> m, last |-> m]
    BY <1>4, <1>5
  <2>5. ASSUME p \in HeldBy(n)
        PROVE  p \in HeldBy(n)'
    BY <2>1, <2>2, <2>5, HeldFacts
  <2>6. ASSUME n = m, p = <<e, Len(new)>>
        PROVE  p \in HeldBy(n)'
    BY <1>2, <2>1, <2>4, <2>6
  <2>7. ASSUME p \in HeldBy(n)'
        PROVE  p \in HeldBy(n) \/ (n = m /\ p = <<e, Len(new)>>)
    <3>0. PICK y \in Epochs : \E k \in DOMAIN Intervals(y)' :
            /\ p = <<y, k>>
            /\ Intervals(y)'[k].initial <= n /\ n <= Intervals(y)'[k].last
      BY <2>1, <2>7
    <3>1. PICK k \in DOMAIN Intervals(y)' :
            /\ p = <<y, k>>
            /\ Intervals(y)'[k].initial <= n /\ n <= Intervals(y)'[k].last
      BY <3>0
    <3>2. CASE k \in DOMAIN Intervals(y)
      BY <2>2, <3>1, <3>2, HeldFacts
    <3>3. CASE y = e /\ k = Len(new)
      BY <1>2, <2>4, <3>1, <3>3
    <3> QED BY <2>3, <3>2, <3>3
  <2> QED BY <2>5, <2>6, <2>7
<1>9. \A n \in Nat : HeldBy(n)' =
        HeldBy(n) \cup (IF n = tick THEN {LastPosition(nextTick.epoch)'} ELSE {})
  BY <1>1, <1>6, <1>8
<1>10. NonemptyInv => NonemptyInv'
  BY <1>2, <1>4, <1>5 DEF NonemptyInv
<1> QED BY <1>6, <1>7, <1>9, <1>10

\* Where the last interval ends at the tick or just before it, or there is none,
\* the extension by SetLastProcessedTick adds the tick and no other number.
LEMMA HeldAfterExtension ==
  ASSUME SafetyInv, SafetyInv', NonemptyInv, SetProcessedTickInterval,
         NEW e, e = nextTick.epoch,
         \/ Intervals(e) = <<>>
         \/ EndsAt(e, tick) \/ EndsAt(e, tick - 1)
  PROVE  /\ e \in Epochs
         /\ EndsAt(e, lastProcessedTick.tickNumber)'
         /\ LastPosition(e)' \in Positions'
         /\ \A n \in Nat : HeldBy(n)' =
              HeldBy(n) \cup (IF n = tick THEN {LastPosition(e)'} ELSE {})
         /\ Intervals(e) # <<>> => LastPosition(e)' = LastPosition(e)
         /\ NonemptyInv'
<1>0. /\ processedTickIntervals \in [Epochs -> Seq(ProcessedTickInterval)] /\ ProcessStatus
      /\ pc = "interval"
  BY DEF SafetyInv, TypeInv, TypeOK, StoreTypeOK, ProcessStatus, SetProcessedTickInterval
<1>1. PICK m \in Ticks : m = tick
  BY <1>0, StatusTick
<1>2. /\ e \in Epochs /\ m \in Nat \ {0}
      /\ lastProcessedTick' = lastProcessedTick /\ lastProcessedTick.tickNumber = m
  BY <1>0, <1>1, StatusTick DEF SetProcessedTickInterval, tick
<1> DEFINE ptie == Intervals(e)
           new  == IF ptie = <<>> THEN <<[initial |-> m, last |-> m]>>
                   ELSE [ptie EXCEPT ![Len(ptie)] = [@ EXCEPT !.last = m]]
<1>3. processedTickIntervals' = [processedTickIntervals EXCEPT ![e] = new]
  BY <1>1 DEF SetProcessedTickInterval, ExtendProcessedTickInterval, tick, Intervals
<1>4. /\ Intervals(e)' = new
      /\ \A y \in Epochs : y # e => Intervals(y)' = Intervals(y)
  BY <1>0, <1>2, <1>3 DEF Intervals
<1>5. ptie \in Seq(ProcessedTickInterval)
  BY <1>0, <1>2 DEF Intervals
<1>6. /\ new # <<>> /\ Len(new) \in DOMAIN new
      /\ \A k \in DOMAIN new : k # Len(new) => k \in DOMAIN ptie /\ new[k] = ptie[k]
      /\ \A k \in DOMAIN ptie : k \in DOMAIN new
      /\ new[Len(new)].last = m
      /\ ptie = <<>> => new[Len(new)].initial = m /\ DOMAIN ptie = {}
      /\ ptie # <<>> =>
           /\ Len(new) = Len(ptie) /\ Len(new) \in DOMAIN ptie
           /\ new[Len(new)].initial = ptie[Len(ptie)].initial
  <2>1. CASE ptie = <<>>
    <3>1. /\ new = <<[initial |-> m, last |-> m]>> /\ new # <<>> /\ DOMAIN new = {1} /\ Len(new) = 1
          /\ new[1].initial = m /\ new[1].last = m /\ DOMAIN ptie = {}
      BY <2>1
    <3> HIDE DEF new, ptie
    <3> QED BY <2>1, <3>1
  <2>2. CASE ptie # <<>>
    <3>1. new = [ptie EXCEPT ![Len(ptie)] = [@ EXCEPT !.last = m]]
      BY <2>2
    <3> HIDE DEF new, ptie
    <3>2. /\ Len(ptie) \in DOMAIN ptie /\ DOMAIN new = DOMAIN ptie /\ Len(new) = Len(ptie)
          /\ \A k \in DOMAIN ptie : new[k].initial = ptie[k].initial
          /\ \A k \in DOMAIN ptie : k # Len(ptie) => new[k] = ptie[k]
          /\ new[Len(ptie)].last = m
      BY <1>2, <1>5, <2>2, <3>1, ExtendFacts
    <3>3. new # <<>>
      BY <3>2
    <3> QED BY <2>2, <3>2, <3>3
  <2> QED BY <2>1, <2>2
<1> HIDE DEF new
<1>7. LastPosition(e)' = <<e, Len(new)>> /\ EndsAt(e, lastProcessedTick.tickNumber)'
  BY <1>2, <1>4, <1>6 DEF LastPosition, EndsAt, LastInterval
<1>8. LastPosition(e)' \in Positions'
  BY <1>2, <1>4, <1>6, <1>7 DEF Positions, Intervals
<1>9. Intervals(e) # <<>> => LastPosition(e)' = LastPosition(e)
  BY <1>6, <1>7 DEF LastPosition
<1>10. ptie # <<>> =>
         /\ ptie[Len(ptie)].last \in {m - 1, m} /\ ptie[Len(ptie)].initial \in Nat
         /\ ptie[Len(ptie)].initial <= ptie[Len(ptie)].last
  <2>1. ptie # <<>> => ptie[Len(ptie)].last \in {m - 1, m}
    BY <1>1 DEF EndsAt, LastInterval
  <2>2. ptie # <<>> => ptie[Len(ptie)] \in ProcessedTickInterval
    BY <1>5
  <2>3. ptie # <<>> => ptie[Len(ptie)].initial <= ptie[Len(ptie)].last
    BY <1>2, <1>6 DEF NonemptyInv
  <2> QED BY <2>1, <2>2, <2>3 DEF ProcessedTickInterval
<1>11. ASSUME NEW n \in Nat, NEW p
       PROVE  p \in HeldBy(n)' <=> p \in HeldBy(n) \/ (n = m /\ p = <<e, Len(new)>>)
  <2>1. p \in HeldBy(n)' <=>
          \E y \in Epochs : \E k \in DOMAIN Intervals(y)' :
            /\ p = <<y, k>>
            /\ Intervals(y)'[k].initial <= n /\ n <= Intervals(y)'[k].last
    BY DEF HeldBy, Positions, IntervalAt, InInterval, Intervals
  <2>2. ASSUME NEW y \in Epochs, NEW k, ~(y = e /\ k = Len(new))
        PROVE  /\ k \in DOMAIN Intervals(y)' <=> k \in DOMAIN Intervals(y)
               /\ k \in DOMAIN Intervals(y) => Intervals(y)'[k] = Intervals(y)[k]
    BY <1>4, <1>6, <2>2
  <2>3. /\ Len(new) \in DOMAIN Intervals(e)'
        /\ (Intervals(e)'[Len(new)].initial <= n /\ n <= Intervals(e)'[Len(new)].last) <=>
             \/ n = m
             \/ /\ Len(new) \in DOMAIN Intervals(e)
                /\ Intervals(e)[Len(new)].initial <= n /\ n <= Intervals(e)[Len(new)].last
    <3>1. CASE ptie = <<>>
      BY <1>2, <1>4, <1>6, <3>1
    <3>2. CASE ptie # <<>>
      BY <1>2, <1>4, <1>6, <1>10, <3>2
    <3> QED BY <3>1, <3>2
  <2>4. ASSUME p \in HeldBy(n)
        PROVE  p \in HeldBy(n)'
    <3>0. PICK y \in Epochs : \E k \in DOMAIN Intervals(y) :
            /\ p = <<y, k>>
            /\ Intervals(y)[k].initial <= n /\ n <= Intervals(y)[k].last
      BY <2>4, HeldFacts
    <3>1. PICK k \in DOMAIN Intervals(y) :
            /\ p = <<y, k>>
            /\ Intervals(y)[k].initial <= n /\ n <= Intervals(y)[k].last
      BY <3>0
    <3>2. CASE y = e /\ k = Len(new)
      BY <2>1, <2>3, <3>1, <3>2
    <3>3. CASE ~(y = e /\ k = Len(new))
      BY <2>1, <2>2, <3>1, <3>3
    <3> QED BY <3>2, <3>3
  <2>5. ASSUME n = m, p = <<e, Len(new)>>
        PROVE  p \in HeldBy(n)'
    BY <1>2, <2>1, <2>3, <2>5
  <2>6. ASSUME p \in HeldBy(n)'
        PROVE  p \in HeldBy(n) \/ (n = m /\ p = <<e, Len(new)>>)
    <3>0. PICK y \in Epochs : \E k \in DOMAIN Intervals(y)' :
            /\ p = <<y, k>>
            /\ Intervals(y)'[k].initial <= n /\ n <= Intervals(y)'[k].last
      BY <2>1, <2>6
    <3>1. PICK k \in DOMAIN Intervals(y)' :
            /\ p = <<y, k>>
            /\ Intervals(y)'[k].initial <= n /\ n <= Intervals(y)'[k].last
      BY <3>0
    <3>2. CASE y = e /\ k = Len(new)
      BY <2>3, <3>1, <3>2, HeldFacts
    <3>3. CASE ~(y = e /\ k = Len(new))
      BY <2>2, <3>1, <3>3, HeldFacts
    <3> QED BY <3>2, <3>3
  <2> QED BY <2>4, <2>5, <2>6
<1>12. \A n \in Nat : HeldBy(n)' =
         HeldBy(n) \cup (IF n = tick THEN {LastPosition(e)'} ELSE {})
  BY <1>1, <1>7, <1>11
<1>13. NonemptyInv'
  <2> SUFFICES ASSUME NEW y \in Epochs, NEW k \in DOMAIN Intervals(y)'
               PROVE  Intervals(y)'[k].initial <= Intervals(y)'[k].last
    BY DEF NonemptyInv
  <2>1. CASE y = e /\ k = Len(new)
    BY <1>2, <1>4, <1>6, <1>10, <2>1
  <2>2. CASE ~(y = e /\ k = Len(new))
    BY <1>4, <1>6, <2>2 DEF NonemptyInv
  <2> QED BY <2>1, <2>2
<1> QED BY <1>2, <1>7, <1>8, <1>9, <1>12, <1>13

\* SetSkippedTicksInterval adds the numbers between the last processed tick and
\* the attempt's tick.
LEMMA SkippedAfterGap ==
  ASSUME SafetyInv, SetSkippedTicks
  PROVE  /\ Len(skippedTicks)' \in DOMAIN skippedTicks'
         /\ \A n \in Nat : SkippedBy(n)' =
              SkippedBy(n) \cup (IF lastProcessedTick.tickNumber < n /\ n < tick
                                THEN {Len(skippedTicks)'} ELSE {})
<1>0. /\ skippedTicks \in Seq(SkippedInterval) /\ lastProcessedTick.tickNumber \in Nat
      /\ ProcessStatus
  BY DEF SafetyInv, TypeInv, TypeOK, StoreTypeOK, ProcessedTick, ProcessStatus
<1>1. tick \in Nat \ {0}
  BY <1>0, StatusTick
<1> DEFINE gap == [startTick |-> lastProcessedTick.tickNumber + 1, endTick |-> tick - 1]
           new == Append(skippedTicks, gap)
<1>2. skippedTicks' = new
  BY DEF SetSkippedTicks, SetSkippedTicksInterval
<1>3. gap \in SkippedInterval
  BY <1>0, <1>1 DEF SkippedInterval
<1>4. gap.startTick = lastProcessedTick.tickNumber + 1 /\ gap.endTick = tick - 1
  OBVIOUS
<1> HIDE DEF gap
<1>5. /\ Len(new) \in DOMAIN new /\ new[Len(new)] = gap
      /\ \A k \in DOMAIN skippedTicks : k \in DOMAIN new /\ new[k] = skippedTicks[k]
      /\ \A k \in DOMAIN new : k \in DOMAIN skippedTicks \/ k = Len(new)
  BY <1>0, <1>3, AppendFacts
<1>6. Len(new) \notin DOMAIN skippedTicks
  BY <1>0, <1>3
<1> HIDE DEF new
<1>7. ASSUME NEW n \in Nat
      PROVE  SkippedBy(n)' = SkippedBy(n) \cup (IF lastProcessedTick.tickNumber < n /\ n < tick
                                               THEN {Len(new)} ELSE {})
  <2>1. SkippedBy(n)' = {k \in DOMAIN new : new[k].startTick <= n /\ n <= new[k].endTick}
    BY <1>2 DEF SkippedBy
  <2>2. new[Len(new)].startTick <= n /\ n <= new[Len(new)].endTick <=>
          lastProcessedTick.tickNumber < n /\ n < tick
    BY <1>0, <1>1, <1>4, <1>5
  <2> QED BY <1>5, <1>6, <2>1, <2>2 DEF SkippedBy
<1> QED BY <1>2, <1>5, <1>7

\* A number up to the last processed tick that is not stored stays so.
LEMMA UnstoredStays ==
  ASSUME SafetyInv, [Next]_vars, NEW n \in Nat, n <= lastProcessedTick.tickNumber, ~Stored(n)
  PROVE  ~Stored(n)'
<1>0. lastProcessedTick.tickNumber \in Nat /\ StoreDigestFrom \in Nat
  BY StoreDigestAssumption DEF SafetyInv, TypeInv, TypeOK, StoreTypeOK, ProcessedTick
<1>1. CASE UNCHANGED tickVars
  BY <1>1 DEF tickVars, Stored, Complete
<1>2. CASE TickWrite
  <2>1. /\ tick \in Ticks /\ lastProcessedTick.tickNumber < tick
        /\ \A t \in Ticks : t # tick => records'[t] = records[t] /\ transfers'[t] = transfers[t]
        /\ DOMAIN chainDigest' \subseteq DOMAIN chainDigest \cup {tick}
        /\ DOMAIN storeDigest' \subseteq DOMAIN storeDigest \cup {tick}
    BY <1>2, TickWriteEffect DEF SafetyInv
  <2>2. n # tick
    BY <1>0, <2>1, SegmentOfTick
  <2> QED BY <2>1, <2>2 DEF Stored, Complete
<1> QED BY <1>1, <1>2, TickSteps

\* A step outside of processStatus leaves the status alone and neither begins
\* in the middle of it nor ends there.
LEMMA QuietStep ==
  ASSUME CleanStops, SafetyInv, LastArchived, KeyInv, [Next]_vars, ~ProcessStatus, ~UNCHANGED vars
  PROVE  /\ UNCHANGED statusVars
         /\ pc \notin {"skipped", "lastTick", "interval"}
         /\ pc' \notin {"skipped", "lastTick", "interval"}
<1>1. UNCHANGED statusVars /\ pc' \notin {"skipped", "lastTick"}
  BY OtherSteps
<1>2. ASSUME ValidateTick
      PROVE  pc \notin {"skipped", "lastTick", "interval"} /\ pc' # "interval"
  BY <1>2 DEF ValidateTick, StoreComputors, StoreTargetTickVoteSignature,
    ValidateVotesAndTickData, StoreQuorumVotes, StoreLastQuorumOfInterval,
    StoreTickData, StoreTickTransactions, StoreTransferTransactions,
    StoreTransactionsStatus, ComputeAndSave, ComputeStoreAndSave, AfterDigests,
    InitEmptyTickList, CountEmptyTick, ListEmptyTick, Goto
<1>3. pc \notin {"skipped", "lastTick", "interval"}
  BY <1>2, NotGivenUp DEF UnfinishedSteps
<1>4. pc' # "interval"
  BY <1>2, ControlSteps DEF StartupSteps
<1> QED BY <1>1, <1>3, <1>4

\* Every step keeps the division: a gap is closed from its upper end, by the
\* new interval, and a tick that follows extends the last interval.
LEMMA CoverStep ==
  ASSUME CleanStops, SafetyInv, SafetyInv', LastArchived, KeyInv, FreshInv, CoverInv, [Next]_vars
  PROVE  CoverInv'
<1>0. /\ lastProcessedTick.tickNumber \in Nat /\ nextTick \in ProcessedTick
      /\ lastProcessedTick.epoch \in Nat
      /\ processedTickIntervals \in [Epochs -> Seq(ProcessedTickInterval)]
  BY DEF SafetyInv, TypeInv, TypeOK, StoreTypeOK, ProcessedTick
<1>1. CASE UNCHANGED vars
  <2>1. \A n : Stored(n)' = Stored(n)
    BY <1>1 DEF vars, storeVars, tickVars, Stored, Complete
  <2> QED
    BY <1>1, <2>1 DEF vars, storeVars, statusVars, attemptVars, CoverInv, BelowInv, AboveInv, EndInv,
      NonemptyInv, Once, GapOpen, TickGap, tick, EndsAt, LastPosition, LastInterval, Intervals,
      HeldBy, SkippedBy, Positions, IntervalAt
<1>2. CASE ~ProcessStatus /\ ~UNCHANGED vars
  <2>1. /\ UNCHANGED <<lastProcessedTick, processedTickIntervals, skippedTicks>>
        /\ pc \notin {"skipped", "lastTick", "interval"}
        /\ pc' \notin {"skipped", "lastTick", "interval"}
    BY <1>2, QuietStep DEF statusVars
  <2>2. /\ Positions' = Positions
        /\ \A n : HeldBy(n)' = HeldBy(n) /\ SkippedBy(n)' = SkippedBy(n)
        /\ \A e, n : EndsAt(e, n)' = EndsAt(e, n)
        /\ \A e : Intervals(e)' = Intervals(e)
    BY <2>1 DEF HeldBy, SkippedBy, Positions, IntervalAt, EndsAt, LastInterval, Intervals
  <2>3. BelowInv'
    <3> SUFFICES ASSUME NEW n \in 1 .. lastProcessedTick.tickNumber
                 PROVE  Once(n)'
      BY <2>1 DEF BelowInv
    <3>1. n \in Nat /\ n <= lastProcessedTick.tickNumber /\ Once(n)
      BY <1>0, <2>1 DEF CoverInv, BelowInv
    <3> QED BY <2>1, <2>2, <3>1, UnstoredStays DEF Once
  <2>4. AboveInv'
    BY <2>1, <2>2 DEF CoverInv, AboveInv, GapOpen
  <2>5. EndInv'
    BY <2>1, <2>2 DEF CoverInv, EndInv, GapOpen
  <2>6. NonemptyInv'
    BY <2>2 DEF CoverInv, NonemptyInv
  <2> QED BY <2>3, <2>4, <2>5, <2>6 DEF CoverInv
<1>3. CASE ProcessStatus
  <2>0. PICK e \in Epochs, m \in Ticks : e = nextTick.epoch /\ m = tick
    BY <1>3, StatusTick
  <2>1. /\ m \in Nat \ {0} /\ e = EpochOf(m)
        /\ pc # "interval" => lastProcessedTick.tickNumber < m
        /\ pc = "interval" => lastProcessedTick.tickNumber = m /\ lastProcessedTick.epoch = e
    BY <1>3, <2>0, StatusTick DEF tick
  <2>2. \A n \in 1 .. lastProcessedTick.tickNumber :
          n \in Nat /\ n <= lastProcessedTick.tickNumber
    BY <1>0
  <2>3. CASE NoSkippedTicks
    <3>1. /\ UNCHANGED <<lastProcessedTick, processedTickIntervals, skippedTicks, nextTick>>
          /\ pc = "status" /\ pc' = "lastTick" /\ TickGap = 1 /\ TickGap' = TickGap
      BY <2>3 DEF NoSkippedTicks, storeVars, statusVars, attemptVars, Goto, TickGap, tick
    <3>2. /\ Positions' = Positions
          /\ \A n : HeldBy(n)' = HeldBy(n) /\ SkippedBy(n)' = SkippedBy(n)
          /\ \A y, n : EndsAt(y, n)' = EndsAt(y, n)
          /\ \A y : Intervals(y)' = Intervals(y)
      BY <3>1 DEF HeldBy, SkippedBy, Positions, IntervalAt, EndsAt, LastInterval, Intervals
    <3>3. BelowInv'
      <4> SUFFICES ASSUME NEW n \in 1 .. lastProcessedTick.tickNumber
                   PROVE  Once(n)'
        BY <3>1 DEF BelowInv
      <4>1. Once(n)
        BY <3>1 DEF CoverInv, BelowInv
      <4> QED BY <2>2, <3>1, <3>2, <4>1, UnstoredStays DEF Once
    <3>4. AboveInv'
      BY <3>1, <3>2 DEF CoverInv, AboveInv, GapOpen
    <3>5. EndInv'
      BY <3>1, <3>2 DEF CoverInv, EndInv, GapOpen
    <3>6. NonemptyInv'
      BY <3>2 DEF CoverInv, NonemptyInv
    <3> QED BY <3>3, <3>4, <3>5, <3>6 DEF CoverInv
  <2>4. CASE AppendInterval
    <3>1. /\ UNCHANGED <<lastProcessedTick, skippedTicks, nextTick>>
          /\ pc = "status" /\ pc' = "skipped" /\ TickGap # 1 /\ TickGap' = TickGap /\ tick' = tick
      BY <2>4 DEF AppendInterval, attemptVars, Goto, TickGap, tick
    <3>2. \A n : SkippedBy(n)' = SkippedBy(n)
      BY <3>1 DEF SkippedBy
    <3>3. /\ EndsAt(nextTick.epoch, tick)'
          /\ \A n \in Nat : HeldBy(n)' =
               HeldBy(n) \cup (IF n = tick THEN {LastPosition(nextTick.epoch)'} ELSE {})
          /\ NonemptyInv'
      BY <2>4, HeldAfterAppend DEF CoverInv
    <3>4. BelowInv'
      <4> SUFFICES ASSUME NEW n \in 1 .. lastProcessedTick.tickNumber
                   PROVE  Once(n)'
        BY <3>1 DEF BelowInv
      <4>0. Once(n)
        BY <3>1 DEF CoverInv, BelowInv
      <4>1. HeldBy(n)' = HeldBy(n)
        <5>1. n \in Nat /\ n # tick
          BY <1>0, <2>0, <2>1, <3>1
        <5>2. HeldBy(n)' = HeldBy(n) \cup {}
          BY <3>3, <5>1
        <5> QED BY <5>2
      <4>2. \A p : p \in HeldBy(n)' => p \in Positions'
        BY DEF HeldBy
      <4> QED BY <2>2, <3>1, <3>2, <4>0, <4>1, <4>2, UnstoredStays DEF Once
    <3>5. AboveInv'
      <4> SUFFICES ASSUME NEW n \in Nat, lastProcessedTick.tickNumber < n
                   PROVE  /\ HeldBy(n)' = IF n = tick THEN {LastPosition(nextTick.epoch)'} ELSE {}
                          /\ SkippedBy(n)' = {}
                          /\ n = tick => EndsAt(nextTick.epoch, n)'
        BY <3>1 DEF AboveInv, GapOpen
      <4>1. HeldBy(n) = {} /\ SkippedBy(n) = {}
        BY <3>1 DEF CoverInv, AboveInv, GapOpen
      <4> QED BY <3>1, <3>2, <3>3, <4>1
    <3>6. EndInv'
      BY <3>1 DEF EndInv, GapOpen
    <3> QED BY <3>3, <3>4, <3>5, <3>6 DEF CoverInv
  <2>5. CASE SetSkippedTicks
    <3>1. /\ UNCHANGED <<lastProcessedTick, processedTickIntervals, nextTick>>
          /\ pc = "skipped" /\ pc' = "lastTick" /\ TickGap' = TickGap /\ tick' = tick
      BY <2>5 DEF SetSkippedTicks, attemptVars, Goto, TickGap, tick
    <3>2. /\ Positions' = Positions
          /\ \A n : HeldBy(n)' = HeldBy(n)
          /\ \A y, n : EndsAt(y, n)' = EndsAt(y, n)
          /\ \A y : Intervals(y)' = Intervals(y) /\ LastPosition(y)' = LastPosition(y)
      BY <3>1 DEF HeldBy, Positions, IntervalAt, EndsAt, LastInterval, LastPosition, Intervals
    <3>3. \A n \in Nat : SkippedBy(n)' =
            SkippedBy(n) \cup (IF lastProcessedTick.tickNumber < n /\ n < tick
                              THEN {Len(skippedTicks)'} ELSE {})
      BY <2>5, SkippedAfterGap
    <3>g. TickGap # 1
      BY <3>1 DEF SafetyInv, StatusInv, GapInv
    <3>4. BelowInv'
      <4> SUFFICES ASSUME NEW n \in 1 .. lastProcessedTick.tickNumber
                   PROVE  Once(n)'
        BY <3>1 DEF BelowInv
      <4>0. Once(n)
        BY <3>1 DEF CoverInv, BelowInv
      <4>1. SkippedBy(n)' = SkippedBy(n)
        <5>1. n \in Nat /\ ~(lastProcessedTick.tickNumber < n)
          BY <1>0
        <5>2. SkippedBy(n)' = SkippedBy(n) \cup {}
          BY <3>3, <5>1
        <5> QED BY <5>2
      <4>2. \A k : k \in SkippedBy(n)' => k \in DOMAIN skippedTicks'
        BY DEF SkippedBy
      <4> QED BY <2>2, <3>1, <3>2, <4>0, <4>1, <4>2, UnstoredStays DEF Once
    <3>5. AboveInv'
      <4> SUFFICES ASSUME NEW n \in Nat, lastProcessedTick.tickNumber < n
                   PROVE  /\ HeldBy(n)' = IF n = tick THEN {LastPosition(nextTick.epoch)'} ELSE {}
                          /\ SkippedBy(n)' = IF n < tick THEN {Len(skippedTicks)'} ELSE {}
                          /\ n = tick => EndsAt(nextTick.epoch, n)'
        BY <3>1, <3>g DEF AboveInv, GapOpen
      <4>1. /\ HeldBy(n) = IF n = tick THEN {LastPosition(nextTick.epoch)} ELSE {}
            /\ SkippedBy(n) = {}
            /\ n = tick => EndsAt(nextTick.epoch, n)
        BY <3>1, <3>g DEF CoverInv, AboveInv, GapOpen
      <4> QED BY <3>1, <3>2, <3>3, <4>1
    <3>6. EndInv'
      BY <3>1, <3>g DEF EndInv, GapOpen
    <3>7. NonemptyInv'
      BY <3>2 DEF CoverInv, NonemptyInv
    <3> QED BY <3>4, <3>5, <3>6, <3>7 DEF CoverInv
  <2>6. CASE SetLastProcessedTick
    <3> DEFINE last == lastProcessedTick.tickNumber
    <3>1. /\ UNCHANGED <<processedTickIntervals, skippedTicks, nextTick>>
          /\ pc = "lastTick" /\ pc' = "interval" /\ tick' = tick
          /\ lastProcessedTick' = nextTick /\ lastProcessedTick'.tickNumber = m
      BY <2>0, <2>6 DEF SetLastProcessedTick, CommitLastProcessedTick, attemptVars, Goto, tick
    <3>2. /\ Positions' = Positions
          /\ \A n : HeldBy(n)' = HeldBy(n) /\ SkippedBy(n)' = SkippedBy(n)
          /\ \A y, n : EndsAt(y, n)' = EndsAt(y, n)
          /\ \A y : Intervals(y)' = Intervals(y) /\ LastPosition(y)' = LastPosition(y)
      BY <3>1 DEF HeldBy, SkippedBy, Positions, IntervalAt, EndsAt, LastInterval, LastPosition, Intervals
    <3>3. last < m /\ last \in Nat
      BY <1>0, <2>1, <3>1
    <3>4. TickGap = 1 => m = last + 1
      BY <2>0, <2>1, <3>3 DEF TickGap
    <3>5. TickGap # 1 => m # last + 1
      BY <2>0, <2>1, <3>3 DEF TickGap
    <3>6. ASSUME TickGap = 1
          PROVE  Intervals(e) = <<>> \/ EndsAt(e, m - 1)
      <4> SUFFICES ASSUME Intervals(e) # <<>>
                   PROVE  EndsAt(e, m - 1)
        OBVIOUS
      <4>1. PICK k : k = Len(Intervals(e)) /\ k \in DOMAIN Intervals(e)
        BY <1>0 DEF Intervals
      <4>2. PICK first \in Ticks : first = Intervals(e)[k].initial /\ EpochOf(first) = e
        BY <4>1 DEF SafetyInv, StatusInv, IntervalInv
      <4>3. first \in Nat \ {0} /\ first <= Intervals(e)[k].last
        BY <4>1, <4>2, SegmentOfTick DEF CoverInv, NonemptyInv
      <4>4. <<e, k>> \in HeldBy(first)
        BY <4>1, <4>2, <4>3, HeldFacts
      <4>5. first <= last
        <5>1. last < first => HeldBy(first) = {}
          BY <3>1, <3>6, <4>3 DEF CoverInv, AboveInv, GapOpen
        <5> QED BY <3>3, <4>3, <4>4, <5>1
      <4>6. last \in Ticks /\ lastProcessedTick.epoch = EpochOf(last) /\ last # 0
        BY <3>3, <4>3, <4>5 DEF SafetyInv, TypeInv, LastTickInv
      <4>7. lastProcessedTick.epoch = e
        <5>0. last <= m
          BY <2>1, <3>3
        <5>1. EpochOf(first) <= EpochOf(last) /\ EpochOf(last) <= EpochOf(m)
          BY <4>5, <4>6, <5>0, EpochMonotone
        <5>2. e \in Nat
          BY <2>1, SegmentOfTick
        <5> QED BY <1>0, <2>1, <4>2, <4>6, <5>1, <5>2
      <4>8. EndsAt(e, last)
        BY <3>1, <3>6, <4>6, <4>7 DEF CoverInv, EndInv, GapOpen
      <4> QED BY <3>3, <3>4, <3>6, <4>8
    <3>7. BelowInv'
      <4> SUFFICES ASSUME NEW n \in 1 .. m
                   PROVE  IF n = m
                          THEN /\ SkippedBy(n)' = {}
                               /\ \/ EndsAt(e, n)' /\ HeldBy(n)' = {LastPosition(e)'}
                                  \/ /\ Intervals(e)' = <<>> \/ EndsAt(e, n - 1)'
                                     /\ HeldBy(n)' = {}
                          ELSE Once(n)'
        BY <2>0, <3>1 DEF BelowInv
      <4>0. n \in Nat
        BY <2>1
      <4>1. CASE n <= last
        <5>1. Once(n) /\ n # m
          BY <3>1, <3>3, <4>0, <4>1 DEF CoverInv, BelowInv
        <5> QED BY <3>1, <3>2, <4>0, <4>1, <5>1, UnstoredStays DEF Once
      <4>2. CASE last < n /\ n # m
        <5>1. TickGap # 1 /\ n < m
          BY <2>1, <3>3, <3>4, <4>0, <4>2
        <5>2. HeldBy(n) = {} /\ SkippedBy(n) = {Len(skippedTicks)}
          BY <2>0, <3>1, <4>0, <4>2, <5>1 DEF CoverInv, AboveInv, GapOpen
        <5>3. Len(skippedTicks) \in DOMAIN skippedTicks
          BY <5>2 DEF SkippedBy
        <5>4. ~Stored(n)'
          <6>1. UNCHANGED records
            BY <2>6 DEF SetLastProcessedTick, tickVars
          <6>2. n \in Ticks => records[n] = {}
            BY <2>0, <4>2 DEF FreshInv
          <6> QED BY <6>1, <6>2 DEF Stored, Complete, RecordKinds
        <5> QED BY <3>1, <3>2, <4>2, <5>2, <5>3, <5>4 DEF Once
      <4>3. CASE n = m
        <5>1. CASE TickGap = 1
          <6>1. HeldBy(n) = {} /\ SkippedBy(n) = {}
            BY <3>1, <3>3, <4>0, <4>3, <5>1 DEF CoverInv, AboveInv, GapOpen
          <6> QED BY <3>2, <3>6, <4>3, <5>1, <6>1
        <5>2. CASE TickGap # 1
          <6>1. /\ HeldBy(n) = {LastPosition(e)} /\ SkippedBy(n) = {} /\ EndsAt(e, n)
            BY <2>0, <2>1, <3>1, <3>3, <4>0, <4>3, <5>2 DEF CoverInv, AboveInv, GapOpen
          <6> QED BY <3>2, <4>3, <6>1
        <5> QED BY <5>1, <5>2
      <4> QED BY <3>3, <4>0, <4>1, <4>2, <4>3
    <3>8. AboveInv'
      <4> SUFFICES ASSUME NEW n \in Nat, m < n
                   PROVE  HeldBy(n)' = {} /\ SkippedBy(n)' = {}
        BY <3>1 DEF AboveInv, GapOpen
      <4>1. HeldBy(n) = {} /\ SkippedBy(n) = {}
        BY <2>0, <2>1, <3>3 DEF CoverInv, AboveInv
      <4> QED BY <3>2, <4>1
    <3>9. EndInv'
      BY <3>1 DEF EndInv
    <3>10. NonemptyInv'
      BY <3>2 DEF CoverInv, NonemptyInv
    <3> QED BY <3>7, <3>8, <3>9, <3>10 DEF CoverInv
  <2>7. CASE SetProcessedTickInterval
    <3>1. /\ UNCHANGED <<lastProcessedTick, skippedTicks>> /\ pc = "interval" /\ pc' = "idle"
          /\ lastProcessedTick.tickNumber = m /\ lastProcessedTick.epoch = e
      BY <2>1, <2>7 DEF SetProcessedTickInterval, EndAttempt, Goto
    <3>2. \A n : SkippedBy(n)' = SkippedBy(n)
      BY <3>1 DEF SkippedBy
    <3>3. /\ SkippedBy(m) = {}
          /\ \/ EndsAt(e, m) /\ HeldBy(m) = {LastPosition(e)}
             \/ (Intervals(e) = <<>> \/ EndsAt(e, m - 1)) /\ HeldBy(m) = {}
      BY <2>0, <2>1, <3>1 DEF CoverInv, BelowInv
    <3>4. /\ EndsAt(e, lastProcessedTick.tickNumber)'
          /\ LastPosition(e)' \in Positions'
          /\ \A n \in Nat : HeldBy(n)' =
               HeldBy(n) \cup (IF n = m THEN {LastPosition(e)'} ELSE {})
          /\ Intervals(e) # <<>> => LastPosition(e)' = LastPosition(e)
          /\ NonemptyInv'
      BY <2>0, <2>7, <3>3, HeldAfterExtension DEF CoverInv
    <3>5. BelowInv'
      <4> SUFFICES ASSUME NEW n \in 1 .. m
                   PROVE  Once(n)'
        BY <3>1 DEF BelowInv
      <4>1. CASE n # m
        <5>0. Once(n)
          BY <2>0, <3>1, <4>1 DEF CoverInv, BelowInv
        <5>1. HeldBy(n)' = HeldBy(n)
          <6>1. n \in Nat
            BY <2>1
          <6>2. HeldBy(n)' = HeldBy(n) \cup {}
            BY <3>4, <4>1, <6>1
          <6> QED BY <6>2
        <5>2. \A p : p \in HeldBy(n)' => p \in Positions'
          BY DEF HeldBy
        <5> QED BY <2>2, <3>1, <3>2, <5>0, <5>1, <5>2, UnstoredStays DEF Once
      <4>2. CASE n = m
        <5>1. HeldBy(m)' = {LastPosition(e)'}
          BY <2>1, <3>3, <3>4 DEF EndsAt
        <5> QED BY <3>2, <3>3, <3>4, <4>2, <5>1 DEF Once
      <4> QED BY <4>1, <4>2
    <3>6. AboveInv'
      <4> SUFFICES ASSUME NEW n \in Nat, m < n
                   PROVE  HeldBy(n)' = {} /\ SkippedBy(n)' = {}
        BY <3>1 DEF AboveInv, GapOpen
      <4>1. HeldBy(n) = {} /\ SkippedBy(n) = {}
        BY <3>1 DEF CoverInv, AboveInv, GapOpen
      <4> QED BY <2>1, <3>2, <3>4, <4>1
    <3>7. EndInv'
      BY <3>1, <3>4 DEF EndInv
    <3> QED BY <3>4, <3>5, <3>6, <3>7 DEF CoverInv
  <2> QED
    BY <1>3, <2>3, <2>4, <2>5, <2>6, <2>7 DEF ProcessStatus
<1> QED
  BY <1>1, <1>2, <1>3

CleanInv == LastArchived /\ KeyInv /\ FreshInv /\ CoverInv

\* An empty store satisfies all of it.
LEMMA CleanInit == Init => CleanInv
<1> SUFFICES ASSUME Init PROVE CleanInv
  OBVIOUS
<1>1. \A e \in Epochs : Intervals(e) = <<>> /\ DOMAIN Intervals(e) = {}
  BY DEF Init, StoreInit, Intervals
<1>2. /\ lastProcessedTick.tickNumber = 0 /\ pc = "boot" /\ DOMAIN skippedTicks = {}
      /\ DOMAIN emptyTicks = {} /\ records = [t \in Ticks |-> {}]
  BY DEF Init, StoreInit, NoTick
<1>3. \A n : HeldBy(n) = {} /\ SkippedBy(n) = {}
  BY <1>1, <1>2 DEF HeldBy, SkippedBy, Positions, Intervals
<1>4. LastArchived /\ KeyInv /\ FreshInv
  BY <1>2 DEF LastArchived, KeyInv, FreshInv
<1>5. CoverInv
  BY <1>1, <1>2, <1>3 DEF CoverInv, BelowInv, AboveInv, EndInv, NonemptyInv, GapOpen
<1> QED BY <1>4, <1>5 DEF CleanInv

\* Every step keeps it where attempts are not interrupted.
LEMMA CleanStep ==
  ASSUME CleanStops, SafetyInv, SafetyInv', CleanInv, [Next]_vars
  PROVE  CleanInv'
BY LastArchivedStep, KeyStep, FreshStep, CoverStep DEF CleanInv

\* At any time, where attempts are not interrupted.
LEMMA CleanInvariant ==
  ASSUME CleanStops
  PROVE  Spec => []CleanInv
<1>1. SafetyInv /\ SafetyInv' /\ CleanInv /\ [Next]_vars => CleanInv'
  BY CleanStep
<1> QED
  BY <1>1, CleanInit, SafetyInvariant, PTL DEF Spec

\* A stored tick of the network is in an interval, and in no skipped one.
LEMMA HeldOnce ==
  ASSUME SafetyInv, CleanInv, pc # "interval",
         NEW n \in 1 .. lastProcessedTick.tickNumber
  PROVE  /\ Cardinality(HeldBy(n)) + Cardinality(SkippedBy(n)) = 1
         /\ n \in ProcessedTicks <=> SkippedBy(n) = {}
         /\ n \in ProcessedTicks => \E p \in Positions : HeldBy(n) = {p}
<1>0. n \in Nat /\ n <= lastProcessedTick.tickNumber
  BY DEF SafetyInv, TypeInv, TypeOK, StoreTypeOK, ProcessedTick
<1>1. n \in ProcessedTicks <=> Stored(n)
  BY <1>0 DEF ProcessedTicks, Stored
<1>2. Once(n)
  BY DEF CleanInv, CoverInv, BelowInv
<1>3. CASE \E p \in Positions : HeldBy(n) = {p} /\ SkippedBy(n) = {}
  <2>1. PICK p \in Positions : HeldBy(n) = {p} /\ SkippedBy(n) = {}
    BY <1>3
  <2>2. Cardinality(HeldBy(n)) = 1 /\ Cardinality(SkippedBy(n)) = 0
    BY <2>1, FS_Singleton, FS_EmptySet
  <2>3. Stored(n)
    <3>1. PICK e \in Epochs : \E k \in DOMAIN Intervals(e) :
            Intervals(e)[k].initial <= n /\ n <= Intervals(e)[k].last
      BY <1>0, <2>1, HeldFacts
    <3>2. PICK k \in DOMAIN Intervals(e) :
            Intervals(e)[k].initial <= n /\ n <= Intervals(e)[k].last
      BY <3>1
    <3>3. Intervals(e)[k] \in ProcessedTickInterval
      BY DEF SafetyInv, TypeInv, TypeOK, StoreTypeOK, Intervals
    <3>4. n \in Intervals(e)[k].initial .. Intervals(e)[k].last
      BY <1>0, <3>2, <3>3 DEF ProcessedTickInterval
    <3> QED BY <3>4 DEF SafetyInv, StatusInv, IntervalInv, Archived, Stored
  <2> QED BY <1>1, <2>1, <2>2, <2>3
<1>4. CASE \E k \in DOMAIN skippedTicks : HeldBy(n) = {} /\ SkippedBy(n) = {k} /\ ~Stored(n)
  <2>1. PICK k \in DOMAIN skippedTicks : HeldBy(n) = {} /\ SkippedBy(n) = {k} /\ ~Stored(n)
    BY <1>4
  <2>2. Cardinality(HeldBy(n)) = 0 /\ Cardinality(SkippedBy(n)) = 1
    BY <2>1, FS_Singleton, FS_EmptySet
  <2> QED BY <1>1, <2>1, <2>2
<1> QED BY <1>2, <1>3, <1>4 DEF Once

\* Between two attempts the processed intervals and the skipped ticks of
\* GetStatus divide the tick numbers up to the last processed one, and what is
\* skipped is not stored.  No attempt is interrupted once it has stored
\* something; processStatus is not atomic, so it is false otherwise.
THEOREM StatusDivided ==
  ASSUME CleanStops
  PROVE  Spec => []StatusPartition
<1>1. SafetyInv /\ CleanInv => StatusPartition
  <2> SUFFICES ASSUME SafetyInv, CleanInv, pc = "idle",
                      NEW n \in 1 .. lastProcessedTick.tickNumber
               PROVE  /\ Cardinality(HeldBy(n)) + Cardinality(SkippedBy(n)) = 1
                      /\ n \in ProcessedTicks <=> SkippedBy(n) = {}
    BY DEF StatusPartition, HeldBy, SkippedBy
  <2> QED BY HeldOnce
<1> QED
  BY <1>1, SafetyInvariant, CleanInvariant, PTL

-----------------------------------------------------------------------------
(* The quorum data of the last tick of an interval.                           *)

\* The steps at which the quorum data of the attempt's tick is stored and the
\* epoch's newest interval does not end at the tick yet.
QuorumSteps ==
  {"tickData", "transactions", "transfers", "chain", "storeDigest", "emptyInit",
   "emptyCount", "emptyList", "status", "skipped", "lastTick", "interval"}

\* The entries of closed intervals hold the ticks that opened the next ones.
ClosedInPlace(intervals, kept) ==
  \A k \in 1 .. Len(intervals) - 1 :
    k \in DOMAIN kept /\ kept[k] = intervals[k + 1].initial

\* The newest interval was opened by tick m of the attempt, over a gap.
OpenedAt(intervals, m) ==
  Len(intervals) > 1 /\ intervals[Len(intervals)].initial = m

\* While the attempt at tick m is under way its quorum data is in the entry of
\* the newest interval, or of the one before when m has opened an interval.
AttemptInPlace(intervals, kept, m) ==
  /\ ClosedInPlace(intervals, kept)
  /\ \/ OpenedAt(intervals, m)
     \/ intervals = <<>> /\ 1 \in DOMAIN kept /\ kept[1] = m
     \/ /\ intervals # <<>> /\ Len(intervals) \in DOMAIN kept
        /\ kept[Len(intervals)] = m

QuorumInv ==
  \A e \in Epochs :
    IF pc \in QuorumSteps /\ e = EpochOf(tick)
    THEN AttemptInPlace(Intervals(e), lastTickQuorumData[e], tick)
    ELSE EntriesInPlace(Intervals(e), lastTickQuorumData[e])

\* A tick that opens an interval is after the start of the epoch's newest one.
LEMMA NewestStartsBefore ==
  ASSUME SafetyInv, CleanInv, AppendInterval, Intervals(nextTick.epoch) # <<>>
  PROVE  Intervals(nextTick.epoch)[Len(Intervals(nextTick.epoch))].initial # tick
<1>0. /\ ProcessStatus /\ pc = "status" /\ TickGap # 1
      /\ processedTickIntervals \in [Epochs -> Seq(ProcessedTickInterval)]
      /\ lastProcessedTick.tickNumber \in Nat
  BY DEF AppendInterval, ProcessStatus, SafetyInv, TypeInv, TypeOK, StoreTypeOK, ProcessedTick
<1>1. PICK e \in Epochs, m \in Ticks : e = nextTick.epoch /\ m = tick
  BY <1>0, StatusTick
<1>2. m \in Nat /\ lastProcessedTick.tickNumber < m
  BY <1>0, <1>1, StatusTick
<1>4. PICK k : k = Len(Intervals(e)) /\ k \in DOMAIN Intervals(e)
  BY <1>0, <1>1 DEF Intervals
<1>5. PICK first \in Ticks : first = Intervals(e)[k].initial
  BY <1>4 DEF SafetyInv, StatusInv, IntervalInv
<1>6. first \in Nat /\ first <= Intervals(e)[k].last
  BY <1>4, <1>5, SegmentOfTick DEF CleanInv, CoverInv, NonemptyInv
<1>7. <<e, k>> \in HeldBy(first)
  BY <1>4, <1>5, <1>6, HeldFacts
<1>8. first <= lastProcessedTick.tickNumber
  <2>1. lastProcessedTick.tickNumber < first => HeldBy(first) = {}
    BY <1>0, <1>6 DEF CleanInv, CoverInv, AboveInv, GapOpen
  <2> QED BY <1>0, <1>6, <1>7, <2>1
<1>9. first # m
  BY <1>0, <1>2, <1>6, <1>8
<1> QED BY <1>1, <1>4, <1>5, <1>9

\* Storing the votes of tick m puts them in the entry of the newest interval
\* and leaves the entries of the closed ones.
LEMMA EntryStored ==
  ASSUME NEW s \in Seq(ProcessedTickInterval), NEW kept, NEW m, NEW c, EntriesInPlace(s, kept),
         c = IF s = <<>> THEN 1 ELSE Len(s)
  PROVE  AttemptInPlace(s, Put(kept, c, m), m)
<1>0. Len(s) \in Nat /\ (s = <<>> <=> Len(s) = 0)
  OBVIOUS
<1>1. ClosedInPlace(s, kept)
  BY DEF EntriesInPlace, ClosedInPlace
<1> DEFINE stored == Put(kept, c, m)
<1>2. /\ c \in DOMAIN stored /\ stored[c] = m
      /\ \A k \in DOMAIN kept : k \in DOMAIN stored /\ (k # c => stored[k] = kept[k])
  BY DEF Put
<1> HIDE DEF stored
<1>3. ClosedInPlace(s, stored)
  <2> SUFFICES ASSUME NEW k \in 1 .. Len(s) - 1
               PROVE  k \in DOMAIN stored /\ stored[k] = s[k + 1].initial
    BY DEF ClosedInPlace
  <2>1. k # c
    BY <1>0
  <2> QED BY <1>1, <1>2, <2>1 DEF ClosedInPlace
<1>4. AttemptInPlace(s, stored, m)
  BY <1>2, <1>3 DEF AttemptInPlace
<1> QED BY <1>4 DEF stored

\* Opening an interval at m leaves m's votes in the entry of the one before.
LEMMA EntryClosed ==
  ASSUME NEW s \in Seq(ProcessedTickInterval), NEW kept, NEW m \in Nat, NEW r,
         AttemptInPlace(s, kept, m), s # <<>> => s[Len(s)].initial # m,
         r = Append(s, [initial |-> m, last |-> m])
  PROVE  AttemptInPlace(r, kept, m)
<1>0. Len(s) \in Nat /\ (s = <<>> <=> Len(s) = 0)
  OBVIOUS
<1>1. PICK x \in ProcessedTickInterval : x = [initial |-> m, last |-> m]
  BY DEF ProcessedTickInterval
<1>2. /\ Len(r) = Len(s) + 1 /\ r # <<>> /\ r[Len(s) + 1].initial = m
      /\ \A k \in 1 .. Len(s) : r[k] = s[k]
  <2>1. r = Append(s, x) /\ x.initial = m
    BY <1>1
  <2> QED BY <2>1, <1>0, AppendFacts
<1>3. CASE s = <<>>
  BY <1>0, <1>2, <1>3 DEF AttemptInPlace, ClosedInPlace, OpenedAt
<1>4. CASE s # <<>>
  <2>1. Len(s) \in DOMAIN kept /\ kept[Len(s)] = m /\ ClosedInPlace(s, kept)
    BY <1>4 DEF AttemptInPlace, OpenedAt
  <2>2. ClosedInPlace(r, kept)
    <3> SUFFICES ASSUME NEW k \in 1 .. Len(s)
                 PROVE  k \in DOMAIN kept /\ kept[k] = r[k + 1].initial
      BY <1>0, <1>2 DEF ClosedInPlace
    <3>1. CASE k = Len(s)
      BY <1>2, <2>1, <3>1
    <3>2. CASE k # Len(s)
      BY <1>0, <1>2, <2>1, <3>2 DEF ClosedInPlace
    <3> QED BY <3>1, <3>2
  <2>3. OpenedAt(r, m)
    BY <1>0, <1>2, <1>4 DEF OpenedAt
  <2> QED BY <2>2, <2>3 DEF AttemptInPlace
<1> QED BY <1>3, <1>4

\* Recording m as the end of the newest interval ends the attempt with every
\* entry in place.
LEMMA EntryRecorded ==
  ASSUME NEW s \in Seq(ProcessedTickInterval), NEW kept, NEW m \in Nat, NEW r,
         AttemptInPlace(s, kept, m),
         r = IF s = <<>> THEN <<[initial |-> m, last |-> m]>>
             ELSE [s EXCEPT ![Len(s)] = [@ EXCEPT !.last = m]]
  PROVE  EntriesInPlace(r, kept)
<1>0. Len(s) \in Nat /\ (s = <<>> <=> Len(s) = 0)
  OBVIOUS
<1>1. CASE s = <<>>
  <2>1. PICK x \in ProcessedTickInterval : x = [initial |-> m, last |-> m]
    BY DEF ProcessedTickInterval
  <2>2. r = <<x>> /\ Len(r) = 1 /\ r[1].last = m
    <3>1. r = <<x>> /\ x.last = m
      BY <1>1, <2>1
    <3> QED BY <3>1
  <2>3. 1 \in DOMAIN kept /\ kept[1] = m
    BY <1>0, <1>1 DEF AttemptInPlace, OpenedAt
  <2> QED BY <2>2, <2>3 DEF EntriesInPlace
<1>2. CASE s # <<>>
  <2>1. /\ Len(r) = Len(s) /\ r[Len(s)].last = m
        /\ \A k \in 1 .. Len(s) : r[k].initial = s[k].initial
    <3>1. r = [s EXCEPT ![Len(s)] = [@ EXCEPT !.last = m]]
      BY <1>2
    <3> QED BY <1>2, <3>1, ExtendFacts
  <2>2. ClosedInPlace(r, kept)
    BY <1>0, <2>1 DEF AttemptInPlace, ClosedInPlace
  <2>3. \/ Len(r) > 1 /\ r[Len(r)].initial = r[Len(r)].last
        \/ Len(r) \in DOMAIN kept /\ kept[Len(r)] = r[Len(r)].last
    BY <1>0, <1>2, <2>1 DEF AttemptInPlace, OpenedAt
  <2> QED BY <2>2, <2>3 DEF EntriesInPlace, ClosedInPlace
<1> QED BY <1>1, <1>2

\* Only StoreLastQuorumOfInterval writes the quorum data.
LEMMA QuorumWrites ==
  ASSUME [Next]_vars
  PROVE  StoreLastQuorumOfInterval \/ UNCHANGED lastTickQuorumData
<1> USE DEF storeVars
<1>1. CASE ProcessOneByOne
  BY <1>1 DEF ProcessOneByOne, GetTickInfo, StartAttempt, TickInTheFuture, ProcessingFails,
    ValidateTick, StoreComputors, StoreTargetTickVoteSignature,
    ValidateVotesAndTickData, StoreQuorumVotes,
    StoreTickData, StoreTickTransactions, StoreTransferTransactions,
    StoreTransactionsStatus, ComputeAndSave, ComputeStoreAndSave,
    InitEmptyTickList, CountEmptyTick, ListEmptyTick,
    ProcessStatus, NoSkippedTicks, AppendInterval, SetSkippedTicks,
    SetLastProcessedTick, SetProcessedTickInterval
<1>2. CASE StartupNext
  BY <1>2 DEF StartupNext, OpenStore, ResetEmptyTicks, ResetEmptyTickList, ResetDone,
    EmptyTicksKnown, CalculateEmptyTicks, CalculateEmptyTickList, CalculationFails,
    CalculationDone, Restart
<1>3. CASE Crash \/ WriteFails \/ UNCHANGED vars
  BY <1>3 DEF Crash, WriteFails, vars
<1> QED
  BY <1>1, <1>2, <1>3 DEF Next

\* Every step keeps the quorum data of every epoch in place.
LEMMA QuorumStep ==
  ASSUME CleanStops, SafetyInv, CleanInv, QuorumInv, [Next]_vars
  PROVE  QuorumInv'
<1>0. /\ processedTickIntervals \in [Epochs -> Seq(ProcessedTickInterval)]
      /\ DOMAIN lastTickQuorumData = Epochs
      /\ pc \in AttemptSteps => tick \in Ticks /\ EpochOf(tick) \in Epochs /\ nextTick.epoch = EpochOf(tick)
      /\ \A e \in Epochs : Intervals(e) \in Seq(ProcessedTickInterval)
  BY SegmentOfTick DEF SafetyInv, TypeInv, TypeOK, StoreTypeOK, AttemptInv, Intervals
<1>1. CASE UNCHANGED vars
  BY <1>1 DEF vars, storeVars, statusVars, attemptVars, QuorumInv, Intervals, tick
<1>2. CASE StoreLastQuorumOfInterval
  <2>1. PICK e \in Epochs, m \in Ticks : e = EpochOf(tick) /\ m = tick
    BY <1>0, <1>2 DEF StoreLastQuorumOfInterval, AttemptSteps
  <2>2. /\ pc = "lastQuorum" /\ pc' = "tickData" /\ tick' = tick
        /\ UNCHANGED processedTickIntervals
        /\ lastTickQuorumData' =
             [lastTickQuorumData EXCEPT ![e] = Put(lastTickQuorumData[e], CurrentInterval(e), m)]
    BY <1>2, <2>1 DEF StoreLastQuorumOfInterval, SetQuorumDataForCurrentEpochInterval, Goto,
      attemptVars, statusVars, tick
  <2>3. EntriesInPlace(Intervals(e), lastTickQuorumData[e])
    BY <2>2 DEF QuorumInv, QuorumSteps
  <2>4. AttemptInPlace(Intervals(e), Put(lastTickQuorumData[e], CurrentInterval(e), m), m)
    BY <1>0, <2>3, EntryStored DEF CurrentInterval, Intervals
  <2>5. /\ lastTickQuorumData'[e] = Put(lastTickQuorumData[e], CurrentInterval(e), m)
        /\ \A y \in Epochs : y # e => lastTickQuorumData'[y] = lastTickQuorumData[y]
    BY <1>0, <2>2
  <2>6. \A y \in Epochs : Intervals(y)' = Intervals(y)
    BY <2>2 DEF Intervals
  <2> QED BY <2>1, <2>2, <2>4, <2>5, <2>6 DEF QuorumInv, QuorumSteps
<1>3. CASE UNCHANGED lastTickQuorumData /\ pc \in QuorumSteps /\ ~UNCHANGED vars
  <2>0. ValidateTick \/ ProcessStatus
    BY <1>3, NotGivenUp DEF CleanInv, QuorumSteps, UnfinishedSteps
  <2>1. PICK e \in Epochs, m \in Ticks : e = EpochOf(tick) /\ m = tick /\ nextTick.epoch = e
    BY <1>0, <1>3 DEF QuorumSteps, AttemptSteps
  <2>2. \A y \in Epochs : y # e => Intervals(y)' = Intervals(y)
    <3>1. ASSUME NEW y \in Epochs, y # e
          PROVE  processedTickIntervals'[y] = processedTickIntervals[y]
      <4>1. CASE ProcessStatus
        BY <1>0, <2>1, <3>1, <4>1 DEF ProcessStatus, NoSkippedTicks, AppendInterval,
          SetSkippedTicks, SetLastProcessedTick, SetProcessedTickInterval,
          AppendProcessedTickInterval, ExtendProcessedTickInterval, storeVars, statusVars
      <4>2. CASE ~ProcessStatus
        BY <1>3, <4>2, OtherSteps DEF statusVars
      <4> QED BY <4>1, <4>2
    <3> QED BY <3>1 DEF Intervals
  <2>3. /\ AttemptInPlace(Intervals(e), lastTickQuorumData[e], m)
        /\ m \in Nat /\ lastTickQuorumData' = lastTickQuorumData
    BY <1>3, <2>1, SegmentOfTick DEF QuorumInv
  <2>4. CASE SetProcessedTickInterval
    <3>1. pc' = "idle"
      BY <2>4 DEF SetProcessedTickInterval, EndAttempt, Goto
    <3>2. PICK new :
            /\ new = IF Intervals(e) = <<>> THEN <<[initial |-> m, last |-> m]>>
                     ELSE [Intervals(e) EXCEPT ![Len(Intervals(e))] = [@ EXCEPT !.last = m]]
            /\ processedTickIntervals' = [processedTickIntervals EXCEPT ![e] = new]
      BY <2>1, <2>4 DEF SetProcessedTickInterval, ExtendProcessedTickInterval, tick, Intervals
    <3>3. Intervals(e)' = new
      BY <1>0, <3>2 DEF Intervals
    <3>4. EntriesInPlace(new, lastTickQuorumData[e])
      BY <1>0, <2>3, <3>2, EntryRecorded
    <3> QED
      BY <1>3, <2>1, <2>2, <2>3, <3>1, <3>3, <3>4 DEF QuorumInv, QuorumSteps
  <2>5. CASE AppendInterval
    <3>1. pc' \in QuorumSteps /\ tick' = tick
      BY <2>5 DEF AppendInterval, Goto, attemptVars, tick, QuorumSteps
    <3>2. PICK new :
            /\ new = Append(Intervals(e), [initial |-> m, last |-> m])
            /\ processedTickIntervals' = [processedTickIntervals EXCEPT ![e] = new]
      BY <2>1, <2>5 DEF AppendInterval, AppendProcessedTickInterval, Intervals
    <3>3. Intervals(e)' = new
      BY <1>0, <3>2 DEF Intervals
    <3>4. Intervals(e) # <<>> => Intervals(e)[Len(Intervals(e))].initial # m
      BY <2>1, <2>5, NewestStartsBefore
    <3>5. AttemptInPlace(new, lastTickQuorumData[e], m)
      BY <1>0, <2>3, <3>2, <3>4, EntryClosed
    <3> QED
      BY <1>3, <2>1, <2>2, <2>3, <3>1, <3>3, <3>5 DEF QuorumInv
  <2>6. CASE ~SetProcessedTickInterval /\ ~AppendInterval
    <3>1. pc' \in QuorumSteps /\ tick' = tick /\ UNCHANGED processedTickIntervals
      <4>1. CASE ProcessStatus
        BY <2>6, <4>1 DEF ProcessStatus, NoSkippedTicks,
          SetSkippedTicks, SetLastProcessedTick, Goto, attemptVars, tick, QuorumSteps,
          storeVars, statusVars
      <4>2. CASE ValidateTick
        <5>1. pc' \in QuorumSteps /\ tick' = tick
          BY <1>3, <4>2 DEF ValidateTick, StoreComputors, StoreTargetTickVoteSignature,
            ValidateVotesAndTickData, StoreQuorumVotes, StoreLastQuorumOfInterval,
            StoreTickData, StoreTickTransactions, StoreTransferTransactions,
            StoreTransactionsStatus, ComputeAndSave, ComputeStoreAndSave, AfterDigests,
            InitEmptyTickList, CountEmptyTick, ListEmptyTick, Goto, attemptVars, tick, QuorumSteps
        <5>2. UNCHANGED processedTickIntervals
          BY <4>2 DEF ValidateTick, StoreComputors, StoreTargetTickVoteSignature,
            ValidateVotesAndTickData, StoreQuorumVotes, StoreLastQuorumOfInterval,
            StoreTickData, StoreTickTransactions, StoreTransferTransactions,
            StoreTransactionsStatus, ComputeAndSave, ComputeStoreAndSave,
            InitEmptyTickList, CountEmptyTick, ListEmptyTick, storeVars, statusVars
        <5> QED BY <5>1, <5>2
      <4> QED BY <2>0, <4>1, <4>2
    <3>2. Intervals(e)' = Intervals(e)
      BY <3>1 DEF Intervals
    <3> QED BY <1>3, <2>1, <2>2, <2>3, <3>1, <3>2 DEF QuorumInv
  <2> QED BY <2>4, <2>5, <2>6
<1>4. CASE UNCHANGED lastTickQuorumData /\ pc \notin QuorumSteps /\ ~UNCHANGED vars
           /\ ~StoreLastQuorumOfInterval
  <2>1. ~ProcessStatus
    BY <1>4 DEF ProcessStatus, NoSkippedTicks, AppendInterval, SetSkippedTicks,
      SetLastProcessedTick, SetProcessedTickInterval, QuorumSteps
  <2>2. \A y : Intervals(y)' = Intervals(y)
    BY <1>4, <2>1, OtherSteps DEF statusVars, Intervals
  <2>3. pc' \notin QuorumSteps
    <3>1. CASE ValidateTick
      BY <1>4, <3>1 DEF ValidateTick, StoreComputors, StoreTargetTickVoteSignature,
        ValidateVotesAndTickData, StoreQuorumVotes,
        StoreTickData, StoreTickTransactions, StoreTransferTransactions,
        StoreTransactionsStatus, ComputeAndSave, ComputeStoreAndSave,
        InitEmptyTickList, CountEmptyTick, ListEmptyTick, Goto, QuorumSteps
    <3>2. CASE ~ValidateTick
      BY <1>4, <2>1, <3>2, ControlSteps DEF StartupSteps, QuorumSteps
    <3> QED BY <3>1, <3>2
  <2> QED BY <1>4, <2>2, <2>3 DEF QuorumInv
<1> QED
  BY <1>1, <1>2, <1>3, <1>4, QuorumWrites

\* However many intervals an epoch has, the full quorum data that
\* SetQuorumDataForCurrentEpochInterval keeps is, between two attempts, that of
\* the last tick of the newest interval, or the entry before when one tick has
\* just opened it; every closed interval's entry is that of the tick that
\* opened the next interval (what the run last_quorum_overwritten shows).  No
\* attempt is interrupted once it has stored something.
THEOREM LastQuorumKept ==
  ASSUME CleanStops
  PROVE  Spec => []LastQuorumPlaced
<1>1. Init => QuorumInv
  <2> SUFFICES ASSUME Init PROVE QuorumInv
    OBVIOUS
  <2>1. pc = "boot" /\ \A e \in Epochs : Intervals(e) = <<>>
    BY DEF Init, StoreInit, Intervals
  <2>2. Len(<<>>) = 0 /\ 1 .. 0 - 1 = {}
    OBVIOUS
  <2> QED BY <2>1, <2>2 DEF QuorumInv, QuorumSteps, EntriesInPlace
<1>2. SafetyInv /\ CleanInv /\ QuorumInv /\ [Next]_vars => QuorumInv'
  BY QuorumStep
<1>3. QuorumInv => LastQuorumPlaced
  BY DEF QuorumInv, LastQuorumPlaced, QuorumSteps, Intervals
<1> QED
  BY <1>1, <1>2, <1>3, SafetyInvariant, CleanInvariant, PTL DEF Spec

-----------------------------------------------------------------------------
(* The counts and lists of empty ticks, exactly.                              *)

\* The empty ticks of epoch e that are processed, and the one that an attempt
\* at one of the steps is about to add.
EmptyProcessed(e) == {t \in ProcessedTicks \cap EmptyTicks : EpochOf(t) = e}
Adding(e, steps)  == {t \in EmptyTicks : pc \in steps /\ t = tick /\ EpochOf(t) = e}

\* ValidateTick counts a tick, then lists it, then processStatus records it.
ListedSteps  == {"status", "skipped", "lastTick"}
CountedSteps == {"emptyList"} \cup ListedSteps

Counting(e) == EmptyProcessed(e) \cup Adding(e, CountedSteps)
Listing(e)  == EmptyProcessed(e) \cup Adding(e, ListedSteps)
Marked(S)   == [t \in Ticks |-> IF t \in S THEN 1 ELSE 0]

CountExact(e) ==
  IF e \in DOMAIN emptyTicks THEN emptyTicks[e] = Cardinality(Counting(e))
  ELSE Counting(e) = {}
ListExact(e) == e \in DOMAIN emptyTickList /\ emptyTickList[e] = Marked(Listing(e))

\* The key of epoch e is deleted and not calculated again.
Uncounted(e) ==
  \/ pc \in {"reset", "resetList"} /\ e \in StoredEpochs \ pendingEpochs
  \/ /\ pc \in {"calculate", "calculateList"}
     /\ e \in pendingEpochs /\ pendingEpochs \cap DOMAIN emptyTicks = {}

\* An epoch with a count has a list, except between the two writes of startup,
\* and ValidateTick has begun one before it counts the first empty tick.
ListDue(e) ==
  \/ e \in DOMAIN emptyTicks /\ ~(pc = "calculateList" /\ e = currentEpoch)
  \/ pc \in {"emptyCount", "emptyList"} /\ e = EpochOf(tick)

\* The reset leaves no count behind, so that the calculation after it visits
\* every epoch; counts and lists are exact wherever they are not due.
EmptyInv ==
  /\ pc \in {"reset", "resetList"} =>
       /\ pendingEpochs \subseteq StoredEpochs
       /\ (StoredEpochs \ pendingEpochs) \cap DOMAIN emptyTicks = {}
  /\ \A e \in Epochs : Uncounted(e) \/ CountExact(e)
  /\ \A e \in Epochs : ListDue(e) => ListExact(e)

\* Processing a tick adds it, if it is empty, and no tick of a gap: those have
\* no records.  No other step changes what is processed.
LEMMA EmptyProcessedStep ==
  ASSUME CleanStops, SafetyInv, CleanInv, [Next]_vars, NEW e
  PROVE  EmptyProcessed(e)' =
           IF SetLastProcessedTick THEN EmptyProcessed(e) \cup Adding(e, {"lastTick"})
           ELSE EmptyProcessed(e)
<1>0. /\ lastProcessedTick.tickNumber \in Nat
      /\ \A t \in Ticks : t \in Nat
      /\ EmptyTicks \subseteq Ticks
  BY SegmentOfTick, ContentAssumption DEF SafetyInv, TypeInv, TypeOK, StoreTypeOK, ProcessedTick
<1>1. CASE SetLastProcessedTick
  <2>1. PICK n \in Ticks : n = tick /\ lastProcessedTick.tickNumber < n
    BY <1>1, StatusTick DEF SetLastProcessedTick, ProcessStatus
  <2>2. lastProcessedTick'.tickNumber = n /\ \A t : Complete(t)' = Complete(t)
    BY <1>1, <2>1 DEF SetLastProcessedTick, CommitLastProcessedTick, tick, tickVars, Complete
  <2>3. Complete(n) /\ pc = "lastTick"
    BY <1>1, <2>1 DEF SetLastProcessedTick, SafetyInv, StoredInv, StatusSteps
  <2>4. ASSUME NEW t \in Ticks, Complete(t), lastProcessedTick.tickNumber < t
        PROVE  t = n
    <3>1. records[t] # {}
      BY <2>4 DEF Complete, RecordKinds
    <3> QED BY <2>1, <2>4, <3>1 DEF CleanInv, FreshInv
  <2>5. \A t \in Ticks :
          (t <= n /\ Complete(t)) <=> ((t <= lastProcessedTick.tickNumber /\ Complete(t)) \/ t = n)
    BY <1>0, <2>1, <2>3, <2>4
  <2> HIDE DEF Complete
  <2>6. \A t : t \in EmptyProcessed(e)' <=> t \in EmptyProcessed(e) \/ t \in Adding(e, {"lastTick"})
    BY <1>0, <2>1, <2>2, <2>3, <2>5 DEF EmptyProcessed, ProcessedTicks, Adding
  <2> QED BY <1>1, <2>6
<1>2. CASE ~SetLastProcessedTick
  <2>1. UNCHANGED lastProcessedTick
    BY <1>2, OtherSteps DEF vars, storeVars, statusVars, ProcessStatus, NoSkippedTicks, AppendInterval,
      SetSkippedTicks, SetProcessedTickInterval
  <2>2. ASSUME NEW t \in Ticks, t <= lastProcessedTick.tickNumber
        PROVE  Complete(t)' = Complete(t)
    <3>1. CASE UNCHANGED tickVars
      BY <3>1 DEF tickVars, Complete
    <3>2. CASE TickWrite
      <4>1. TypeInv
        BY DEF SafetyInv
      <4>2. tick \in Ticks /\ lastProcessedTick.tickNumber < tick
        BY <3>2, <4>1, TickWriteEffect
      <4>3. t # tick
        BY <1>0, <2>2, <4>2
      <4>4. /\ records'[t] = records[t] /\ transfers'[t] = transfers[t]
            /\ t \in DOMAIN chainDigest' <=> t \in DOMAIN chainDigest
            /\ t \in DOMAIN storeDigest' <=> t \in DOMAIN storeDigest
        BY <3>2, <4>1, <4>3, TickWriteEffect
      <4> QED BY <4>4 DEF Complete
    <3> QED BY <3>1, <3>2, TickSteps
  <2> HIDE DEF Complete
  <2>3. \A t : t \in EmptyProcessed(e)' <=> t \in EmptyProcessed(e)
    BY <1>0, <2>1, <2>2 DEF EmptyProcessed, ProcessedTicks
  <2> QED BY <1>2, <2>3
<1> QED BY <1>1, <1>2

\* What startup finds in the intervals of an epoch are its processed empty
\* ticks, each once.
LEMMA FoundProcessed ==
  ASSUME SafetyInv, CleanInv, pc \in StartupSteps, NEW e \in Epochs
  PROVE  /\ Cardinality(FoundEmptyTicks(e)) = Cardinality(EmptyProcessed(e))
         /\ FoundEmptyTickList(e) = Marked(EmptyProcessed(e))
<1> DEFINE Found == FoundEmptyTicks(e)
<1>0. /\ pc \notin {"interval", "skipped", "lastTick"}
      /\ lastProcessedTick.tickNumber \in Nat
      /\ EmptyTicks \subseteq Ticks
      /\ \A t \in Ticks : t \in Nat \ {0}
      /\ processedTickIntervals \in [Epochs -> Seq(ProcessedTickInterval)]
  BY SegmentOfTick, ContentAssumption
  DEF StartupSteps, SafetyInv, TypeInv, TypeOK, StoreTypeOK, ProcessedTick
<1>1. ASSUME NEW f \in Found
      PROVE  /\ f = <<f[1], f[2]>> /\ <<e, f[1]>> \in HeldBy(f[2])
             /\ f[2] \in EmptyProcessed(e)
  <2>1. /\ f = <<f[1], f[2]>> /\ f[1] \in DOMAIN Intervals(e) /\ f[2] \in EmptyTicks
        /\ f[2] \in Intervals(e)[f[1]].initial .. Intervals(e)[f[1]].last
    BY DEF FoundEmptyTicks, IntervalTicks, Intervals
  <2>2. Archived(f[2], e)
    BY <2>1 DEF SafetyInv, StatusInv, IntervalInv
  <2>3. f[2] \in Nat /\ f[2] \in Ticks
    BY <1>0, <2>1
  <2>4. <<e, f[1]>> \in HeldBy(f[2])
    <3>1. Intervals(e)[f[1]] \in ProcessedTickInterval
      BY <1>0, <2>1 DEF Intervals
    <3>2. Intervals(e)[f[1]].initial <= f[2] /\ f[2] <= Intervals(e)[f[1]].last
      BY <2>1, <3>1 DEF ProcessedTickInterval
    <3> QED BY <2>1, <2>3, <3>2, HeldFacts
  <2>5. f[2] <= lastProcessedTick.tickNumber
    <3>1. lastProcessedTick.tickNumber < f[2] => HeldBy(f[2]) = {}
      BY <1>0, <2>3 DEF CleanInv, CoverInv, AboveInv, GapOpen
    <3> QED BY <1>0, <2>3, <2>4, <3>1
  <2> QED
    BY <2>1, <2>2, <2>3, <2>4, <2>5 DEF Archived, EmptyProcessed, ProcessedTicks
<1>2. ASSUME NEW t \in EmptyProcessed(e)
      PROVE  \E k : <<k, t>> \in Found /\ HeldBy(t) = {<<e, k>>}
  <2>1. t \in ProcessedTicks /\ t \in EmptyTicks /\ EpochOf(t) = e
        /\ t \in Nat /\ t \in 1 .. lastProcessedTick.tickNumber
    BY <1>0 DEF EmptyProcessed, ProcessedTicks
  <2>2. PICK p \in Positions : HeldBy(t) = {p}
    BY <1>0, <2>1, HeldOnce
  <2>3. p \in HeldBy(t)
    BY <2>2
  <2>4. PICK x \in Epochs : \E k \in DOMAIN Intervals(x) :
          p = <<x, k>> /\ Intervals(x)[k].initial <= t /\ t <= Intervals(x)[k].last
    BY <2>1, <2>3, HeldFacts
  <2>5. PICK k \in DOMAIN Intervals(x) :
          p = <<x, k>> /\ Intervals(x)[k].initial <= t /\ t <= Intervals(x)[k].last
    BY <2>4
  <2>6. t \in Intervals(x)[k].initial .. Intervals(x)[k].last
    <3>1. Intervals(x)[k] \in ProcessedTickInterval
      BY <1>0 DEF Intervals
    <3> QED BY <2>1, <2>5, <3>1 DEF ProcessedTickInterval
  <2>7. x = e
    BY <2>1, <2>6 DEF SafetyInv, StatusInv, IntervalInv, Archived
  <2>8. <<k, t>> \in Found
    BY <2>1, <2>6, <2>7 DEF FoundEmptyTicks, IntervalTicks, Intervals
  <2> QED BY <2>2, <2>5, <2>7, <2>8
<1>3. ASSUME NEW f \in Found, NEW g \in Found, f[2] = g[2]
      PROVE  f = g
  <2>1. PICK k : HeldBy(f[2]) = {<<e, k>>}
    BY <1>1, <1>2
  <2>2. <<e, f[1]>> = <<e, k>> /\ <<e, g[1]>> = <<e, k>>
    BY <1>1, <1>3, <2>1
  <2>3. f[1] = g[1]
    BY <2>2
  <2> QED BY <1>1, <1>3, <2>3
<1>4. IsFiniteSet(Found)
  BY <1>0, FoundEmptyTicksFinite
<1> HIDE DEF Found
<1>5. Cardinality(Found) = Cardinality(EmptyProcessed(e))
  <2> DEFINE h == [f \in Found |-> f[2]]
  <2>1. h \in [Found -> EmptyProcessed(e)]
    BY <1>1
  <2>2. \A f, g \in Found : h[f] = h[g] => f = g
    BY <1>3
  <2>3. \A t \in EmptyProcessed(e) : \E f \in Found : h[f] = t
    <3> SUFFICES ASSUME NEW t \in EmptyProcessed(e) PROVE \E f \in Found : h[f] = t
      OBVIOUS
    <3>1. PICK k : <<k, t>> \in Found
      BY <1>2
    <3>2. h[<<k, t>>] = t
      BY <3>1
    <3> QED BY <3>1, <3>2
  <2> HIDE DEF h
  <2>4. h \in Bijection(Found, EmptyProcessed(e))
    BY <2>1, <2>2, <2>3 DEF Bijection, Injection, IsInjective, Surjection
  <2>5. ExistsBijection(Found, EmptyProcessed(e))
    BY <2>4 DEF ExistsBijection
  <2> QED BY <1>4, <2>5, FS_Bijection
<1>6. ASSUME NEW t \in Ticks
      PROVE  Cardinality({f \in Found : f[2] = t}) = IF t \in EmptyProcessed(e) THEN 1 ELSE 0
  <2>1. CASE t \in EmptyProcessed(e)
    <3>1. PICK k : <<k, t>> \in Found
      BY <1>2, <2>1
    <3>2. {f \in Found : f[2] = t} = {<<k, t>>}
      BY <1>3, <3>1
    <3> QED BY <2>1, <3>2, FS_Singleton
  <2>2. CASE t \notin EmptyProcessed(e)
    <3>1. {f \in Found : f[2] = t} = {}
      BY <1>1, <2>2
    <3> QED BY <2>2, <3>1, FS_EmptySet
  <2> QED BY <2>1, <2>2
<1> QED
  BY <1>5, <1>6 DEF Found, FoundEmptyTickList, Marked

\* How a step moves through the steps at which a tick is counted and listed.
LEMMA CountedMoves ==
  ASSUME CleanStops, SafetyInv, CleanInv, [Next]_vars
  PROVE  \/ SetLastProcessedTick
         \/ CountEmptyTick /\ tick' = tick
         \/ ListEmptyTick /\ tick' = tick
         \/ pc \notin CountedSteps /\ pc' \notin CountedSteps
         \/ pc \in ListedSteps /\ pc' \in ListedSteps /\ tick' = tick
         \/ pc \notin CountedSteps /\ tick' = tick /\ tick \notin EmptyTicks
         \/ UNCHANGED <<pc, nextTick>>
<1>1. CASE UNCHANGED vars
  BY <1>1 DEF vars, attemptVars
<1>2. CASE ValidateTick
  BY <1>2 DEF ValidateTick, StoreComputors, StoreTargetTickVoteSignature,
    ValidateVotesAndTickData, StoreQuorumVotes, StoreLastQuorumOfInterval,
    StoreTickData, StoreTickTransactions, StoreTransferTransactions,
    StoreTransactionsStatus, ComputeAndSave, ComputeStoreAndSave, AfterDigests,
    InitEmptyTickList, CountEmptyTick, ListEmptyTick, Goto, attemptVars, tick,
    CountedSteps, ListedSteps
<1>3. CASE ProcessStatus
  BY <1>3 DEF ProcessStatus, NoSkippedTicks, AppendInterval, SetSkippedTicks,
    SetProcessedTickInterval, EndAttempt, Goto, attemptVars, tick, CountedSteps, ListedSteps
<1>4. CASE pc \notin UnfinishedSteps \cup {"interval"} /\ pc' \in {"idle", "computors"} \cup StartupSteps
  BY <1>4 DEF UnfinishedSteps, StartupSteps, CountedSteps, ListedSteps
<1> QED
  BY <1>1, <1>2, <1>3, <1>4, ControlSteps, NotGivenUp DEF CleanInv

\* A tick is counted by CountEmptyTick and listed by ListEmptyTick; processing
\* it makes it a processed one.
LEMMA CountingStep ==
  ASSUME CleanStops, SafetyInv, CleanInv, [Next]_vars, NEW e
  PROVE  /\ ~CountEmptyTick => Counting(e)' = Counting(e)
         /\ ~ListEmptyTick => Listing(e)' = Listing(e)
<1> DEFINE Added(steps) == Adding(e, steps)
<1>0. EmptyProcessed(e)' = IF SetLastProcessedTick THEN EmptyProcessed(e) \cup Added({"lastTick"})
                           ELSE EmptyProcessed(e)
  BY EmptyProcessedStep
<1>1. CASE SetLastProcessedTick
  <2>1. pc = "lastTick" /\ pc' = "interval"
    BY <1>1 DEF SetLastProcessedTick, Goto
  <2>2. Added(CountedSteps) = Added({"lastTick"}) /\ Added(ListedSteps) = Added({"lastTick"})
    BY <2>1 DEF Adding, CountedSteps, ListedSteps
  <2>3. Added(CountedSteps)' = {} /\ Added(ListedSteps)' = {}
    BY <2>1 DEF Adding, CountedSteps, ListedSteps
  <2> HIDE DEF Added
  <2>4. Counting(e) = EmptyProcessed(e) \cup Added(CountedSteps)
        /\ Counting(e)' = EmptyProcessed(e)' \cup Added(CountedSteps)'
        /\ Listing(e) = EmptyProcessed(e) \cup Added(ListedSteps)
        /\ Listing(e)' = EmptyProcessed(e)' \cup Added(ListedSteps)'
    BY DEF Counting, Listing, Added
  <2> QED BY <1>0, <1>1, <2>2, <2>3, <2>4
<1>2. CASE ~SetLastProcessedTick
  <2>1. ~CountEmptyTick => Added(CountedSteps)' = Added(CountedSteps)
    BY <1>2, CountedMoves DEF Adding, CountedSteps, ListedSteps, ListEmptyTick, Goto, tick
  <2>2. ~ListEmptyTick => Added(ListedSteps)' = Added(ListedSteps)
    BY <1>2, CountedMoves DEF Adding, CountedSteps, ListedSteps, CountEmptyTick, Goto, tick
  <2> QED BY <1>0, <1>2, <2>1, <2>2 DEF Counting, Listing
<1> QED BY <1>1, <1>2

\* An attempt's tick is not yet processed, and sets of empty ticks are finite.
LEMMA CountingFinite ==
  ASSUME NEW e
  PROVE  /\ IsFiniteSet(Counting(e)) /\ Cardinality(Counting(e)) \in Nat
         /\ Counting(e) = {} <=> Cardinality(Counting(e)) = 0
<1>1. Counting(e) \in SUBSET EmptyTicks
  BY DEF Counting, EmptyProcessed, Adding
<1>2. IsFiniteSet(Counting(e))
  BY <1>1, ContentAssumption, FS_Subset
<1> QED BY <1>2, FS_CardinalityType, FS_EmptySet

\* AppendEmptyTickToEmptyTickListPerEpoch marks one tick more.
LEMMA MarkedAdd ==
  ASSUME NEW S, NEW n \in Ticks, n \notin S
  PROVE  [Marked(S) EXCEPT ![n] = @ + 1] = Marked(S \cup {n})
<1>1. [Marked(S) EXCEPT ![n] = @ + 1] = [t \in Ticks |-> IF t = n THEN Marked(S)[n] + 1 ELSE Marked(S)[t]]
  BY DEF Marked
<1>2. Marked(S)[n] + 1 = 1
  BY DEF Marked
<1>3. \A t \in Ticks : (IF t = n THEN Marked(S)[n] + 1 ELSE Marked(S)[t])
                        = IF t \in S \cup {n} THEN 1 ELSE 0
  BY <1>2 DEF Marked
<1> QED BY <1>1, <1>3 DEF Marked

\* The steps of ValidateTick that write the keys of an empty tick keep them exact.
LEMMA EmptyTickWrites ==
  ASSUME CleanStops, SafetyInv, CleanInv, OnlyEmptyInv, EmptyInv, [Next]_vars,
         InitEmptyTickList \/ CountEmptyTick \/ ListEmptyTick
  PROVE  EmptyInv'
<1>0. PICK n, c : n = tick /\ c = EpochOf(n)
  OBVIOUS
<1>1. /\ pc \in {"emptyInit", "emptyCount", "emptyList"} /\ pc \in AttemptSteps
      /\ pc' \in {"emptyCount", "emptyList", "status"}
      /\ tick' = tick
  BY DEF InitEmptyTickList, CountEmptyTick, ListEmptyTick, Goto, attemptVars, tick, AttemptSteps
<1>2. /\ n \in Ticks /\ n \in EmptyTicks /\ c \in Epochs /\ lastProcessedTick.tickNumber < n
      /\ n \in Nat /\ lastProcessedTick.tickNumber \in Nat
  BY <1>0, <1>1, SegmentOfTick
  DEF SafetyInv, TypeInv, TypeOK, StoreTypeOK, ProcessedTick, AttemptInv, OnlyEmptyInv
<1>3. \A e \in Epochs : CountExact(e)
  BY <1>1 DEF EmptyInv, Uncounted
<1>4. n \notin EmptyProcessed(c)
  BY <1>2 DEF EmptyProcessed, ProcessedTicks
<1>5. ASSUME NEW e \in Epochs, e # c
      PROVE  /\ Counting(e)' = Counting(e) /\ Listing(e)' = Listing(e)
             /\ ListDue(e) <=> e \in DOMAIN emptyTicks
             /\ ListDue(e)' <=> e \in DOMAIN emptyTicks'
  <2>1. Adding(e, CountedSteps) = {} /\ Adding(e, ListedSteps) = {}
    BY <1>0, <1>5 DEF Adding
  <2>2. Adding(e, CountedSteps)' = {} /\ Adding(e, ListedSteps)' = {}
    BY <1>0, <1>1, <1>5 DEF Adding
  <2>3. EmptyProcessed(e)' = EmptyProcessed(e)
    BY <1>1, EmptyProcessedStep DEF SetLastProcessedTick
  <2>4. Counting(e)' = Counting(e) /\ Listing(e)' = Listing(e)
    BY <2>1, <2>2, <2>3 DEF Counting, Listing
  <2> QED BY <1>0, <1>1, <1>5, <2>4 DEF ListDue
<1>6. EmptyProcessed(c)' = EmptyProcessed(c)
  BY <1>1, EmptyProcessedStep DEF SetLastProcessedTick
<1>7. EmptyTicksOf(c) = Cardinality(Counting(c))
  BY <1>2, <1>3, CountingFinite DEF CountExact, EmptyTicksOf
<1>8. \A e \in Epochs : e # c => (e \in DOMAIN emptyTicks => ListExact(e))
  BY <1>5 DEF EmptyInv
<1>9. pc' \notin {"reset", "resetList", "calculate", "calculateList"}
  BY <1>1
<1>10. SUFFICES (\A e \in Epochs : CountExact(e)') /\ \A e \in Epochs : ListDue(e)' => ListExact(e)'
  BY <1>9 DEF EmptyInv
<1>11. CASE InitEmptyTickList
  <2>1. /\ pc = "emptyInit" /\ pc' = "emptyCount" /\ UNCHANGED emptyTicks
        /\ IF EmptyTicksOf(c) = 0 THEN emptyTickList' = Put(emptyTickList, c, EmptyList)
           ELSE UNCHANGED emptyTickList
    BY <1>0, <1>11 DEF InitEmptyTickList, SetEmptyTickListPerEpoch, Goto
  <2>2. Counting(c)' = Counting(c) /\ Listing(c)' = Listing(c) /\ Listing(c) = Counting(c)
    <3>1. ~CountEmptyTick /\ ~ListEmptyTick
      BY <2>1 DEF CountEmptyTick, ListEmptyTick
    <3> QED BY <2>1, <3>1, CountingStep DEF Counting, Listing, Adding, CountedSteps, ListedSteps
  <2>3. \A e \in Epochs : CountExact(e)'
    BY <1>3, <1>5, <2>1, <2>2 DEF CountExact
  <2>4. ListExact(c)'
    <3>1. CASE EmptyTicksOf(c) = 0
      <4>1. Listing(c)' = {}
        BY <1>7, <2>2, <3>1, CountingFinite
      <4>2. Marked({}) = EmptyList
        BY DEF Marked, EmptyList
      <4>3. c \in DOMAIN emptyTickList' /\ emptyTickList'[c] = EmptyList
        BY <2>1, <3>1 DEF Put
      <4> QED BY <4>1, <4>2, <4>3 DEF ListExact
    <3>2. CASE EmptyTicksOf(c) # 0
      <4>1. c \in DOMAIN emptyTicks
        BY <3>2 DEF EmptyTicksOf
      <4>2. ListExact(c)
        BY <1>2, <2>1, <4>1 DEF EmptyInv, ListDue
      <4> QED BY <2>1, <2>2, <3>2, <4>2 DEF ListExact
    <3> QED BY <3>1, <3>2
  <2>5. \A e \in Epochs : e # c => (ListExact(e) => ListExact(e)')
    BY <1>5, <2>1 DEF ListExact, Put
  <2> QED BY <1>5, <1>8, <2>1, <2>3, <2>4, <2>5
<1>12. CASE CountEmptyTick
  <2>1. /\ pc = "emptyCount" /\ pc' = "emptyList" /\ UNCHANGED emptyTickList
        /\ emptyTicks' = Put(emptyTicks, c, EmptyTicksOf(c) + 1)
    BY <1>0, <1>12 DEF CountEmptyTick, SetEmptyTicksForEpoch, Goto
  <2>2. Counting(c) = EmptyProcessed(c) /\ Counting(c)' = EmptyProcessed(c) \cup {n}
    BY <1>0, <1>1, <1>2, <1>6, <2>1 DEF Counting, Adding, CountedSteps, ListedSteps
  <2>3. Cardinality(Counting(c)') = EmptyTicksOf(c) + 1
    <3>1. PICK S : S = EmptyProcessed(c) /\ n \notin S
      BY <1>4
    <3>2. IsFiniteSet(S) /\ EmptyTicksOf(c) = Cardinality(S)
      BY <1>7, <2>2, <3>1, CountingFinite
    <3>3. Cardinality(S \cup {n}) = Cardinality(S) + 1
      BY <3>1, <3>2, FS_AddElement
    <3> QED BY <2>2, <3>1, <3>2, <3>3
  <2>4. \A e \in Epochs : CountExact(e)'
    BY <1>3, <1>5, <2>1, <2>3 DEF CountExact, Put
  <2>5. ListExact(c)'
    <3>1. ListExact(c)
      BY <1>0, <1>2, <2>1 DEF EmptyInv, ListDue
    <3>2. Listing(c)' = Listing(c)
      BY <2>1, CountingStep DEF ListEmptyTick
    <3> QED BY <2>1, <3>1, <3>2 DEF ListExact
  <2>6. \A e \in Epochs : e # c => (e \in DOMAIN emptyTicks' <=> e \in DOMAIN emptyTicks)
    BY <2>1 DEF Put
  <2>7. \A e \in Epochs : e # c => (ListExact(e) => ListExact(e)')
    BY <1>5, <2>1 DEF ListExact
  <2> QED BY <1>5, <1>8, <2>4, <2>5, <2>6, <2>7
<1>13. CASE ListEmptyTick
  <2>1. /\ pc = "emptyList" /\ pc' = "status" /\ UNCHANGED emptyTicks
        /\ emptyTickList' = Put(emptyTickList, c, [emptyTickList[c] EXCEPT ![n] = @ + 1])
    BY <1>0, <1>13 DEF ListEmptyTick, AppendEmptyTickToEmptyTickListPerEpoch,
      SetEmptyTickListPerEpoch, Goto
  <2>2. Listing(c) = EmptyProcessed(c) /\ Listing(c)' = EmptyProcessed(c) \cup {n}
    BY <1>0, <1>1, <1>2, <1>6, <2>1 DEF Listing, Adding, ListedSteps
  <2>3. Counting(c)' = Counting(c)
    BY <2>1, CountingStep DEF CountEmptyTick
  <2>4. \A e \in Epochs : CountExact(e)'
    BY <1>3, <1>5, <2>1, <2>3 DEF CountExact
  <2>5. ListExact(c)'
    <3>1. emptyTickList[c] = Marked(EmptyProcessed(c))
      BY <1>0, <1>2, <2>1, <2>2 DEF EmptyInv, ListDue, ListExact
    <3>2. [Marked(EmptyProcessed(c)) EXCEPT ![n] = @ + 1] = Marked(EmptyProcessed(c) \cup {n})
      BY <1>2, <1>4, MarkedAdd
    <3>3. c \in DOMAIN emptyTickList' /\ emptyTickList'[c] = Marked(EmptyProcessed(c) \cup {n})
      BY <2>1, <3>1, <3>2 DEF Put
    <3> QED BY <2>2, <3>3 DEF ListExact
  <2>6. \A e \in Epochs : e # c => (ListExact(e) => ListExact(e)')
    BY <1>5, <2>1 DEF ListExact, Put
  <2> QED BY <1>5, <1>8, <2>1, <2>4, <2>5, <2>6
<1> QED BY <1>11, <1>12, <1>13

\* The reset and the calculation leave every epoch exact or still to be counted.
LEMMA StartupWrites ==
  ASSUME CleanStops, SafetyInv, CleanInv, EmptyInv, [Next]_vars,
         \/ ResetEmptyTicks \/ ResetEmptyTickList
         \/ CalculateEmptyTicks \/ CalculateEmptyTickList
  PROVE  EmptyInv'
<1>1. /\ pc \in {"reset", "resetList", "calculate", "calculateList"}
      /\ pc' \in {"reset", "resetList", "calculate", "calculateList"}
      /\ StoredEpochs' = StoredEpochs
  BY DEF ResetEmptyTicks, ResetEmptyTickList, CalculateEmptyTicks, CalculateEmptyTickList, Goto,
    statusVars, StoredEpochs
<1>2. ASSUME NEW e \in Epochs
      PROVE  /\ Counting(e)' = Counting(e) /\ Listing(e)' = Listing(e)
             /\ Counting(e) = EmptyProcessed(e) /\ Listing(e) = EmptyProcessed(e)
             /\ ListDue(e) <=> e \in DOMAIN emptyTicks /\ ~(pc = "calculateList" /\ e = currentEpoch)
             /\ ListDue(e)' <=> e \in DOMAIN emptyTicks' /\ ~(pc' = "calculateList" /\ e = currentEpoch')
  <2>1. ~CountEmptyTick /\ ~ListEmptyTick
    BY <1>1 DEF CountEmptyTick, ListEmptyTick
  <2>2. Adding(e, CountedSteps) = {} /\ Adding(e, ListedSteps) = {}
    BY <1>1 DEF Adding, CountedSteps, ListedSteps
  <2> QED BY <1>1, <2>1, <2>2, CountingStep DEF Counting, Listing, ListDue
<1>3. CASE ResetEmptyTicks
  <2>1. PICK e \in pendingEpochs :
          /\ emptyTicks' = Remove(emptyTicks, e) /\ pendingEpochs' = pendingEpochs \ {e}
          /\ pc = "reset" /\ pc' = "resetList" /\ UNCHANGED emptyTickList
    BY <1>3 DEF ResetEmptyTicks, DeleteEmptyTicksKeyForEpoch, Goto
  <2>2. /\ DOMAIN emptyTicks' = DOMAIN emptyTicks \ {e}
        /\ \A x \in DOMAIN emptyTicks' : emptyTicks'[x] = emptyTicks[x]
    BY <2>1 DEF Remove
  <2>3. /\ pendingEpochs \subseteq StoredEpochs
        /\ (StoredEpochs \ pendingEpochs) \cap DOMAIN emptyTicks = {}
    BY <2>1 DEF EmptyInv
  <2>4. /\ pendingEpochs' \subseteq StoredEpochs'
        /\ (StoredEpochs' \ pendingEpochs') \cap DOMAIN emptyTicks' = {}
    BY <1>1, <2>1, <2>2, <2>3
  <2>5. ASSUME NEW x \in Epochs PROVE Uncounted(x)' \/ CountExact(x)'
    <3>1. CASE x = e \/ Uncounted(x)
      BY <1>1, <2>1, <2>3, <3>1 DEF Uncounted
    <3>2. CASE x # e /\ CountExact(x)
      BY <1>2, <2>2, <3>2 DEF CountExact
    <3> QED BY <3>1, <3>2 DEF EmptyInv
  <2>6. ASSUME NEW x \in Epochs, ListDue(x)' PROVE ListExact(x)'
    <3>1. ListDue(x)
      BY <1>2, <2>1, <2>2, <2>6
    <3>2. ListExact(x)
      BY <3>1 DEF EmptyInv
    <3> QED BY <1>2, <2>1, <3>2 DEF ListExact
  <2> QED BY <2>4, <2>5, <2>6 DEF EmptyInv
<1>4. CASE ResetEmptyTickList
  <2>1. PICK e : e = currentEpoch
    OBVIOUS
  <2>2. /\ emptyTickList' = Remove(emptyTickList, e) /\ UNCHANGED <<emptyTicks, pendingEpochs>>
        /\ pc = "resetList" /\ pc' = "reset" /\ e \notin DOMAIN emptyTicks
    BY <1>4, <2>1 DEF ResetEmptyTickList, DeleteEmptyTickListKeyForEpoch, Goto, CleanInv, KeyInv
  <2>3. \A x : x \in DOMAIN emptyTickList /\ x # e =>
          x \in DOMAIN emptyTickList' /\ emptyTickList'[x] = emptyTickList[x]
    BY <2>2 DEF Remove
  <2>4. ASSUME NEW x \in Epochs PROVE Uncounted(x)' \/ CountExact(x)'
    <3>1. Uncounted(x) => Uncounted(x)'
      BY <1>1, <2>2 DEF Uncounted
    <3>2. CountExact(x) => CountExact(x)'
      BY <1>2, <2>2 DEF CountExact
    <3> QED BY <3>1, <3>2 DEF EmptyInv
  <2>5. ASSUME NEW x \in Epochs, ListDue(x)' PROVE ListExact(x)'
    <3>1. ListDue(x) /\ x # e
      BY <1>2, <2>2, <2>5
    <3>2. ListExact(x)
      BY <3>1 DEF EmptyInv
    <3> QED BY <1>2, <2>3, <3>1, <3>2 DEF ListExact
  <2> QED BY <1>1, <2>2, <2>4, <2>5 DEF EmptyInv
<1>5. CASE CalculateEmptyTicks
  <2>1. PICK e \in pendingEpochs :
          /\ emptyTicks' = Put(emptyTicks, e, Cardinality(FoundEmptyTicks(e)))
          /\ e \notin DOMAIN emptyTicks
          /\ pendingEpochs' = pendingEpochs \ {e} /\ currentEpoch' = e
          /\ pc = "calculate" /\ pc' = "calculateList" /\ UNCHANGED emptyTickList
    BY <1>5 DEF CalculateEmptyTicks, SetEmptyTicksForEpoch, Goto
  <2>2. /\ DOMAIN emptyTicks' = DOMAIN emptyTicks \cup {e}
        /\ emptyTicks'[e] = Cardinality(FoundEmptyTicks(e))
        /\ \A x \in DOMAIN emptyTicks : emptyTicks'[x] = emptyTicks[x]
    BY <2>1 DEF Put
  <2>3. ASSUME NEW x \in Epochs PROVE Uncounted(x)' \/ CountExact(x)'
    <3>1. CASE x = e
      <4>1. Cardinality(FoundEmptyTicks(e)) = Cardinality(EmptyProcessed(e))
        BY <2>1, <3>1, FoundProcessed DEF StartupSteps
      <4> QED BY <1>2, <2>2, <3>1, <4>1 DEF CountExact
    <3>2. CASE x # e /\ Uncounted(x)
      <4>1. x \in pendingEpochs /\ pendingEpochs \cap DOMAIN emptyTicks = {}
        BY <2>1, <3>2 DEF Uncounted
      <4>2. x \in pendingEpochs' /\ pendingEpochs' \cap DOMAIN emptyTicks' = {}
        BY <2>1, <2>2, <3>2, <4>1
      <4> QED BY <2>1, <4>2 DEF Uncounted
    <3>3. CASE x # e /\ CountExact(x)
      BY <1>2, <2>2, <3>3 DEF CountExact
    <3> QED BY <3>1, <3>2, <3>3 DEF EmptyInv
  <2>4. ASSUME NEW x \in Epochs, ListDue(x)' PROVE ListExact(x)'
    <3>1. ListDue(x)
      BY <1>2, <2>1, <2>2, <2>4
    <3>2. ListExact(x)
      BY <3>1 DEF EmptyInv
    <3> QED BY <1>2, <2>1, <3>2 DEF ListExact
  <2> QED BY <2>1, <2>3, <2>4 DEF EmptyInv
<1>6. CASE CalculateEmptyTickList
  <2>1. PICK e : e = currentEpoch
    OBVIOUS
  <2>2. /\ emptyTickList' = Put(emptyTickList, e, FoundEmptyTickList(e))
        /\ UNCHANGED <<emptyTicks, pendingEpochs>>
        /\ pc = "calculateList" /\ pc' = "calculate"
    BY <1>6, <2>1 DEF CalculateEmptyTickList, SetEmptyTickListPerEpoch, Goto
  <2>3. FoundEmptyTickList(e) = Marked(EmptyProcessed(e)) /\ e \in Epochs
    <3>1. e \in Epochs
      BY <2>1, <2>2 DEF SafetyInv, TypeInv, StartupInv
    <3> QED BY <2>2, <3>1, FoundProcessed DEF StartupSteps
  <2>4. /\ e \in DOMAIN emptyTickList' /\ emptyTickList'[e] = FoundEmptyTickList(e)
        /\ \A x \in DOMAIN emptyTickList :
             x # e => x \in DOMAIN emptyTickList' /\ emptyTickList'[x] = emptyTickList[x]
    BY <2>2 DEF Put
  <2>5. ASSUME NEW x \in Epochs PROVE Uncounted(x)' \/ CountExact(x)'
    <3>1. Uncounted(x) => Uncounted(x)'
      BY <2>2 DEF Uncounted
    <3>2. CountExact(x) => CountExact(x)'
      BY <1>2, <2>2 DEF CountExact
    <3> QED BY <3>1, <3>2 DEF EmptyInv
  <2>6. ASSUME NEW x \in Epochs, ListDue(x)' PROVE ListExact(x)'
    <3>1. CASE x = e
      BY <1>2, <2>3, <2>4, <3>1 DEF ListExact
    <3>2. CASE x # e
      <4>1. ListDue(x)
        BY <1>2, <2>1, <2>2, <2>6, <3>2
      <4>2. ListExact(x)
        BY <4>1 DEF EmptyInv
      <4> QED BY <1>2, <2>4, <3>2, <4>2 DEF ListExact
    <3> QED BY <3>1, <3>2
  <2> QED BY <2>2, <2>5, <2>6 DEF EmptyInv
<1> QED BY <1>3, <1>4, <1>5, <1>6

\* The steps that write no key of empty ticks: a scan at startup does not fail,
\* and the calculation ends early only when nothing was reset.
LEMMA QuietEmptyStep ==
  ASSUME CleanStops, SafetyInv, CleanInv, EmptyInv, [Next]_vars, UNCHANGED emptyVars,
         ~InitEmptyTickList, ~CountEmptyTick, ~ListEmptyTick, ~ResetEmptyTicks,
         ~ResetEmptyTickList, ~CalculateEmptyTicks, ~CalculateEmptyTickList
  PROVE  EmptyInv'
<1>1. CASE UNCHANGED vars
  BY <1>1, CountingStep DEF vars, storeVars, statusVars, startupVars, attemptVars, tick, emptyVars,
    EmptyInv, Uncounted, CountExact, ListDue, ListExact, StoredEpochs
<1>2. CASE ~UNCHANGED vars
  <2>0. UNCHANGED <<emptyTicks, emptyTickList>>
    BY DEF emptyVars
  <2>1. \A e \in Epochs : /\ CountExact(e) => CountExact(e)'
                          /\ ListExact(e) => ListExact(e)'
    BY <2>0, CountingStep DEF CountExact, ListExact
  <2>2. pc' \notin {"resetList", "calculateList", "emptyCount", "emptyList"}
        /\ pc \notin {"resetList", "calculateList"}
    <3>1. CASE ProcessOneByOne
      BY <3>1 DEF ProcessOneByOne, GetTickInfo, StartAttempt, TickInTheFuture, ProcessingFails,
        EndAttempt, ValidateTick, ValidateTickFails, StoreComputors, StoreTargetTickVoteSignature,
        ValidateVotesAndTickData, StoreQuorumVotes, StoreLastQuorumOfInterval,
        StoreTickData, StoreTickTransactions, StoreTransferTransactions,
        StoreTransactionsStatus, ComputeAndSave, ComputeStoreAndSave, AfterDigests,
        ProcessStatus, NoSkippedTicks, AppendInterval, SetSkippedTicks,
        SetLastProcessedTick, SetProcessedTickInterval, Goto
    <3>2. CASE StartupNext
      BY <3>2 DEF StartupNext, OpenStore, ResetDone, EmptyTicksKnown, CalculationFails,
        CalculationDone, Restart, Goto
    <3>3. CASE Crash \/ WriteFails
      BY <3>3 DEF Crash, WriteFails, Fail, EndAttempt, Goto, CleanStops, CleanSteps
    <3> QED BY <1>2, <3>1, <3>2, <3>3 DEF Next
  <2>3. \A e \in Epochs : ListDue(e)' => ListExact(e)'
    BY <2>0, <2>1, <2>2 DEF ListDue, EmptyInv
  <2>4. CASE StartupNext
    <3>1. StoredEpochs' = StoredEpochs
      BY <2>4 DEF StartupNext, OpenStore, ResetDone, EmptyTicksKnown, CalculationFails,
        CalculationDone, Restart, storeVars, statusVars, StoredEpochs
    <3>2. CASE OpenStore
      <4>1. \A e \in Epochs : CountExact(e)
        BY <3>2 DEF OpenStore, EmptyInv, Uncounted
      <4>2. pendingEpochs' = StoredEpochs
        BY <3>2 DEF OpenStore
      <4> QED BY <2>1, <2>3, <3>1, <4>1, <4>2 DEF EmptyInv
    <3>3. CASE ResetDone
      <4>1. /\ pc = "reset" /\ pc' = "calculate" /\ pendingEpochs = {}
            /\ pendingEpochs' = StoredEpochs
        BY <3>3 DEF ResetDone, Goto
      <4>2. StoredEpochs \cap DOMAIN emptyTicks = {}
        BY <4>1 DEF EmptyInv
      <4>3. \A e \in Epochs : Uncounted(e) => Uncounted(e)'
        BY <2>0, <4>1, <4>2 DEF Uncounted
      <4> QED BY <2>1, <2>3, <4>1, <4>3 DEF EmptyInv
    <3>4. CASE EmptyTicksKnown \/ CalculationDone \/ Restart
      <4>1. \A e \in Epochs : CountExact(e)
        BY <3>4 DEF EmptyTicksKnown, CalculationDone, Restart, EmptyInv, Uncounted
      <4>2. pc' \in {"idle", "boot"}
        BY <3>4 DEF EmptyTicksKnown, CalculationDone, Restart, Goto
      <4> QED BY <2>1, <2>3, <4>1, <4>2 DEF EmptyInv
    <3>5. CASE CalculationFails
      <4>1. PICK e \in pendingEpochs : ScanFails(e)
        BY <3>5 DEF CalculationFails
      <4>2. e \in Epochs
        BY DEF SafetyInv, TypeInv, TypeOK
      <4> QED BY <4>1, <4>2, ScanSucceeds DEF CleanInv, CoverInv, NonemptyInv
    <3> QED BY <2>4, <3>2, <3>3, <3>4, <3>5 DEF StartupNext
  <2>5. CASE ProcessOneByOne \/ Crash \/ WriteFails
    <3>1. pc \notin StartupSteps
      BY <2>5 DEF ProcessOneByOne, GetTickInfo, StartAttempt, TickInTheFuture, ProcessingFails,
        ValidateTick, ValidateTickFails, StoreComputors, StoreTargetTickVoteSignature,
        ValidateVotesAndTickData, StoreQuorumVotes, StoreLastQuorumOfInterval,
        StoreTickData, StoreTickTransactions, StoreTransferTransactions,
        StoreTransactionsStatus, ComputeAndSave, ComputeStoreAndSave,
        InitEmptyTickList, CountEmptyTick, ListEmptyTick,
        ProcessStatus, NoSkippedTicks, AppendInterval, SetSkippedTicks,
        SetLastProcessedTick, SetProcessedTickInterval, Crash, WriteFails, Fail,
        CleanStops, CleanSteps, StartupSteps
    <3>2. \A e \in Epochs : CountExact(e)
      BY <3>1 DEF EmptyInv, Uncounted, StartupSteps
    <3>3. pc' \notin {"reset", "resetList", "calculate", "calculateList"}
      BY <2>5 DEF ProcessOneByOne, GetTickInfo, StartAttempt, TickInTheFuture, ProcessingFails,
        EndAttempt, ValidateTick, ValidateTickFails, StoreComputors, StoreTargetTickVoteSignature,
        ValidateVotesAndTickData, StoreQuorumVotes, StoreLastQuorumOfInterval,
        StoreTickData, StoreTickTransactions, StoreTransferTransactions,
        StoreTransactionsStatus, ComputeAndSave, ComputeStoreAndSave, AfterDigests,
        InitEmptyTickList, CountEmptyTick, ListEmptyTick,
        ProcessStatus, NoSkippedTicks, AppendInterval, SetSkippedTicks,
        SetLastProcessedTick, SetProcessedTickInterval, Crash, WriteFails, Goto
    <3> QED BY <2>1, <2>3, <3>2, <3>3 DEF EmptyInv
  <2> QED BY <1>2, <2>4, <2>5 DEF Next
<1> QED BY <1>1, <1>2

\* The counts and lists that GetStatus and GetEmptyTickListPerEpoch answer from
\* are exact between two attempts: they hold every processed empty tick once.
\* No attempt is interrupted once it has stored something; resets are allowed.
THEOREM EmptyTicksCounted ==
  ASSUME CleanStops
  PROVE  Spec => []EmptyTicksExact
<1>1. Init => EmptyInv
  <2> SUFFICES ASSUME Init PROVE EmptyInv
    OBVIOUS
  <2>1. pc = "boot" /\ DOMAIN emptyTicks = {}
    BY DEF Init, StoreInit
  <2>2. \A t \in Ticks : records[t] = {}
    BY DEF Init, StoreInit
  <2>3. \A e \in Epochs : Counting(e) = {}
    BY <2>1, <2>2 DEF Counting, EmptyProcessed, ProcessedTicks, Complete, RecordKinds, Adding,
      CountedSteps, ListedSteps
  <2> QED BY <2>1, <2>3 DEF EmptyInv, CountExact, ListDue
<1>2. SafetyInv /\ CleanInv /\ OnlyEmptyInv /\ EmptyInv /\ [Next]_vars => EmptyInv'
  BY EmptyWrites, EmptyTickWrites, StartupWrites, QuietEmptyStep
<1>3. EmptyInv => EmptyTicksExact
  <2> SUFFICES ASSUME EmptyInv, pc = "idle", NEW e \in Epochs
               PROVE  IF e \in DOMAIN emptyTicks
                      THEN /\ emptyTicks[e] = Cardinality(EmptyProcessed(e))
                           /\ emptyTickList[e] = Marked(EmptyProcessed(e))
                      ELSE EmptyProcessed(e) = {}
    BY DEF EmptyTicksExact, EmptyProcessed, Marked
  <2>1. Counting(e) = EmptyProcessed(e) /\ Listing(e) = EmptyProcessed(e)
    BY DEF Counting, Listing, Adding, CountedSteps, ListedSteps
  <2>2. CountExact(e) /\ (e \in DOMAIN emptyTicks => ListExact(e))
    BY DEF EmptyInv, Uncounted, ListDue
  <2> QED BY <2>1, <2>2 DEF CountExact, ListExact
<1> QED
  BY <1>1, <1>2, <1>3, SafetyInvariant, CleanInvariant, OnlyEmptyInvariant, PTL DEF Spec
=============================================================================
