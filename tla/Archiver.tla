------------------------------ MODULE Archiver ------------------------------
(***************************************************************************)
(* The archiver process: startup, then the processor loop, over a durable  *)
(* store, with crashes at any point and database writes that may fail.     *)
(***************************************************************************)
EXTENDS Startup, TickIntervals

CONSTANTS
  FailureSteps,   \* the steps at which the process may stop or a write fail
  MaxFailures     \* bound on the crashes and failed writes of a behaviour

ASSUME MaxFailuresAssumption == MaxFailures \in Nat

VARIABLE failures

vars == <<storeVars, pc, attemptVars, startupVars, failures>>

TypeOK ==
  /\ StoreTypeOK
  /\ pc \in {"idle"} \cup AttemptSteps \cup StartupSteps
  /\ nextTick \in ProcessedTick
  /\ initialEpochTick \in Nat
  /\ pendingIdentities \in SUBSET Identities
  /\ pendingEpochs \in SUBSET Epochs
  /\ currentEpoch \in Epochs \cup {0}
  /\ failures \in Nat

Init ==
  /\ StoreInit
  /\ pc = "boot"
  /\ nextTick = NoTick
  /\ initialEpochTick = 0
  /\ pendingIdentities = {}
  /\ pendingEpochs = {}
  /\ currentEpoch = 0
  /\ failures = 0

Fail ==
  /\ pc \in FailureSteps
  /\ failures < MaxFailures
  /\ failures' = failures + 1

\* The process is killed or stops on a signal; it does not wait for the
\* processor.  The supervisor restarts it.
Crash ==
  /\ pc \notin {"boot", "exited"}
  /\ Fail
  /\ Goto("boot")
  /\ nextTick' = NoTick
  /\ initialEpochTick' = 0
  /\ pendingIdentities' = {}
  /\ pendingEpochs' = {}
  /\ currentEpoch' = 0
  /\ UNCHANGED storeVars

\* A database call of the attempt returns an error and has written nothing.
WriteFails ==
  /\ pc \in WritingSteps
  /\ Fail
  /\ EndAttempt
  /\ UNCHANGED <<storeVars, startupVars>>

Next ==
  \/ ProcessOneByOne /\ UNCHANGED <<startupVars, failures>>
  \/ StartupNext /\ UNCHANGED failures
  \/ Crash
  \/ WriteFails

Spec == Init /\ [][Next]_vars

-----------------------------------------------------------------------------
(* Safety *)

\* All that ValidateTick persists of a tick is stored.
Complete(t) ==
  /\ records[t] = RecordKinds
  /\ transfers[t] = TransferIds[t]
  /\ t \in DOMAIN chainDigest
  /\ t >= StoreDigestFrom => t \in DOMAIN storeDigest

\* A tick that a processed interval claims has been archived completely and
\* under its own epoch, whatever crashes and retries happened before: the
\* intervals are what /status and the range checks of the RPC server trust.
ArchivedComplete ==
  \A p \in Positions : \A t \in IntervalAt(p).initial .. IntervalAt(p).last :
    t \in Ticks /\ EpochOf(t) = p[1] /\ Complete(t)

InSkippedTicks(t) ==
  \E k \in DOMAIN skippedTicks :
    skippedTicks[k].startTick <= t /\ t <= skippedTicks[k].endTick

\* The last processed tick, and every tick below it that the skipped list
\* does not name, is archived: processOneByOne never goes back for a tick.
NothingLost ==
  \A t \in Ticks :
    t <= lastProcessedTick.tickNumber =>
      \/ Complete(t)
      \/ InSkippedTicks(t)

\* A tick request that passes the interceptor's bounds check is answered
\* from complete records.
BoundsCheckSound ==
  \A t \in Ticks : TickWithinArchiverIntervals(t) => Complete(t)

\* The ticks of a segment from the first one to t, or from a later start.
ChainFrom(first, t) == [k \in 1 .. (t - first + 1) |-> first + k - 1]

LaterOf(a, b) == IF a >= b THEN a ELSE b

\* A digest chains exactly the ticks since the initial tick of the tick's
\* segment, so archivers that process the same network agree on it however
\* often they were interrupted; the store digest starts at StoreDigestFrom.
DigestAgreement ==
  /\ \A t \in DOMAIN chainDigest :
       chainDigest[t] = ChainFrom(SegmentOf(t).initial, t)
  /\ \A t \in DOMAIN storeDigest :
       storeDigest[t] =
         ChainFrom(LaterOf(SegmentOf(t).initial, StoreDigestFrom), t)

\* Once a tick is processed its records and digests are never written again.
AppendOnly ==
  [][\A t \in Ticks :
       t <= lastProcessedTick.tickNumber =>
         /\ records'[t] = records[t]
         /\ transfers'[t] = transfers[t]
         /\ t \in DOMAIN chainDigest <=> t \in DOMAIN chainDigest'
         /\ t \in DOMAIN storeDigest <=> t \in DOMAIN storeDigest'
         /\ t \in DOMAIN chainDigest => chainDigest'[t] = chainDigest[t]
         /\ t \in DOMAIN storeDigest => storeDigest'[t] = storeDigest[t]]_vars

\* The last processed tick only moves forward, and only to the next tick or,
\* over a gap, to the initial tick of a later segment.
NoTickJumped ==
  [][\/ lastProcessedTick' = lastProcessedTick
     \/ lastProcessedTick'.tickNumber = lastProcessedTick.tickNumber + 1
     \/ /\ lastProcessedTick'.tickNumber > lastProcessedTick.tickNumber
        /\ \E s \in Segments : lastProcessedTick' =
                               [tickNumber |-> s.initial, epoch |-> s.epoch]]_vars

\* Startup never stops on a tick it cannot read: a restart gets back to
\* processing.
StartupNeverFails == pc # "exited"

\* An empty tick of a processed interval is in its epoch's empty-tick list.
EmptyTicksListed ==
  \A p \in Positions : \A t \in EmptyTicks :
    InInterval(t, IntervalAt(p)) =>
      p[1] \in DOMAIN emptyTickList /\ emptyTickList[p[1]][t] > 0

-----------------------------------------------------------------------------
(* What holds between two attempts when none was interrupted.              *)

\* Ticks up to the last processed one.
ProcessedTicks == {t \in Ticks : t <= lastProcessedTick.tickNumber /\ Complete(t)}

\* The intervals and the skipped list of /status divide the tick numbers up
\* to the last processed one: each is in exactly one interval of one kind.
StatusPartition ==
  pc = "idle" =>
    \A n \in 1 .. lastProcessedTick.tickNumber :
      LET processed == {p \in Positions : InInterval(n, IntervalAt(p))}
          skipped   == {k \in DOMAIN skippedTicks :
                          skippedTicks[k].startTick <= n /\ n <= skippedTicks[k].endTick}
      IN /\ Cardinality(processed) + Cardinality(skipped) = 1
         /\ n \in ProcessedTicks <=> skipped = {}

\* The empty-tick list of an epoch holds every processed empty tick once, and
\* the count is the length of the list.
EmptyTicksExact ==
  pc = "idle" =>
    \A e \in Epochs :
      LET empty == {t \in ProcessedTicks \cap EmptyTicks : EpochOf(t) = e}
      IN IF e \in DOMAIN emptyTicks
         THEN /\ emptyTicks[e] = Cardinality(empty)
              /\ emptyTickList[e] = [t \in Ticks |-> IF t \in empty THEN 1 ELSE 0]
         ELSE empty = {}

\* The full quorum data kept for an interval is that of its last tick: it is
\* what GetQuorumTickData returns for that tick.
LastQuorumOfInterval ==
  pc = "idle" =>
    \A p \in Positions :
      /\ p[2] \in DOMAIN lastTickQuorumData[p[1]]
      /\ lastTickQuorumData[p[1]][p[2]] = IntervalAt(p).last

\* Where the full quorum data of an epoch's ticks is between two attempts,
\* given the epoch's intervals and its entries.  The entry of a closed interval
\* was replaced when the next interval began, because the votes are stored
\* before the interval is appended; the entry of the newest interval is that of
\* its last tick, unless the interval still consists of the tick that opened
\* it, whose votes are in the entry before.
EntriesInPlace(intervals, kept) ==
  LET newest == Len(intervals)
  IN /\ \A k \in 1 .. newest - 1 :
          k \in DOMAIN kept /\ kept[k] = intervals[k + 1].initial
     /\ \/ newest = 0
        \/ newest > 1 /\ intervals[newest].initial = intervals[newest].last
        \/ newest \in DOMAIN kept /\ kept[newest] = intervals[newest].last

\* However often the network restarts inside an epoch, the quorum data of the
\* epoch's last processed tick is never lost, and every other entry is where
\* SetQuorumDataForCurrentEpochInterval left it when the tick that opened the
\* next interval came.
LastQuorumPlaced ==
  pc = "idle" =>
    \A e \in Epochs : EntriesInPlace(processedTickIntervals[e], lastTickQuorumData[e])

\* A processed tick number the interceptor turns away as "skipped by the
\* system" is in the skipped ticks of /status.
SkippedTickReported ==
  \A t \in Ticks :
    (t <= lastProcessedTick.tickNumber /\ WasSkippedByArchive(t)) => InSkippedTicks(t)

\* The computor list stored under an epoch is the list of that epoch.
ComputorsOfEpoch == \A e \in DOMAIN computors : computors[e] = e

\* Where startup has left an epoch with a count of empty ticks, the list of
\* that many ticks is stored too.
CountedTicksListed ==
  pc = "idle" =>
    \A e \in DOMAIN emptyTicks : emptyTicks[e] > 0 => e \in DOMAIN emptyTickList

-----------------------------------------------------------------------------
(* Liveness: the processor and the startup keep running, and the nodes of  *)
(* the newest segment keep answering: qubic-nodes hands out reliable peers, *)
(* and processOneByOne takes another connection after an error.             *)

NewestSegment == CHOOSE s \in Segments : \A r \in Segments : r.initial <= s.initial

Answered(A) ==
  A /\ initialEpochTick = NewestSegment.initial /\ UNCHANGED <<startupVars, failures>>

Fairness ==
  /\ WF_vars(ProcessOneByOne /\ UNCHANGED <<startupVars, failures>>)
  /\ WF_vars(StartupNext /\ UNCHANGED failures)
  /\ SF_vars(/\ StartAttempt(NewestSegment, NewestSegment.final)
             /\ UNCHANGED <<startupVars, failures>>)
  /\ SF_vars(Answered(StoreComputors))
  /\ SF_vars(Answered(StoreTargetTickVoteSignature))
  /\ SF_vars(Answered(ValidateVotesAndTickData))

FairSpec == Spec /\ Fairness

\* After the last failure the archiver processes the network's ticks up to
\* the newest one and then waits for more.
CatchesUp ==
  <>[](pc = "idle" /\ lastProcessedTick.tickNumber = NewestSegment.final)
=============================================================================
