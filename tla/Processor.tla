----------------------------- MODULE Processor -----------------------------
(***************************************************************************)
(* The processor goroutine: processOneByOne in an endless loop.  An        *)
(* attempt asks a node for its tick info, picks the next tick, validates   *)
(* and persists it (module Validator) and then records the processing      *)
(* status.  An attempt that fails is retried from the start, possibly with *)
(* another node.  There is one processor, so what an attempt read from the *)
(* status keys at its start is still stored when it uses it.               *)
(***************************************************************************)
EXTENDS Validator

\* Mutant: any node of another epoch restarts the archiver at its initial tick.
NextProcessingTickOfAnyEpoch(s) ==
  IF s.epoch # lastProcessedTick.epoch
  THEN [tickNumber |-> s.initial, epoch |-> s.epoch]
  ELSE [tickNumber |-> lastProcessedTick.tickNumber + 1,
        epoch      |-> lastProcessedTick.epoch]

\* Mutant: the first tick of an epoch is recorded under the epoch before.
NextProcessingTickOfLastEpoch(s) ==
  [tickNumber |-> IF s.initial > lastProcessedTick.tickNumber THEN s.initial
                  ELSE lastProcessedTick.tickNumber + 1,
   epoch      |-> lastProcessedTick.epoch]

\* getNextProcessingTick, with the answer of a node that is in segment s.
\* lastProcessedTick.tickNumber is 0 on the first run.
NextProcessingTick(s) ==
  IF s.initial > lastProcessedTick.tickNumber
  THEN [tickNumber |-> s.initial, epoch |-> s.epoch]
  ELSE [tickNumber |-> lastProcessedTick.tickNumber + 1,
        epoch      |-> lastProcessedTick.epoch]

\* A node in segment s, at tick now, answers GetTickInfo and has the next tick.
StartAttempt(s, now) ==
  /\ pc = "idle"
  /\ NextProcessingTick(s).tickNumber <= now
  /\ nextTick' = NextProcessingTick(s)
  /\ initialEpochTick' = s.initial
  /\ Goto("computors")
  /\ UNCHANGED <<pendingIdentities, storeVars>>

\* TickInTheFutureError: the node is not there yet, try again later.
TickInTheFuture(s, now) ==
  /\ pc = "idle"
  /\ NextProcessingTick(s).tickNumber > now
  /\ UNCHANGED <<pc, attemptVars, storeVars>>

GetTickInfo ==
  \E s \in Segments : \E now \in s.initial .. s.final :
    StartAttempt(s, now) \/ TickInTheFuture(s, now)

-----------------------------------------------------------------------------
(* processStatus. *)

TickGap == tick - lastProcessedTick.tickNumber

NoSkippedTicks ==
  /\ pc = "status"
  /\ TickGap = 1
  /\ Goto("lastTick")
  /\ UNCHANGED <<attemptVars, storeVars>>

\* Mutant: a gap does not open a new interval.
AppendIntervalOmitted ==
  /\ pc = "status"
  /\ TickGap # 1
  /\ Goto("skipped")
  /\ UNCHANGED <<storeVars, attemptVars>>

AppendInterval ==
  /\ pc = "status"
  /\ TickGap # 1
  /\ AppendProcessedTickInterval(nextTick.epoch, tick)
  /\ Goto("skipped")
  /\ UNCHANGED <<lastProcessedTick, lastProcessedTickPerEpoch, skippedTicks,
                 epochVars, tickVars, emptyVars, lastTickQuorumData, attemptVars>>

\* Mutant: the skipped interval begins one tick late.
SetSkippedTicksOffByOne ==
  /\ pc = "skipped"
  /\ SetSkippedTicksInterval(lastProcessedTick.tickNumber + 2, tick - 1)
  /\ Goto("lastTick")
  /\ UNCHANGED <<lastProcessedTick, lastProcessedTickPerEpoch,
                 processedTickIntervals, epochVars, tickVars, emptyVars,
                 lastTickQuorumData, attemptVars>>

SetSkippedTicks ==
  /\ pc = "skipped"
  /\ SetSkippedTicksInterval(lastProcessedTick.tickNumber + 1, tick - 1)
  /\ Goto("lastTick")
  /\ UNCHANGED <<lastProcessedTick, lastProcessedTickPerEpoch,
                 processedTickIntervals, epochVars, tickVars, emptyVars,
                 lastTickQuorumData, attemptVars>>

SetLastProcessedTick ==
  /\ pc = "lastTick"
  /\ CommitLastProcessedTick(nextTick)
  /\ Goto("interval")
  /\ UNCHANGED <<processedTickIntervals, skippedTicks, epochVars, tickVars,
                 emptyVars, lastTickQuorumData, attemptVars>>

SetProcessedTickInterval ==
  /\ pc = "interval"
  /\ ExtendProcessedTickInterval(nextTick)
  /\ EndAttempt
  /\ UNCHANGED <<lastProcessedTick, lastProcessedTickPerEpoch, skippedTicks,
                 epochVars, tickVars, emptyVars, lastTickQuorumData>>

ProcessStatus ==
  \/ NoSkippedTicks
  \/ AppendInterval
  \/ SetSkippedTicks
  \/ SetLastProcessedTick
  \/ SetProcessedTickInterval

-----------------------------------------------------------------------------
\* Start logs the error, sleeps and calls processOneByOne again.
ProcessingFails ==
  /\ ValidateTickFails
  /\ EndAttempt
  /\ UNCHANGED storeVars

AttemptSteps ==
  {"computors", "target", "validate", "quorum", "lastQuorum", "tickData",
   "transactions", "transfers", "chain", "storeDigest", "emptyInit",
   "emptyCount", "emptyList", "status", "skipped", "lastTick", "interval"}

\* Steps that write to the database.
WritingSteps == AttemptSteps \ {"validate"}

ProcessOneByOne == GetTickInfo \/ ValidateTick \/ ProcessStatus \/ ProcessingFails
=============================================================================
