------------------------------ MODULE Startup ------------------------------
(***************************************************************************)
(* What run() does with the database before the processor starts: the      *)
(* optional reset of the empty-tick keys, then the calculation of the      *)
(* missing ones.  Both walk the epochs of GetLastProcessedTicksPerEpoch in *)
(* the order of a Go map.  An error makes run() return: the process exits  *)
(* and its supervisor (docker-compose, restart: always) starts it again.   *)
(***************************************************************************)
EXTENDS Processor

CONSTANT ResetAllowed   \* may the operator start with ResetEmptyTickKeys?

ASSUME ResetAssumption == ResetAllowed \in BOOLEAN

VARIABLES
  pendingEpochs,   \* epochs the current loop has not visited
  currentEpoch     \* the epoch whose second write is next

startupVars == <<pendingEpochs, currentEpoch>>

StoredEpochs == DOMAIN lastProcessedTickPerEpoch

OpenStore ==
  /\ pc = "boot"
  /\ pc' \in (IF ResetAllowed THEN {"reset", "calculate"} ELSE {"calculate"})
  /\ pendingEpochs' = StoredEpochs
  /\ UNCHANGED <<currentEpoch, storeVars, attemptVars>>

-----------------------------------------------------------------------------
(* ResetEmptyTicksForAllEpochs *)

ResetEmptyTicks ==
  /\ pc = "reset"
  /\ \E e \in pendingEpochs :
       /\ DeleteEmptyTicksKeyForEpoch(e)
       /\ pendingEpochs' = pendingEpochs \ {e}
       /\ currentEpoch' = e
  /\ Goto("resetList")
  /\ UNCHANGED <<emptyTickList, statusVars, epochVars, tickVars,
                 lastTickQuorumData, attemptVars>>

ResetEmptyTickList ==
  /\ pc = "resetList"
  /\ DeleteEmptyTickListKeyForEpoch(currentEpoch)
  /\ Goto("reset")
  /\ currentEpoch' = 0
  /\ UNCHANGED <<emptyTicks, pendingEpochs, statusVars, epochVars, tickVars,
                 lastTickQuorumData, attemptVars>>

ResetDone ==
  /\ pc = "reset"
  /\ pendingEpochs = {}
  /\ Goto("calculate")
  /\ pendingEpochs' = StoredEpochs
  /\ UNCHANGED <<currentEpoch, storeVars, attemptVars>>

-----------------------------------------------------------------------------
(* CalculateEmptyTicksForAllEpochs *)

\* Mutant: the scan of an interval goes one tick too far.
IntervalTicksOffByOne(e, k) ==
  processedTickIntervals[e][k].initial .. processedTickIntervals[e][k].last + 1

IntervalTicks(e, k) ==
  processedTickIntervals[e][k].initial .. processedTickIntervals[e][k].last

\* The scan of an interval fails on the first tick without tick data.  The
\* number of ticks to scan, last - initial + 1, is a uint32: for an interval
\* that ends before it begins it wraps, and the scan runs into ticks that
\* were never stored.
ScanFails(e) ==
  \E k \in DOMAIN processedTickIntervals[e] :
    LET interval == processedTickIntervals[e][k]
    IN \/ interval.last + 1 < interval.initial
       \/ \E t \in IntervalTicks(e, k) : "tickData" \notin records[t]

\* The empty ticks of the epoch, each with the interval it is found in.
FoundEmptyTicks(e) ==
  {f \in (DOMAIN processedTickIntervals[e]) \X EmptyTicks : f[2] \in IntervalTicks(e, f[1])}

FoundEmptyTickList(e) ==
  [t \in Ticks |-> Cardinality({f \in FoundEmptyTicks(e) : f[2] = t})]

\* "We have the empty ticks": the first epoch whose count is stored ends the
\* calculation, for the other epochs too.
EmptyTicksKnown ==
  /\ pc = "calculate"
  /\ \E e \in pendingEpochs : e \in DOMAIN emptyTicks
  /\ Goto("idle")
  /\ pendingEpochs' = {}
  /\ UNCHANGED <<currentEpoch, storeVars, attemptVars>>

CalculateEmptyTicks ==
  /\ pc = "calculate"
  /\ \E e \in pendingEpochs \ DOMAIN emptyTicks :
       /\ ~ScanFails(e)
       /\ SetEmptyTicksForEpoch(e, Cardinality(FoundEmptyTicks(e)))
       /\ pendingEpochs' = pendingEpochs \ {e}
       /\ currentEpoch' = e
  /\ Goto("calculateList")
  /\ UNCHANGED <<emptyTickList, statusVars, epochVars, tickVars,
                 lastTickQuorumData, attemptVars>>

CalculateEmptyTickList ==
  /\ pc = "calculateList"
  /\ SetEmptyTickListPerEpoch(currentEpoch, FoundEmptyTickList(currentEpoch))
  /\ Goto("calculate")
  /\ currentEpoch' = 0
  /\ UNCHANGED <<emptyTicks, pendingEpochs, statusVars, epochVars, tickVars,
                 lastTickQuorumData, attemptVars>>

CalculationFails ==
  /\ pc = "calculate"
  /\ \E e \in pendingEpochs \ DOMAIN emptyTicks : ScanFails(e)
  /\ Goto("exited")
  /\ UNCHANGED <<startupVars, storeVars, attemptVars>>

CalculationDone ==
  /\ pc = "calculate"
  /\ pendingEpochs = {}
  /\ Goto("idle")
  /\ UNCHANGED <<startupVars, storeVars, attemptVars>>

\* The supervisor starts the process again.
Restart ==
  /\ pc = "exited"
  /\ Goto("boot")
  /\ pendingEpochs' = {}
  /\ UNCHANGED <<currentEpoch, storeVars, attemptVars>>

StartupSteps == {"boot", "reset", "resetList", "calculate", "calculateList", "exited"}

StartupNext ==
  \/ OpenStore
  \/ ResetEmptyTicks     \/ ResetEmptyTickList     \/ ResetDone
  \/ EmptyTicksKnown     \/ CalculateEmptyTicks    \/ CalculateEmptyTickList
  \/ CalculationFails    \/ CalculationDone        \/ Restart
=============================================================================
