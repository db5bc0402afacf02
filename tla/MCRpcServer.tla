---------------------------- MODULE MCRpcServer ----------------------------
(* Small networks and sets of requests for the archiver with its server.   *)
EXTENDS RpcServerV2

MCSegment(e, first, last) == [epoch |-> e, initial |-> first, final |-> last]

\* Two epochs of two ticks with tick 4 between them that no one produced.
GapBetweenEpochs == {MCSegment(1, 2, 3), MCSegment(2, 5, 6)}

\* Every tick has transactions, the empty ones excepted.
MCTransferIds == [t \in Ticks |-> IF t \in EmptyTicks THEN {} ELSE Identities]

AnySteps == {"idle"} \cup AttemptSteps \cup StartupSteps
=============================================================================
