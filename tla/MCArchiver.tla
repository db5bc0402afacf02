----------------------------- MODULE MCArchiver -----------------------------
(* Small networks for the archiver.                                        *)
EXTENDS ArchiverLedger

Segment(e, first, last) == [epoch |-> e, initial |-> first, final |-> last]

\* Two epochs without a gap: the archiver may follow the ticks one by one or
\* miss the end of the first epoch.
TwoEpochs == {Segment(1, 2, 3), Segment(2, 4, 5)}

\* The network is restarted inside epoch 1.
RestartedEpoch == {Segment(1, 2, 3), Segment(1, 5, 6), Segment(2, 7, 7)}

\* The same with a gap before a third epoch, so that intervals are opened
\* inside an epoch, at its start and over a gap.
RestartAndGap == {Segment(1, 2, 3), Segment(1, 5, 6), Segment(2, 7, 8), Segment(3, 11, 12)}

MCTransferIds ==
  [t \in Ticks |-> IF t \in EmptyTicks THEN {} ELSE Identities]

ProcessingSteps   == {"idle"} \cup AttemptSteps
BeforeFirstRecord == {"idle", "computors", "target", "validate", "quorum"}
AllSteps          == ProcessingSteps \cup StartupSteps
=============================================================================
