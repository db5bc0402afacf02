SPECIFICATION Spec
CONSTANTS
  Segments <- RestartAndGap
  EmptyTicks = {3, 5, 6, 8, 12}
  Identities = {"a", "b"}
  TransferIds <- MCTransferIds
  NodeMayAdvance = FALSE
  StoreDigestFrom = 3
  ResetAllowed = TRUE
  FailureSteps <- BeforeFirstRecord
  MaxFailures = 2
INVARIANTS
  StatusPartition
  EmptyTicksExact
  LastQuorumPlaced
