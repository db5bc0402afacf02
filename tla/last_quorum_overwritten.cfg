SPECIFICATION Spec
CONSTANTS
  Segments <- RestartedEpoch
  EmptyTicks = {6}
  Identities = {"a", "b"}
  TransferIds <- MCTransferIds
  NodeMayAdvance = FALSE
  StoreDigestFrom = 3
  ResetAllowed = FALSE
  FailureSteps <- BeforeFirstRecord
  MaxFailures = 0
INVARIANTS
  LastQuorumOfInterval
