SPECIFICATION FairSpec
CONSTANTS
  Segments <- TwoEpochs
  EmptyTicks = {3, 4}
  Identities = {"a", "b"}
  TransferIds <- MCTransferIds
  NodeMayAdvance = TRUE
  StoreDigestFrom = 3
  ResetAllowed = FALSE
  FailureSteps <- AllSteps
  MaxFailures = 1
PROPERTIES
  CatchesUp
