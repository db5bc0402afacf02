SPECIFICATION Spec
CONSTANTS
  Segments <- RestartedEpoch
  EmptyTicks = {6, 7}
  Identities = {"a", "b"}
  TransferIds <- MCTransferIds
  NodeMayAdvance = FALSE
  StoreDigestFrom = 3
  ResetAllowed = TRUE
  FailureSteps <- AllSteps
  MaxFailures = 2
INVARIANT DigestAgreement
PROPERTY ImplementsLedger
