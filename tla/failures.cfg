SPECIFICATION Spec
CONSTANTS
  Segments <- TwoEpochs
  EmptyTicks = {3, 4}
  Identities = {"a", "b"}
  TransferIds <- MCTransferIds
  NodeMayAdvance = TRUE
  StoreDigestFrom = 3
  ResetAllowed = FALSE
  FailureSteps <- AllSteps
  MaxFailures = 2
INVARIANTS
  TypeOK
  ArchivedComplete
  NothingLost
  BoundsCheckSound
  DigestAgreement
  StartupNeverFails
  EmptyTicksListed
PROPERTIES
  AppendOnly
  NoTickJumped
