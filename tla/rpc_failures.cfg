SPECIFICATION RpcSpec
CONSTANTS
  Segments <- GapBetweenEpochs
  EmptyTicks = {3, 5}
  Identities = {"a"}
  TransferIds <- MCTransferIds
  NodeMayAdvance = FALSE
  StoreDigestFrom = 3
  ResetAllowed = FALSE
  FailureSteps <- AnySteps
  MaxFailures = 1
  Methods <- AllMethods
  RequestTicks = {1, 2, 3, 4, 5, 6}
  MoneyFlewTicks = {2}
  SyncThreshold = 1
INVARIANTS
  CheckedThenAnswered
  StatusAnswerFinal
  ApprovedExact
  InfoNeverMissing
  EpochTickListExact
  ReconstructionPossible
  StatusReplyCovers
