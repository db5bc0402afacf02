SPECIFICATION RecordsSpec
CONSTANTS
  NumberOfComputors = 3
  KeyLists <- MCKeyLists
  ComputorEpochs = {150, 151}
  Base = 3
  ShortDigests = {0, 5, 80}
  NewFormatFrom = 151
  Dissenters <- MCDissenters
INVARIANTS
  ComputorsRevalidate
  ReconstructedAsVoted
CHECK_DEADLOCK FALSE
