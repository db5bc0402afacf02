SPECIFICATION Spec
CONSTANTS
  Txs <- MCTxs
  VotedSlots <- MCVotedSlots
  Flew <- MCFlew
  StatusLists <- MCStatusLists
  TxReplies <- MCTxReplies
  TickEpoch = 150
  ByteBits = 2
INVARIANTS
  ArchivedAsVoted
  TransfersExact
  ApprovedExact
  StoreDigestCanonical
CHECK_DEADLOCK FALSE
