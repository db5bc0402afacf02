SPECIFICATION Spec
CONSTANTS
  Computors = {1, 2, 3, 4, 5}
  Faulty = {4, 5}
  MinimumQuorumVotes = 3
  Contents <- MCContents
  EmptyContents <- MCEmptyContents
  Consensus = "consensus"
  Bodies = {"body", "otherBody"}
  ConsensusBody = "body"
CHECK_DEADLOCK FALSE
INVARIANTS
  StoredContentVerified
