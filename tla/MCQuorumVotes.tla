--------------------------- MODULE MCQuorumVotes ---------------------------
(* Five computors, two of them faulty, and a quorum of three.              *)
EXTENDS QuorumVotes

MCContents      == {"consensus", "other"}
MCEmptyContents == {"other"}
=============================================================================
