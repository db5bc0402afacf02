---------------------------- MODULE QuorumVotes ----------------------------
(***************************************************************************)
(* quorum.Validate and what ValidateTick does with its result for one      *)
(* tick.  A node answers GetQuorumVotes with at most one vote per computor, *)
(* in any order and possibly with votes missing.  The correct computors    *)
(* vote for one content; a faulty one votes for any content, with any      *)
(* PreviousTransactionBodyDigest, and its signature may not verify (or its  *)
(* score is over the target).                                               *)
(***************************************************************************)
EXTENDS Integers, Sequences, FiniteSets

CONSTANTS
  Computors,            \* computor indexes
  Faulty,               \* those that may vote anything
  MinimumQuorumVotes,   \* 451 of 676 in the network
  Contents,             \* the fields of a vote that alignment compares
  EmptyContents,        \* contents with a zero TxDigest
  Consensus,            \* the content of the correct votes
  Bodies,               \* values of PreviousTransactionBodyDigest
  ConsensusBody         \* its value in the correct votes

ASSUME ComputorsAssumption ==
  /\ IsFiniteSet(Computors) /\ Faulty \subseteq Computors
  /\ MinimumQuorumVotes \in Nat
  /\ Cardinality(Faulty) < MinimumQuorumVotes
  /\ 2 * MinimumQuorumVotes > Cardinality(Computors)

ASSUME ContentsAssumption ==
  /\ EmptyContents \subseteq Contents
  /\ Consensus \in Contents
  /\ ConsensusBody \in Bodies

VARIABLES
  votes,    \* quorumVotes, as received
  outcome   \* what ValidateTick makes of them

vars == <<votes, outcome>>

Vote == [computor : Computors, content : Contents, body : Bodies, verifies : BOOLEAN]

\* The votes computor c may have sent.
VotesOf(c) ==
  IF c \in Faulty THEN {v \in Vote : v.computor = c}
  ELSE {[computor |-> c, content |-> Consensus, body |-> ConsensusBody,
         verifies |-> TRUE]}

\* The group of aligned votes with one content, by position.
Group(content) == {k \in DOMAIN votes : votes[k].content = content}

\* getAlignedVotes keeps a longest group; among equals, the order of a Go map
\* decides.
LongestGroups ==
  {c \in Contents :
     /\ Group(c) # {}
     /\ \A d \in Contents : Cardinality(Group(d)) <= Cardinality(Group(c))}

\* quorumTickSigVerify counts the votes that verify.
SuccessVotes(content) == Cardinality({k \in Group(content) : votes[k].verifies})

\* Mutant: only the number of received votes is checked.
AcceptsAnyLongest(content) == Len(votes) >= MinimumQuorumVotes

\* Mutant: one vote that does not verify fails the quorum.
AcceptsWithoutFailures(content) ==
  /\ Cardinality(Group(content)) >= MinimumQuorumVotes
  /\ SuccessVotes(content) = Cardinality(Group(content))

\* Validate succeeds with this group.
Accepts(content) ==
  /\ Len(votes) >= MinimumQuorumVotes
  /\ Cardinality(Group(content)) >= MinimumQuorumVotes
  /\ SuccessVotes(content) >= MinimumQuorumVotes

\* alignedVotes[0]
FirstAligned(content) ==
  votes[CHOOSE k \in Group(content) : \A j \in Group(content) : k <= j]

\* The first vote received decides whether tick data is fetched; data that is
\* fetched has been checked against the aligned content.
StoredContent(content) ==
  IF votes[1].content \in EmptyContents \/ content \in EmptyContents
  THEN "none" ELSE content

\* The chain digest is computed from the first aligned vote.
DigestInput(content) == <<content, FirstAligned(content).body>>

-----------------------------------------------------------------------------
Init == votes = <<>> /\ outcome = [verdict |-> "pending"]

\* GetQuorumVotes reads one more vote.
ReceiveVote ==
  /\ outcome.verdict = "pending"
  /\ \E c \in Computors :
       /\ \A k \in DOMAIN votes : votes[k].computor # c
       /\ \E v \in VotesOf(c) : votes' = Append(votes, v)
  /\ UNCHANGED outcome

AcceptVotes ==
  /\ outcome.verdict = "pending"
  /\ \E c \in LongestGroups :
       /\ Accepts(c)
       /\ outcome' = [verdict |-> "accepted", content |-> c,
                      stored |-> StoredContent(c), digest |-> DigestInput(c)]
  /\ UNCHANGED votes

RejectVotes ==
  /\ outcome.verdict = "pending"
  /\ LongestGroups = {} \/ \E c \in LongestGroups : ~Accepts(c)
  /\ outcome' = [verdict |-> "rejected"]
  /\ UNCHANGED votes

Next == ReceiveVote \/ AcceptVotes \/ RejectVotes

Spec == Init /\ [][Next]_vars

-----------------------------------------------------------------------------
\* Types, and one vote per computor, as ReceiveVote assumes of the node: the
\* counts below count computors.
TypeOK ==
  /\ votes \in Seq(Vote)
  /\ \A j, k \in DOMAIN votes : votes[j].computor = votes[k].computor => j = k
  /\ outcome.verdict \in {"pending", "accepted", "rejected"}

\* The votes Validate accepts are those of the correct computors: it never
\* archives a tick the network did not agree on.
AcceptedIsConsensus ==
  outcome.verdict = "accepted" => outcome.content = Consensus

\* The iteration order of the Go map of groups does not decide the verdict.
MapOrderIrrelevant ==
  \A c, d \in LongestGroups : Accepts(c) => c = d

\* Votes that were accepted stay acceptable when the node sends more: asking
\* a better informed node cannot turn a valid tick away.
AcceptanceStable ==
  [][\A c \in LongestGroups : Accepts(c) => c \in LongestGroups' /\ Accepts(c)']_vars

\* Validate turns votes away only if the votes of the correct computors do not
\* make a quorum: whatever the faulty ones send, in whatever order, and however
\* their signatures fail, they cannot keep a tick from being archived.
RejectedOnlyShort ==
  outcome.verdict = "rejected" =>
    Cardinality({k \in DOMAIN votes : votes[k].computor \notin Faulty}) < MinimumQuorumVotes

\* The tick data is fetched and stored exactly if the aligned votes carry a
\* TxDigest: no other verification is needed of an empty tick only.
StoredContentVerified ==
  outcome.verdict = "accepted" =>
    (outcome.stored = "none" <=> outcome.content \in EmptyContents)

\* Archivers that accept votes for the same tick chain the same digest.
DigestDetermined ==
  outcome.verdict = "accepted" => outcome.digest = <<Consensus, ConsensusBody>>
=============================================================================
