---------------------------- MODULE QuorumProofs ----------------------------
(***************************************************************************)
(* Proofs about quorum.Validate, for every set of computors, every quorum  *)
(* that is more than half of them and more than the faulty ones, and every *)
(* order in which the votes arrive.                                        *)
(*                                                                         *)
(* What is accepted depends on counts of positions in the list of votes.   *)
(* The proofs turn them into counts of computors: positions and computors  *)
(* correspond one to one, because a computor's vote is there at most once. *)
(***************************************************************************)
EXTENDS QuorumVotes, FiniteSetTheorems, TLAPS

\* A vote is one its computor may have sent, the accepted content is that of
\* the correct votes, and votes were not turned away without cause.
QuorumInv ==
  /\ TypeOK
  /\ \A k \in DOMAIN votes : votes[k] \in VotesOf(votes[k].computor)
  /\ AcceptedIsConsensus
  /\ RejectedOnlyShort

-----------------------------------------------------------------------------
(* Positions and computors. *)

\* Positions whose computors lie in a set are no more than the set: the map
\* from positions to computors is one to one.
LEMMA PositionsCount ==
  ASSUME TypeOK, NEW T, IsFiniteSet(T), NEW S \in SUBSET DOMAIN votes,
         \A k \in S : votes[k].computor \in T
  PROVE  IsFiniteSet(S) /\ Cardinality(S) <= Cardinality(T)
<1> DEFINE f == [k \in S |-> votes[k].computor]
<1>1. f \in [S -> T] /\ \A j, k \in S : f[j] = f[k] => j = k
  BY DEF TypeOK
<1>2. f \in Injection(S, T)
  BY <1>1 DEF Injection, IsInjective
<1> QED BY <1>2, FS_Injection

\* There are no more votes than computors, and a group is a part of them.
LEMMA VotesCount ==
  ASSUME TypeOK
  PROVE  /\ IsFiniteSet(DOMAIN votes)
         /\ Cardinality(DOMAIN votes) <= Cardinality(Computors)
         /\ \A c : IsFiniteSet(Group(c)) /\ Group(c) \subseteq DOMAIN votes
         /\ \A c : Cardinality(Group(c)) \in Nat
<1>0. \A k \in DOMAIN votes : votes[k] \in Vote
  BY DEF TypeOK
<1>1. \A k \in DOMAIN votes : votes[k].computor \in Computors
  BY <1>0 DEF Vote
<1>2. IsFiniteSet(DOMAIN votes) /\ Cardinality(DOMAIN votes) <= Cardinality(Computors)
  BY <1>1, PositionsCount, ComputorsAssumption
<1>3. \A c : Group(c) \in SUBSET DOMAIN votes
  BY DEF Group
<1>4. \A c : IsFiniteSet(Group(c)) /\ Cardinality(Group(c)) \in Nat
  BY <1>2, <1>3, FS_Subset, FS_CardinalityType
<1> QED BY <1>2, <1>3, <1>4

\* Groups of different contents share no vote, so two of them cannot both
\* reach the quorum.
LEMMA OneQuorum ==
  ASSUME TypeOK, NEW c, NEW d, c # d,
         Cardinality(Group(c)) >= MinimumQuorumVotes
  PROVE  Cardinality(Group(d)) < MinimumQuorumVotes
<1>1. Group(c) \cap Group(d) = {}
  BY DEF Group
<1>2. /\ Cardinality(Group(c)) \in Nat /\ Cardinality(Group(d)) \in Nat
      /\ Group(c) \subseteq DOMAIN votes /\ Group(d) \subseteq DOMAIN votes
      /\ IsFiniteSet(DOMAIN votes)
      /\ Cardinality(DOMAIN votes) <= Cardinality(Computors)
  BY VotesCount
<1>3. Cardinality(DOMAIN votes) \in Nat /\ Cardinality(Computors) \in Nat
  BY <1>2, FS_CardinalityType, ComputorsAssumption
<1>4. ~(Cardinality(Group(c)) + Cardinality(Group(d)) > Cardinality(DOMAIN votes))
  BY <1>1, <1>2, FS_MajoritiesIntersect
<1> QED BY <1>2, <1>3, <1>4, ComputorsAssumption

\* A group that reaches the quorum has more votes than there are faulty
\* computors, so a correct computor has voted for its content.
LEMMA QuorumIsConsensus ==
  ASSUME QuorumInv, NEW c, Cardinality(Group(c)) >= MinimumQuorumVotes
  PROVE  c = Consensus
<1> SUFFICES ASSUME c # Consensus PROVE FALSE
  OBVIOUS
<1>1. \A k \in Group(c) : votes[k].computor \in Faulty
  BY DEF QuorumInv, Group, VotesOf
<1>2. IsFiniteSet(Faulty)
  BY ComputorsAssumption, FS_Subset
<1>3. Group(c) \in SUBSET DOMAIN votes
  BY DEF Group
<1>4. Cardinality(Group(c)) <= Cardinality(Faulty)
  BY <1>1, <1>2, <1>3, PositionsCount DEF QuorumInv
<1>5. Cardinality(Group(c)) \in Nat /\ Cardinality(Faulty) \in Nat
  BY <1>2, VotesCount, FS_CardinalityType DEF QuorumInv
<1> QED BY <1>4, <1>5, ComputorsAssumption

\* A quorum of correct votes makes the group of their content the only longest
\* one, and enough of it verifies.
LEMMA CorrectQuorum ==
  ASSUME TypeOK, \A k \in DOMAIN votes : votes[k] \in VotesOf(votes[k].computor),
         Cardinality({k \in DOMAIN votes : votes[k].computor \notin Faulty}) >= MinimumQuorumVotes
  PROVE  Consensus \in LongestGroups /\ \A c \in LongestGroups : Accepts(c)
<1> DEFINE Correct == {k \in DOMAIN votes : votes[k].computor \notin Faulty}
           Good == {k \in Group(Consensus) : votes[k].verifies}
<1>1. Correct \subseteq Good /\ Good \subseteq Group(Consensus)
  <2> SUFFICES ASSUME NEW k \in Correct
               PROVE  votes[k].content = Consensus /\ votes[k].verifies
    BY DEF Group
  <2>1. votes[k] = [computor |-> votes[k].computor, content |-> Consensus,
                    body |-> ConsensusBody, verifies |-> TRUE]
    BY DEF VotesOf
  <2> QED BY <2>1
<1>2. /\ IsFiniteSet(Group(Consensus)) /\ Cardinality(Group(Consensus)) \in Nat
      /\ Group(Consensus) \subseteq DOMAIN votes /\ IsFiniteSet(DOMAIN votes)
  BY VotesCount
<1>3. IsFiniteSet(Good)
  BY <1>1, <1>2, FS_Subset
<1>4. /\ Cardinality(Correct) <= Cardinality(Good)
      /\ Cardinality(Good) <= Cardinality(Group(Consensus))
      /\ Cardinality(Group(Consensus)) <= Cardinality(DOMAIN votes)
      /\ IsFiniteSet(Correct)
  BY <1>1, <1>2, <1>3, FS_Subset
<1>5. /\ Cardinality(Correct) \in Nat /\ Cardinality(Good) \in Nat
      /\ Cardinality(DOMAIN votes) \in Nat
  BY <1>2, <1>3, <1>4, FS_CardinalityType
<1>6. Cardinality(DOMAIN votes) = Len(votes)
  <2>1. Len(votes) \in Nat /\ DOMAIN votes = 1 .. Len(votes)
    BY DEF TypeOK
  <2> QED BY <2>1, FS_Interval
<1>7. /\ MinimumQuorumVotes \in Nat /\ MinimumQuorumVotes > 0
  <2>1. IsFiniteSet(Faulty)
    BY ComputorsAssumption, FS_Subset
  <2>2. Cardinality(Faulty) \in Nat
    BY <2>1, FS_CardinalityType
  <2> QED BY <2>2, ComputorsAssumption
<1>8. Cardinality(Correct) >= MinimumQuorumVotes
  OBVIOUS
<1>9. Accepts(Consensus)
  BY <1>4, <1>5, <1>6, <1>7, <1>8, <1>2 DEF Accepts, SuccessVotes
<1>10. \A d : d # Consensus => Cardinality(Group(d)) < Cardinality(Group(Consensus))
  BY <1>7, <1>9, OneQuorum, VotesCount DEF Accepts
<1>11. Group(Consensus) # {}
  BY <1>7, <1>9, FS_EmptySet DEF Accepts
<1>12. Consensus \in LongestGroups
  <2>1. \A d \in Contents : Cardinality(Group(d)) <= Cardinality(Group(Consensus))
    BY <1>10, <1>2, VotesCount
  <2> QED BY <2>1, <1>11, ContentsAssumption DEF LongestGroups
<1>13. \A c \in LongestGroups : c = Consensus
  <2> SUFFICES ASSUME NEW c \in LongestGroups, c # Consensus PROVE FALSE
    OBVIOUS
  <2>1. Cardinality(Group(Consensus)) <= Cardinality(Group(c))
    BY ContentsAssumption DEF LongestGroups
  <2> QED BY <2>1, <1>10, VotesCount
<1> QED BY <1>9, <1>12, <1>13

-----------------------------------------------------------------------------
(* The inductive step. *)

\* One more vote leaves the ones before it in place.
LEMMA OneMoreVote ==
  ASSUME TypeOK, NEW v \in Vote, votes' = Append(votes, v)
  PROVE  /\ votes' \in Seq(Vote)
         /\ Len(votes') = Len(votes) + 1 /\ Len(votes) \in Nat
         /\ DOMAIN votes = 1 .. Len(votes) /\ DOMAIN votes' = 1 .. Len(votes) + 1
         /\ \A k \in DOMAIN votes : votes'[k] = votes[k]
         /\ votes'[Len(votes) + 1] = v
<1>1. votes \in Seq(Vote)
  BY DEF TypeOK
<1> QED BY <1>1

\* A vote that a computor may have sent is a vote of that computor.
LEMMA VotesOfType ==
  ASSUME NEW c \in Computors, NEW v \in VotesOf(c)
  PROVE  v \in Vote /\ v.computor = c
<1>1. CASE c \in Faulty
  BY <1>1 DEF VotesOf
<1>2. CASE c \notin Faulty
  <2>1. v = [computor |-> c, content |-> Consensus, body |-> ConsensusBody, verifies |-> TRUE]
    BY <1>2 DEF VotesOf
  <2>2. TRUE \in BOOLEAN
    BY Zenon
  <2> QED BY <2>1, <2>2, ContentsAssumption, Zenon DEF Vote
<1> QED BY <1>1, <1>2

\* The invariant holds of the steps of GetQuorumVotes and of Validate.
LEMMA QuorumStep ==
  ASSUME QuorumInv, [Next]_vars
  PROVE  QuorumInv'
<1> USE DEF QuorumInv
<1>1. CASE ReceiveVote
  <2>0. PICK c \in Computors :
          /\ \A k \in DOMAIN votes : votes[k].computor # c
          /\ \E v \in VotesOf(c) : votes' = Append(votes, v)
    BY <1>1 DEF ReceiveVote
  <2>1. PICK v \in VotesOf(c) : votes' = Append(votes, v)
    BY <2>0
  <2>2. v \in Vote /\ v.computor = c
    BY VotesOfType
  <2>3. /\ votes' \in Seq(Vote) /\ Len(votes) \in Nat
        /\ DOMAIN votes = 1 .. Len(votes) /\ DOMAIN votes' = 1 .. Len(votes) + 1
        /\ \A k \in DOMAIN votes : votes'[k] = votes[k]
        /\ votes'[Len(votes) + 1] = v
    BY <2>1, <2>2, OneMoreVote
  <2>4. \A k \in DOMAIN votes' : k \in DOMAIN votes \/ k = Len(votes) + 1
    BY <2>3
  <2>5. UNCHANGED outcome /\ outcome.verdict = "pending"
    BY <1>1 DEF ReceiveVote
  <2>6. \A j, k \in DOMAIN votes' : votes'[j].computor = votes'[k].computor => j = k
    BY <2>0, <2>2, <2>3, <2>4 DEF TypeOK
  <2>7. \A k \in DOMAIN votes' : votes'[k] \in VotesOf(votes'[k].computor)
    BY <2>1, <2>2, <2>3, <2>4
  <2> QED BY <2>3, <2>5, <2>6, <2>7 DEF TypeOK, AcceptedIsConsensus, RejectedOnlyShort
<1>2. CASE AcceptVotes
  <2>1. PICK c \in LongestGroups : Accepts(c) /\ outcome'.verdict = "accepted"
                                              /\ outcome'.content = c
    BY <1>2 DEF AcceptVotes
  <2>2. c = Consensus
    BY <2>1, QuorumIsConsensus DEF Accepts
  <2> QED BY <1>2, <2>1, <2>2 DEF AcceptVotes, TypeOK, AcceptedIsConsensus,
                                       RejectedOnlyShort
<1>3. CASE RejectVotes
  <2>1. UNCHANGED votes /\ outcome'.verdict = "rejected"
    BY <1>3 DEF RejectVotes
  <2>2. ~(Cardinality({k \in DOMAIN votes : votes[k].computor \notin Faulty}) >= MinimumQuorumVotes)
    BY <1>3, CorrectQuorum DEF RejectVotes
  <2>3. RejectedOnlyShort'
    <3>1. {k \in DOMAIN votes : votes[k].computor \notin Faulty} \in SUBSET DOMAIN votes
      OBVIOUS
    <3>2. Cardinality({k \in DOMAIN votes : votes[k].computor \notin Faulty}) \in Nat
      BY <3>1, VotesCount, FS_Subset, FS_CardinalityType
    <3> QED BY <2>1, <2>2, <3>2, ComputorsAssumption DEF RejectedOnlyShort
  <2> QED BY <2>1, <2>3 DEF TypeOK, AcceptedIsConsensus
<1>4. CASE UNCHANGED vars
  BY <1>4 DEF vars, TypeOK, AcceptedIsConsensus, RejectedOnlyShort
<1> QED BY <1>1, <1>2, <1>3, <1>4 DEF Next

\* The invariant of one call of ValidateTick's quorum check.
LEMMA QuorumInvariant == Spec => []QuorumInv
<1>1. Init => QuorumInv
  BY DEF Init, QuorumInv, TypeOK, AcceptedIsConsensus, RejectedOnlyShort
<1> QED BY <1>1, QuorumStep, PTL DEF Spec

-----------------------------------------------------------------------------
(* Theorems. *)

\* quorum.Validate accepts the content of the correct computors only, for
\* every set of faulty computors smaller than the quorum.
THEOREM ConsensusAccepted == Spec => []AcceptedIsConsensus
BY QuorumInvariant, PTL DEF QuorumInv

\* Votes are turned away only where those of the correct computors do not make
\* a quorum: faulty computors cannot keep quorum.Validate from accepting.
THEOREM RejectionsShort == Spec => []RejectedOnlyShort
BY QuorumInvariant, PTL DEF QuorumInv

\* A longest group that is accepted is the only longest group: the order of
\* the Go map in getAlignedVotes does not decide which votes are accepted.
THEOREM MapOrder == Spec => []MapOrderIrrelevant
<1>1. QuorumInv => MapOrderIrrelevant
  <2> SUFFICES ASSUME QuorumInv, NEW c \in LongestGroups, NEW d \in LongestGroups,
                      Accepts(c), c # d
               PROVE  FALSE
    BY DEF MapOrderIrrelevant
  <2>1. Cardinality(Group(c)) >= MinimumQuorumVotes
    BY DEF Accepts
  <2>2. Cardinality(Group(c)) <= Cardinality(Group(d))
    BY DEF LongestGroups
  <2>3. Cardinality(Group(d)) < MinimumQuorumVotes
    BY <2>1, OneQuorum DEF QuorumInv
  <2> QED BY <2>1, <2>2, <2>3, VotesCount, ComputorsAssumption DEF QuorumInv
<1> QED BY <1>1, QuorumInvariant, PTL

\* Votes that quorum.Validate accepts are accepted with every further vote a
\* node sends: neither the counts nor the choice of the longest group turn
\* against them.
THEOREM AcceptanceKept == Spec => AcceptanceStable
<1> DEFINE Counts == /\ \A d : IsFiniteSet(Group(d)) /\ Cardinality(Group(d)) \in Nat
                     /\ \A c, d : (c # d /\ Cardinality(Group(c)) >= MinimumQuorumVotes) =>
                                    Cardinality(Group(d)) < MinimumQuorumVotes
<1>1. QuorumInv => Counts
  BY VotesCount, OneQuorum DEF QuorumInv
<1>2. QuorumInv' => Counts'
  BY <1>1, PTL
<1>3. ASSUME QuorumInv, QuorumInv', [Next]_vars,
             NEW c \in LongestGroups, Accepts(c)
      PROVE  c \in LongestGroups' /\ Accepts(c)'
  <2>1. CASE UNCHANGED votes
    BY <1>3, <2>1 DEF LongestGroups, Group, Accepts, SuccessVotes
  <2>2. CASE ReceiveVote
    <3> DEFINE Good == {k \in Group(c) : votes[k].verifies}
    <3>1. PICK v \in Vote : votes' = Append(votes, v)
      BY <2>2, VotesOfType DEF ReceiveVote
    <3>2. /\ Len(votes') = Len(votes) + 1 /\ Len(votes) \in Nat
          /\ DOMAIN votes \subseteq DOMAIN votes'
          /\ \A k \in DOMAIN votes : votes'[k] = votes[k]
      BY <1>3, <3>1, OneMoreVote DEF QuorumInv
    <3>3. Group(c) \subseteq Group(c)' /\ Good \subseteq Good'
      BY <3>2 DEF Group
    <3>4. IsFiniteSet(Group(c)') /\ IsFiniteSet(Good')
      BY <1>2, <1>3, FS_Subset
    <3>5. /\ Cardinality(Group(c)) <= Cardinality(Group(c)') /\ Cardinality(Good) <= Cardinality(Good')
          /\ \A S \in {Group(c), Group(c)', Good, Good'} : Cardinality(S) \in Nat
      BY <3>3, <3>4, FS_Subset, FS_CardinalityType
    <3>6. Accepts(c)'
      BY <1>3, <3>2, <3>5, ComputorsAssumption DEF Accepts, SuccessVotes
    <3>7. \A d : Cardinality(Group(d)') <= Cardinality(Group(c)')
      BY <1>2, <1>3, <3>6, ComputorsAssumption DEF Accepts
    <3>8. c \in Contents /\ Group(c)' # {}
      BY <3>3 DEF LongestGroups
    <3> QED BY <3>6, <3>7, <3>8 DEF LongestGroups
  <2> QED BY <1>3, <2>1, <2>2 DEF Next, AcceptVotes, RejectVotes, vars
<1>4. (QuorumInv /\ QuorumInv' /\ [Next]_vars) =>
        [\A c \in LongestGroups : Accepts(c) => c \in LongestGroups' /\ Accepts(c)']_vars
  BY <1>3
<1> QED BY <1>4, QuorumInvariant, PTL DEF Spec, AcceptanceStable
=============================================================================
