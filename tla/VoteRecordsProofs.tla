-------------------------- MODULE VoteRecordsProofs --------------------------
(***************************************************************************)
(* The stored computor lists and the rebuilt quorum votes, for lists of    *)
(* any length, any digests and any base of the bytes.                      *)
(***************************************************************************)
EXTENDS VoteRecords, LoopTheorems

\* The lists that the arbitrator signs have their unused slots at the end.
KeyListsInOrder == \A keys \in KeyLists : KeysFirst(keys)

-----------------------------------------------------------------------------
(* The conversions of the computor lists. *)

\* The stored identities are the keys up to the first unused slot.
LEMMA StoredIdentities ==
  ASSUME NEW keys \in KeyLists, KeysFirst(keys)
  PROVE  \E m \in 0 .. NumberOfComputors :
           /\ PubKeysToIdentities(keys) = [k \in 1 .. m |-> keys[k]]
           /\ \A k \in 1 .. NumberOfComputors : keys[k] # 0 <=> k <= m
<1> DEFINE n == NumberOfComputors
           used == {0} \cup {k \in 1 .. n : keys[k] # 0}
           m == Max(used)
<1>1. n \in Nat /\ keys \in [1 .. n -> Nat]
  BY ComputorsAssumption
<1>2. used \in SUBSET (0 .. n) /\ used # {}
  BY <1>1
<1>3. m \in used /\ \A y \in used : m >= y
  <2> HIDE DEF used
  <2> QED BY <1>1, <1>2, MaxInSet
<1> HIDE DEF m
<1>4. m \in 0 .. n /\ \A k \in 1 .. n : keys[k] # 0 <=> k <= m
  <2>1. m \in 0 .. n
    BY <1>1, <1>3
  <2>2. \A k \in 1 .. n : keys[k] # 0 => k <= m
    BY <1>1, <1>3
  <2>3. ASSUME NEW k \in 1 .. n, k <= m PROVE keys[k] # 0
    <3>1. m \in 1 .. n /\ keys[m] # 0
      BY <1>1, <1>3, <2>3
    <3> QED BY <2>3, <3>1 DEF KeysFirst
  <2> QED BY <2>1, <2>2, <2>3
<1>5. PubKeysToIdentities(keys) = FlattenSeq(Filtered(n, 1 .. m, keys))
  <2>1. [k \in DOMAIN keys |-> IF keys[k] # 0 THEN <<keys[k]>> ELSE <<>>]
          = Filtered(n, 1 .. m, keys)
    BY <1>1, <1>4 DEF Filtered
  <2> QED BY <2>1 DEF PubKeysToIdentities
<1>6. \A k \in 1 .. m : keys[k] \in Nat
  BY <1>1, <1>4
<1>7. FlattenSeq(Filtered(n, 1 .. m, keys)) = Prefix(keys, m)
  <2> HIDE DEF n
  <2>1. m \in 0 .. n
    BY <1>4
  <2>2. n \in Nat
    BY <1>1
  <2> HIDE DEF m
  <2> QED BY <1>6, <2>1, <2>2, PrefixLoop, Zenon
<1> QED BY <1>4, <1>5, <1>7 DEF Prefix

\* The conversion to the stored form and back returns the list.
LEMMA KeysRoundTrip ==
  ASSUME NEW keys \in KeyLists, KeysFirst(keys)
  PROVE  IdentitiesToPubKeys(PubKeysToIdentities(keys)) = keys
<1>1. PICK m \in 0 .. NumberOfComputors :
        /\ PubKeysToIdentities(keys) = [k \in 1 .. m |-> keys[k]]
        /\ \A k \in 1 .. NumberOfComputors : keys[k] # 0 <=> k <= m
  BY StoredIdentities
<1>2. keys \in [1 .. NumberOfComputors -> Nat] /\ NumberOfComputors \in Nat
  BY ComputorsAssumption
<1> QED BY <1>1, <1>2 DEF IdentitiesToPubKeys

-----------------------------------------------------------------------------
(* The stored lists. *)

\* Every stored list is the stored form of a list that the arbitrator signed.
ComputorsIInv ==
  /\ signed \in [ComputorEpochs -> KeyLists]
  /\ \A e \in DOMAIN computors :
       \E x \in ComputorEpochs : computors[e] = QubicToProto(Signed(x))

LEMMA SignedRoundTrip ==
  ASSUME KeyListsInOrder, signed \in [ComputorEpochs -> KeyLists], NEW x \in ComputorEpochs
  PROVE  ProtoToQubic(QubicToProto(Signed(x))) = Signed(x) /\ ValidateComputors(Signed(x))
<1>1. signed[x] \in KeyLists /\ KeysFirst(signed[x])
  BY DEF KeyListsInOrder
<1>2. IdentitiesToPubKeys(PubKeysToIdentities(signed[x])) = signed[x]
  BY <1>1, KeysRoundTrip
<1>3. Epochs16(x) = x
  <2>1. x \in Nat /\ x < 65536
    BY ComputorsAssumption
  <2> QED BY <2>1 DEF Epochs16
<1> QED BY <1>2, <1>3 DEF ProtoToQubic, QubicToProto, Signed, ValidateComputors,
           ArbitratorSignature, ComputorsDigest

\* A list that passes the validation is one that the arbitrator signed.
LEMMA ValidatedReplies ==
  ASSUME KeyListsInOrder, ComputorsIInv, NEW e, NEW comps \in GetComputors(e),
         ValidateComputors(comps)
  PROVE  \E x \in ComputorEpochs : comps = Signed(x)
<1>0. signed \in [ComputorEpochs -> KeyLists]
  BY DEF ComputorsIInv
<1>1. CASE e \in DOMAIN computors
  <2>1. PICK x \in ComputorEpochs : computors[e] = QubicToProto(Signed(x))
    BY <1>1 DEF ComputorsIInv
  <2>2. comps = ProtoToQubic(QubicToProto(Signed(x)))
    BY <1>1, <2>1 DEF GetComputors
  <2> QED BY <1>0, <2>2, SignedRoundTrip
<1>2. CASE e \notin DOMAIN computors
  <2>1. ASSUME NEW x \in ComputorEpochs, comps = [Signed(x) EXCEPT !.keys[1] = @ + 1]
        PROVE  FALSE
    <3>1. signed[x] \in [1 .. NumberOfComputors -> Nat] /\ 1 \in 1 .. NumberOfComputors
      BY <1>0, ComputorsAssumption
    <3>2. comps.keys[1] = signed[x][1] + 1
      BY <2>1, <3>1 DEF Signed
    <3>3. comps.signature = <<"arbitrator", <<x, signed[x]>>>> /\ comps.epoch = x
      BY <2>1 DEF Signed, ArbitratorSignature, ComputorsDigest
    <3>4. comps.keys = signed[x]
      BY <3>3 DEF ValidateComputors, ArbitratorSignature, ComputorsDigest
    <3>5. signed[x][1] \in Nat
      BY <3>1
    <3> QED BY <3>2, <3>4, <3>5
  <2> QED BY <1>2, <2>1 DEF GetComputors, NodeReplies
<1> QED BY <1>1, <1>2

LEMMA StoreComputorsStep ==
  ASSUME KeyListsInOrder, ComputorsIInv, NEW e, ValidateAndStoreComputors(e)
  PROVE  ComputorsIInv'
<1>1. PICK comps \in GetComputors(e) :
        /\ ValidateComputors(comps)
        /\ computors' = [x \in DOMAIN computors \cup {e} |->
                           IF x = e THEN QubicToProto(comps) ELSE computors[x]]
  BY DEF ValidateAndStoreComputors
<1>2. PICK x \in ComputorEpochs : comps = Signed(x)
  BY <1>1, ValidatedReplies
<1>3. signed' = signed
  BY DEF ValidateAndStoreComputors
<1>4. \A y : Signed(y)' = Signed(y)
  BY <1>3 DEF Signed
<1>5. ASSUME NEW d \in DOMAIN computors'
      PROVE  \E y \in ComputorEpochs : computors'[d] = QubicToProto(Signed(y)')
  <2>1. CASE d = e
    BY <1>1, <1>2, <1>4, <2>1
  <2>2. CASE d # e
    <3>1. d \in DOMAIN computors /\ computors'[d] = computors[d]
      BY <1>1, <1>5, <2>2
    <3> QED BY <1>4, <3>1 DEF ComputorsIInv
  <2> QED BY <2>1, <2>2
<1>6. \A y : QubicToProto(Signed(y))' = QubicToProto(Signed(y)')
  BY DEF QubicToProto, Signed, PubKeysToIdentities
<1> QED BY <1>3, <1>5, <1>6 DEF ComputorsIInv

-----------------------------------------------------------------------------
(* The stored votes. *)

Names == {"spectrum", "universe", "computer", "resource", "body"}

\* The first tick's digests and those of the computors that differ are numbers.
NetworkInv ==
  /\ epoch \in ComputorEpochs
  /\ release = "earlier" => epoch < NewFormatFrom
  /\ state \in [Names -> Nat]

\* Of tick t the votes of some computors are stored as they were cast, and the
\* full votes are those of the same computors.
VotesKept(t) ==
  /\ stored[t].structure = TickStructure(Vote(t, 1))
  /\ full[t].structure = TickStructure(Vote(t, 1))
  /\ DOMAIN stored[t].diff = DOMAIN full[t].diff
  /\ \A i \in DOMAIN full[t].diff :
       /\ i \in Voters
       /\ stored[t].diff[i] = StoredDiff(Vote(t, i))
       /\ full[t].diff[i] = FullDiff(Vote(t, i))

VotesInv ==
  /\ stored \in Seq(ToSet(stored)) /\ full \in Seq(ToSet(full))
  /\ Len(full) = Len(stored)
  /\ \A t \in 1 .. Len(stored) : VotesKept(t)
  /\ Len(stored) > 0 => epoch \in DOMAIN computors

RecordsIInv == ComputorsIInv /\ NetworkInv /\ VotesInv

LEMMA AppendSeq ==
  ASSUME NEW s, s \in Seq(ToSet(s)), NEW e
  PROVE  /\ Append(s, e) \in Seq(ToSet(Append(s, e)))
         /\ Len(Append(s, e)) = Len(s) + 1 /\ Append(s, e)[Len(s) + 1] = e
         /\ \A k \in 1 .. Len(s) : Append(s, e)[k] = s[k]
         /\ Len(s) \in Nat
<1> DEFINE A == ToSet(s) \cup {e}
           more == Append(s, e)
<1>1. s \in Seq(A) /\ e \in A
  <2>1. ToSet(s) \subseteq A
    OBVIOUS
  <2> HIDE DEF A
  <2>2. s \in Seq(A)
    BY <2>1
  <2> QED BY <2>2 DEF A
<1> HIDE DEF A
<1>2. /\ more \in Seq(A) /\ Len(more) = Len(s) + 1 /\ more[Len(s) + 1] = e
      /\ \A k \in 1 .. Len(s) : more[k] = s[k]
      /\ Len(s) \in Nat
  BY <1>1
<1>3. more \in Seq(ToSet(more))
  <2> HIDE DEF more
  <2>1. DOMAIN more = 1 .. Len(more) /\ Len(more) \in Nat /\ more = [k \in 1 .. Len(more) |-> more[k]]
    BY <1>2
  <2>2. \A k \in 1 .. Len(more) : more[k] \in ToSet(more)
    BY <2>1, Zenon DEF ToSet
  <2>3. more \in [1 .. Len(more) -> ToSet(more)]
    BY <2>1, <2>2
  <2> QED BY <2>1, <2>3
<1> QED BY <1>2, <1>3

VotesCast(t, voters) == {Vote(t, i) : i \in voters}

\* Aligned votes share the structure, and a computor has one vote on a tick.
LEMMA VotesOfTick ==
  ASSUME NEW t, NEW voters, voters # {}
  PROVE  /\ TickStructure(CHOOSE vote \in VotesCast(t, voters) : TRUE)
              = TickStructure(Vote(t, 1))
         /\ {vote.computor : vote \in VotesCast(t, voters)} = voters
         /\ \A i \in voters :
              (CHOOSE vote \in VotesCast(t, voters) : vote.computor = i) = Vote(t, i)
<1> DEFINE votes == {Vote(t, i) : i \in voters}
<1> USE DEF VotesCast
<1>1. \A i : Vote(t, i).computor = i
  BY DEF Vote
<1>2. \A i, j : TickStructure(Vote(t, i)) = TickStructure(Vote(t, j))
  <2>1. \A i, j : Vote(t, i).tick = Vote(t, j).tick /\ Vote(t, i).prev = Vote(t, j).prev
    BY DEF Vote
  <2> QED BY <2>1 DEF TickStructure
<1>3. PICK i \in voters : (CHOOSE vote \in votes : TRUE) = Vote(t, i)
  <2>1. \E vote \in votes : TRUE
    OBVIOUS
  <2>2. (CHOOSE vote \in votes : TRUE) \in votes
    BY <2>1
  <2> QED BY <2>2
<1>4. \A j \in voters : (CHOOSE vote \in votes : vote.computor = j) = Vote(t, j)
  <2> SUFFICES ASSUME NEW j \in voters
               PROVE  (CHOOSE vote \in votes : vote.computor = j) = Vote(t, j)
    OBVIOUS
  <2> DEFINE chosen == CHOOSE vote \in votes : vote.computor = j
  <2>1. chosen \in votes /\ chosen.computor = j
    BY <1>1
  <2> HIDE DEF chosen
  <2> QED BY <1>1, <2>1 DEF chosen
<1>5. {vote.computor : vote \in votes} = voters
  BY <1>1
<1> QED BY <1>2, <1>3, <1>4, <1>5

\* What is unchanged for the ticks that are already stored.
LEMMA NetworkKept ==
  ASSUME UNCHANGED <<signed, epoch, release, state, apart>>
  PROVE  /\ Voters' = Voters
         /\ \A t, i : Vote(t, i)' = Vote(t, i)
         /\ \A t, i : TickStructure(Vote(t, i))' = TickStructure(Vote(t, i))
<1>1. Voters' = Voters
  BY DEF Voters, Key
<1>2. \A t, i : Vote(t, i)' = Vote(t, i)
  BY DEF Vote, SaltedShort, OwnState, Key, MemoryBytes, Width
<1>3. \A t, i : TickStructure(Vote(t, i))' = TickStructure(Vote(t, i))
  <2>1. \A t, i : TickStructure(Vote(t, i))' = TickStructure(Vote(t, i)')
    BY DEF TickStructure, Width
  <2> QED BY <1>2, <2>1
<1> QED BY <1>1, <1>2, <1>3

LEMMA RecordsInitInv == RecordsInit => RecordsIInv
<1> SUFFICES ASSUME RecordsInit PROVE RecordsIInv
  OBVIOUS
<1>1. ComputorsIInv
  BY DEF RecordsInit, ComputorsInit, ComputorsIInv
<1>2. NetworkInv
  <2>1. PICK a \in ShortDigests, b \in ShortDigests :
          state = [spectrum |-> 1, universe |-> 2, computer |-> 3, resource |-> a, body |-> b]
    BY DEF RecordsInit
  <2>2. a \in Nat /\ b \in Nat
    BY RecordsAssumption
  <2>3. DOMAIN state = Names
    BY <2>1 DEF Names
  <2>4. \A name \in Names : state[name] \in Nat
    BY <2>1, <2>2 DEF Names
  <2>5. state = [name \in DOMAIN state |-> state[name]]
    BY <2>1
  <2>6. state \in [Names -> Nat]
    BY <2>3, <2>4, <2>5
  <2> QED BY <2>6 DEF RecordsInit, NetworkInv
<1>3. VotesInv
  BY DEF RecordsInit, VotesInv
<1> QED BY <1>1, <1>2, <1>3 DEF RecordsIInv

LEMMA KeptVotes ==
  ASSUME UNCHANGED <<signed, epoch, release, state, apart>>, NEW t, VotesKept(t),
         stored'[t] = stored[t], full'[t] = full[t]
  PROVE  VotesKept(t)'
BY NetworkKept DEF VotesKept, StoredDiff, FullDiff

LEMMA ArchiveVotesStep ==
  ASSUME KeyListsInOrder, RecordsIInv, ArchiveVotes PROVE RecordsIInv'
<1> USE DEF RecordsIInv
<1>0. PICK t \in Nat : t = Len(stored) + 1
  <2>1. stored \in Seq(ToSet(stored))
    BY DEF VotesInv
  <2> QED BY <2>1
<1>1. ComputorsIInv'
  BY StoreComputorsStep DEF ArchiveVotes
<1>2. UNCHANGED <<signed, epoch, release, state, apart>>
  BY DEF ArchiveVotes, ValidateAndStoreComputors
<1>3. NetworkInv'
  BY <1>2 DEF NetworkInv
<1>4. PICK voters \in SUBSET Voters :
        /\ voters # {}
        /\ stored' = Append(stored, ToStored({Vote(t, i) : i \in voters}))
        /\ full' = Append(full, Full({Vote(t, i) : i \in voters}))
  BY <1>0 DEF ArchiveVotes
<1> DEFINE votes == VotesCast(t, voters)
<1>5. /\ TickStructure(CHOOSE vote \in votes : TRUE) = TickStructure(Vote(t, 1))
      /\ {vote.computor : vote \in votes} = voters
      /\ \A i \in voters : (CHOOSE vote \in votes : vote.computor = i) = Vote(t, i)
  BY <1>4, VotesOfTick, Zenon
<1> HIDE DEF votes
<1>6. /\ ToStored(votes).structure = TickStructure(Vote(t, 1))
      /\ Full(votes).structure = TickStructure(Vote(t, 1))
      /\ DOMAIN ToStored(votes).diff = voters /\ DOMAIN Full(votes).diff = voters
      /\ \A i \in voters : /\ ToStored(votes).diff[i] = StoredDiff(Vote(t, i))
                           /\ Full(votes).diff[i] = FullDiff(Vote(t, i))
  BY <1>5 DEF ToStored, Full
<1>7. /\ stored' \in Seq(ToSet(stored')) /\ full' \in Seq(ToSet(full'))
      /\ Len(full') = Len(stored') /\ Len(stored') = t /\ Len(stored) \in Nat
      /\ \A k \in 1 .. Len(stored) : stored'[k] = stored[k] /\ full'[k] = full[k]
      /\ stored'[t] = ToStored(votes) /\ full'[t] = Full(votes)
  <2>1. /\ stored \in Seq(ToSet(stored)) /\ full \in Seq(ToSet(full))
        /\ Len(full) = Len(stored)
    BY DEF VotesInv
  <2>2. stored' = Append(stored, ToStored(votes)) /\ full' = Append(full, Full(votes))
    BY <1>4 DEF votes, VotesCast
  <2> QED BY <1>0, <2>1, <2>2, AppendSeq
<1>8. VotesKept(t)'
  <2>1. /\ Voters' = Voters
        /\ \A i : Vote(t, i)' = Vote(t, i)
        /\ TickStructure(Vote(t, 1))' = TickStructure(Vote(t, 1))
    BY <1>2, NetworkKept
  <2>2. \A i \in voters : i \in Voters
    BY <1>4
  <2> QED BY <1>6, <1>7, <2>1, <2>2 DEF VotesKept, StoredDiff, FullDiff
<1>9. \A k \in 1 .. Len(stored) : VotesKept(k)'
  <2> SUFFICES ASSUME NEW k \in 1 .. Len(stored) PROVE VotesKept(k)'
    OBVIOUS
  <2>1. VotesKept(k)
    BY DEF VotesInv
  <2> QED BY <1>2, <1>7, <2>1, KeptVotes
<1>10. epoch' \in DOMAIN computors'
  BY <1>2 DEF ArchiveVotes, ValidateAndStoreComputors
<1>11. VotesInv'
  <2>1. \A k \in 1 .. Len(stored') : VotesKept(k)'
    BY <1>0, <1>7, <1>8, <1>9
  <2> QED BY <1>7, <1>10, <2>1 DEF VotesInv
<1> QED BY <1>1, <1>3, <1>11

LEMMA RecordsStep ==
  ASSUME KeyListsInOrder, RecordsIInv, [RecordsNext]_recordVars PROVE RecordsIInv'
<1> USE DEF RecordsIInv
<1>1. CASE ArchiveVotes
  BY <1>1, ArchiveVotesStep
<1>2. CASE OtherEpoch
  <2>1. PICK e \in ComputorEpochs : ValidateAndStoreComputors(e)
    BY <1>2 DEF OtherEpoch
  <2>2. ComputorsIInv'
    BY <2>1, StoreComputorsStep
  <2>3. UNCHANGED <<signed, epoch, release, state, apart, stored, full>>
    BY <1>2, <2>1 DEF OtherEpoch, ValidateAndStoreComputors
  <2>4. NetworkInv'
    BY <2>3 DEF NetworkInv
  <2>5. \A t \in 1 .. Len(stored) : VotesKept(t)'
    BY <2>3, KeptVotes DEF VotesInv
  <2>6. DOMAIN computors \subseteq DOMAIN computors'
    BY <2>1 DEF ValidateAndStoreComputors
  <2>7. VotesInv'
    BY <2>3, <2>5, <2>6 DEF VotesInv
  <2> QED BY <2>2, <2>4, <2>7
<1>3. CASE UNCHANGED recordVars
  <2>1. UNCHANGED <<signed, computors, epoch, release, state, apart, stored, full>>
    BY <1>3 DEF recordVars, computorsVars
  <2>2. ComputorsIInv'
    <3>1. \A x : QubicToProto(Signed(x))' = QubicToProto(Signed(x))
      BY <2>1 DEF QubicToProto, Signed, PubKeysToIdentities
    <3> QED BY <2>1, <3>1 DEF ComputorsIInv
  <2>3. \A t \in 1 .. Len(stored) : VotesKept(t)'
    BY <2>1, KeptVotes DEF VotesInv
  <2> QED BY <2>1, <2>2, <2>3 DEF NetworkInv, VotesInv
<1> QED BY <1>1, <1>2, <1>3 DEF RecordsNext

LEMMA RecordsInvariant ==
  ASSUME KeyListsInOrder PROVE RecordsSpec => []RecordsIInv
BY RecordsInitInv, RecordsStep, PTL DEF RecordsSpec

-----------------------------------------------------------------------------
(* The theorems. *)

\* A stored computor list is one that the arbitrator signed and passes the
\* validation again when it is read for the next tick, for lists of any length
\* that have their unused slots at the end.
THEOREM StoredComputorsRevalidate ==
  ASSUME KeyListsInOrder PROVE RecordsSpec => []ComputorsRevalidate
<1>1. ASSUME RecordsIInv PROVE ComputorsRevalidate
  <2> SUFFICES ASSUME NEW e \in DOMAIN computors
               PROVE  /\ ValidateComputors(ProtoToQubic(computors[e]))
                      /\ ProtoToQubic(computors[e]) \in {Signed(x) : x \in ComputorEpochs}
    BY DEF ComputorsRevalidate
  <2>1. PICK x \in ComputorEpochs : computors[e] = QubicToProto(Signed(x))
    BY <1>1 DEF RecordsIInv, ComputorsIInv
  <2>2. signed \in [ComputorEpochs -> KeyLists]
    BY <1>1 DEF RecordsIInv, ComputorsIInv
  <2>3. ProtoToQubic(computors[e]) = Signed(x) /\ ValidateComputors(Signed(x))
    BY <2>1, <2>2, SignedRoundTrip
  <2> QED BY <2>3
<1> QED BY <1>1, RecordsInvariant, PTL

-----------------------------------------------------------------------------
(* The bytes of the digests. *)

LEMMA Remainder ==
  ASSUME NEW v \in Nat, NEW b \in Nat, b > 0
  PROVE  \E q \in Int : v - b * q = v % b
<1>1. v \div b \in Int
  OBVIOUS
<1>2. v - b * (v \div b) = v % b
  OBVIOUS
<1> QED BY <1>1, <1>2

LEMMA NextRemainder ==
  ASSUME NEW v \in Nat, NEW b \in Nat \ {0, 1} PROVE v % b # (v + 1) % b
<1> SUFFICES ASSUME v % b = (v + 1) % b PROVE FALSE
  OBVIOUS
<1>0. b \in Nat /\ b > 0 /\ v + 1 \in Nat
  OBVIOUS
<1>1. PICK q \in Int : v - b * q = v % b
  BY <1>0, Remainder
<1>2. PICK p \in Int : (v + 1) - b * p = v % b
  BY <1>0, Remainder
<1>3. PICK d \in Int : d = p - q
  OBVIOUS
<1>4. b * d = 1
  <2>1. b * p = b * q + b * d
    BY <1>3
  <2> QED BY <1>1, <1>2, <2>1
<1>5. CASE d <= 0
  <2>1. b * d <= 0
    BY <1>5
  <2> QED BY <1>4, <2>1
<1>6. CASE d >= 1
  <2>1. b * d >= b
    BY <1>6
  <2> QED BY <1>4, <2>1
<1> QED BY <1>3, <1>5, <1>6

LEMMA BytesDiffer ==
  ASSUME NEW v \in Nat PROVE MemoryBytes(v) # MemoryBytes(v + 1)
<1>1. 1 \in 1 .. Width
  BY DEF Width
<1>2. MemoryBytes(v)[1] = (v \div 1) % Base /\ MemoryBytes(v + 1)[1] = ((v + 1) \div 1) % Base
  BY <1>1 DEF MemoryBytes, Weight
<1>3. v \div 1 = v /\ (v + 1) \div 1 = v + 1
  OBVIOUS
<1>4. v % Base # (v + 1) % Base
  BY RecordsAssumption, NextRemainder
<1> QED BY <1>2, <1>3, <1>4

\* The first bytes of a buffer of w bytes.
LEMMA PaddedBytes ==
  ASSUME NEW A, NEW s \in Seq(A), NEW z \in Seq(A), NEW w \in Nat,
         Len(s) <= w, w <= Len(s) + Len(z)
  PROVE  /\ SubSeq(SubSeq(s \o z, 1, w), 1, Len(s)) = s
         /\ Len(s) = w => SubSeq(s \o z, 1, w) = s
<1> DEFINE c == s \o z
           p == SubSeq(c, 1, w)
           cut == SubSeq(p, 1, Len(s))
<1>1. Len(s) \in Nat /\ Len(z) \in Nat /\ DOMAIN s = 1 .. Len(s) /\ s = [k \in 1 .. Len(s) |-> s[k]]
  OBVIOUS
<1>2. /\ c \in Seq(A) /\ Len(c) = Len(s) + Len(z)
      /\ \A k \in 1 .. Len(s) + Len(z) : c[k] = IF k <= Len(s) THEN s[k] ELSE z[k - Len(s)]
  BY ConcatProperties
<1> HIDE DEF c
<1>3. \A k \in 1 .. w : c[k] \in A
  BY <1>1, <1>2
<1>4. p \in Seq(A) /\ Len(p) = w /\ \A k \in 1 .. w : p[k] = c[k]
  <2>1. /\ p \in Seq(A)
        /\ Len(p) = IF 1 <= w THEN w - 1 + 1 ELSE 0
        /\ \A i \in 1 .. w - 1 + 1 : p[i] = c[1 + i - 1]
    BY <1>3, SubSeqProperties
  <2> HIDE DEF p
  <2>2. w - 1 + 1 = w /\ \A i \in 1 .. w : 1 + i - 1 = i
    OBVIOUS
  <2>3. Len(p) = w
    BY <2>1
  <2>4. \A i \in 1 .. w : p[i] = c[i]
    BY <2>1, <2>2
  <2> QED BY <2>1, <2>3, <2>4
<1> HIDE DEF p
<1>5. \A k \in 1 .. Len(s) : p[k] = s[k]
  BY <1>1, <1>2, <1>4
<1>6. /\ cut \in Seq(A) /\ Len(cut) = Len(s)
      /\ \A k \in 1 .. Len(s) : cut[k] = p[k]
  <2>0. \A k \in 1 .. Len(s) : p[k] \in A
    BY <1>1, <1>5
  <2>1. /\ cut \in Seq(A)
        /\ Len(cut) = IF 1 <= Len(s) THEN Len(s) - 1 + 1 ELSE 0
        /\ \A i \in 1 .. Len(s) - 1 + 1 : cut[i] = p[1 + i - 1]
    BY <1>1, <2>0, SubSeqProperties
  <2> HIDE DEF cut
  <2> QED BY <1>1, <2>1
<1> HIDE DEF cut
<1>7. cut = s
  BY <1>1, <1>5, <1>6
<1>8. Len(s) = w => p = s
  BY <1>1, <1>4, <1>5
<1> QED BY <1>7, <1>8 DEF cut, p, c

\* The buffer holds the digest as wide as the format of the epoch says: where
\* the release wrote it as the format of the epoch says.
LEMMA ShortDigestRebuilt ==
  ASSUME NEW key, NEW v, NewFormat(epoch) <=> release # "earlier"
  PROVE  ReconstructShortSaltedDigest(key, ToLittleEndian(v, Width), NewFormat(epoch))
           = K12Hash(<<key, MemoryBytes(v)>>)
<1> DEFINE bytes == ToLittleEndian(v, Width)
           A == {bytes[k] : k \in 1 .. Width} \cup {0}
           padded == SubSeq(bytes \o ZeroBytes(8), 1, 8)
<1>1. bytes = MemoryBytes(v)
  BY DEF ToLittleEndian, MemoryBytes
<1>2. Width = IF NewFormat(epoch) THEN 4 ELSE 8
  BY DEF Width
<1>3. bytes \in [1 .. Width -> A]
  BY DEF ToLittleEndian
<1>4. bytes \in Seq(A) /\ Len(bytes) = Width
  <2> HIDE DEF bytes, A
  <2> QED BY <1>2, <1>3
<1>5. ZeroBytes(8) \in Seq(A) /\ Len(ZeroBytes(8)) = 8
  <2>1. ZeroBytes(8) \in [1 .. 8 -> A]
    BY DEF ZeroBytes
  <2> HIDE DEF A
  <2> QED BY <2>1 DEF ZeroBytes
<1> HIDE DEF bytes, A
<1>6. CASE NewFormat(epoch)
  <2>0. Len(bytes) = 4
    BY <1>2, <1>4, <1>6
  <2>1. Len(bytes) = 4 /\ Len(bytes) <= 8 /\ 8 <= Len(bytes) + Len(ZeroBytes(8)) /\ 8 \in Nat
    <3> DEFINE zeros == Len(ZeroBytes(8))
    <3>1. zeros = 8
      BY <1>5
    <3> HIDE DEF zeros
    <3>2. 4 <= 8 /\ 8 <= 4 + 8 /\ 8 \in Nat
      OBVIOUS
    <3> QED BY <2>0, <3>1, <3>2, Zenon DEF zeros
  <2>2. SubSeq(padded, 1, Len(bytes)) = bytes
    BY <1>4, <1>5, <2>1, PaddedBytes, Zenon
  <2>3. SubSeq(padded, 1, 4) = bytes
    <3> HIDE DEF padded
    <3> QED BY <2>1, <2>2
  <2> QED BY <1>1, <1>6, <2>3 DEF ReconstructShortSaltedDigest, bytes
<1>7. CASE ~NewFormat(epoch)
  <2>1. Len(bytes) = 8 /\ Len(bytes) <= 8 /\ 8 <= Len(bytes) + Len(ZeroBytes(8)) /\ 8 \in Nat
    BY <1>2, <1>4, <1>5, <1>7
  <2>2. padded = bytes
    BY <1>4, <1>5, <2>1, PaddedBytes, Zenon
  <2> QED BY <1>1, <1>7, <2>2 DEF ReconstructShortSaltedDigest, bytes
<1> QED BY <1>6, <1>7

-----------------------------------------------------------------------------
(* The rebuilt votes. *)

\* The digests that the votes of the second tick give for the first.
LEMMA NextDigests ==
  ASSUME RecordsIInv, Len(stored) = 2, NEW name \in Names
  PROVE  /\ DOMAIN stored[2].structure.prev = Names
         /\ stored[2].structure.prev[name] =
              IF name \in {"resource", "body"} THEN ToLittleEndian(state[name], Width)
              ELSE state[name]
<1>1. VotesKept(2)
  BY DEF RecordsIInv, VotesInv
<1>2. stored[2].structure = TickStructure(Vote(2, 1))
  BY <1>1 DEF VotesKept
<1>3. Vote(2, 1).prev = state
  BY DEF Vote
<1>4. DOMAIN state = Names
  BY DEF RecordsIInv, NetworkInv
<1> QED BY <1>2, <1>3, <1>4 DEF TickStructure

\* The stored list of the epoch gives the key of a computor that voted.
LEMMA VoterIdentity ==
  ASSUME KeyListsInOrder, RecordsIInv, epoch \in DOMAIN computors,
         computors[epoch].epoch = epoch, NEW i \in Voters
  PROVE  computors[epoch].identities[i] = Key(i)
<1>1. PICK x \in ComputorEpochs : computors[epoch] = QubicToProto(Signed(x))
  BY DEF RecordsIInv, ComputorsIInv
<1>2. x = epoch /\ computors[epoch].identities = PubKeysToIdentities(signed[epoch])
  BY <1>1 DEF QubicToProto, Signed
<1>3. signed[epoch] \in KeyLists /\ KeysFirst(signed[epoch])
  BY DEF RecordsIInv, ComputorsIInv, NetworkInv, KeyListsInOrder
<1>4. PICK m \in 0 .. NumberOfComputors :
        /\ PubKeysToIdentities(signed[epoch]) = [k \in 1 .. m |-> signed[epoch][k]]
        /\ \A k \in 1 .. NumberOfComputors : signed[epoch][k] # 0 <=> k <= m
  BY <1>3, StoredIdentities
<1>5. i \in 1 .. NumberOfComputors /\ signed[epoch][i] # 0
  BY DEF Voters, Key
<1>6. i \in 1 .. m
  BY <1>4, <1>5
<1> QED BY <1>2, <1>4, <1>6 DEF Key

\* A short digest can be rebuilt where it was written as its epoch's format says.
LEMMA FieldFormats ==
  ASSUME RecordsIInv, NEW name \in Fields, name \in {"resource", "body"}
  PROVE  /\ name = "body" => NewFormat(epoch)
         /\ NewFormat(epoch) <=> release # "earlier"
<1>1. epoch \in Nat /\ NewFormatFrom \in Nat /\ (release = "earlier" => epoch < NewFormatFrom)
  BY ComputorsAssumption, RecordsAssumption DEF RecordsIInv, NetworkInv
<1>2. epoch < NewFormatFrom <=> ~NewFormat(epoch)
  BY <1>1 DEF NewFormat
<1>3. CASE NewFormat(epoch)
  BY <1>1, <1>2, <1>3
<1>4. CASE ~NewFormat(epoch) /\ release = "earlier"
  <2>1. name # "body"
    BY <1>1, <1>2, <1>4 DEF Fields, NewFormat
  <2> QED BY <1>4, <2>1
<1>5. CASE ~NewFormat(epoch) /\ release # "earlier"
  BY <1>1, <1>2, <1>5 DEF Fields, NewFormat
<1> QED BY <1>3, <1>4, <1>5

\* The rebuilt digest of a field is the one that was cast exactly when the
\* computor's own state was the network's.
LEMMA DigestRebuilt ==
  ASSUME RecordsIInv, Len(stored) = 2, NEW i, NEW name \in Fields
  PROVE  (ReconstructedDiff(stored[1], stored[2], Key(i), i).salted[name]
            = Vote(1, i).salted[name]) <=> i \notin apart
<1> DEFINE rebuilt == ReconstructedDiff(stored[1], stored[2], Key(i), i).salted[name]
           cast    == Vote(1, i).salted[name]
           own     == OwnState(i)[name]
           short   == name \in {"resource", "body"}
<1>1. DOMAIN state = Names /\ name \in Names /\ state[name] \in Nat
  BY DEF RecordsIInv, NetworkInv, Fields
<1>2. (i \in apart => own = state[name] + 1) /\ (i \notin apart => own = state[name])
  BY <1>1 DEF OwnState
<1>3. stored[1].structure.epoch = epoch
  BY DEF RecordsIInv, VotesInv, VotesKept, TickStructure
<1>4. /\ DOMAIN stored[2].structure.prev = Names
      /\ stored[2].structure.prev[name] =
           IF short THEN ToLittleEndian(state[name], Width) ELSE state[name]
  BY <1>1, NextDigests
<1>5. CASE short
  <2>1. cast = FirstBytes(Width, K12Hash(<<Key(i), MemoryBytes(own)>>))
    BY <1>1, <1>5 DEF Vote, SaltedShort
  <2>2. /\ name = "body" => NewFormat(epoch)
        /\ NewFormat(epoch) <=> release # "earlier"
    BY <1>1, <1>5, FieldFormats
  <2>3. Width = IF NewFormat(epoch) THEN 4 ELSE 8
    BY <2>2 DEF Width
  <2>4. rebuilt = FirstBytes(Width,
                    ReconstructShortSaltedDigest(Key(i), ToLittleEndian(state[name], Width),
                                                 NewFormat(epoch)))
    BY <1>1, <1>3, <1>4, <1>5, <2>2, <2>3 DEF ReconstructedDiff
  <2>5. rebuilt = FirstBytes(Width, K12Hash(<<Key(i), MemoryBytes(state[name])>>))
    BY <2>2, <2>4, ShortDigestRebuilt
  <2>6. MemoryBytes(state[name] + 1) # MemoryBytes(state[name])
    BY <1>1, BytesDiffer
  <2>7. rebuilt[2][2][2] = MemoryBytes(state[name]) /\ cast[2][2][2] = MemoryBytes(own)
    <3> HIDE DEF rebuilt, cast, own
    <3> QED BY <2>1, <2>5 DEF FirstBytes, K12Hash
  <2> HIDE DEF rebuilt, cast, own
  <2>8. ASSUME i \in apart PROVE rebuilt # cast
    BY <1>2, <2>6, <2>7, <2>8
  <2>9. ASSUME i \notin apart PROVE rebuilt = cast
    <3>1. own = state[name]
      BY <1>2, <2>9
    <3> QED BY <2>1, <2>5, <2>9, <3>1, Zenon
  <2> QED BY <2>8, <2>9 DEF rebuilt, cast
<1>6. CASE ~short
  <2>1. cast = K12Hash(<<Key(i), own>>)
    BY <1>1, <1>6 DEF Vote
  <2>2. rebuilt = K12Hash(<<Key(i), state[name]>>)
    BY <1>1, <1>4, <1>6 DEF ReconstructedDiff
  <2> HIDE DEF rebuilt, cast, own
  <2>3. rebuilt[2][2] = state[name] /\ cast[2][2] = own
    BY <2>1, <2>2 DEF K12Hash
  <2>4. ASSUME i \in apart PROVE rebuilt # cast
    BY <1>1, <1>2, <2>3, <2>4
  <2>5. ASSUME i \notin apart PROVE rebuilt = cast
    <3>1. own = state[name]
      BY <1>2, <2>5
    <3> QED BY <2>1, <2>2, <2>5, <3>1, Zenon
  <2> QED BY <2>4, <2>5 DEF rebuilt, cast
<1> QED BY <1>5, <1>6

\* The rebuilt votes of a tick are the votes that were cast, except for the
\* digests of the computors whose own state differed from the network's: for
\* any computors, epochs before and after the change of the format, the release
\* that archived them, digests of any value and bytes of any base.
THEOREM RebuiltVotes ==
  ASSUME KeyListsInOrder PROVE RecordsSpec => []ReconstructedAsVoted
<1>1. ASSUME RecordsIInv PROVE ReconstructedAsVoted
  <2> SUFFICES ASSUME Len(stored) = 2, computors[epoch].epoch = epoch
               PROVE  /\ Reply.structure = full[1].structure
                      /\ DOMAIN Reply.diff = DOMAIN full[1].diff
                      /\ \A i \in DOMAIN full[1].diff :
                           /\ Reply.diff[i].signature = full[1].diff[i].signature
                           /\ \A name \in Fields :
                                (Reply.diff[i].salted[name] = full[1].diff[i].salted[name])
                                  <=> i \notin apart
    BY DEF ReconstructedAsVoted
  <2>1. VotesKept(1) /\ epoch \in DOMAIN computors
    BY <1>1 DEF RecordsIInv, VotesInv
  <2>2. Reply.structure = full[1].structure
    BY <2>1 DEF VotesKept, Reply, ReconstructQuorumData
  <2>3. DOMAIN Reply.diff = DOMAIN full[1].diff
    BY <2>1 DEF VotesKept, Reply, ReconstructQuorumData
  <2>4. ASSUME NEW i \in DOMAIN full[1].diff
        PROVE  /\ Reply.diff[i].signature = full[1].diff[i].signature
               /\ \A name \in Fields :
                    (Reply.diff[i].salted[name] = full[1].diff[i].salted[name])
                      <=> i \notin apart
    <3>1. /\ i \in Voters /\ i \in DOMAIN stored[1].diff
          /\ stored[1].diff[i].signature = Vote(1, i).signature
          /\ full[1].diff[i].signature = Vote(1, i).signature
          /\ full[1].diff[i].salted = Vote(1, i).salted
      <4>1. i \in Voters /\ i \in DOMAIN stored[1].diff
        BY <2>1, Zenon DEF VotesKept
      <4>2. stored[1].diff[i] = StoredDiff(Vote(1, i)) /\ full[1].diff[i] = FullDiff(Vote(1, i))
        BY <2>1, Zenon DEF VotesKept
      <4>3. stored[1].diff[i].signature = Vote(1, i).signature
        BY <4>2 DEF StoredDiff
      <4>4. /\ full[1].diff[i].signature = Vote(1, i).signature
            /\ full[1].diff[i].salted = Vote(1, i).salted
        BY <4>2 DEF FullDiff
      <4> QED BY <4>1, <4>3, <4>4
    <3>2. computors[epoch].identities[i] = Key(i)
      BY <1>1, <2>1, <3>1, VoterIdentity
    <3>3. Reply.diff[i] = ReconstructedDiff(stored[1], stored[2], Key(i), i)
      BY <3>1, <3>2 DEF Reply, ReconstructQuorumData
    <3>4. Reply.diff[i].signature = stored[1].diff[i].signature
      BY <3>3 DEF ReconstructedDiff
    <3>5. \A name \in Fields :
            (Reply.diff[i].salted[name] = full[1].diff[i].salted[name]) <=> i \notin apart
      <4>1. \A name \in Fields :
              (ReconstructedDiff(stored[1], stored[2], Key(i), i).salted[name]
                 = Vote(1, i).salted[name]) <=> i \notin apart
        BY <1>1, DigestRebuilt
      <4> QED BY <3>1, <3>3, <4>1, Zenon
    <3> QED BY <3>1, <3>4, <3>5
  <2> QED BY <2>2, <2>3, <2>4
<1> QED BY <1>1, RecordsInvariant, PTL
=============================================================================
