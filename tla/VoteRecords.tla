----------------------------- MODULE VoteRecords -----------------------------
(***************************************************************************)
(* The records of the quorum votes (validator/quorum/models.go).  Of every *)
(* tick the votes are stored without their salted digests.  The full votes *)
(* are kept for the last tick of an interval only; for any other tick the  *)
(* salted digests are rebuilt from the digests that the next tick's votes  *)
(* give for it and from the public keys of the stored computor list.       *)
(*                                                                         *)
(* Two consecutive ticks of one epoch are voted on and archived.  K12 is   *)
(* the hashed input itself.  Bytes are digits of a small base.             *)
(***************************************************************************)
EXTENDS Computors

CONSTANTS
  Base,            \* 256
  ShortDigests,    \* values of the resource testing and transaction body digests
  NewFormatFrom,   \* 151: from this epoch on the digests are rebuilt in 32 bits
  Dissenters       \* sets of computors whose own state may differ

ASSUME RecordsAssumption ==
  /\ Base \in Nat \ {0, 1}
  /\ ShortDigests \subseteq Nat
  /\ NewFormatFrom \in Nat

VARIABLES
  epoch,     \* the epoch of the two ticks
  release,   \* the release that archived them: this one, or an earlier one
  state,     \* the network's state digests after the first tick
  apart,     \* the computors that have other digests after the first tick
  stored,    \* stored votes by tick
  full       \* full votes by tick, of which the store keeps the last tick's

recordVars == <<computorsVars, epoch, release, state, apart, stored, full>>

\* Mutant: the new format begins one epoch later.
NewFormatLate(e) == e > NewFormatFrom

NewFormat(e) == e >= NewFormatFrom

-----------------------------------------------------------------------------
(* Bytes. *)

\* This release reads and writes these digests as 32 bits, in every epoch.  An
\* earlier release archived the epochs before the change with 64 bits.
Width == IF release = "earlier" THEN 8 ELSE 4

\* The weight of byte k.
Weight(k) == IF k = 1 THEN 1 ELSE Base ^ (k - 1)

\* convertUint32ToHex: the little-endian bytes (of which the hex digits are kept).
ToLittleEndian(value, width) == [k \in 1 .. width |-> (value \div Weight(k)) % Base]

K12Hash(input)       == <<"K12", input>>
FirstBytes(n, hash)  == <<n, hash>>
ZeroBytes(n)         == [k \in 1 .. n |-> 0]

-----------------------------------------------------------------------------
(* What a computor votes (external): its salted digests are hashes of its   *)
(* key and of its own state digests, as wide as the votes that are read.    *)

Key(i) == signed[epoch][i]

OwnState(i) == IF i \in apart THEN [name \in DOMAIN state |-> state[name] + 1] ELSE state

MemoryBytes(value) == [k \in 1 .. Width |-> (value \div Weight(k)) % Base]

SaltedShort(i, value) ==
  FirstBytes(Width, K12Hash(<<Key(i), MemoryBytes(value)>>))

Vote(t, i) ==
  [tick      |-> t,
   computor  |-> i,
   prev      |-> IF t = 2 THEN state ELSE [name \in DOMAIN state |-> 0],
   salted    |-> [name \in DOMAIN state |->
                    IF name \in {"resource", "body"} THEN SaltedShort(i, OwnState(i)[name])
                    ELSE K12Hash(<<Key(i), OwnState(i)[name]>>)],
   signature |-> <<i, t>>]

Voters == {i \in 1 .. NumberOfComputors : Key(i) # 0}

-----------------------------------------------------------------------------
(* qubicToProto, qubicToProtoStored: the structure of any aligned vote, and  *)
(* what differs per computor.                                                *)

TickStructure(vote) ==
  [tick |-> vote.tick, epoch |-> epoch,
   prev |-> [name \in DOMAIN vote.prev |->
               IF name \in {"resource", "body"}
               THEN ToLittleEndian(vote.prev[name], Width) ELSE vote.prev[name]]]

FullDiff(vote)   == [salted |-> vote.salted, signature |-> vote.signature]
StoredDiff(vote) == [signature |-> vote.signature]

Full(votes) ==
  [structure |-> TickStructure(CHOOSE vote \in votes : TRUE),
   diff      |-> [i \in {vote.computor : vote \in votes} |->
                    FullDiff(CHOOSE vote \in votes : vote.computor = i)]]

ToStored(votes) ==
  [structure |-> TickStructure(CHOOSE vote \in votes : TRUE),
   diff      |-> [i \in {vote.computor : vote \in votes} |->
                    StoredDiff(CHOOSE vote \in votes : vote.computor = i)]]

-----------------------------------------------------------------------------
(* ReconstructQuorumData *)

\* The buffer of 40 bytes, cut to 36 in the new format.
ReconstructShortSaltedDigest(key, prevDigest, newFormat) ==
  LET padded == SubSeq(prevDigest \o ZeroBytes(8), 1, 8)
  IN K12Hash(<<key, IF newFormat THEN SubSeq(padded, 1, 4) ELSE padded>>)

ReconstructedDiff(current, next, identity, i) ==
  LET newFormat  == NewFormat(current.structure.epoch)
      digestSize == IF newFormat THEN 4 ELSE 8
      prev       == next.structure.prev
      Short(name) ==
        FirstBytes(digestSize, ReconstructShortSaltedDigest(identity, prev[name], newFormat))
  IN [salted    |-> [name \in DOMAIN prev |->
                       CASE name = "resource" -> Short(name)
                         [] name = "body" /\ newFormat -> Short(name)
                         [] name = "body" /\ ~newFormat -> <<>>
                         [] OTHER -> K12Hash(<<identity, prev[name]>>)],
      signature |-> current.diff[i].signature]

ReconstructQuorumData(current, next, comps) ==
  [structure |-> current.structure,
   diff      |-> [i \in DOMAIN current.diff |->
                    ReconstructedDiff(current, next, comps.identities[i], i)]]

-----------------------------------------------------------------------------
RecordsInit ==
  /\ ComputorsInit
  /\ epoch \in ComputorEpochs
  /\ release \in {"this"} \cup (IF epoch < NewFormatFrom THEN {"earlier"} ELSE {})
  /\ state \in [spectrum : {1}, universe : {2}, computer : {3},
                resource : ShortDigests, body : ShortDigests]
  /\ apart \in Dissenters
  /\ stored = <<>>
  /\ full = <<>>

\* A tick is validated with the votes of some of the computors, and stored:
\* the votes without the salted digests, the full ones in the last place.
ArchiveVotes ==
  /\ Len(stored) < 2
  /\ ValidateAndStoreComputors(epoch)
  /\ \E voters \in SUBSET Voters :
       /\ voters # {}
       /\ LET votes == {Vote(Len(stored) + 1, i) : i \in voters}
          IN /\ stored' = Append(stored, ToStored(votes))
             /\ full' = Append(full, Full(votes))
  /\ UNCHANGED <<epoch, release, state, apart>>

\* Ticks of another epoch store its computors.
OtherEpoch ==
  /\ \E e \in ComputorEpochs \ {epoch} : ValidateAndStoreComputors(e)
  /\ UNCHANGED <<epoch, release, state, apart, stored, full>>

RecordsNext == ArchiveVotes \/ OtherEpoch

RecordsSpec == RecordsInit /\ [][RecordsNext]_recordVars

-----------------------------------------------------------------------------
\* The reply for the first tick, when the second one is archived.
Reply == ReconstructQuorumData(stored[1], stored[2], computors[epoch])

\* The fields that can be rebuilt.  Before the change the reconstruction expects
\* the 64 bits of an earlier release, and there is no transaction body digest:
\* of a tick of such an epoch that this release archived neither short digest is
\* the one that was cast.
Fields ==
  CASE epoch >= NewFormatFrom -> DOMAIN state
    [] epoch < NewFormatFrom /\ release = "earlier" -> DOMAIN state \ {"body"}
    [] OTHER -> DOMAIN state \ {"resource", "body"}

\* The rebuilt votes are the full votes that were cast and could be kept for
\* the last tick only: the structure, every signature, and the salted digests of
\* all fields that can be rebuilt, whichever computors voted on the two ticks and
\* whichever release archived them, as long as the stored computors are those of
\* the epoch.  Only the digests of a computor whose own state differed from the
\* network's are not the ones it cast.
ReconstructedAsVoted ==
  (Len(stored) = 2 /\ computors[epoch].epoch = epoch) =>
    /\ Reply.structure = full[1].structure
    /\ DOMAIN Reply.diff = DOMAIN full[1].diff
    /\ \A i \in DOMAIN full[1].diff :
         /\ Reply.diff[i].signature = full[1].diff[i].signature
         /\ \A name \in Fields :
              (Reply.diff[i].salted[name] = full[1].diff[i].salted[name]) <=> i \notin apart
=============================================================================
