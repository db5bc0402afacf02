------------------------------ MODULE Computors ------------------------------
(***************************************************************************)
(* The computor lists: fetched from a node when the epoch has none in the  *)
(* store, checked against the arbitrator's signature, converted to the     *)
(* stored form and written again with every tick, and read back for the    *)
(* next tick (validator/computors).  A public key is a number, 0 the zero  *)
(* key; an identity is the printed form of a key, so it stands for it.     *)
(***************************************************************************)
EXTENDS Integers, SequencesExt

CONSTANTS
  NumberOfComputors,   \* 676
  KeyLists,            \* the key lists that the arbitrator may sign
  ComputorEpochs       \* the epochs of the ticks

ASSUME ComputorsAssumption ==
  /\ NumberOfComputors \in Nat \ {0}
  /\ KeyLists \subseteq [1 .. NumberOfComputors -> Nat]
  /\ \A e \in ComputorEpochs : e \in Nat /\ e < 65536   \* uint16 in the network's structures

\* The unused slots of a key list are at its end, as in the network's lists.
KeysFirst(keys) ==
  \A i, j \in 1 .. NumberOfComputors : (i < j /\ keys[j] # 0) => keys[i] # 0

VARIABLES
  signed,      \* signed[e]: the keys the arbitrator signed for epoch e
  computors    \* stored computors by epoch

computorsVars == <<signed, computors>>

Epochs16(e) == e % 65536

-----------------------------------------------------------------------------
(* models.go *)

PubKeysToIdentities(keys) ==
  FlattenSeq([i \in DOMAIN keys |-> IF keys[i] # 0 THEN <<keys[i]>> ELSE <<>>])

QubicToProto(c) ==
  [epoch |-> c.epoch, identities |-> PubKeysToIdentities(c.keys), signature |-> c.signature]

\* Mutant: the last identity is not converted.
IdentitiesToPubKeysShort(identities) ==
  [i \in 1 .. NumberOfComputors |-> IF i < Len(identities) THEN identities[i] ELSE 0]

\* The array of the length of the network's list, the rest of it zero.
IdentitiesToPubKeys(identities) ==
  [i \in 1 .. NumberOfComputors |-> IF i \in DOMAIN identities THEN identities[i] ELSE 0]

ProtoToQubic(p) ==
  [epoch |-> Epochs16(p.epoch), keys |-> IdentitiesToPubKeys(p.identities),
   signature |-> p.signature]

-----------------------------------------------------------------------------
(* validator.go; a signature is the signer with what was signed. *)

ComputorsDigest(c) == <<c.epoch, c.keys>>

ArbitratorSignature(c) == <<"arbitrator", ComputorsDigest(c)>>

ValidateComputors(c) == c.signature = ArbitratorSignature(c)

Signed(e) ==
  LET c == [epoch |-> e, keys |-> signed[e]]
  IN [epoch |-> e, keys |-> signed[e], signature |-> ArbitratorSignature(c)]

\* What a node may answer: the list of any epoch, as signed or spoiled.
NodeReplies ==
  {Signed(e) : e \in ComputorEpochs} \cup
  {[Signed(e) EXCEPT !.keys[1] = @ + 1] : e \in ComputorEpochs}

-----------------------------------------------------------------------------
ComputorsInit ==
  /\ signed \in [ComputorEpochs -> KeyLists]
  /\ computors = [e \in {} |-> Signed(e)]

\* computors.Get, or the node when the store has none for the epoch.
GetComputors(e) ==
  IF e \in DOMAIN computors THEN {ProtoToQubic(computors[e])} ELSE NodeReplies

\* The computors part of the validation of a tick of epoch e.
ValidateAndStoreComputors(e) ==
  /\ \E comps \in GetComputors(e) :
       /\ ValidateComputors(comps)
       /\ computors' = [x \in DOMAIN computors \cup {e} |->
                          IF x = e THEN QubicToProto(comps) ELSE computors[x]]
  /\ UNCHANGED signed

\* A stored list is one the arbitrator signed, and it passes the validation
\* again when it is read back for the next tick of the epoch: otherwise no
\* further tick of the epoch could be archived.
ComputorsRevalidate ==
  \A e \in DOMAIN computors :
    /\ ValidateComputors(ProtoToQubic(computors[e]))
    /\ ProtoToQubic(computors[e]) \in {Signed(x) : x \in ComputorEpochs}
=============================================================================
