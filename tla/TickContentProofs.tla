-------------------------- MODULE TickContentProofs --------------------------
(***************************************************************************)
(* What is archived of a tick, for every tick, every set of transactions,  *)
(* every reply of the peers and any number of attempts.  The inductive     *)
(* invariant says of every step of an attempt which of the records are     *)
(* already those of the voted tick.                                        *)
(***************************************************************************)
EXTENDS TickContent, LoopTheorems

TxIds == IdsOf(Txs)

\* The nodes report a status for every transaction of the tick.
CompleteStatusLists == \A list \in StatusLists : CompleteList(list)

-----------------------------------------------------------------------------
(* The inductive invariant. *)

\* The transactions that the attempt archives.
AttemptIds == IF firstEmpty THEN {} ELSE VotedIds

\* The steps of an attempt by what was done before them.
Fetched      == {"tickData", "transactions", "transfers", "status", "digest", "stored"}
HasTickData  == {"transactions", "transfers", "status", "digest", "stored", "processed"}
HasTxs       == {"transfers", "status", "digest", "stored", "processed"}
HasTransfers == {"status", "digest", "stored", "processed"}
HasStatus    == {"digest", "stored", "processed"}
HasDigest    == {"stored", "processed"}

ControlInv ==
  /\ aligned \in {VotedDigest, ZeroDigest}
  /\ firstEmpty \in BOOLEAN
  /\ statusAddon \in BOOLEAN
  /\ pc \in {"start"} \cup Fetched \cup {"processed"}

\* A list of the given transactions, as the tick data has them.
AsVoted(ids, S) ==
  /\ ids \in Seq(TxIds)
  /\ ToSet(ids) = S
  /\ DistinctSlots => IsInjective(ids)
  /\ InVotedOrder(ids)

\* The replies of the attempt, once they are validated.
LocalInv ==
  pc \in Fetched =>
    /\ AsVoted(TickDataToProto(local.data).ids, AttemptIds)
    /\ local.txs \in Seq(TxIds)
    /\ ToSet(local.txs) = AttemptIds

ContentInv ==
  /\ pc \in HasTickData => AsVoted(tickData.ids, AttemptIds)
  /\ transactions \subseteq VotedIds
  /\ pc \in HasTxs => AttemptIds \subseteq transactions

TransfersOf(identity) ==
  {id \in VotedIds : Tx(id).amount # 0 /\ identity \in {Tx(id).source, Tx(id).dest}}

\* The transfers of an identity are those of the tick or not written yet.
TransfersInv ==
  /\ DOMAIN transfers = Identities
  /\ \A identity \in Identities :
       /\ \/ ToSet(transfers[identity]) = {}
          \/ ToSet(transfers[identity]) = TransfersOf(identity)
       /\ (pc \in HasTransfers /\ ~firstEmpty) => ToSet(transfers[identity]) = TransfersOf(identity)

DigestInv ==
  /\ pc \in HasStatus \ {"processed"} => tickStatus = local.statuses
  /\ pc \in HasDigest => storeDigest = <<SortedDigests(AttemptIds), tickStatus>>

ContentIInv == ControlInv /\ LocalInv /\ ContentInv /\ TransfersInv /\ DigestInv

\* Statuses that give the network's flag for each of the given transactions.
TrueStatuses(statuses, S) ==
  /\ statuses \in Seq([id : TxIds, moneyFlew : BOOLEAN])
  /\ ToSet(statuses) = {[id |-> id, moneyFlew |-> id \in Flew] : id \in S}

\* The statuses of the attempt and the stored ones.
StatusInv ==
  statusAddon =>
    /\ pc \in Fetched => TrueStatuses(local.statuses, AttemptIds)
    /\ pc \in HasStatus => TrueStatuses(tickStatus, AttemptIds) /\ AttemptIds \subseteq DOMAIN txStatus
    /\ \A id \in DOMAIN txStatus : txStatus[id] = (id \in Flew)

-----------------------------------------------------------------------------
(* The replies that pass the validation. *)

\* The loop over the digest slots lists the used ones.
LEMMA UsedSlots ==
  ASSUME NEW slots \in Seq(TxIds \cup {0}),
         NEW ids, ids = FlattenSeq([k \in DOMAIN slots |-> If(slots[k] # 0, slots[k])])
  PROVE  /\ ids \in Seq(TxIds)
         /\ ToSet(ids) = ToSet(slots) \ {0}
         /\ (\A j, k \in DOMAIN slots : (slots[j] # 0 /\ slots[j] = slots[k]) => j = k)
              => IsInjective(ids)
         /\ RoundOrder(ids, DOMAIN slots, slots)
<1> DEFINE n == Len(slots)
           keep == {k \in 1 .. n : slots[k] # 0}
           lists == Filtered(n, keep, slots)
<1>1. n \in Nat /\ DOMAIN slots = 1 .. n /\ \A k \in 1 .. n : slots[k] \in TxIds \cup {0}
  OBVIOUS
<1>2. ids = FlattenSeq(lists)
  <2>1. [k \in DOMAIN slots |-> If(slots[k] # 0, slots[k])] = lists
    <3> HIDE DEF n
    <3> QED BY <1>1 DEF If, Filtered
  <2> QED BY <2>1
<1> HIDE DEF n
<1>3. \A k \in keep : slots[k] \in TxIds
  BY <1>1
<1>4. keep \in SUBSET (1 .. n)
  OBVIOUS
<1>5. {slots[k] : k \in keep} = ToSet(slots) \ {0}
  <2>1. ToSet(slots) = {slots[k] : k \in 1 .. n}
    BY <1>1 DEF ToSet
  <2>2. \A k \in 1 .. n : slots[k] # 0 <=> k \in keep
    OBVIOUS
  <2>3. keep \subseteq 1 .. n
    OBVIOUS
  <2> HIDE DEF keep
  <2> QED BY <2>1, <2>2, <2>3, Zenon
<1>6. ASSUME \A j, k \in DOMAIN slots : (slots[j] # 0 /\ slots[j] = slots[k]) => j = k
      PROVE  \A j, k \in keep : slots[j] = slots[k] => j = k
  BY <1>1, <1>6
<1> HIDE DEF keep
<1>7. /\ FlattenSeq(lists) \in Seq(TxIds)
      /\ ToSet(FlattenSeq(lists)) = {slots[k] : k \in keep}
      /\ (\A j, k \in keep : slots[j] = slots[k] => j = k) => IsInjective(FlattenSeq(lists))
  BY <1>1, <1>3, <1>4, FilterLoop
<1>8. RoundOrder(FlattenSeq(lists), keep, slots)
  BY <1>1, <1>3, <1>4, FilterOrder
<1>9. RoundOrder(ids, DOMAIN slots, slots)
  <2> HIDE DEF lists
  <2>1. RoundOrder(ids, keep, slots)
    BY <1>2, <1>8
  <2>2. keep \subseteq DOMAIN slots
    BY <1>1, <1>4
  <2> QED BY <2>1, <2>2, RoundOrderAmong
<1> QED BY <1>2, <1>5, <1>6, <1>7, <1>9

LEMMA SlotsType ==
  /\ VotedSlots \in Seq(TxIds \cup {0}) /\ NoSlots \in Seq(TxIds \cup {0})
  /\ ToSet(NoSlots) \ {0} = {}
  /\ \A j, k \in DOMAIN NoSlots : (NoSlots[j] # 0 /\ NoSlots[j] = NoSlots[k]) => j = k
<1>1. VotedSlots \in Seq(TxIds \cup {0})
  BY ContentAssumption DEF TxIds
<1>2. DOMAIN VotedSlots = 1 .. Len(VotedSlots) /\ Len(VotedSlots) \in Nat
  BY <1>1
<1>3. NoSlots \in [1 .. Len(VotedSlots) -> TxIds \cup {0}]
  BY <1>2 DEF NoSlots
<1>4. NoSlots \in Seq(TxIds \cup {0})
  BY <1>2, <1>3
<1>5. \A k \in DOMAIN NoSlots : NoSlots[k] = 0
  BY DEF NoSlots
<1> QED BY <1>1, <1>4, <1>5 DEF ToSet

LEMMA BelowEpoch ==
  ASSUME NEW n \in Nat, NEW e \in 1 .. n - 1
  PROVE  e \in Nat \ {0} /\ e # n
OBVIOUS

LEMMA EpochKnown == TickEpoch \in Nat \ {0} /\ TickEpoch # NoEpoch
<1>1. TickEpoch \in 1 .. NoEpoch - 1
  BY ContentAssumption, Zenon
<1>2. NoEpoch \in Nat
  BY DEF NoEpoch
<1> QED BY <1>1, <1>2, BelowEpoch, Zenon

\* Validated tick data has the slots of the tick that was voted on.
LEMMA ValidSlots ==
  ASSUME aligned \in {VotedDigest, ZeroDigest}, NEW data \in DataReplies,
         ValidateTickData(data, aligned)
  PROVE  /\ data.slots \in Seq(TxIds \cup {0})
         /\ ToSet(data.slots) \ {0} = VotedIds
         /\ data.slots = VotedSlots \/ data.slots = NoSlots
         /\ IsEmpty(data) => data.slots = NoSlots
<1>1. /\ data = [slots |-> data.slots, epoch |-> data.epoch, signature |-> data.signature]
      /\ data.slots \in {VotedSlots, NoSlots} /\ data.epoch \in {0, TickEpoch, NoEpoch}
  BY DEF DataReplies
<1>2. TickEpoch \in Nat \ {0} /\ TickEpoch # NoEpoch
  BY EpochKnown
<1>3. VotedDigest.epoch = TickEpoch /\ VotedDigest.slots = VotedSlots
  BY DEF VotedDigest, Data
<1>4. ZeroDigest.epoch = 0 /\ ZeroDigest.slots = NoSlots /\ EmptyData = ZeroDigest
  BY DEF ZeroDigest, EmptyData, Data
<1> DEFINE known == IF data.epoch = NoEpoch THEN [data EXCEPT !.epoch = 0] ELSE data
           complete == IF known.epoch = 0 THEN [known EXCEPT !.epoch = TickEpoch] ELSE known
<1>5. known.slots = data.slots /\ complete.slots = data.slots /\ complete.epoch = TickEpoch
  BY <1>1, <1>2 DEF NoEpoch
<1>6. \/ known = EmptyData /\ aligned = ZeroDigest
      \/ complete = aligned
  BY DEF ValidateTickData, IsEmpty
<1> HIDE DEF known, complete
<1>7. aligned = VotedDigest \/ aligned = ZeroDigest
  OBVIOUS
<1>8. VotedDigest # ZeroDigest
  BY <1>2, <1>3, <1>4
<1>9. IsEmpty(data) => data.slots = NoSlots
  BY <1>4 DEF IsEmpty
<1>10. CASE aligned = VotedDigest
  <2>1. data.slots = VotedSlots
    BY <1>3, <1>5, <1>6, <1>8, <1>10
  <2>2. VotedIds = ToSet(VotedSlots) \ {0}
    BY <1>8, <1>10 DEF VotedIds
  <2> QED BY <1>9, <2>1, <2>2, SlotsType
<1>11. CASE aligned = ZeroDigest
  <2>1. known = EmptyData
    BY <1>2, <1>4, <1>5, <1>6, <1>11
  <2>2. data.slots = NoSlots
    BY <1>4, <1>5, <2>1
  <2>3. VotedIds = {}
    BY <1>11 DEF VotedIds
  <2> QED BY <1>9, <2>2, <2>3, SlotsType
<1> QED BY <1>7, <1>10, <1>11

\* The record of the tick data lists the voted transactions.
LEMMA DataAsVoted ==
  ASSUME aligned \in {VotedDigest, ZeroDigest}, NEW data \in DataReplies,
         ValidateTickData(data, aligned)
  PROVE  AsVoted(TickDataToProto(data).ids, VotedIds)
<1>1. CASE IsEmpty(data)
  <2>1. TickDataToProto(data).ids = <<>>
    BY <1>1 DEF TickDataToProto
  <2>2. VotedIds = {}
    BY <1>1, ValidSlots, SlotsType
  <2>3. InVotedOrder(<<>>)
    BY DEF InVotedOrder
  <2> QED BY <2>1, <2>2, <2>3, NoElement DEF AsVoted
<1>2. CASE ~IsEmpty(data)
  <2> DEFINE slots == data.slots
             ids == FlattenSeq([k \in DOMAIN slots |-> If(slots[k] # 0, slots[k])])
  <2>1. TickDataToProto(data).ids = ids
    BY <1>2 DEF TickDataToProto
  <2>2. DistinctSlots =>
          \A j, k \in DOMAIN slots : (slots[j] # 0 /\ slots[j] = slots[k]) => j = k
    BY ValidSlots, SlotsType DEF DistinctSlots
  <2>3. slots \in Seq(TxIds \cup {0}) /\ ToSet(slots) \ {0} = VotedIds
    BY ValidSlots
  <2>4. ids = FlattenSeq([k \in DOMAIN slots |-> If(slots[k] # 0, slots[k])])
    OBVIOUS
  <2>5. DOMAIN slots = DOMAIN VotedSlots /\ \A k \in DOMAIN slots : slots[k] # 0 => slots[k] = VotedSlots[k]
    BY ValidSlots DEF NoSlots
  <2>6. \A m \in DOMAIN ids : ids[m] # 0
    <3>1. ids \in Seq(TxIds)
      <4> HIDE DEF slots, ids
      <4> QED BY <2>3, <2>4, UsedSlots
    <3>2. \A id \in TxIds : id # 0
      BY ContentAssumption DEF TxIds, IdsOf
    <3> HIDE DEF ids
    <3> QED BY <3>1, <3>2
  <2> HIDE DEF slots, ids
  <2>7. InVotedOrder(ids)
    <3> SUFFICES ASSUME NEW m \in DOMAIN ids, NEW n \in DOMAIN ids, m < n
                 PROVE  \E j, k \in DOMAIN VotedSlots :
                          j < k /\ VotedSlots[j] = ids[m] /\ VotedSlots[k] = ids[n]
      BY DEF InVotedOrder
    <3>1. PICK j \in DOMAIN slots, k \in DOMAIN slots :
            j < k /\ slots[j] = ids[m] /\ slots[k] = ids[n]
      <4>1. RoundOrder(ids, DOMAIN slots, slots)
        BY <2>3, <2>4, UsedSlots
      <4> QED BY <4>1 DEF RoundOrder
    <3>2. VotedSlots[j] = ids[m] /\ VotedSlots[k] = ids[n]
      BY <2>5, <2>6, <3>1
    <3> QED BY <2>5, <3>1, <3>2
  <2> QED BY <2>1, <2>2, <2>3, <2>4, <2>7, UsedSlots DEF AsVoted
<1> QED BY <1>1, <1>2

\* The validated transactions are the voted ones.
LEMMA TxsAsVoted ==
  ASSUME aligned \in {VotedDigest, ZeroDigest}, NEW data \in DataReplies,
         ValidateTickData(data, aligned),
         NEW replied \in TxReplies, ValidateTxs(replied, data)
  PROVE  /\ ValidTxs(replied, data) \in Seq(TxIds)
         /\ ToSet(ValidTxs(replied, data)) = VotedIds
<1>1. CreateTxDigestsMap(data) = VotedIds
  BY ValidSlots DEF CreateTxDigestsMap
<1>2. CASE VotedIds = {}
  BY <1>1, <1>2, NoElement DEF ValidTxs
<1>3. CASE VotedIds # {}
  <2>1. ValidTxs(replied, data) = replied /\ ValidateTransactions(replied, VotedIds)
    BY <1>1, <1>3 DEF ValidTxs, ValidateTxs
  <2>2. replied \in Seq(TxIds)
    BY ContentAssumption DEF TxIds
  <2>3. \A k \in DOMAIN replied : replied[k] \in VotedIds
    BY <2>1, Zenon DEF ValidateTransactions
  <2>4. VotedIds \subseteq ToSet(replied)
    BY <2>1, Zenon DEF ValidateTransactions
  <2>5. ToSet(replied) \subseteq VotedIds
    BY <2>3, Zenon DEF ToSet
  <2> QED BY <2>1, <2>2, <2>4, <2>5
<1> QED BY <1>2, <1>3

-----------------------------------------------------------------------------
(* The transfers. *)

LEMMA TransferTxs ==
  ASSUME NEW txs \in Seq(TxIds)
  PROVE  /\ RemoveNonTransferTransactions(txs) \in Seq(TxIds)
         /\ ToSet(RemoveNonTransferTransactions(txs)) = {id \in ToSet(txs) : Tx(id).amount # 0}
<1> DEFINE n == Len(txs)
           keep == {k \in 1 .. n : Tx(txs[k]).amount # 0}
<1>1. n \in Nat /\ DOMAIN txs = 1 .. n /\ \A k \in 1 .. n : txs[k] \in TxIds
  OBVIOUS
<1> HIDE DEF n
<1>2. [k \in DOMAIN txs |-> If(Tx(txs[k]).amount # 0, txs[k])] = Filtered(n, keep, txs)
  BY <1>1 DEF If, Filtered
<1>3. RemoveNonTransferTransactions(txs) = FlattenSeq(Filtered(n, keep, txs))
  BY <1>2 DEF RemoveNonTransferTransactions
<1>4. keep \in SUBSET (1 .. n) /\ \A k \in keep : txs[k] \in TxIds
  BY <1>1
<1>5. {txs[k] : k \in keep} = {id \in ToSet(txs) : Tx(id).amount # 0}
  <2>1. ToSet(txs) = {txs[k] : k \in 1 .. n}
    BY <1>1 DEF ToSet
  <2>2. \A k \in 1 .. n : Tx(txs[k]).amount # 0 <=> k \in keep
    OBVIOUS
  <2>3. keep \subseteq 1 .. n
    OBVIOUS
  <2> HIDE DEF keep
  <2> QED BY <2>1, <2>2, <2>3, Zenon
<1> HIDE DEF keep
<1> QED BY <1>1, <1>3, <1>4, <1>5, FilterLoop

\* The loop over the transactions lists a transaction for its source and for
\* its destination.
LEMMA TransfersListed ==
  ASSUME NEW txs \in Seq(TxIds), NEW identity
  PROVE  ToSet(TransfersOfIdentity(identity, txs)) =
           {id \in ToSet(txs) : Tx(id).amount # 0 /\ identity \in {Tx(id).source, Tx(id).dest}}
<1> DEFINE moved == RemoveNonTransferTransactions(txs)
           Mine(id) == identity \in {Tx(id).source, Tx(id).dest}
           Round(id) == If(Tx(id).dest = identity, id) \o If(Tx(id).source = identity, id)
           lists == [k \in DOMAIN moved |-> Round(moved[k])]
<1>1. moved \in Seq(TxIds) /\ ToSet(moved) = {id \in ToSet(txs) : Tx(id).amount # 0}
  BY TransferTxs, Zenon
<1>2. TransfersOfIdentity(identity, txs) = FlattenSeq(lists)
  BY Zenon DEF TransfersOfIdentity
<1>3. ASSUME NEW id \in TxIds
      PROVE  Round(id) \in Seq(TxIds) /\ ToSet(Round(id)) = IF Mine(id) THEN {id} ELSE {}
  <2>1. If(Tx(id).dest = identity, id) \in Seq(TxIds) /\ If(Tx(id).source = identity, id) \in Seq(TxIds)
    BY OneElement, NoElement DEF If
  <2>2. Round(id) \in Seq(TxIds)
    BY <2>1
  <2>3. ToSet(Round(id)) = ToSet(If(Tx(id).dest = identity, id)) \cup ToSet(If(Tx(id).source = identity, id))
    BY <2>1, ToSetConcat
  <2>4. /\ ToSet(If(Tx(id).dest = identity, id)) = IF Tx(id).dest = identity THEN {id} ELSE {}
        /\ ToSet(If(Tx(id).source = identity, id)) = IF Tx(id).source = identity THEN {id} ELSE {}
    BY OneElement, NoElement DEF If
  <2> HIDE DEF Round
  <2> QED BY <2>2, <2>3, <2>4
<1> HIDE DEF moved, Round
<1>4. DOMAIN moved = 1 .. Len(moved) /\ Len(moved) \in Nat /\ \A k \in DOMAIN moved : moved[k] \in TxIds
  BY <1>1
<1>5. lists \in [1 .. Len(moved) -> Seq(TxIds)]
  BY <1>3, <1>4
<1>6. lists \in Seq(Seq(TxIds)) /\ DOMAIN lists = DOMAIN moved
  BY <1>4, <1>5
<1>7. ToSet(FlattenSeq(lists)) = UNION {ToSet(lists[k]) : k \in DOMAIN moved}
  <2> HIDE DEF lists
  <2> QED BY <1>6, FlattenElements
<1>8. \A k \in DOMAIN moved : ToSet(lists[k]) = IF Mine(moved[k]) THEN {moved[k]} ELSE {}
  BY <1>3, <1>4
<1> HIDE DEF lists
<1>9. UNION {ToSet(lists[k]) : k \in DOMAIN moved} = {id \in ToSet(moved) : Mine(id)}
  <2> HIDE DEF Mine
  <2>1. ASSUME NEW k \in DOMAIN moved, NEW id \in ToSet(lists[k])
        PROVE  id \in ToSet(moved) /\ Mine(id)
    BY <1>8 DEF ToSet
  <2>2. ASSUME NEW id \in ToSet(moved), Mine(id)
        PROVE  \E k \in DOMAIN moved : id \in ToSet(lists[k])
    <3>1. PICK k \in DOMAIN moved : id = moved[k]
      BY DEF ToSet
    <3> QED BY <1>8, <2>2, <3>1
  <2> QED BY <2>1, <2>2
<1> QED BY <1>1, <1>2, <1>7, <1>9

-----------------------------------------------------------------------------
(* The invariant holds throughout. *)

LEMMA NothingAsVoted ==
  /\ AsVoted(TickDataToProto(NoLocal.data).ids, {})
  /\ NoLocal.txs \in Seq(TxIds) /\ ToSet(NoLocal.txs) = {}
<1>1. TickDataToProto(NoLocal.data).ids = <<>> /\ NoLocal.txs = <<>>
  BY DEF NoLocal, TickDataToProto, IsEmpty
<1>2. InVotedOrder(<<>>)
  BY DEF InVotedOrder
<1> QED BY <1>1, <1>2, NoElement DEF AsVoted

LEMMA ContentInit ==
  ASSUME Init
  PROVE  ContentIInv
<1>1. pc = "start" /\ statusAddon \in BOOLEAN /\ aligned \in {VotedDigest, ZeroDigest} /\ firstEmpty \in BOOLEAN
  BY DEF Init
<1>2. transactions = {} /\ DOMAIN transfers = Identities
      /\ \A identity \in Identities : transfers[identity] = <<>>
  BY DEF Init
<1>3. ToSet(<<>>) = {}
  BY NoElement
<1> QED BY <1>1, <1>2, <1>3
        DEF ContentIInv, ControlInv, LocalInv, ContentInv, TransfersInv, DigestInv,
            Fetched, HasTickData, HasTxs, HasTransfers, HasStatus, HasDigest

LEMMA ContentStep ==
  ASSUME ContentIInv, [Next]_contentVars
  PROVE  ContentIInv'
<1> USE DEF Fetched, HasTickData, HasTxs, HasTransfers, HasStatus, HasDigest
<1>1. ControlInv /\ LocalInv /\ ContentInv /\ TransfersInv /\ DigestInv
  BY DEF ContentIInv
<1>2. ASSUME aligned' = aligned
      PROVE  /\ VotedIds' = VotedIds /\ \A identity : TransfersOf(identity)' = TransfersOf(identity)
             /\ firstEmpty' = firstEmpty => AttemptIds' = AttemptIds
  BY <1>2 DEF VotedIds, TransfersOf, AttemptIds
<1>3. CASE NothingToFetch
  <2>1. /\ pc = "start" /\ pc' = "tickData" /\ local' = NoLocal /\ firstEmpty' = TRUE
        /\ UNCHANGED <<aligned, statusAddon, tickData, transactions, transfers, tickStatus, txStatus, storeDigest>>
    BY <1>3 DEF NothingToFetch, Go, records
  <2>2. VotedIds' = VotedIds /\ \A identity : TransfersOf(identity)' = TransfersOf(identity)
    BY <1>2, <2>1
  <2>3. AttemptIds' = {}
    BY <2>1 DEF AttemptIds
  <2>4. LocalInv'
    BY <2>1, <2>3, NothingAsVoted DEF LocalInv
  <2> QED BY <1>1, <2>1, <2>2, <2>4 DEF ContentIInv, ControlInv, ContentInv, TransfersInv, DigestInv
<1>4. CASE ValidateReplies
  <2>1. /\ pc = "start" /\ pc' = "tickData" /\ firstEmpty' = FALSE
        /\ UNCHANGED <<aligned, statusAddon, tickData, transactions, transfers, tickStatus, txStatus, storeDigest>>
    BY <1>4 DEF ValidateReplies, Go, records
  <2>2. VotedIds' = VotedIds /\ \A identity : TransfersOf(identity)' = TransfersOf(identity)
    BY <1>2, <2>1
  <2>3. PICK data \in DataReplies, replied \in TxReplies :
          /\ ValidateTickData(data, aligned)
          /\ ValidateTxs(replied, data)
          /\ local'.data = data /\ local'.txs = ValidTxs(replied, data)
    BY <1>4 DEF ValidateReplies
  <2>4. AsVoted(TickDataToProto(data).ids, VotedIds)
    BY <1>1, <2>3, DataAsVoted DEF ControlInv
  <2>5. ValidTxs(replied, data) \in Seq(TxIds) /\ ToSet(ValidTxs(replied, data)) = VotedIds
    BY <1>1, <2>3, TxsAsVoted DEF ControlInv
  <2>6. AttemptIds' = VotedIds
    BY <2>1, <2>2 DEF AttemptIds
  <2>7. LocalInv'
    BY <2>3, <2>4, <2>5, <2>6 DEF LocalInv
  <2> QED BY <1>1, <2>1, <2>2, <2>7 DEF ContentIInv, ControlInv, ContentInv, TransfersInv, DigestInv
<1>5. CASE StoreTickData
  <2>1. /\ pc = "tickData" /\ pc' = "transactions" /\ tickData' = TickDataToProto(local.data)
        /\ UNCHANGED <<aligned, firstEmpty, statusAddon, local, transactions, transfers, tickStatus, txStatus, storeDigest>>
    BY <1>5 DEF StoreTickData, Go
  <2>2. /\ VotedIds' = VotedIds /\ AttemptIds' = AttemptIds
        /\ \A identity : TransfersOf(identity)' = TransfersOf(identity)
    BY <1>2, <2>1
  <2>3. LocalInv'
    BY <1>1, <2>1, <2>2 DEF LocalInv
  <2>4. ContentInv'
    BY <1>1, <2>1, <2>2 DEF LocalInv, ContentInv
  <2> QED BY <1>1, <2>1, <2>2, <2>3, <2>4 DEF ContentIInv, ControlInv, TransfersInv, DigestInv
<1>6. CASE StoreTransactions
  <2>1. /\ pc = "transactions" /\ pc' = "transfers" /\ transactions' = transactions \cup ToSet(local.txs)
        /\ UNCHANGED <<aligned, firstEmpty, statusAddon, local, tickData, transfers, tickStatus, txStatus, storeDigest>>
    BY <1>6 DEF StoreTransactions, Go
  <2>2. /\ VotedIds' = VotedIds /\ AttemptIds' = AttemptIds
        /\ \A identity : TransfersOf(identity)' = TransfersOf(identity)
    BY <1>2, <2>1
  <2>3. LocalInv'
    BY <1>1, <2>1, <2>2 DEF LocalInv
  <2>4. ContentInv'
    <3>1. ToSet(local.txs) = AttemptIds /\ AttemptIds \subseteq VotedIds
      BY <1>1, <2>1 DEF LocalInv, AttemptIds
    <3> QED BY <1>1, <2>1, <2>2, <3>1 DEF ContentInv
  <2> QED BY <1>1, <2>1, <2>2, <2>3, <2>4 DEF ContentIInv, ControlInv, TransfersInv, DigestInv
<1>7. CASE StoreTransfers
  <2>1. /\ pc = "transfers"
        /\ UNCHANGED <<aligned, firstEmpty, statusAddon, tickData, transactions, tickStatus, txStatus, storeDigest>>
    BY <1>7 DEF StoreTransfers, Go
  <2>2. PICK some \in SUBSET Identities :
          /\ transfers' = [identity \in Identities |->
                             IF identity \in some /\ TransfersOfIdentity(identity, local.txs) # <<>>
                             THEN TransfersOfIdentity(identity, local.txs)
                             ELSE transfers[identity]]
          /\ \/ some = Identities /\ pc' = "status" /\ UNCHANGED local
             \/ pc' = "start" /\ local' = NoLocal
    BY <1>7 DEF StoreTransfers, Go
  <2>3. /\ VotedIds' = VotedIds /\ AttemptIds' = AttemptIds
        /\ \A identity : TransfersOf(identity)' = TransfersOf(identity)
    BY <1>2, <2>1
  <2>4. LocalInv'
    BY <1>1, <2>1, <2>2, <2>3 DEF LocalInv
  <2>5. ASSUME NEW identity \in Identities
        PROVE  /\ firstEmpty => ToSet(TransfersOfIdentity(identity, local.txs)) = {}
               /\ ~firstEmpty => ToSet(TransfersOfIdentity(identity, local.txs)) = TransfersOf(identity)
    <3>1. local.txs \in Seq(TxIds) /\ ToSet(local.txs) = AttemptIds
      BY <1>1, <2>1 DEF LocalInv
    <3>2. ToSet(TransfersOfIdentity(identity, local.txs)) =
            {id \in AttemptIds : Tx(id).amount # 0 /\ identity \in {Tx(id).source, Tx(id).dest}}
      BY <3>1, TransfersListed
    <3> QED BY <3>2 DEF AttemptIds, TransfersOf
  <2>6. TransfersInv'
    <3>1. DOMAIN transfers' = Identities
      BY <2>2
    <3>2. ASSUME NEW identity \in Identities
          PROVE  /\ \/ ToSet(transfers'[identity]) = {}
                    \/ ToSet(transfers'[identity]) = TransfersOf(identity)
                 /\ (pc' \in HasTransfers /\ ~firstEmpty') =>
                      ToSet(transfers'[identity]) = TransfersOf(identity)
      <4>1. \/ transfers'[identity] = TransfersOfIdentity(identity, local.txs)
            \/ /\ transfers'[identity] = transfers[identity]
               /\ identity \notin some \/ TransfersOfIdentity(identity, local.txs) = <<>>
        BY <2>2
      <4>2. \/ ToSet(transfers[identity]) = {}
            \/ ToSet(transfers[identity]) = TransfersOf(identity)
        BY <1>1 DEF TransfersInv
      <4>3. pc' \in HasTransfers => identity \in some
        BY <2>2
      <4>4. ToSet(<<>>) = {}
        BY NoElement
      <4> QED BY <2>1, <2>5, <4>1, <4>2, <4>3, <4>4, Zenon
    <3> QED BY <2>3, <3>1, <3>2 DEF TransfersInv
  <2> QED BY <1>1, <2>1, <2>2, <2>3, <2>4, <2>6 DEF ContentIInv, ControlInv, ContentInv, DigestInv
<1>8. CASE StoreStatus
  <2>1. /\ pc = "status" /\ pc' = "digest" /\ tickStatus' = local.statuses
        /\ UNCHANGED <<aligned, firstEmpty, statusAddon, local, tickData, transactions, transfers, storeDigest>>
    BY <1>8 DEF StoreStatus, Go
  <2>2. /\ VotedIds' = VotedIds /\ AttemptIds' = AttemptIds
        /\ \A identity : TransfersOf(identity)' = TransfersOf(identity)
    BY <1>2, <2>1
  <2>3. LocalInv' /\ ContentInv'
    BY <1>1, <2>1, <2>2 DEF LocalInv, ContentInv
  <2> QED BY <1>1, <2>1, <2>2, <2>3 DEF ContentIInv, ControlInv, TransfersInv, DigestInv
<1>9. CASE StoreDigest
  <2>1. /\ pc = "digest" /\ pc' = "stored" /\ storeDigest' = StoreContent(local.txs, local.statuses)
        /\ UNCHANGED <<aligned, firstEmpty, statusAddon, local, tickData, transactions, transfers, tickStatus, txStatus>>
    BY <1>9 DEF StoreDigest, Go
  <2>2. /\ VotedIds' = VotedIds /\ AttemptIds' = AttemptIds
        /\ \A identity : TransfersOf(identity)' = TransfersOf(identity)
    BY <1>2, <2>1
  <2>3. LocalInv' /\ ContentInv'
    BY <1>1, <2>1, <2>2 DEF LocalInv, ContentInv
  <2>4. DigestInv'
    <3>1. ToSet(local.txs) = AttemptIds /\ tickStatus = local.statuses
      BY <1>1, <2>1 DEF LocalInv, DigestInv
    <3>2. storeDigest' = <<SortedDigests(AttemptIds), tickStatus>>
      BY <2>1, <3>1 DEF StoreContent
    <3> QED BY <2>1, <2>2, <3>1, <3>2 DEF DigestInv
  <2> QED BY <1>1, <2>1, <2>2, <2>3, <2>4 DEF ContentIInv, ControlInv, TransfersInv
<1>10. CASE Process
  <2>1. /\ pc = "stored" /\ pc' = "processed" /\ local' = NoLocal
        /\ UNCHANGED <<aligned, firstEmpty, statusAddon, tickData, transactions, transfers, tickStatus, txStatus, storeDigest>>
    BY <1>10 DEF Process, Go, records
  <2>2. /\ VotedIds' = VotedIds /\ AttemptIds' = AttemptIds
        /\ \A identity : TransfersOf(identity)' = TransfersOf(identity)
    BY <1>2, <2>1
  <2>3. LocalInv' /\ ContentInv'
    BY <1>1, <2>1, <2>2 DEF LocalInv, ContentInv
  <2> QED BY <1>1, <2>1, <2>2, <2>3 DEF ContentIInv, ControlInv, TransfersInv, DigestInv
<1>11. CASE Retry
  <2>1. /\ pc' = "start"
        /\ UNCHANGED <<aligned, firstEmpty, statusAddon, tickData, transactions, transfers, tickStatus, txStatus, storeDigest>>
    BY <1>11 DEF Retry, Go, records
  <2>2. /\ VotedIds' = VotedIds /\ AttemptIds' = AttemptIds
        /\ \A identity : TransfersOf(identity)' = TransfersOf(identity)
    BY <1>2, <2>1
  <2>3. LocalInv' /\ ContentInv'
    BY <1>1, <2>1, <2>2 DEF LocalInv, ContentInv
  <2> QED BY <1>1, <2>1, <2>2, <2>3 DEF ContentIInv, ControlInv, TransfersInv, DigestInv
<1>12. CASE UNCHANGED contentVars
  <2>1. UNCHANGED <<aligned, firstEmpty, statusAddon, pc, local, tickData, transactions, transfers, tickStatus, txStatus, storeDigest>>
    BY <1>12 DEF contentVars, records
  <2>2. /\ VotedIds' = VotedIds /\ AttemptIds' = AttemptIds
        /\ \A identity : TransfersOf(identity)' = TransfersOf(identity)
    BY <1>2, <2>1
  <2>3. LocalInv' /\ ContentInv'
    BY <1>1, <2>1, <2>2 DEF LocalInv, ContentInv
  <2> QED BY <1>1, <2>1, <2>2, <2>3 DEF ContentIInv, ControlInv, TransfersInv, DigestInv
<1> QED BY <1>3, <1>4, <1>5, <1>6, <1>7, <1>8, <1>9, <1>10, <1>11, <1>12 DEF Next

\* Every state of an attempt satisfies the invariant.
LEMMA ContentInvariant == Spec => []ContentIInv
<1>1. Init => ContentIInv
  BY ContentInit
<1>2. ContentIInv /\ [Next]_contentVars => ContentIInv'
  BY ContentStep
<1> QED BY <1>1, <1>2, PTL DEF Spec

LEMMA AttemptAsVoted ==
  ASSUME FirstVoteAgrees
  PROVE  AttemptIds = VotedIds
BY DEF FirstVoteAgrees, AttemptIds, VotedIds

\* Whatever the peers replied in however many attempts, a processed tick has
\* exactly the transactions that the quorum voted on, in the order of the tick
\* data, unless an empty first vote decided that it has none, and no other
\* transaction is ever stored: for every tick whose voted data lists no
\* transaction twice (tick.Validate, tx.Validate and the stores).
THEOREM ArchivedContent ==
  ASSUME DistinctSlots
  PROVE  Spec => []ArchivedAsVoted
<1>1. ContentIInv => ArchivedAsVoted
  BY AttemptAsVoted DEF ContentIInv, ContentInv, ArchivedAsVoted, Processed, HasTickData, HasTxs,
                        AsVoted, GetTickTransactions
<1> QED BY <1>1, ContentInvariant, PTL

\* The transfer lists of a processed tick name, for every identity, exactly the
\* voted transactions with an amount that it sent or received, also when
\* earlier attempts wrote only some of them (createTransferTransactionsIdentityMap).
THEOREM ExactTransfers == Spec => []TransfersExact
<1>1. ASSUME ContentIInv, Processed, FirstVoteAgrees, NEW identity \in Identities
      PROVE  ToSet(transfers[identity]) = TransfersOf(identity)
  <2>1. CASE firstEmpty
    <3>1. TransfersOf(identity) = {}
      BY <1>1, <2>1 DEF FirstVoteAgrees, VotedIds, TransfersOf
    <3> QED BY <1>1, <3>1 DEF ContentIInv, TransfersInv
  <2>2. CASE ~firstEmpty
    BY <1>1, <2>2 DEF ContentIInv, TransfersInv, Processed, HasTransfers
  <2> QED BY <2>1, <2>2
<1>2. ContentIInv => TransfersExact
  BY <1>1 DEF TransfersExact, TransfersOf
<1> QED BY <1>2, ContentInvariant, PTL

\* The store digest of a processed tick is that of the voted transactions and
\* of the stored statuses, whatever the order of the peer's reply
\* (Store.MarshallBinary).
THEOREM CanonicalStoreDigest == Spec => []StoreDigestCanonical
<1>1. ContentIInv => StoreDigestCanonical
  BY AttemptAsVoted DEF ContentIInv, DigestInv, StoreDigestCanonical, Processed, HasDigest
<1> QED BY <1>1, ContentInvariant, PTL

-----------------------------------------------------------------------------
(* The money-flew flags. *)

\* Reading the packed flags at a digest's index gives the digest's flag.
LEMMA FlagOfDigest ==
  ASSUME NEW digests \in Seq(Nat), NEW k \in 1 .. Len(digests)
  PROVE  /\ GetMoneyFlewFromBits(PackedFlags(digests), k - 1) \in BOOLEAN
         /\ GetMoneyFlewFromBits(PackedFlags(digests), k - 1) = (digests[k] \in Flew)
<1> DEFINE len == Len(digests)
           pos == (k - 1) \div ByteBits
           bit == (k - 1) % ByteBits
           flags == PackedFlags(digests)
<1>1. ByteBits \in Nat \ {0} /\ len \in Nat
  BY ContentAssumption
<1>2. k - 1 \in Nat /\ k - 1 < len
  OBVIOUS
<1>3. pos \in Nat /\ bit \in Bits /\ k - 1 = pos * ByteBits + bit /\ pos <= len \div ByteBits
  <2> HIDE DEF len
  <2>1. pos \in Nat /\ bit \in 0 .. ByteBits - 1 /\ k - 1 = ByteBits * pos + bit
    BY <1>1, <1>2
  <2>2. pos <= len \div ByteBits
    BY <1>1, <1>2
  <2> QED BY <2>1, <2>2, <1>1 DEF Bits
<1>4. pos \in 0 .. len \div ByteBits
  <2> HIDE DEF pos, len
  <2>1. len \div ByteBits \in Nat
    BY <1>1
  <2> QED BY <1>3, <2>1
<1>5. flags[pos] = [b \in Bits |-> LET index == pos * ByteBits + b
                                   IN index < len /\ digests[index + 1] \in Flew]
  BY <1>4 DEF PackedFlags
<1> HIDE DEF len, pos, bit, flags
<1>6. flags[pos][bit] = (digests[k] \in Flew)
  <2>1. pos * ByteBits + bit = k - 1 /\ (k - 1) + 1 = k
    BY <1>2, <1>3
  <2>2. flags[pos][bit] = (k - 1 < len /\ digests[(k - 1) + 1] \in Flew)
    BY <1>3, <1>5, <2>1
  <2> QED BY <1>2, <2>1, <2>2
<1>7. 0 \in Bits /\ 0 + bit = bit
  BY <1>1, <1>3 DEF Bits
<1>8. GetNthBit(flags[pos], bit) = flags[pos][bit]
  <2>1. flags[pos][bit] \in BOOLEAN
    BY <1>6
  <2>2. ShiftRight(flags[pos], bit)[0] = (0 + bit \in Bits /\ flags[pos][0 + bit])
    BY <1>7 DEF ShiftRight
  <2> QED BY <1>3, <1>7, <2>1, <2>2 DEF GetNthBit
<1>9. GetMoneyFlewFromBits(flags, k - 1) = GetNthBit(flags[pos], bit)
  BY DEF GetMoneyFlewFromBits, pos, bit
<1>10. flags[pos][bit] \in BOOLEAN
  BY <1>6
<1> QED BY <1>6, <1>8, <1>9, <1>10, Zenon DEF flags

\* The stored statuses of a complete status list are the network's flags.
LEMMA StatusesTrue ==
  ASSUME NEW txs \in Seq(TxIds), ToSet(txs) = VotedIds,
         NEW digests \in Seq(Nat), VotedIds \subseteq ToSet(digests)
  PROVE  TrueStatuses(StatusToProto(txs, digests), VotedIds)
<1> DEFINE n == Len(digests)
           keep == {k \in 1 .. n : digests[k] \in VotedIds}
           Flag(k) == GetMoneyFlewFromBits(PackedFlags(digests), k - 1)
           status == [k \in 1 .. n |-> [id |-> digests[k], moneyFlew |-> Flag(k)]]
           S == [id : TxIds, moneyFlew : BOOLEAN]
           Flagged(id) == [id |-> id, moneyFlew |-> id \in Flew]
<1>1. n \in Nat /\ DOMAIN digests = 1 .. n
  OBVIOUS
<1>2. \A k \in 1 .. n : Flag(k) \in BOOLEAN /\ Flag(k) = (digests[k] \in Flew)
  BY FlagOfDigest
<1> HIDE DEF n
<1>3. [k \in DOMAIN digests |->
         If(digests[k] \in CreateTxsIdMap(txs), [id |-> digests[k], moneyFlew |-> Flag(k)])]
      = Filtered(n, keep, status)
  <2> HIDE DEF Flag
  <2> QED BY <1>1 DEF If, Filtered, CreateTxsIdMap
<1>4. StatusToProto(txs, digests) = FlattenSeq(Filtered(n, keep, status))
  BY <1>3 DEF StatusToProto
<1> HIDE DEF Flag
<1>5. ASSUME NEW k \in keep
      PROVE  k \in 1 .. n /\ status[k] = Flagged(digests[k]) /\ digests[k] \in VotedIds
  <2>1. k \in 1 .. n /\ digests[k] \in VotedIds
    OBVIOUS
  <2>2. status[k] = [id |-> digests[k], moneyFlew |-> Flag(k)]
    BY <2>1
  <2> QED BY <1>2, <2>1, <2>2
<1>6. VotedIds \subseteq TxIds
  <2>1. \A k \in DOMAIN txs : txs[k] \in TxIds
    OBVIOUS
  <2> QED BY <2>1 DEF ToSet
<1>7. ASSUME NEW k \in keep PROVE status[k] \in S
  <2>1. digests[k] \in TxIds
    BY <1>5, <1>6
  <2>2. Flag(k) \in BOOLEAN
    BY <1>2
  <2>3. status[k] = [id |-> digests[k], moneyFlew |-> Flag(k)]
    BY <1>5
  <2> HIDE DEF status
  <2> QED BY <2>1, <2>2, <2>3
<1>8. {status[k] : k \in keep} = {Flagged(id) : id \in VotedIds}
  <2>1. \A id \in VotedIds : \E k \in keep : digests[k] = id
    BY <1>1 DEF ToSet
  <2> HIDE DEF status, keep, Flagged
  <2> QED BY <1>5, <2>1
<1> HIDE DEF status
<1>9. keep \in SUBSET (1 .. n)
  OBVIOUS
<1>0. \A k \in keep : status[k] \in S
  BY <1>7
<1> HIDE DEF keep, S, Flagged
<1>10. /\ FlattenSeq(Filtered(n, keep, status)) \in Seq(S)
       /\ ToSet(FlattenSeq(Filtered(n, keep, status))) = {status[k] : k \in keep}
  <2>1. n \in Nat
    BY <1>1
  <2>2. FlattenSeq(Filtered(n, keep, status)) \in Seq(S)
    BY <2>1, <1>0, <1>9, FilterLoop
  <2>3. ToSet(FlattenSeq(Filtered(n, keep, status))) = {status[k] : k \in keep}
    BY <2>1, <2>2, <1>0, <1>9, FilterLoop
  <2> QED BY <2>2, <2>3
<1> QED BY <1>4, <1>8, <1>10 DEF TrueStatuses, S, Flagged

LEMMA TrueStatusFacts ==
  ASSUME NEW statuses, NEW S, TrueStatuses(statuses, S)
  PROVE  /\ {status.id : status \in ToSet(statuses)} = S
         /\ \A k \in DOMAIN statuses : statuses[k].moneyFlew = (statuses[k].id \in Flew)
         /\ \A id \in S : LastStatus(statuses, id) = (id \in Flew)
<1> DEFINE Flagged(id) == [id |-> id, moneyFlew |-> id \in Flew]
<1>1. ToSet(statuses) = {Flagged(id) : id \in S}
  BY Zenon DEF TrueStatuses
<1>2. \A id : Flagged(id).id = id /\ Flagged(id).moneyFlew = (id \in Flew)
  OBVIOUS
<1> HIDE DEF Flagged
<1>3. {status.id : status \in ToSet(statuses)} = S
  BY <1>1, <1>2
<1>4. ASSUME NEW k \in DOMAIN statuses
      PROVE  statuses[k].moneyFlew = (statuses[k].id \in Flew)
  <2>1. statuses[k] \in ToSet(statuses)
    BY DEF ToSet
  <2>2. PICK id \in S : statuses[k] = Flagged(id)
    BY <1>1, <2>1, Zenon
  <2> QED BY <1>2, <2>2, Zenon
<1>5. ASSUME NEW id \in S
      PROVE  LastStatus(statuses, id) = (id \in Flew)
  <2> DEFINE K == {k \in DOMAIN statuses : statuses[k].id = id}
  <2>1. DOMAIN statuses = 1 .. Len(statuses) /\ Len(statuses) \in Nat
    BY DEF TrueStatuses
  <2>2. K \in SUBSET (0 .. Len(statuses))
    BY <2>1
  <2>3. K # {}
    <3>1. PICK status \in ToSet(statuses) : status.id = id
      BY <1>3, Zenon
    <3>2. PICK k \in DOMAIN statuses : statuses[k] = status
      BY Zenon DEF ToSet
    <3> QED BY <3>1, <3>2
  <2>4. Max(K) \in K
    <3> HIDE DEF K
    <3> QED BY <2>1, <2>2, <2>3, MaxInSet
  <2>5. LastStatus(statuses, id) = statuses[Max(K)].moneyFlew
    BY DEF LastStatus
  <2>6. Max(K) \in DOMAIN statuses /\ statuses[Max(K)].id = id
    BY <2>4
  <2> HIDE DEF K
  <2> QED BY <1>4, <2>5, <2>6, Zenon
<1> QED BY <1>3, <1>4, <1>5

LEMMA StatusStep ==
  ASSUME CompleteStatusLists, ContentIInv, StatusInv, [Next]_contentVars
  PROVE  StatusInv'
<1> SUFFICES ASSUME statusAddon'
             PROVE  /\ pc' \in Fetched => TrueStatuses(local'.statuses, AttemptIds')
                    /\ pc' \in HasStatus => /\ TrueStatuses(tickStatus', AttemptIds')
                                            /\ AttemptIds' \subseteq DOMAIN txStatus'
                    /\ \A id \in DOMAIN txStatus' : txStatus'[id] = (id \in Flew)
  BY DEF StatusInv
<1> USE DEF Fetched, HasStatus
<1>1. UNCHANGED <<aligned, statusAddon>>
  BY DEF Next, NothingToFetch, ValidateReplies, StoreTickData, StoreTransactions, StoreTransfers,
         StoreStatus, StoreDigest, Process, Retry, Go, contentVars
<1>2. VotedIds' = VotedIds
  BY <1>1 DEF VotedIds
<1>3. firstEmpty' = firstEmpty => AttemptIds' = AttemptIds
  BY <1>2 DEF AttemptIds
<1>4. /\ pc \in Fetched => TrueStatuses(local.statuses, AttemptIds)
      /\ pc \in HasStatus => TrueStatuses(tickStatus, AttemptIds) /\ AttemptIds \subseteq DOMAIN txStatus
      /\ \A id \in DOMAIN txStatus : txStatus[id] = (id \in Flew)
  BY <1>1 DEF StatusInv
<1>5. CASE NothingToFetch
  <2>1. pc' = "tickData" /\ txStatus' = txStatus /\ local' = NoLocal /\ firstEmpty' = TRUE
    BY <1>5 DEF NothingToFetch, Go, records
  <2>2. AttemptIds' = {} /\ local'.statuses = <<>>
    BY <2>1 DEF AttemptIds, NoLocal
  <2>3. TrueStatuses(local'.statuses, AttemptIds')
    BY <2>2, NoElement DEF TrueStatuses
  <2> QED BY <1>4, <2>1, <2>3
<1>6. CASE ValidateReplies
  <2>1. pc' = "tickData" /\ txStatus' = txStatus /\ firstEmpty' = FALSE
    BY <1>6 DEF ValidateReplies, Go, records
  <2>2. PICK data \in DataReplies, replied \in TxReplies, digests \in StatusReplies :
          /\ ValidateTickData(data, aligned)
          /\ ValidateTxs(replied, data)
          /\ local'.statuses = StatusToProto(ValidTxs(replied, data), digests)
    BY <1>6 DEF ValidateReplies
  <2>3. digests \in StatusLists
    BY <1>1 DEF StatusReplies
  <2>4. digests \in Seq(Nat) /\ ToSet(VotedSlots) \ {0} \subseteq ToSet(digests)
    BY <2>3, ContentAssumption DEF CompleteStatusLists, CompleteList
  <2>5. VotedIds \subseteq ToSet(digests)
    BY <2>4 DEF VotedIds
  <2>6. aligned \in {VotedDigest, ZeroDigest}
    BY DEF ContentIInv, ControlInv
  <2>7. TrueStatuses(local'.statuses, VotedIds)
    BY <2>2, <2>4, <2>5, <2>6, TxsAsVoted, StatusesTrue
  <2>8. AttemptIds' = VotedIds
    BY <1>2, <2>1 DEF AttemptIds
  <2> QED BY <1>4, <2>1, <2>7, <2>8
<1>7. CASE StoreStatus
  <2> DEFINE ids == {status.id : status \in ToSet(local.statuses)}
  <2>1. /\ pc = "status" /\ pc' = "digest" /\ tickStatus' = local.statuses /\ local' = local /\ firstEmpty' = firstEmpty
        /\ txStatus' = [id \in DOMAIN txStatus \cup ids |->
                          IF id \in ids THEN LastStatus(local.statuses, id) ELSE txStatus[id]]
    BY <1>7 DEF StoreStatus, Go
  <2>2. TrueStatuses(local.statuses, AttemptIds)
    BY <1>4, <2>1
  <2>3. ids = AttemptIds /\ \A id \in AttemptIds : LastStatus(local.statuses, id) = (id \in Flew)
    BY <2>2, TrueStatusFacts
  <2> HIDE DEF ids
  <2>4. DOMAIN txStatus' = DOMAIN txStatus \cup AttemptIds
    BY <2>1, <2>3
  <2>5. ASSUME NEW id \in DOMAIN txStatus' PROVE txStatus'[id] = (id \in Flew)
    <3>1. CASE id \in AttemptIds
      <4>1. txStatus'[id] = LastStatus(local.statuses, id)
        BY <2>1, <2>3, <3>1
      <4> QED BY <2>3, <3>1, <4>1, Zenon
    <3>2. CASE id \notin AttemptIds
      <4>1. id \in DOMAIN txStatus /\ txStatus'[id] = txStatus[id]
        BY <2>1, <2>3, <2>4, <3>2
      <4> QED BY <1>4, <4>1, Zenon
    <3> QED BY <3>1, <3>2
  <2>6. AttemptIds' \subseteq DOMAIN txStatus'
    BY <1>3, <2>1, <2>4
  <2>7. TrueStatuses(local'.statuses, AttemptIds') /\ TrueStatuses(tickStatus', AttemptIds')
    BY <1>3, <2>1, <2>2
  <2> QED BY <2>5, <2>6, <2>7, Zenon
<1>8. CASE StoreTickData \/ StoreTransactions \/ StoreDigest \/ Process \/ UNCHANGED contentVars
  <2>1. /\ firstEmpty' = firstEmpty /\ txStatus' = txStatus /\ tickStatus' = tickStatus
        /\ pc' \in Fetched => pc \in Fetched /\ local' = local
        /\ pc' \in HasStatus => pc \in HasStatus
    BY <1>8 DEF StoreTickData, StoreTransactions, StoreDigest, Process, Go, records, contentVars
  <2> QED BY <1>3, <1>4, <2>1
<1>9. CASE StoreTransfers
  <2>1. /\ firstEmpty' = firstEmpty /\ txStatus' = txStatus /\ tickStatus' = tickStatus
        /\ pc' \in Fetched => pc \in Fetched /\ local' = local
        /\ pc' \notin HasStatus
    BY <1>9 DEF StoreTransfers, Go
  <2> QED BY <1>3, <1>4, <2>1
<1>10. CASE Retry
  BY <1>4, <1>10 DEF Retry, Go, records
<1> QED BY <1>5, <1>6, <1>7, <1>8, <1>9, <1>10 DEF Next

\* The invariant of the statuses, where the nodes report all of them.
LEMMA StatusInvariant ==
  ASSUME CompleteStatusLists
  PROVE  Spec => []StatusInv
<1>1. Init => StatusInv
  BY DEF Init, StatusInv, Fetched, HasStatus
<1>2. ContentIInv /\ StatusInv /\ [Next]_contentVars => StatusInv'
  BY StatusStep
<1> QED BY <1>1, <1>2, ContentInvariant, PTL DEF Spec

\* The transactions with an amount, of the stored tick data.
LEMMA TransferTransactionsOfTick ==
  ASSUME tickData.ids \in Seq(TxIds)
  PROVE  ToSet(GetTickTransferTransactions) = {id \in ToSet(tickData.ids) : Tx(id).amount > 0}
<1> DEFINE txs == tickData.ids
           n == Len(txs)
           keep == {k \in 1 .. n : Tx(txs[k]).amount > 0}
<1>1. n \in Nat /\ DOMAIN txs = 1 .. n /\ \A k \in 1 .. n : txs[k] \in TxIds
  OBVIOUS
<1>2. GetTickTransferTransactions
        = FlattenSeq([k \in DOMAIN txs |-> If(Tx(txs[k]).amount > 0, txs[k])])
  BY DEF GetTickTransferTransactions
<1> HIDE DEF txs, n
<1>3. [k \in DOMAIN txs |-> If(Tx(txs[k]).amount > 0, txs[k])] = Filtered(n, keep, txs)
  BY <1>1 DEF If, Filtered
<1>4. keep \in SUBSET (1 .. n) /\ \A k \in keep : txs[k] \in TxIds
  BY <1>1
<1>5. {txs[k] : k \in keep} = {id \in ToSet(txs) : Tx(id).amount > 0}
  <2>1. ToSet(txs) = {txs[k] : k \in 1 .. n}
    BY <1>1 DEF ToSet
  <2>2. \A k \in 1 .. n : Tx(txs[k]).amount > 0 <=> k \in keep
    OBVIOUS
  <2>3. keep \subseteq 1 .. n
    OBVIOUS
  <2> HIDE DEF keep
  <2> QED BY <2>1, <2>2, <2>3, Zenon
<1> HIDE DEF keep
<1>6. FlattenSeq(Filtered(n, keep, txs)) \in Seq(TxIds)
  BY <1>1, <1>4, FilterLoop
<1>7. ToSet(FlattenSeq(Filtered(n, keep, txs))) = {txs[k] : k \in keep}
  BY <1>1, <1>4, <1>6, FilterLoop
<1> QED BY <1>2, <1>3, <1>5, <1>7 DEF txs

\* The money-flew answers of a processed tick are the network's flags, by
\* transaction, by tick and in both versions of the interface, whatever the
\* nodes' order of the digests, for every size of a byte and any number of
\* attempts: where the status addon is on and the nodes report every
\* transaction of the tick (getMoneyFlewFromBits, SetTickTransactionsStatus and
\* the answers of the RPC server).
THEOREM ExactApprovals ==
  ASSUME CompleteStatusLists
  PROVE  Spec => []ApprovedExact
<1>1. ASSUME ContentIInv, StatusInv PROVE ApprovedExact
  <2> DEFINE flew  == {id \in VotedIds : id \in Flew}
             short == {id \in flew : IsSendMany(Tx(id)) /\ Tx(id).amount < Tx(id).payload.total}
  <2> SUFFICES ASSUME Processed, statusAddon, FirstVoteAgrees
               PROVE  /\ GetTickApprovedTransactions = flew \ short
                      /\ {id \in VotedIds : TransactionStatus(id)} = flew \ short
                      /\ GetApprovedTickTransactionsV2 = {id \in flew : Tx(id).amount > 0}
    BY DEF ApprovedExact
  <2>1. TrueStatuses(tickStatus, VotedIds) /\ VotedIds \subseteq DOMAIN txStatus
        /\ \A id \in DOMAIN txStatus : txStatus[id] = (id \in Flew)
    BY <1>1, AttemptAsVoted DEF StatusInv, Processed, HasStatus
  <2>2. tickData.ids \in Seq(TxIds) /\ ToSet(tickData.ids) = VotedIds
    BY <1>1, AttemptAsVoted DEF ContentIInv, ContentInv, AsVoted, Processed, HasTickData
  <2>3. ASSUME NEW id \in VotedIds
        PROVE  MoneyFlewV1(Tx(id), id \in Flew) <=> id \in flew \ short
    BY Zenon DEF MoneyFlewV1, RecomputeSendManyMoneyFlew
  <2>4. ASSUME NEW id \in VotedIds PROVE MoneyFlewInfo(id) <=> id \in Flew
    BY <2>1, Zenon DEF MoneyFlewInfo
  <2>5. flew \ short \subseteq VotedIds
    OBVIOUS
  <2>6. GetTickApprovedTransactions = flew \ short
    <3> DEFINE Flagged(id) == [id |-> id, moneyFlew |-> id \in Flew]
    <3>1. ToSet(tickStatus) = {Flagged(id) : id \in VotedIds}
      BY <2>1, Zenon DEF TrueStatuses
    <3>2. \A id : Flagged(id).id = id /\ Flagged(id).moneyFlew = (id \in Flew)
      OBVIOUS
    <3> HIDE DEF Flagged, flew, short
    <3>3. ASSUME NEW s \in ToSet(tickStatus), MoneyFlewV1(Tx(s.id), s.moneyFlew)
          PROVE  s.id \in flew \ short
      <4>1. PICK id \in VotedIds : s = Flagged(id)
        BY <3>1, Zenon
      <4>2. s.id = id /\ s.moneyFlew = (id \in Flew)
        BY <3>2, <4>1, Zenon
      <4>3. MoneyFlewV1(Tx(id), id \in Flew)
        BY <3>3, <4>2, Zenon DEF MoneyFlewV1
      <4> QED BY <2>3, <4>2, <4>3
    <3>4. ASSUME NEW id \in flew \ short
          PROVE  \E s \in ToSet(tickStatus) : MoneyFlewV1(Tx(s.id), s.moneyFlew) /\ s.id = id
      <4>1. id \in VotedIds /\ Flagged(id) \in ToSet(tickStatus)
        BY <2>5, <3>1
      <4>2. Flagged(id).id = id /\ Flagged(id).moneyFlew = (id \in Flew)
        BY <3>2, Zenon
      <4>3. MoneyFlewV1(Tx(id), id \in Flew)
        BY <2>3, <4>1, Zenon
      <4>4. MoneyFlewV1(Tx(Flagged(id).id), Flagged(id).moneyFlew)
        BY <4>2, <4>3, Zenon DEF MoneyFlewV1
      <4> QED BY <4>1, <4>2, <4>4, Zenon
    <3> QED BY <3>3, <3>4, Zenon DEF GetTickApprovedTransactions
  <2>7. {id \in VotedIds : TransactionStatus(id)} = flew \ short
    <3>1. ASSUME NEW id \in VotedIds PROVE TransactionStatus(id) <=> id \in flew \ short
      <4>1. TransactionStatus(id) <=> MoneyFlewV1(Tx(id), id \in Flew)
        BY <2>4, Zenon DEF TransactionStatus, MoneyFlewV1
      <4> HIDE DEF flew, short
      <4> QED BY <2>3, <4>1, Zenon
    <3> HIDE DEF flew, short
    <3> QED BY <2>5, <3>1, Zenon
  <2>8. GetApprovedTickTransactionsV2 = {id \in flew : Tx(id).amount > 0}
    <3>1. ToSet(GetTickTransferTransactions) = {id \in VotedIds : Tx(id).amount > 0}
      BY <2>2, TransferTransactionsOfTick
    <3>2. GetApprovedTickTransactionsV2 = {id \in {x \in VotedIds : Tx(x).amount > 0} : MoneyFlewInfo(id)}
      BY <3>1, Zenon DEF GetApprovedTickTransactionsV2
    <3> QED BY <2>4, <3>2, Zenon
  <2> QED BY <2>6, <2>7, <2>8, Zenon
<1> QED BY <1>1, ContentInvariant, StatusInvariant, PTL
=============================================================================
