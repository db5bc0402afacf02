----------------------------- MODULE TickContent -----------------------------
(***************************************************************************)
(* What is archived of one tick, attempt after attempt, from replies of    *)
(* peers that order, repeat, omit or add transactions as they like: the    *)
(* checks of the tick data, the transactions and the transaction status,   *)
(* their conversion into the stored records, and the answers built from    *)
(* these records.                                                          *)
(*                                                                         *)
(* A digest is the hashed content itself, so a transaction's digest, its   *)
(* id and its key are one number; digests compare as numbers.  A slot of   *)
(* the tick data is a digest, or 0 when it is not used.                    *)
(***************************************************************************)
EXTENDS Integers, SequencesExt

CONSTANTS
  Txs,              \* transactions: [id, source, dest, amount, payload, signed]
  VotedSlots,       \* the digest slots of the tick data that was voted on
  Flew,             \* ids of the transactions that moved their amount
  StatusLists,      \* digest lists with which peers answer a status request
  TxReplies,        \* transaction lists (of ids) with which peers answer
  TickEpoch,        \* epoch of the tick
  ByteBits          \* 8: bits of a byte of the money-flew flags

NoEpoch == 65535

IdsOf(txs) == {tx.id : tx \in txs}

ASSUME ContentAssumption ==
  /\ \A tx \in Txs : tx.id \in Nat \ {0} /\ tx.amount \in Nat
  /\ \A a, b \in Txs : a.id = b.id => a = b
  /\ VotedSlots \in Seq(IdsOf(Txs) \cup {0})
  /\ \A list \in TxReplies : list \in Seq(IdsOf(Txs))
  /\ \A list \in StatusLists : list \in Seq(Nat)
  /\ TickEpoch \in 1 .. NoEpoch - 1
  /\ ByteBits \in Nat \ {0}

\* The tick data that was voted on lists no transaction twice.
DistinctSlots ==
  \A j, k \in DOMAIN VotedSlots :
    (VotedSlots[j] # 0 /\ VotedSlots[j] = VotedSlots[k]) => j = k

\* A status list with every transaction of the tick.
CompleteList(list) == ToSet(VotedSlots) \ {0} \subseteq ToSet(list)

VARIABLES
  aligned,       \* digest of the aligned votes: the tick data, or that it is empty
  firstEmpty,    \* the first vote of the attempt has a zero digest
  statusAddon,   \* ~disableStatusAddon
  pc,            \* next step of the attempt
  local,         \* the validated replies of the attempt
  tickData, transactions, transfers, tickStatus, txStatus, storeDigest  \* records

records == <<tickData, transactions, transfers, tickStatus, txStatus, storeDigest>>
contentVars == <<aligned, firstEmpty, statusAddon, pc, local, records>>

Tx(id) == CHOOSE tx \in Txs : tx.id = id
Identities == {tx.source : tx \in Txs} \cup {tx.dest : tx \in Txs}

\* What a round of an appending loop adds.
If(condition, e) == IF condition THEN <<e>> ELSE <<>>

-----------------------------------------------------------------------------
(* tick.Validate *)

Data(slots, epoch, signature) == [slots |-> slots, epoch |-> epoch, signature |-> signature]

NoSlots         == [k \in DOMAIN VotedSlots |-> 0]
EmptyData       == Data(NoSlots, 0, "none")
ZeroDigest      == EmptyData
VotedDigest     == Data(VotedSlots, TickEpoch, "valid")

\* TickData.IsEmpty
IsEmpty(data) == data = EmptyData

\* The epoch is completed in a copy: the record keeps the epoch of the reply.
ValidateTickData(data, txDigest) ==
  LET known    == IF data.epoch = NoEpoch THEN [data EXCEPT !.epoch = 0] ELSE data
      complete == IF known.epoch = 0 THEN [known EXCEPT !.epoch = TickEpoch] ELSE known
  IN \/ IsEmpty(known) /\ txDigest = ZeroDigest
     \/ /\ complete.signature = "valid"
        /\ complete = txDigest

\* The stored form: no record content for an empty tick, else the used slots.
TickDataToProto(data) ==
  IF IsEmpty(data) THEN [ids |-> <<>>, epoch |-> 0]
  ELSE [ids   |-> FlattenSeq([k \in DOMAIN data.slots |->
                               If(data.slots[k] # 0, data.slots[k])]),
        epoch |-> data.epoch]

-----------------------------------------------------------------------------
(* tx.Validate and the transfer lists *)

CreateTxDigestsMap(data) == ToSet(data.slots) \ {0}

\* Mutant: matched digests stay in the map, which need not be empty at the end.
ValidateTransactionsOfMap(replied, digestsMap) ==
  \A k \in DOMAIN replied : replied[k] \in digestsMap /\ Tx(replied[k]).signed

\* Every transaction must be in the map, is removed from it, and none remains.
ValidateTransactions(replied, digestsMap) ==
  /\ \A k \in DOMAIN replied :
       /\ replied[k] \in digestsMap \ {replied[j] : j \in 1 .. k - 1}
       /\ Tx(replied[k]).signed
  /\ digestsMap \ ToSet(replied) = {}

\* Without digests the replied transactions are ignored.
ValidTxs(replied, data) == IF CreateTxDigestsMap(data) = {} THEN <<>> ELSE replied

ValidateTxs(replied, data) ==
  \/ CreateTxDigestsMap(data) = {}
  \/ ValidateTransactions(replied, CreateTxDigestsMap(data))

RemoveNonTransferTransactions(txs) ==
  FlattenSeq([k \in DOMAIN txs |-> If(Tx(txs[k]).amount # 0, txs[k])])

\* Mutant: a transfer is listed for its source only.
TransfersOfSource(identity, txs) ==
  LET transferTxs == RemoveNonTransferTransactions(txs)
  IN FlattenSeq([k \in DOMAIN transferTxs |->
       If(Tx(transferTxs[k]).source = identity, transferTxs[k])])

\* createTransferTransactionsIdentityMap: once as destination, once as source.
TransfersOfIdentity(identity, txs) ==
  LET transferTxs == RemoveNonTransferTransactions(txs)
  IN FlattenSeq([k \in DOMAIN transferTxs |->
       If(Tx(transferTxs[k]).dest = identity, transferTxs[k])
         \o If(Tx(transferTxs[k]).source = identity, transferTxs[k])])

-----------------------------------------------------------------------------
(* txstatus.Validate *)

\* A byte is the function of its bits, bit 0 the least significant one.
Bits == 0 .. ByteBits - 1

ShiftRight(byte, n) == [bit \in Bits |-> bit + n \in Bits /\ byte[bit + n]]

\* The lowest bit of the shifted byte.
GetNthBit(byte, bitIndex) == ShiftRight(byte, bitIndex)[0]

\* Mutant: the bits of a byte are counted from its most significant one.
MoneyFlewFromHighBits(bytes, digestIndex) ==
  GetNthBit(bytes[digestIndex \div ByteBits], (ByteBits - 1) - (digestIndex % ByteBits))

\* Indices from 0, as in the arrays.
GetMoneyFlewFromBits(bytes, digestIndex) ==
  GetNthBit(bytes[digestIndex \div ByteBits], digestIndex % ByteBits)

\* The flags as a node packs them: bit k for the digest at index k.
PackedFlags(digests) ==
  [pos \in 0 .. Len(digests) \div ByteBits |->
     [bit \in Bits |->
        LET index == pos * ByteBits + bit
        IN index < Len(digests) /\ digests[index + 1] \in Flew]]

CreateTxsIdMap(txs) == ToSet(txs)

\* The statuses, in the node's order, of the digests that are in the tick.
StatusToProto(txs, digests) ==
  FlattenSeq([k \in DOMAIN digests |->
    If(digests[k] \in CreateTxsIdMap(txs),
       [id        |-> digests[k],
        moneyFlew |-> GetMoneyFlewFromBits(PackedFlags(digests), k - 1)])])

\* With the addon disabled the status is made up without any digest.
StatusReplies == IF statusAddon THEN StatusLists ELSE {<<>>}

-----------------------------------------------------------------------------
(* The store digest: the transaction digests sorted, then the statuses as  *)
(* they are.                                                               *)

SortedDigests(digests) == SetToSortSeq(digests, <)

\* Mutant: the digests are written as received.
StoreContentUnsorted(txs, statuses) == <<txs, statuses>>

StoreContent(txs, statuses) == <<SortedDigests(ToSet(txs)), statuses>>

-----------------------------------------------------------------------------
(* Attempts. *)

NoRecord  == "none"
NoLocal   == [data |-> EmptyData, txs |-> <<>>, statuses |-> <<>>]

Init ==
  /\ aligned \in {VotedDigest, ZeroDigest}
  /\ firstEmpty = FALSE
  /\ statusAddon \in BOOLEAN
  /\ pc = "start"
  /\ local = NoLocal
  /\ tickData = NoRecord
  /\ transactions = {}
  /\ transfers = [identity \in Identities |-> <<>>]
  /\ tickStatus = NoRecord
  /\ txStatus = [id \in {} |-> FALSE]
  /\ storeDigest = NoRecord

\* The quorum's digest is the same in every attempt at the tick.
Go(step) == pc' = step /\ UNCHANGED <<aligned, statusAddon>>

DataReplies ==
  [slots : {VotedSlots, NoSlots}, epoch : {0, TickEpoch, NoEpoch},
   signature : {"none", "invalid", "valid"}]

\* The votes come in another order, from another peer, in every attempt, and the
\* first of them need not be an aligned one.  When its digest is zero, nothing is
\* fetched.
NothingToFetch ==
  /\ pc = "start"
  /\ firstEmpty' = TRUE
  /\ local' = NoLocal
  /\ Go("tickData")
  /\ UNCHANGED records

\* The first vote has a digest, and the peer's replies pass the checks against
\* the aligned votes; any other replies end the attempt.
ValidateReplies ==
  /\ pc = "start"
  /\ firstEmpty' = FALSE
  /\ \E data \in DataReplies : \E replied \in TxReplies : \E digests \in StatusReplies :
       /\ ValidateTickData(data, aligned)
       /\ ValidateTxs(replied, data)
       /\ LET txs == ValidTxs(replied, data)
          IN local' = [data |-> data, txs |-> txs, statuses |-> StatusToProto(txs, digests)]
  /\ Go("tickData")
  /\ UNCHANGED records

StoreTickData ==
  /\ pc = "tickData"
  /\ tickData' = TickDataToProto(local.data)
  /\ Go("transactions")
  /\ UNCHANGED <<firstEmpty, local, transactions, transfers, tickStatus, txStatus, storeDigest>>

\* One batch with a key per transaction.
StoreTransactions ==
  /\ pc = "transactions"
  /\ transactions' = transactions \cup ToSet(local.txs)
  /\ Go("transfers")
  /\ UNCHANGED <<firstEmpty, local, tickData, transfers, tickStatus, txStatus, storeDigest>>

\* One write per identity with transfers.
StoreTransfers ==
  /\ pc = "transfers"
  /\ \E some \in SUBSET Identities :
       /\ transfers' = [identity \in Identities |->
                          IF identity \in some /\ TransfersOfIdentity(identity, local.txs) # <<>>
                          THEN TransfersOfIdentity(identity, local.txs)
                          ELSE transfers[identity]]
       /\ \/ some = Identities /\ Go("status") /\ UNCHANGED local
          \/ Go("start") /\ local' = NoLocal      \* a write failed
  /\ UNCHANGED <<firstEmpty, tickData, transactions, tickStatus, txStatus, storeDigest>>

\* The status that a batch leaves for a transaction: the last one written.
LastStatus(statuses, id) ==
  statuses[Max({k \in DOMAIN statuses : statuses[k].id = id})].moneyFlew

\* One batch: the statuses of the tick and a key per status.
StoreStatus ==
  /\ pc = "status"
  /\ tickStatus' = local.statuses
  /\ LET ids == {status.id : status \in ToSet(local.statuses)}
     IN txStatus' = [id \in DOMAIN txStatus \cup ids |->
                       IF id \in ids THEN LastStatus(local.statuses, id) ELSE txStatus[id]]
  /\ Go("digest")
  /\ UNCHANGED <<firstEmpty, local, tickData, transactions, transfers, storeDigest>>

StoreDigest ==
  /\ pc = "digest"
  /\ storeDigest' = StoreContent(local.txs, local.statuses)
  /\ Go("stored")
  /\ UNCHANGED <<firstEmpty, local, tickData, transactions, transfers, tickStatus, txStatus>>

\* The tick becomes the last processed one.
Process ==
  /\ pc = "stored"
  /\ local' = NoLocal
  /\ Go("processed")
  /\ UNCHANGED <<firstEmpty, records>>

\* A failed write or a crash before that: the tick is attempted again.
Retry ==
  /\ pc \notin {"start", "processed"}
  /\ local' = NoLocal
  /\ Go("start")
  /\ UNCHANGED <<firstEmpty, records>>

Next ==
  \/ NothingToFetch \/ ValidateReplies \/ StoreTickData \/ StoreTransactions
  \/ StoreTransfers \/ StoreStatus     \/ StoreDigest   \/ Process \/ Retry

Spec == Init /\ [][Next]_contentVars

-----------------------------------------------------------------------------
(* Answers from the records. *)

Processed == pc = "processed"

\* Send-many transactions as v1 recognises them; the payload's total must be
\* covered by the amount.
IsSendMany(tx)      == tx.payload.kind = "sendMany" /\ tx.payload.size = 1000
RecomputeSendManyMoneyFlew(tx) == ~(tx.amount < tx.payload.total)

\* getTransactionInfo: no status reads as no money flew.
MoneyFlewInfo(id) == id \in DOMAIN txStatus /\ txStatus[id]

MoneyFlewV1(tx, flew) == flew /\ (IsSendMany(tx) => RecomputeSendManyMoneyFlew(tx))

\* GetTransactionStatus answers for transactions with an amount.
TransactionStatus(id) == MoneyFlewV1(Tx(id), MoneyFlewInfo(id))

GetTickTransactions == tickData.ids

GetTickTransferTransactions ==
  FlattenSeq([k \in DOMAIN tickData.ids |->
    If(Tx(tickData.ids[k]).amount > 0, tickData.ids[k])])

GetTickApprovedTransactions ==
  {status.id : status \in {s \in ToSet(tickStatus) :
                             MoneyFlewV1(Tx(s.id), s.moneyFlew)}}

GetApprovedTickTransactionsV2 ==
  {id \in ToSet(GetTickTransferTransactions) : MoneyFlewInfo(id)}

-----------------------------------------------------------------------------
VotedIds == IF aligned = ZeroDigest THEN {} ELSE ToSet(VotedSlots) \ {0}

\* Whether the tick is empty is read from the first vote alone: an attempt whose
\* first vote is empty archives an empty tick also where the quorum voted for
\* tick data (run empty_by_first_vote).  What follows is about the other ticks.
FirstVoteAgrees == firstEmpty => aligned = ZeroDigest

\* ids lists transactions in the order in which the tick data has them.
InVotedOrder(ids) ==
  \A m, n \in DOMAIN ids : m < n =>
    \E j, k \in DOMAIN VotedSlots :
      j < k /\ VotedSlots[j] = ids[m] /\ VotedSlots[k] = ids[n]

\* Whatever the peers of the attempts replied, no transaction is ever stored
\* that the quorum did not vote on, and a processed tick has exactly those it
\* voted on, each of them stored, and listed once in the order of the tick data;
\* unless an empty first vote decided that there are none.
ArchivedAsVoted ==
  /\ transactions \subseteq VotedIds
  /\ (Processed /\ FirstVoteAgrees) =>
       /\ transactions = VotedIds
       /\ ToSet(GetTickTransactions) = VotedIds
       /\ IsInjective(GetTickTransactions)
       /\ InVotedOrder(GetTickTransactions)

\* The transfers of an identity are the processed tick's transactions with an
\* amount that it sent or received, also when other attempts wrote some of the
\* lists.
TransfersExact ==
  (Processed /\ FirstVoteAgrees) =>
    \A identity \in Identities :
      ToSet(transfers[identity]) =
        {id \in VotedIds : Tx(id).amount # 0 /\ identity \in {Tx(id).source, Tx(id).dest}}

\* The money-flew answers of a processed tick are the network's flags, per
\* transaction and per tick, however the nodes order the digests of their
\* status replies and whatever other digests they list.  v1 takes back the
\* send-many transactions that do not cover their payload, v2 does not.
ApprovedExact ==
  (Processed /\ FirstVoteAgrees /\ statusAddon) =>
    LET flew  == {id \in VotedIds : id \in Flew}
        short == {id \in flew : IsSendMany(Tx(id)) /\ Tx(id).amount < Tx(id).payload.total}
    IN /\ GetTickApprovedTransactions = flew \ short
       /\ {id \in VotedIds : TransactionStatus(id)} = flew \ short
       /\ GetApprovedTickTransactionsV2 = {id \in flew : Tx(id).amount > 0}

\* The store digest of a processed tick is that of the voted transactions and of
\* the stored statuses: it does not depend on the order in which a peer sent the
\* transactions (it does depend on the order of that peer's statuses).
StoreDigestCanonical ==
  (Processed /\ FirstVoteAgrees) => storeDigest = <<SortedDigests(VotedIds), tickStatus>>

\* An identity's transfers list each transaction once.
TransferListedOnce ==
  Processed => \A identity \in Identities : IsInjective(transfers[identity])

\* The approved transactions are those whose status says that money flew.
ApprovedAgreesWithStatus ==
  (Processed /\ FirstVoteAgrees) =>
    GetTickApprovedTransactions = {id \in VotedIds : TransactionStatus(id)}
=============================================================================
