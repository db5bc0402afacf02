--------------------------- MODULE ArchiveService ---------------------------
(***************************************************************************)
(* The gRPC service of the archiver as generated from archive.proto: its   *)
(* methods, the message each of them takes, and the messages the bounds    *)
(* check of rpc/middleware.go looks into.                                  *)
(***************************************************************************)

(* Methods.  The generated gRPC code decodes a method's request type and    *)
(* passes it to the interceptor; the interceptor looks at the type only.    *)

RequestTypeV2 ==
  [GetTickQuorumDataV2               |-> "GetTickRequestV2",
   GetTickChainHashV2                |-> "GetTickRequestV2",
   GetTickStoreHashV2                |-> "GetTickRequestV2",
   GetTickTransactionsV2             |-> "GetTickTransactionsRequestV2",
   GetTransactionV2                  |-> "GetTransactionRequestV2",
   GetSendManyTransactionV2          |-> "GetSendManyTransactionRequestV2",
   GetIdentityTransfersInTickRangeV2 |-> "GetTransferTransactionsPerTickRequestV2",
   GetEpochTickListV2                |-> "GetEpochTickListRequestV2"]

RequestTypeOfTick ==
  [GetEmptyTickListV2          |-> "GetEmptyTickListRequestV2",
   GetTickData                 |-> "GetTickDataRequest",
   GetQuorumTickData           |-> "GetQuorumTickDataRequest",
   GetTickTransactions         |-> "GetTickTransactionsRequest",
   GetTickTransferTransactions |-> "GetTickTransactionsRequest",
   GetTickApprovedTransactions |-> "GetTickApprovedTransactionsRequest",
   GetChainHash                |-> "GetChainHashRequest",
   GetStoreHash                |-> "GetChainHashRequest"]

RequestTypeOther ==
  [GetTransaction                 |-> "GetTransactionRequest",
   GetTransactionStatus           |-> "GetTransactionStatusRequest",
   GetTransferTransactionsPerTick |-> "GetTransferTransactionsPerTickRequest",
   GetComputors                   |-> "GetComputorsRequest",
   GetStatus                      |-> "Empty",
   GetLatestTick                  |-> "Empty",
   GetHealthCheck                 |-> "Empty"]

RequestType(m) ==
  IF m \in DOMAIN RequestTypeV2 THEN RequestTypeV2[m]
  ELSE IF m \in DOMAIN RequestTypeOfTick THEN RequestTypeOfTick[m]
  ELSE RequestTypeOther[m]

\* The cases of the interceptor's type switch.
CheckedRequests ==
  {"GetTickRequestV2", "GetTickTransactionsRequest", "GetTickDataRequest",
   "GetQuorumTickDataRequest", "GetTickApprovedTransactionsRequest",
   "GetChainHashRequest", "GetTickTransactionsRequestV2"}

\* Methods whose request names a tick number.
TickMethods ==
  {"GetTickQuorumDataV2", "GetTickChainHashV2", "GetTickStoreHashV2",
   "GetTickTransactionsV2"} \cup (DOMAIN RequestTypeOfTick \ {"GetEmptyTickListV2"})
TxMethods ==
  {"GetTransaction", "GetTransactionStatus", "GetTransactionV2",
   "GetSendManyTransactionV2"}
IdentityMethods ==
  {"GetTransferTransactionsPerTick", "GetIdentityTransfersInTickRangeV2"}
EpochMethods == {"GetComputors", "GetEpochTickListV2", "GetEmptyTickListV2"}

AllMethods ==
  DOMAIN RequestTypeV2 \cup DOMAIN RequestTypeOfTick \cup DOMAIN RequestTypeOther
=============================================================================
