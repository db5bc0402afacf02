------------------------------ MODULE Gateway ------------------------------
(***************************************************************************)
(* An HTTP request on its way to a handler: the generated gateway          *)
(* (protobuff/archive.pb.gw.go) picks the method whose pattern matches the *)
(* path, decodes path and query into the method's message, and sends that  *)
(* to the gRPC server over a connection, where the bounds check sees it    *)
(* before the handler.                                                     *)
(*                                                                         *)
(* A text of the request is a string; what number it denotes is given by   *)
(* the constants Unsigned and Signed.                                      *)
(***************************************************************************)
EXTENDS Integers, Sequences, FiniteSets, Functions, ArchiveService

CONSTANTS
  Texts,           \* texts for path segments and query values
  Unsigned,        \* the texts that denote unsigned numbers, and which
  Signed,          \* the texts that denote signed numbers, and which
  MaxUint32,       \* the largest uint32, scaled down
  QueryNames,      \* names of query parameters
  Prefixes,        \* first segments a client may use; "" stands for none
  AvailableTicks   \* ticks the bounds check lets through

ASSUME GatewayAssumption ==
  /\ DOMAIN Unsigned \subseteq Texts /\ Range(Unsigned) \subseteq Nat
  /\ DOMAIN Signed \subseteq Texts   /\ Range(Signed) \subseteq Int
  /\ MaxUint32 \in Nat
  /\ AvailableTicks \subseteq 0 .. MaxUint32

VARIABLES
  request,    \* the request: segments of the path and the query
  stage,      \* where it is
  method,     \* the method it was dispatched to
  message,    \* the fields of the message
  response    \* the gRPC code behind the HTTP status

gatewayVars == <<request, stage, method, message, response>>

-----------------------------------------------------------------------------
(* Routes: the pattern of each method, by the parameter of its path. *)

TickRoutesV2 ==
  [GetTickQuorumDataV2   |-> <<"v2", "ticks", "tick_number", "quorum-data">>,
   GetTickChainHashV2    |-> <<"v2", "ticks", "tick_number", "hash">>,
   GetTickStoreHashV2    |-> <<"v2", "ticks", "tick_number", "store-hash">>,
   GetTickTransactionsV2 |-> <<"v2", "ticks", "tick_number", "transactions">>]
TxRoutesV2 ==
  [GetTransactionV2         |-> <<"v2", "transactions", "tx_id">>,
   GetSendManyTransactionV2 |-> <<"v2", "transactions", "tx_id", "sendmany">>]
IdentityRoutesV2 ==
  [GetIdentityTransfersInTickRangeV2 |-> <<"v2", "identities", "identity", "transfers">>]
EpochRoutesV2 ==
  [GetEpochTickListV2 |-> <<"v2", "epochs", "epoch", "ticks">>,
   GetEmptyTickListV2 |-> <<"v2", "epochs", "epoch", "empty-ticks">>]
TickRoutesV1 ==
  [GetTickData                 |-> <<"v1", "ticks", "tick_number", "tick-data">>,
   GetQuorumTickData           |-> <<"v1", "ticks", "tick_number", "quorum-tick-data">>,
   GetTickTransactions         |-> <<"v1", "ticks", "tick_number", "transactions">>,
   GetTickTransferTransactions |-> <<"v1", "ticks", "tick_number", "transfer-transactions">>,
   GetTickApprovedTransactions |-> <<"v1", "ticks", "tick_number", "approved-transactions">>,
   GetChainHash                |-> <<"v1", "ticks", "tick_number", "chain-hash">>,
   GetStoreHash                |-> <<"v1", "ticks", "tick_number", "store-hash">>]

\* Mutant: the status of a transaction under the path of the transaction.
TxRoutesV1Shared ==
  [GetTransaction       |-> <<"v1", "transactions", "tx_id">>,
   GetTransactionStatus |-> <<"v1", "transactions", "tx_id">>]

TxRoutesV1 ==
  [GetTransaction       |-> <<"v1", "transactions", "tx_id">>,
   GetTransactionStatus |-> <<"v1", "tx-status", "tx_id">>]
IdentityRoutesV1 ==
  [GetTransferTransactionsPerTick |->
     <<"v1", "identities", "identity", "transfer-transactions">>]
EpochRoutesV1 == [GetComputors |-> <<"v1", "epochs", "epoch", "computors">>]
PlainRoutesV1 ==
  [GetStatus      |-> <<"v1", "status">>,
   GetLatestTick  |-> <<"v1", "latestTick">>,
   GetHealthCheck |-> <<"v1", "healthcheck">>]

Tables ==
  {TickRoutesV2, TxRoutesV2, IdentityRoutesV2, EpochRoutesV2,
   TickRoutesV1, TxRoutesV1, IdentityRoutesV1, EpochRoutesV1, PlainRoutesV1}

Pattern(m) == (CHOOSE table \in Tables : m \in DOMAIN table)[m]

\* The names in a pattern that stand for a parameter.
Parameters == {"tick_number", "tx_id", "identity", "epoch"}

Matches(pattern, path) ==
  /\ Len(pattern) = Len(path)
  /\ \A k \in DOMAIN pattern : pattern[k] \in Parameters \/ pattern[k] = path[k]

Matching(path) == {m \in AllMethods : Matches(Pattern(m), path)}

\* The parameter of a method's path is its third segment.
HasParameter(m) == Len(Pattern(m)) > 2

-----------------------------------------------------------------------------
(* Messages: the fields a query may fill and their types. *)

TickTransactionsFieldsV2 ==
  [tick_number |-> "uint32", transfers |-> "bool", approved |-> "bool"]
TransfersFieldsV2 ==
  [identity |-> "string", start_tick |-> "uint32", end_tick |-> "uint32",
   sc_only |-> "bool", desc |-> "bool", page |-> "uint32", page_size |-> "uint32"]
EmptyTickListFieldsV2 ==
  [epoch |-> "uint32", page |-> "int32", page_size |-> "int32"]
EpochTickListFieldsV2 ==
  [epoch |-> "uint32", page |-> "int32", page_size |-> "int32", desc |-> "bool"]
TransfersFields ==
  [identity |-> "string", start_tick |-> "uint32", end_tick |-> "uint32"]

\* The pattern names the field that its parameter fills.
ParameterField(m) == Pattern(m)[3]

\* The fields of a method's message; most have one, that of the path.
Fields(m) ==
  CASE m = "GetTickTransactionsV2"             -> TickTransactionsFieldsV2
    [] m = "GetIdentityTransfersInTickRangeV2" -> TransfersFieldsV2
    [] m = "GetEmptyTickListV2"                -> EmptyTickListFieldsV2
    [] m = "GetEpochTickListV2"                -> EpochTickListFieldsV2
    [] m = "GetTransferTransactionsPerTick"    -> TransfersFields
    [] OTHER ->
         IF ~HasParameter(m) THEN [f \in {} |-> "string"]
         ELSE [f \in {ParameterField(m)} |->
                 IF f \in {"tick_number", "epoch"} THEN "uint32" ELSE "string"]

\* Only these methods read the query.
QueryMethods ==
  {"GetTickTransactionsV2", "GetIdentityTransfersInTickRangeV2", "GetEmptyTickListV2",
   "GetEpochTickListV2", "GetTransferTransactionsPerTick"}

True  == {"true", "1"}
False == {"false", "0"}

\* strconv for a field's type: does the text denote a value, and which?
Valid(type, text) ==
  CASE type = "uint32" -> text \in DOMAIN Unsigned /\ Unsigned[text] <= MaxUint32
    [] type = "int32"  -> /\ text \in DOMAIN Signed
                          /\ 2 * Signed[text] \in -MaxUint32 - 1 .. MaxUint32
    [] type = "bool"   -> text \in True \cup False
    [] type = "string" -> TRUE
Parse(type, text) ==
  CASE type = "uint32" -> Unsigned[text]
    [] type = "int32"  -> Signed[text]
    [] type = "bool"   -> text \in True
    [] type = "string" -> text

ZeroValue(type) ==
  CASE type \in {"uint32", "int32"} -> 0
    [] type = "bool"                -> FALSE
    [] type = "string"              -> ""

-----------------------------------------------------------------------------
(* Steps of a request. *)

NoRequest == [path |-> <<>>, query |-> [q \in {} |-> ""]]
NoMessage == [f \in {} |-> 0]

Init ==
  /\ request = NoRequest /\ stage = "idle" /\ method = "none"
  /\ message = NoMessage /\ response = "none"

\* Paths a client may use: those of the methods, with any text for the
\* parameter, under a version of the API or under none.
Under(prefix, path) == IF prefix = "" THEN Tail(path) ELSE [path EXCEPT ![1] = prefix]

PathsOf(m) ==
  IF HasParameter(m) THEN {[Pattern(m) EXCEPT ![3] = text] : text \in Texts} ELSE {Pattern(m)}

Paths == {Under(prefix, path) : prefix \in Prefixes, path \in UNION {PathsOf(m) : m \in AllMethods}}

\* At most two query parameters.
Queries == UNION {[names -> Texts] : names \in {s \in SUBSET QueryNames : Cardinality(s) <= 2}}

Get ==
  /\ stage = "idle"
  /\ \E path \in Paths, query \in Queries : request' = [path |-> path, query |-> query]
  /\ stage' = "received"
  /\ UNCHANGED <<method, message, response>>

Respond(code) == stage' = "responded" /\ response' = code

\* The mux calls the handler of a pattern that matches; without one it
\* answers 404 itself.
Dispatch ==
  /\ stage = "received"
  /\ UNCHANGED <<request, message>>
  /\ \/ /\ \E m \in Matching(request.path) : method' = m
        /\ stage' = "dispatched"
        /\ UNCHANGED response
     \/ /\ Matching(request.path) = {}
        /\ Respond("NoRoute")
        /\ UNCHANGED method

PathField(m) == IF HasParameter(m) THEN {ParameterField(m)} ELSE {}

\* Mutant: the query may fill the field of the path.
QueryFieldsUnfiltered(m) == IF m \in QueryMethods THEN DOMAIN Fields(m) ELSE {}

\* The filter keeps the query from the field that the path has filled;
\* parameters that are no field of the message are ignored.
QueryFields(m) == IF m \in QueryMethods THEN DOMAIN Fields(m) \ PathField(m) ELSE {}

FromQuery(m) == QueryFields(m) \cap DOMAIN request.query

TextOf(f, m) == IF f \in FromQuery(m) THEN request.query[f] ELSE request.path[3]

Decodable(m) ==
  \A f \in PathField(m) \cup FromQuery(m) : Valid(Fields(m)[f], TextOf(f, m))

\* The request function of the method: a text of the wrong type or size is an
\* invalid argument, fields that the request does not name keep their zero.
Decode ==
  /\ stage = "dispatched"
  /\ UNCHANGED <<request, method>>
  /\ IF Decodable(method)
     THEN /\ message' = [f \in DOMAIN Fields(method) |->
               IF f \in PathField(method) \cup FromQuery(method)
               THEN Parse(Fields(method)[f], TextOf(f, method))
               ELSE ZeroValue(Fields(method)[f])]
          /\ stage' = "sent"
          /\ UNCHANGED response
     ELSE Respond("InvalidArgument") /\ UNCHANGED message

\* Mutant: the gateway calls the server without the connection.
InterceptNothing ==
  /\ stage = "sent"
  /\ UNCHANGED <<request, method, message>>
  /\ stage' = "handled"
  /\ UNCHANGED response

\* The server of the connection: the bounds check, then the handler.
Intercept ==
  /\ stage = "sent"
  /\ UNCHANGED <<request, method, message>>
  /\ IF RequestType(method) \in CheckedRequests /\ message.tick_number \notin AvailableTicks
     THEN \E code \in {"FailedPrecondition", "OutOfRange"} : Respond(code)
     ELSE stage' = "handled" /\ UNCHANGED response

Handle ==
  /\ stage = "handled"
  /\ \E code \in {"OK", "NotFound", "Internal"} : Respond(code)
  /\ UNCHANGED <<request, method, message>>

Close ==
  /\ stage = "responded"
  /\ request' = NoRequest /\ stage' = "idle" /\ method' = "none"
  /\ message' = NoMessage /\ response' = "none"

Next == Get \/ Dispatch \/ Decode \/ Intercept \/ Handle \/ Close

Spec == Init /\ [][Next]_gatewayVars

-----------------------------------------------------------------------------
\* One method only can serve a path, so the order of registration and the
\* texts that clients put into a path do not decide which one does.
RouteUnambiguous ==
  stage \notin {"idle", "received", "responded"} => Matching(request.path) = {method}

\* The handler is asked for the tick, epoch, transaction or identity of the
\* path, with whatever query the request came.
PathValueServed ==
  stage = "handled" /\ HasParameter(method) =>
    LET f == ParameterField(method)
    IN message[f] = Parse(Fields(method)[f], request.path[3])

\* The bounds check stands before the handlers for HTTP requests as well: no
\* handler is asked for a tick that is not available.
GatewayChecked ==
  stage = "handled" /\ "tick_number" \in DOMAIN message =>
    message.tick_number \in AvailableTicks

\* The documented requests, paths without a version, are served.
DocumentedPaths ==
  UNION {{Under("", path) : path \in PathsOf(m)} :
           m \in {"GetStatus", "GetHealthCheck", "GetLatestTick", "GetTickData",
                  "GetQuorumTickData", "GetTickTransactions", "GetTickTransferTransactions",
                  "GetTickApprovedTransactions", "GetTransaction", "GetTransactionStatus",
                  "GetTransferTransactionsPerTick", "GetComputors"}}

DocumentedRoutesServed ==
  stage = "responded" /\ request.path \in DocumentedPaths => response # "NoRoute"
=============================================================================
