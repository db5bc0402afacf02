--------------------------- MODULE GatewayProofs ---------------------------
(***************************************************************************)
(* Proofs about the gateway, for every text that clients put into a path   *)
(* or a query, every set of query parameters, every width of the numbers   *)
(* and every set of available ticks.                                       *)
(*                                                                         *)
(* The routes are a table of patterns: Route gives the pattern of each     *)
(* method and OneRoute shows that no path matches two of them.  Then       *)
(* GatewayInv says what each stage of a request has established.           *)
(***************************************************************************)
EXTENDS Gateway, TLAPS

-----------------------------------------------------------------------------
(* Routes. *)

\* The methods of each table of routes.
LEMMA TableDomains ==
  /\ DOMAIN TickRoutesV2 = {"GetTickQuorumDataV2", "GetTickChainHashV2", "GetTickStoreHashV2",
                            "GetTickTransactionsV2"}
  /\ DOMAIN TxRoutesV2 = {"GetTransactionV2", "GetSendManyTransactionV2"}
  /\ DOMAIN IdentityRoutesV2 = {"GetIdentityTransfersInTickRangeV2"}
  /\ DOMAIN EpochRoutesV2 = {"GetEpochTickListV2", "GetEmptyTickListV2"}
  /\ DOMAIN TickRoutesV1 = {"GetTickData", "GetQuorumTickData", "GetTickTransactions",
                            "GetTickTransferTransactions", "GetTickApprovedTransactions",
                            "GetChainHash", "GetStoreHash"}
  /\ DOMAIN TxRoutesV1 = {"GetTransaction", "GetTransactionStatus"}
  /\ DOMAIN IdentityRoutesV1 = {"GetTransferTransactionsPerTick"}
  /\ DOMAIN EpochRoutesV1 = {"GetComputors"}
  /\ DOMAIN PlainRoutesV1 = {"GetStatus", "GetLatestTick", "GetHealthCheck"}
BY DEF TickRoutesV2, TxRoutesV2, IdentityRoutesV2, EpochRoutesV2, TickRoutesV1, TxRoutesV1,
  IdentityRoutesV1, EpochRoutesV1, PlainRoutesV1

\* Every method has its pattern in one table.
LEMMA Route ==
  /\ \A table \in Tables : \A m \in DOMAIN table : Pattern(m) = table[m]
  /\ AllMethods = UNION {DOMAIN table : table \in Tables}
<1>1. ASSUME NEW m, NEW table \in Tables, NEW other \in Tables,
             m \in DOMAIN table, m \in DOMAIN other
      PROVE  table = other
  BY <1>1, TableDomains DEF Tables
<1>2. ASSUME NEW table \in Tables, NEW m \in DOMAIN table
      PROVE  Pattern(m) = table[m]
  <2>1. \A other \in Tables : m \in DOMAIN other => other = table
    BY <1>1
  <2>2. (CHOOSE other \in Tables : m \in DOMAIN other) = table
    BY <2>1
  <2> QED BY <2>2 DEF Pattern
<1>3. AllMethods = UNION {DOMAIN table : table \in Tables}
  <2>1. AllMethods =
          DOMAIN TickRoutesV2 \cup DOMAIN TxRoutesV2 \cup DOMAIN IdentityRoutesV2
          \cup DOMAIN EpochRoutesV2 \cup DOMAIN TickRoutesV1 \cup DOMAIN TxRoutesV1
          \cup DOMAIN IdentityRoutesV1 \cup DOMAIN EpochRoutesV1 \cup DOMAIN PlainRoutesV1
    BY TableDomains DEF AllMethods, RequestTypeV2, RequestTypeOfTick, RequestTypeOther
  <2> QED BY <2>1 DEF Tables
<1> QED BY <1>2, <1>3

\* A path by its segments.
Length(p) == Len(p)
Segment(p, k) == p[k]

IsPath2(p, a, b) ==
  Length(p) = 2 /\ DOMAIN p = 1 .. 2 /\ Segment(p, 1) = a /\ Segment(p, 2) = b
IsPath3(p, a, b, c) ==
  /\ Length(p) = 3 /\ DOMAIN p = 1 .. 3
  /\ Segment(p, 1) = a /\ Segment(p, 2) = b /\ Segment(p, 3) = c
IsPath4(p, a, b, c, d) ==
  /\ Length(p) = 4 /\ DOMAIN p = 1 .. 4
  /\ Segment(p, 1) = a /\ Segment(p, 2) = b /\ Segment(p, 3) = c /\ Segment(p, 4) = d

\* The segments of each pattern.
LEMMA PatternSegments ==
  /\ IsPath4(Pattern("GetTickQuorumDataV2"), "v2", "ticks", "tick_number", "quorum-data")
  /\ IsPath4(Pattern("GetTickChainHashV2"), "v2", "ticks", "tick_number", "hash")
  /\ IsPath4(Pattern("GetTickStoreHashV2"), "v2", "ticks", "tick_number", "store-hash")
  /\ IsPath4(Pattern("GetTickTransactionsV2"), "v2", "ticks", "tick_number", "transactions")
  /\ IsPath3(Pattern("GetTransactionV2"), "v2", "transactions", "tx_id")
  /\ IsPath4(Pattern("GetSendManyTransactionV2"), "v2", "transactions", "tx_id", "sendmany")
  /\ IsPath4(Pattern("GetIdentityTransfersInTickRangeV2"), "v2", "identities", "identity", "transfers")
  /\ IsPath4(Pattern("GetEpochTickListV2"), "v2", "epochs", "epoch", "ticks")
  /\ IsPath4(Pattern("GetEmptyTickListV2"), "v2", "epochs", "epoch", "empty-ticks")
  /\ IsPath4(Pattern("GetTickData"), "v1", "ticks", "tick_number", "tick-data")
  /\ IsPath4(Pattern("GetQuorumTickData"), "v1", "ticks", "tick_number", "quorum-tick-data")
  /\ IsPath4(Pattern("GetTickTransactions"), "v1", "ticks", "tick_number", "transactions")
  /\ IsPath4(Pattern("GetTickTransferTransactions"), "v1", "ticks", "tick_number", "transfer-transactions")
  /\ IsPath4(Pattern("GetTickApprovedTransactions"), "v1", "ticks", "tick_number", "approved-transactions")
  /\ IsPath4(Pattern("GetChainHash"), "v1", "ticks", "tick_number", "chain-hash")
  /\ IsPath4(Pattern("GetStoreHash"), "v1", "ticks", "tick_number", "store-hash")
  /\ IsPath3(Pattern("GetTransaction"), "v1", "transactions", "tx_id")
  /\ IsPath3(Pattern("GetTransactionStatus"), "v1", "tx-status", "tx_id")
  /\ IsPath4(Pattern("GetTransferTransactionsPerTick"), "v1", "identities", "identity", "transfer-transactions")
  /\ IsPath4(Pattern("GetComputors"), "v1", "epochs", "epoch", "computors")
  /\ IsPath2(Pattern("GetStatus"), "v1", "status")
  /\ IsPath2(Pattern("GetLatestTick"), "v1", "latestTick")
  /\ IsPath2(Pattern("GetHealthCheck"), "v1", "healthcheck")
<1>1. /\ \A m \in DOMAIN TickRoutesV2 : Pattern(m) = TickRoutesV2[m]
      /\ \A m \in DOMAIN TxRoutesV2 : Pattern(m) = TxRoutesV2[m]
      /\ \A m \in DOMAIN IdentityRoutesV2 : Pattern(m) = IdentityRoutesV2[m]
      /\ \A m \in DOMAIN EpochRoutesV2 : Pattern(m) = EpochRoutesV2[m]
      /\ \A m \in DOMAIN TickRoutesV1 : Pattern(m) = TickRoutesV1[m]
      /\ \A m \in DOMAIN TxRoutesV1 : Pattern(m) = TxRoutesV1[m]
      /\ \A m \in DOMAIN IdentityRoutesV1 : Pattern(m) = IdentityRoutesV1[m]
      /\ \A m \in DOMAIN EpochRoutesV1 : Pattern(m) = EpochRoutesV1[m]
      /\ \A m \in DOMAIN PlainRoutesV1 : Pattern(m) = PlainRoutesV1[m]
  BY Route DEF Tables
<1>2. /\ \A a, b : IsPath2(<<a, b>>, a, b)
      /\ \A a, b, c : IsPath3(<<a, b, c>>, a, b, c)
      /\ \A a, b, c, d : IsPath4(<<a, b, c, d>>, a, b, c, d)
  BY DEF IsPath2, IsPath3, IsPath4, Length, Segment
<1> QED BY <1>1, <1>2, TableDomains DEF TickRoutesV2, TxRoutesV2, IdentityRoutesV2,
  EpochRoutesV2, TickRoutesV1, TxRoutesV1, IdentityRoutesV1, EpochRoutesV1, PlainRoutesV1

\* A pattern has two to four segments, of which the third is the parameter.
LEMMA PatternShape ==
  \A m \in AllMethods :
    /\ \/ Length(Pattern(m)) = 2 /\ DOMAIN Pattern(m) = 1 .. 2
       \/ Length(Pattern(m)) = 3 /\ DOMAIN Pattern(m) = 1 .. 3
       \/ Length(Pattern(m)) = 4 /\ DOMAIN Pattern(m) = 1 .. 4
    /\ Segment(Pattern(m), 1) \notin Parameters /\ Segment(Pattern(m), 2) \notin Parameters
    /\ Length(Pattern(m)) = 4 => Segment(Pattern(m), 4) \notin Parameters
BY PatternSegments DEF IsPath2, IsPath3, IsPath4, Parameters, AllMethods, RequestTypeV2,
  RequestTypeOfTick, RequestTypeOther

\* The length and the fixed segments tell the method.
LEMMA PatternsDiffer ==
  ASSUME NEW m \in AllMethods, NEW r \in AllMethods,
         Length(Pattern(m)) = Length(Pattern(r)),
         Segment(Pattern(m), 1) = Segment(Pattern(r), 1),
         Segment(Pattern(m), 2) = Segment(Pattern(r), 2),
         Length(Pattern(m)) = 4 => Segment(Pattern(m), 4) = Segment(Pattern(r), 4)
  PROVE  m = r
BY PatternSegments DEF IsPath2, IsPath3, IsPath4, AllMethods, RequestTypeV2, RequestTypeOfTick,
  RequestTypeOther

\* No path matches the patterns of two methods, whatever text it has for a
\* parameter.
LEMMA OneRoute ==
  ASSUME NEW path, NEW m \in AllMethods, NEW r \in AllMethods,
         Matches(Pattern(m), path), Matches(Pattern(r), path)
  PROVE  m = r
<1>1. ASSUME NEW x \in AllMethods, Matches(Pattern(x), path)
      PROVE  /\ Length(path) = Length(Pattern(x))
             /\ Segment(path, 1) = Segment(Pattern(x), 1)
             /\ Segment(path, 2) = Segment(Pattern(x), 2)
             /\ Length(path) = 4 => Segment(path, 4) = Segment(Pattern(x), 4)
  BY <1>1, PatternShape DEF Matches, Length, Segment
<1> QED BY <1>1, PatternsDiffer

-----------------------------------------------------------------------------
(* Messages. *)

\* The message of a method has the field of its path, and one with a tick
\* number is among those the bounds check looks into.
LEMMA MessageFields ==
  \A m \in AllMethods :
    /\ HasParameter(m) => ParameterField(m) \in DOMAIN Fields(m)
    /\ "tick_number" \in DOMAIN Fields(m) => RequestType(m) \in CheckedRequests
<1> SUFFICES ASSUME NEW m \in AllMethods
             PROVE  /\ HasParameter(m) => ParameterField(m) \in DOMAIN Fields(m)
                    /\ "tick_number" \in DOMAIN Fields(m) => RequestType(m) \in CheckedRequests
  OBVIOUS
<1>1. HasParameter(m) <=> Length(Pattern(m)) # 2
  <2>1. HasParameter(m) <=> Length(Pattern(m)) > 2
    BY DEF HasParameter, Length
  <2> QED BY <2>1, PatternShape
<1>2. ParameterField(m) = Segment(Pattern(m), 3)
  BY DEF ParameterField, Segment
<1>3. CASE m \in QueryMethods
  <2>1. /\ "tick_number" \in DOMAIN Fields(m) => m = "GetTickTransactionsV2"
        /\ m = "GetTickTransactionsV2" => "tick_number" \in DOMAIN Fields(m)
        /\ m \in IdentityMethods => "identity" \in DOMAIN Fields(m)
        /\ m \in EpochMethods => "epoch" \in DOMAIN Fields(m)
    BY <1>3 DEF Fields, QueryMethods, TickTransactionsFieldsV2, TransfersFieldsV2, EmptyTickListFieldsV2,
      EpochTickListFieldsV2, TransfersFields, IdentityMethods, EpochMethods
  <2>2. /\ m = "GetTickTransactionsV2" => ParameterField(m) = "tick_number"
        /\ m \in IdentityMethods => ParameterField(m) = "identity"
        /\ m \in QueryMethods \cap EpochMethods => ParameterField(m) = "epoch"
    BY <1>2, PatternSegments DEF IsPath4, IdentityMethods, EpochMethods, QueryMethods
  <2>3. m = "GetTickTransactionsV2" \/ m \in IdentityMethods \/ m \in QueryMethods \cap EpochMethods
    BY <1>3 DEF QueryMethods, IdentityMethods, EpochMethods
  <2>4. RequestType("GetTickTransactionsV2") \in CheckedRequests
    BY DEF RequestType, RequestTypeV2, CheckedRequests
  <2> QED BY <2>1, <2>2, <2>3, <2>4
<1>4. CASE m \notin QueryMethods
  <2>1. Fields(m) = IF ~HasParameter(m) THEN [f \in {} |-> "string"]
                    ELSE [f \in {ParameterField(m)} |->
                            IF f \in {"tick_number", "epoch"} THEN "uint32" ELSE "string"]
    BY <1>4 DEF Fields, QueryMethods
  <2>2. (Length(Pattern(m)) # 2 /\ Segment(Pattern(m), 3) = "tick_number") => m \in TickMethods
    BY PatternSegments DEF IsPath2, IsPath3, IsPath4, AllMethods, TickMethods, RequestTypeV2,
      RequestTypeOfTick, RequestTypeOther
  <2>3. \A x \in TickMethods : RequestType(x) \in CheckedRequests
    BY DEF TickMethods, RequestType, RequestTypeV2, RequestTypeOfTick, CheckedRequests
  <2> QED BY <1>1, <1>2, <2>1, <2>2, <2>3
<1> QED BY <1>3, <1>4

-----------------------------------------------------------------------------
(* Stages. *)

\* The message that Decode makes of the request.
Decoded(m) ==
  [f \in DOMAIN Fields(m) |->
     IF f \in PathField(m) \cup FromQuery(m) THEN Parse(Fields(m)[f], TextOf(f, m))
     ELSE ZeroValue(Fields(m)[f])]

\* What each stage has established: the route, the message, the bounds check.
GatewayInv ==
  /\ stage \in {"idle", "received", "dispatched", "sent", "handled", "responded"}
  /\ stage \in {"dispatched", "sent", "handled"} => method \in Matching(request.path)
  /\ stage \in {"sent", "handled"} => Decodable(method) /\ message = Decoded(method)
  /\ (stage = "handled" /\ RequestType(method) \in CheckedRequests) =>
       message.tick_number \in AvailableTicks

\* The stages of a request follow one another.
LEMMA GatewayInvariant == Spec => []GatewayInv
<1>1. Init => GatewayInv
  BY DEF Init, GatewayInv
<1>2. GatewayInv /\ [Next]_gatewayVars => GatewayInv'
  <2> SUFFICES ASSUME GatewayInv, [Next]_gatewayVars PROVE GatewayInv'
    OBVIOUS
  <2>1. CASE Get \/ Close
    BY <2>1 DEF Get, Close, GatewayInv
  <2>2. CASE Dispatch
    BY <2>2 DEF Dispatch, Respond, GatewayInv, Matching
  <2>3. CASE Decode
    <3>1. CASE Decodable(method)
      <4>1. /\ stage = "dispatched" /\ stage' = "sent" /\ message' = Decoded(method)
            /\ UNCHANGED <<request, method>>
        BY <2>3, <3>1 DEF Decode, Decoded
      <4>2. Decodable(method)' /\ message' = Decoded(method)'
        BY <3>1, <4>1 DEF Decodable, Decoded, FromQuery, TextOf
      <4> QED BY <4>1, <4>2 DEF GatewayInv, Matching
    <3>2. CASE ~Decodable(method)
      BY <2>3, <3>2 DEF Decode, Respond, GatewayInv
    <3> QED BY <3>1, <3>2
  <2>4. CASE Intercept
    <3>1. stage = "sent" /\ UNCHANGED <<request, method, message>>
      BY <2>4 DEF Intercept
    <3>2. Decodable(method)' /\ message' = Decoded(method)'
      BY <3>1 DEF GatewayInv, Decodable, Decoded, FromQuery, TextOf
    <3>3. \/ stage' = "responded"
          \/ RequestType(method) \in CheckedRequests => message.tick_number \in AvailableTicks
      BY <2>4 DEF Intercept, Respond
    <3>4. stage' \in {"responded", "handled"}
      BY <2>4 DEF Intercept, Respond
    <3> QED BY <3>1, <3>2, <3>3, <3>4 DEF GatewayInv, Matching
  <2>5. CASE Handle
    BY <2>5 DEF Handle, Respond, GatewayInv
  <2>6. CASE UNCHANGED gatewayVars
    BY <2>6 DEF gatewayVars, GatewayInv, Matching, Decodable, Decoded, FromQuery, TextOf
  <2> QED BY <2>1, <2>2, <2>3, <2>4, <2>5, <2>6 DEF Next
<1> QED BY <1>1, <1>2, PTL DEF Spec

\* The mux of the gateway has one handler for a path, for every text that a
\* client may put into it: the order of registration decides nothing.
THEOREM RoutesUnambiguous == Spec => []RouteUnambiguous
<1>1. ASSUME NEW path, NEW m \in Matching(path) PROVE Matching(path) = {m}
  BY OneRoute DEF Matching
<1>2. GatewayInv => RouteUnambiguous
  BY <1>1 DEF GatewayInv, RouteUnambiguous
<1> QED BY <1>2, GatewayInvariant, PTL

\* The request functions take the value of the path's parameter from the path:
\* the query filter keeps parameters of that name out.
THEOREM PathValues == Spec => []PathValueServed
<1>1. GatewayInv => PathValueServed
  <2> SUFFICES ASSUME GatewayInv, stage = "handled", HasParameter(method)
               PROVE  message[ParameterField(method)] =
                        Parse(Fields(method)[ParameterField(method)], request.path[3])
    BY DEF PathValueServed
  <2> DEFINE f == ParameterField(method)
  <2>1. method \in AllMethods /\ message = Decoded(method)
    BY DEF GatewayInv, Matching
  <2>2. f \in DOMAIN Fields(method) /\ f \in PathField(method)
    BY <2>1, MessageFields DEF PathField
  <2>3. TextOf(f, method) = request.path[3]
    BY <2>2 DEF TextOf, FromQuery, QueryFields
  <2> HIDE DEF f
  <2> QED BY <2>1, <2>2, <2>3 DEF Decoded, f
<1> QED BY <1>1, GatewayInvariant, PTL

\* The gateway calls the server over a connection, so the interceptor stands
\* before every handler that is asked for a tick.
THEOREM ChecksApplied == Spec => []GatewayChecked
<1>1. GatewayInv => GatewayChecked
  <2> SUFFICES ASSUME GatewayInv, stage = "handled", "tick_number" \in DOMAIN message
               PROVE  message.tick_number \in AvailableTicks
    BY DEF GatewayChecked
  <2>1. method \in AllMethods /\ "tick_number" \in DOMAIN Fields(method)
    BY DEF GatewayInv, Matching, Decoded
  <2> QED BY <2>1, MessageFields DEF GatewayInv
<1> QED BY <1>1, GatewayInvariant, PTL
=============================================================================
