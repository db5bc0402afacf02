------------------------------- MODULE Paging -------------------------------
(***************************************************************************)
(* Paged queries while the archive grows: the transfers of an identity     *)
(* (store.GetTransactionsForEntityPaged behind                             *)
(* GetIdentityTransfersInTickRangeV2) and the tick lists of an epoch       *)
(* (GetEmptyTickListV2, GetEpochTickListV2).  A client walks along the     *)
(* next-page numbers of the replies, or asks for any page, while the       *)
(* processor archives further ticks.  These requests do not pass the       *)
(* interceptor, so they see what attempts that are not finished have       *)
(* stored: a transfer list that a retry replaces in the order of another   *)
(* peer's reply, a tick stored below one of a later segment, a retried     *)
(* tick listed as empty again.  A transfer is identified by its tick and   *)
(* its place in the list that was first stored for the tick.               *)
(***************************************************************************)
EXTENDS Integers, SequencesExt

CONSTANTS
  MaxTicks,                  \* bound: ticks archived in a behaviour
  MaxPerTick,                \* bound: transfers of the identity in a tick
  ContractCalls,             \* sets of places: the transfers that call a contract
  MaxListed,                 \* bound: entries of the empty-tick list
  MaxPage,                   \* bound: page numbers a client asks for
  PageSizes,                 \* page sizes of the requests
  MaxPageSize,               \* maxPageSize (250)
  DefaultPageSize,           \* defaultPageSize (100)
  LimitWithoutPaging         \* limitForRequestWithoutPaging (1000)

ASSUME PagingAssumption ==
  /\ {MaxTicks, MaxPerTick, MaxListed, MaxPage, MaxPageSize, DefaultPageSize,
      LimitWithoutPaging} \subseteq Nat \ {0}
  /\ PageSizes \subseteq Nat
  /\ DefaultPageSize <= MaxPageSize

VARIABLES
  archive,   \* the transfers of the identity, by tick: a key per tick that has any
  listed,    \* the ticks of the epoch's list, in the order they were added
  processed, \* the last processed tick
  query,     \* the client's query, fixed for a walk
  page,      \* the page number the walk asks for next, -1 when it is over
  got,       \* the records of the pages of the walk
  atStart,   \* the settled records that matched when the walk began
  reply      \* the last reply, until the archive changes

growthVars == <<archive, listed, processed>>
pagingVars == <<growthVars, query, page, got, atStart, reply>>

\* A list is the one of an epoch and has no range or filter.
Query ==
  [kind : {"transfers"}, start : 1 .. MaxTicks, end : 1 .. MaxTicks, size : PageSizes,
   descending : BOOLEAN, scOnly : BOOLEAN]
  \cup
  [kind : {"emptyTicks"}, start : {1}, end : {MaxTicks}, size : PageSizes,
   descending : {FALSE}, scOnly : {FALSE}]
  \cup
  [kind : {"epochTicks"}, start : {1}, end : {MaxTicks}, size : PageSizes,
   descending : BOOLEAN, scOnly : {FALSE}]

NoReply == [code |-> "none"]

-----------------------------------------------------------------------------
(* store.go *)

\* scOnly keeps the transactions with an input type other than 0.
FilterTransactions(q, perTick) ==
  LET txs == perTick.transactions
  IN IF ~q.scOnly THEN txs
     ELSE FlattenSeq([k \in DOMAIN txs |-> IF txs[k].sc THEN <<txs[k]>> ELSE <<>>])

\* Mutant: the end index of a tick ignores what the earlier ticks filled.
GetTransfersPageOverfull(q, pageStart, pageEnd, acc, perTick) ==
  LET transactions == FilterTransactions(q, perTick)
      count        == Len(transactions)
      startIndex   == IF pageStart > acc.index THEN pageStart - acc.index ELSE 0
      taken        == SubSeq(transactions, startIndex + 1, count)
  IN [index |-> acc.index + count,
      page  |-> IF acc.index < pageEnd /\ taken # <<>>
                THEN Append(acc.page, [perTick EXCEPT !.transactions = taken])
                ELSE acc.page]

\* The part of a tick's transactions that is on the page; acc.index counts
\* the matching transactions before this tick.
GetTransfersPage(q, pageStart, pageEnd, acc, perTick) ==
  LET transactions == FilterTransactions(q, perTick)
      count        == Len(transactions)
      startIndex   == IF pageStart > acc.index THEN pageStart - acc.index ELSE 0
      endIndex     == IF pageEnd - acc.index < count THEN pageEnd - acc.index ELSE count
      added        == /\ count > 0
                      /\ acc.index + count >= pageStart
                      /\ acc.index < pageEnd
                      /\ endIndex > startIndex
  IN [index |-> acc.index + count,
      page  |-> IF added
                THEN Append(acc.page,
                       [perTick EXCEPT !.transactions =
                          SubSeq(transactions, startIndex + 1, endIndex)])
                ELSE acc.page]

\* The keys of the identity up to a tick, in the order of the database.
KeysUpTo(stored, last) ==
  FlattenSeq([t \in 1 .. last |->
    IF t \in DOMAIN stored THEN <<[tick |-> t, transactions |-> stored[t]]>> ELSE <<>>])

\* The keys from that of start (included) to that of end + 1 (excluded).
InRange(records, q) ==
  FlattenSeq([k \in DOMAIN records |->
    IF q.start <= records[k].tick /\ records[k].tick < q.end + 1 THEN <<records[k]>> ELSE <<>>])

\* Mutant: the iterator always starts at the newest tick.
IteratedNewestFirst(records, q) == Reverse(InRange(records, q))

\* The order of the iterator.
Iterated(records, q) ==
  IF q.descending THEN Reverse(InRange(records, q)) ELSE InRange(records, q)

\* Page number from 0; index is the number of all matching transactions.
GetTransactionsForEntityPaged(q, pageNumber, size) ==
  LET ticks == Iterated(KeysUpTo(archive, MaxTicks), q)
      acc[k \in 0 .. Len(ticks)] ==
        IF k = 0 THEN [index |-> 0, page |-> <<>>]
        ELSE GetTransfersPage(q, pageNumber * size, pageNumber * size + size, acc[k - 1], ticks[k])
  IN acc[Len(ticks)]

\* The v1 query: the first transactions in ascending order.
GetTransactionsForEntity(q) ==
  GetTransactionsForEntityPaged([q EXCEPT !.descending = FALSE, !.scOnly = FALSE],
                                0, LimitWithoutPaging)

-----------------------------------------------------------------------------
(* v2_endpoints.go *)

\* Mutant: an incomplete last page is not counted.
PageCountRoundedDown(records, size) == records \div size

PageCount(records, size) ==
  records \div size + (IF records % size # 0 THEN 1 ELSE 0)

\* Mutant: the last page is not announced.
PaginationWithoutLast(records, number, size) ==
  [totalRecords |-> records,
   totalPages   |-> PageCount(records, size),
   currentPage  |-> number,
   nextPage     |-> IF number + 1 >= PageCount(records, size) THEN -1 ELSE number + 1,
   previousPage |-> number - 1]

\* getPaginationInformation; page numbers from 1.
Pagination(records, number, size) ==
  LET totalPages   == PageCount(records, size)
      previousPage == IF number - 1 = 0 THEN -1 ELSE number - 1
  IN [totalRecords |-> records,
      totalPages   |-> totalPages,
      currentPage  |-> IF records < number THEN records ELSE number,
      nextPage     |-> IF number + 1 > totalPages THEN -1 ELSE number + 1,
      previousPage |-> IF totalPages < previousPage THEN totalPages ELSE previousPage]

OK(number, size, records, pagination) ==
  [code |-> "OK", number |-> number, size |-> size, records |-> records,
   pagination |-> pagination]

Ids(page_) == FlattenSeq([k \in DOMAIN page_ |->
                [i \in DOMAIN page_[k].transactions |-> page_[k].transactions[i].id]])

\* GetIdentityTransfersInTickRangeV2 for the request's page and page size.
TransfersReply(q, requestPage) ==
  LET size   == IF q.size = 0 THEN DefaultPageSize ELSE q.size
      number == IF requestPage > 0 THEN requestPage - 1 ELSE 0
      found  == GetTransactionsForEntityPaged(q, number, size)
  IN IF q.size > MaxPageSize THEN [code |-> "InvalidArgument"]
     ELSE OK(number + 1, size, Ids(found.page), Pagination(found.index, number + 1, size))

\* The ticks of a list, oldest first unless descending.
ListedTicks(list, q) == IF q.descending THEN Reverse(list) ELSE list

ListPage(list, number, size) ==
  SubSeq(list, (number - 1) * size + 1,
         IF number * size > Len(list) THEN Len(list) ELSE number * size)

\* The page of a list; a page beyond the last one is not found.
PagedList(list, q, requestPage) ==
  LET number == IF requestPage <= 0 THEN 1 ELSE requestPage
      pages  == PageCount(Len(list), q.size)
  IN IF number > pages THEN [code |-> "NotFound"]
     ELSE OK(number, q.size, ListPage(list, number, q.size),
             [totalRecords |-> Len(list),
              totalPages   |-> pages,
              currentPage  |-> number,
              nextPage     |-> IF number = pages THEN -1 ELSE number + 1,
              previousPage |-> IF number = 1 THEN -1 ELSE number - 1])

\* The stored list, as it was appended to.
GetEmptyTickListV2(q, requestPage) ==
  IF q.size <= 0 THEN [code |-> "FailedPrecondition"]
  ELSE PagedList(ListedTicks(listed, q), q, requestPage)

\* slices.SortFunc: a tick has as many ticks before it as the order says.
SortedTicks(ticks, descending) ==
  LET Before(t) == {u \in ticks : IF descending THEN u > t ELSE u < t}
  IN [k \in 1 .. Cardinality(ticks) |->
        CHOOSE t \in ticks : Cardinality(Before(t)) = k - 1]

\* The ticks of the epoch's intervals, collected in a map and sorted.
GetEpochTickListV2(q, requestPage) ==
  IF q.size <= 0 THEN [code |-> "FailedPrecondition"]
  ELSE PagedList(SortedTicks(ToSet(listed), q.descending), q, requestPage)

ReplyTo(q, number) ==
  CASE q.kind = "transfers"  -> TransfersReply(q, number)
    [] q.kind = "emptyTicks" -> GetEmptyTickListV2(q, number)
    [] q.kind = "epochTicks" -> GetEpochTickListV2(q, number)

-----------------------------------------------------------------------------
(* What a query matches, by definition. *)

MatchingTransfers(records, q) ==
  LET ticks == Iterated(records, q)
      all == FlattenSeq([k \in DOMAIN ticks |-> ticks[k].transactions])
      kept == FlattenSeq([k \in DOMAIN all |->
                IF q.scOnly => all[k].sc THEN <<all[k]>> ELSE <<>>])
  IN [k \in DOMAIN kept |-> kept[k].id]

MatchingUpTo(stored, last, list, q) ==
  IF q.kind = "transfers" THEN MatchingTransfers(KeysUpTo(stored, last), q)
  ELSE ListedTicks(list, q)

\* What matches, and what of it no attempt writes again: the processor does not
\* go back for a processed tick, and no attempt removes a tick from a list.
Matching(q) == MatchingUpTo(archive, MaxTicks, listed, q)
Settled(q)  == MatchingUpTo(archive, processed, listed, q)

-----------------------------------------------------------------------------
Init ==
  /\ archive = <<>>
  /\ listed = <<>>
  /\ processed = 0
  /\ query \in Query
  /\ page = 0
  /\ got = <<>>
  /\ atStart = <<>>
  /\ reply = NoReply

Reordered(list, order) == [k \in DOMAIN list |-> list[order[k]]]

NewTransfers(t, n, calls) == [k \in 1 .. n |-> [id |-> <<t, k>>, sc |-> k \in calls]]

\* What an attempt stores for the identity: the transfers of the tick in the
\* order of the peer's reply, after another attempt in any order.
TransferLists(stored, t) ==
  IF t \in DOMAIN stored
  THEN {Reordered(stored[t], order) :
          order \in Bijection(DOMAIN stored[t], DOMAIN stored[t])}
  ELSE {NewTransfers(t, n, calls) : n \in 1 .. MaxPerTick, calls \in ContractCalls}

\* An attempt stores the transfers of a tick that is not processed; it may
\* fail later, be repeated, or be followed by one at a lower tick.  (The
\* actions that a query does not read about are left out of its behaviours.)
PutTransferTransactionsPerTick ==
  /\ query.kind = "transfers"
  /\ \E t \in processed + 1 .. MaxTicks : \E txs \in TransferLists(archive, t) :
       archive' = [u \in DOMAIN archive \cup {t} |-> IF u = t THEN txs ELSE archive[u]]
  /\ reply' = NoReply
  /\ UNCHANGED <<listed, processed, query, page, got, atStart>>

\* An attempt at an empty tick, or another one at the same tick.
AppendEmptyTickToEmptyTickListPerEpoch ==
  /\ query.kind = "emptyTicks" /\ Len(listed) < MaxListed
  /\ \E t \in processed + 1 .. MaxTicks : listed' = Append(listed, t)
  /\ reply' = NoReply
  /\ UNCHANGED <<archive, processed, query, page, got, atStart>>

\* The last interval of the epoch is extended, or another one is appended.
SetProcessedTickInterval ==
  /\ query.kind = "epochTicks"
  /\ \E t \in 1 .. MaxTicks :
       /\ \A k \in DOMAIN listed : listed[k] < t
       /\ listed' = Append(listed, t)
  /\ reply' = NoReply
  /\ UNCHANGED <<archive, processed, query, page, got, atStart>>

\* The processor goes on to the next tick or, over a gap, to a later one.
SetLastProcessedTick ==
  /\ processed' \in processed + 1 .. MaxTicks
  /\ UNCHANGED <<archive, listed, query, page, got, atStart, reply>>

\* The walk: page 0 stands for the first page, then the next-page numbers.
NextPage ==
  /\ page >= 0
  /\ reply' = ReplyTo(query, page)
  /\ IF reply'.code = "OK"
     THEN /\ got' = got \o reply'.records
          /\ page' = reply'.pagination.nextPage
     ELSE page' = -1 /\ UNCHANGED got
  /\ atStart' = IF page = 0 THEN Settled(query) ELSE atStart
  /\ UNCHANGED <<growthVars, query>>

\* Any other page of the query.
RequestPage ==
  /\ \E number \in 1 .. MaxPage : reply' = ReplyTo(query, number)
  /\ UNCHANGED <<growthVars, query, page, got, atStart>>

\* The v1 request for all transfers.
RequestUnpaged ==
  /\ query.kind = "transfers"
  /\ LET found == GetTransactionsForEntity(query)
     IN reply' = [code |-> "unpaged", records |-> Ids(found.page)]
  /\ UNCHANGED <<growthVars, query, page, got, atStart>>

Next ==
  \/ PutTransferTransactionsPerTick \/ AppendEmptyTickToEmptyTickListPerEpoch
  \/ SetProcessedTickInterval       \/ SetLastProcessedTick
  \/ NextPage \/ RequestPage \/ RequestUnpaged

Spec == Init /\ [][Next]_pagingVars

-----------------------------------------------------------------------------
\* Records number first .. last of a list, as far as it goes.
Slice(list, first, last) ==
  SubSeq(list, first, IF last > Len(list) THEN Len(list) ELSE last)

\* The tick-by-tick assembly of a page gives exactly the page's part of the
\* matching records, also where a tick's transactions span pages; the v1
\* request gives the first ones up to its limit.
PageIsSlice ==
  /\ reply.code = "OK" =>
       reply.records = Slice(Matching(query), (reply.number - 1) * reply.size + 1,
                             reply.number * reply.size)
  /\ reply.code = "unpaged" =>
       reply.records = Slice(Matching([query EXCEPT !.descending = FALSE, !.scOnly = FALSE]),
                             1, LimitWithoutPaging)

\* A page has records exactly when its number is within the total pages, and
\* a next page is announced exactly when there is one.
PaginationTrue ==
  reply.code = "OK" =>
    /\ reply.pagination.totalRecords = Len(Matching(query))
    /\ reply.records # <<>> <=> reply.number <= reply.pagination.totalPages
    /\ reply.pagination.nextPage =
         IF reply.number * reply.size < Len(Matching(query)) THEN reply.number + 1 ELSE -1

\* An ascending walk sees the records that were settled when it began first,
\* once each and in order, whatever attempts store and rewrite between its
\* pages; of a tick list it sees the entries once each and in order, those that
\* are added during the walk too.
AscendingWalk ==
  ~query.descending =>
    /\ IsPrefix(got, atStart) \/ IsPrefix(atStart, got)
    /\ query.kind # "transfers" => IsPrefix(got, Matching(query))

\* A walk that has ended has seen every record that was settled when it began,
\* a descending one too: what is stored meanwhile pushes the records to later
\* pages, and a rewritten list does not pull them back.
WalkComplete ==
  (page = -1 /\ query.size <= MaxPageSize /\ (query.kind # "transfers" => query.size > 0)) =>
    ToSet(atStart) \subseteq ToSet(got)

\* PreviousPage is -1 or the number of a page that exists.
PreviousPageExists ==
  reply.code = "OK" =>
    reply.pagination.previousPage \in {-1} \cup (1 .. reply.pagination.totalPages)

\* The current page is the one that was asked for, or 0 without records.
CurrentPageRequested ==
  reply.code = "OK" =>
    reply.pagination.currentPage =
      IF reply.pagination.totalRecords = 0 THEN 0 ELSE reply.number
=============================================================================
