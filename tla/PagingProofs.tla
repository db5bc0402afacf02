---------------------------- MODULE PagingProofs ----------------------------
(***************************************************************************)
(* The paged queries, for archives, pages and limits of any size, any      *)
(* requests and any growth of the archive between them.                    *)
(***************************************************************************)
EXTENDS Paging, LoopTheorems, FiniteSetTheorems

Tx      == [id : Nat \X Nat, sc : BOOLEAN]
PerTick == [tick : Nat, transactions : Seq(Tx)]
Record  == Nat \cup (Nat \X Nat)

-----------------------------------------------------------------------------
(* Parts of sequences. *)

\* How far b is beyond a.
Beyond(a, b) == IF a < b THEN b - a ELSE 0

Cut(s, a, b) == SubSeq(s, a + 1, b)

\* c has the elements of s from place a + 1 to place b.
IsPart(c, s, a, b) ==
  /\ Len(c) = Beyond(a, b)
  /\ \A k \in 1 .. b - a : c[k] = s[a + k]

LEMMA CutParts ==
  ASSUME NEW A, NEW s \in Seq(A), NEW a \in Nat, NEW b \in Int, b <= Len(s)
  PROVE  /\ Cut(s, a, b) \in Seq(A)
         /\ IsPart(Cut(s, a, b), s, a, b)
<1> DEFINE c == SubSeq(s, a + 1, b)
<1>1. \A k \in a + 1 .. b : s[k] \in A
  OBVIOUS
<1>2. /\ c \in Seq(A)
      /\ Len(c) = IF a + 1 <= b THEN b - (a + 1) + 1 ELSE 0
      /\ \A k \in 1 .. b - (a + 1) + 1 : c[k] = s[(a + 1) + k - 1]
  <2>1. a + 1 \in Int
    OBVIOUS
  <2> QED BY <1>1, <2>1, SubSeqProperties
<1> HIDE DEF c
<1>3. b - (a + 1) + 1 = b - a /\ \A k \in 1 .. b - a : (a + 1) + k - 1 = a + k
  OBVIOUS
<1>4. Len(c) = Beyond(a, b)
  BY <1>2 DEF Beyond
<1>5. \A k \in 1 .. b - a : c[k] = s[a + k]
  BY <1>2, <1>3
<1> QED BY <1>2, <1>4, <1>5 DEF c, Cut, IsPart

\* The part of a list up to a place that may be beyond its end.
Least(x, y) == IF x > y THEN y ELSE x

LEMMA SliceParts ==
  ASSUME NEW A, NEW s \in Seq(A), NEW a \in Nat, NEW b \in Nat
  PROVE  /\ Slice(s, a + 1, b) \in Seq(A)
         /\ IsPart(Slice(s, a + 1, b), s, a, Least(b, Len(s)))
<1>1. PICK e : e = Least(b, Len(s))
  OBVIOUS
<1>2. e \in Int /\ e <= Len(s)
  BY <1>1 DEF Least
<1>3. Slice(s, a + 1, b) = Cut(s, a, e)
  BY <1>1 DEF Slice, Cut, Least
<1>4. Cut(s, a, e) \in Seq(A) /\ IsPart(Cut(s, a, e), s, a, e)
  BY <1>2, CutParts
<1> QED BY <1>1, <1>3, <1>4, Zenon

LEMMA BoundTypes ==
  /\ \A a, b \in Nat : Beyond(a, b) \in Nat
  /\ \A b, n, m \in Nat : Least(b - n, m) \in Int /\ Least(b - n, m) <= m
BY DEF Beyond, Least

LEMMA SliceLengths ==
  ASSUME NEW a \in Nat, NEW b \in Nat, NEW n \in Nat, NEW m \in Nat, a <= b
  PROVE  Beyond(a, Least(b, n + m))
           = Beyond(a, Least(b, n)) + Beyond(Beyond(n, a), Least(b - n, m))
<1>1. CASE b <= n
  <2>1. /\ Least(b, n + m) = b /\ Least(b, n) = b
        /\ Beyond(n, a) \in Nat /\ Least(b - n, m) \in Int /\ Least(b - n, m) <= 0
    BY <1>1 DEF Least, Beyond
  <2> QED BY <2>1 DEF Beyond
<1>2. CASE n < b /\ a <= n
  <2>1. /\ Least(b, n) = n /\ Beyond(n, a) = 0 /\ Least(b, n + m) = n + Least(b - n, m)
        /\ Least(b - n, m) \in Nat
    BY <1>2 DEF Least, Beyond
  <2> QED BY <1>2, <2>1 DEF Beyond
<1>3. CASE n < a
  <2>1. /\ Least(b, n) = n /\ Beyond(n, a) = a - n /\ Least(b, n + m) = n + Least(b - n, m)
        /\ Least(b - n, m) \in Nat
    BY <1>3 DEF Least, Beyond
  <2> QED BY <1>3, <2>1 DEF Beyond
<1> QED BY <1>1, <1>2, <1>3

\* The slice of a list that grows by t: the tick-by-tick assembly of a page.
LEMMA SliceConcat ==
  ASSUME NEW A, NEW s \in Seq(A), NEW t \in Seq(A), NEW a \in Nat, NEW b \in Nat, a <= b,
         NEW lo \in Nat, lo = Beyond(Len(s), a),
         NEW hi \in Int, hi = Least(b - Len(s), Len(t))
  PROVE  /\ Slice(s \o t, a + 1, b) = Slice(s, a + 1, b) \o Cut(t, lo, hi)
         /\ Cut(t, lo, hi) \in Seq(A)
<1>1. PICK n \in Nat, m \in Nat : n = Len(s) /\ m = Len(t)
  OBVIOUS
<1>2. lo = Beyond(n, a) /\ hi = Least(b - n, m) /\ hi <= m
  BY <1>1 DEF Least
<1>3. PICK st : st = s \o t
  OBVIOUS
<1>4. /\ st \in Seq(A) /\ Len(st) = n + m
      /\ \A k \in 1 .. n : st[k] = s[k]
      /\ \A k \in 1 .. m : st[n + k] = t[k]
  BY <1>1, <1>3, ConcatParts
<1>5. PICK c : c = Slice(st, a + 1, b)
  OBVIOUS
<1>6. PICK x : x = Slice(s, a + 1, b)
  OBVIOUS
<1>7. PICK y : y = Cut(t, lo, hi)
  OBVIOUS
<1>8. PICK ec \in Int : ec = Least(b, n + m)
  BY DEF Least
<1>9. PICK ex \in Int : ex = Least(b, n)
  BY DEF Least
<1>10. /\ c \in Seq(A) /\ Len(c) = Beyond(a, ec)
       /\ \A k \in 1 .. ec - a : c[k] = st[a + k]
  <2>1. st \in Seq(A) /\ Len(st) = n + m
    BY <1>4
  <2>2. Slice(st, a + 1, b) \in Seq(A) /\ IsPart(Slice(st, a + 1, b), st, a, Least(b, Len(st)))
    <3>1. st \in Seq(A)
      BY <1>4
    <3> QED BY <3>1, SliceParts
  <2> QED BY <1>5, <1>8, <2>1, <2>2 DEF IsPart
<1>11. /\ x \in Seq(A) /\ Len(x) = Beyond(a, ex)
       /\ \A k \in 1 .. ex - a : x[k] = s[a + k]
  <2>1. Slice(s, a + 1, b) \in Seq(A) /\ IsPart(Slice(s, a + 1, b), s, a, Least(b, Len(s)))
    BY SliceParts
  <2> QED BY <1>1, <1>6, <1>9, <2>1 DEF IsPart
<1>12. /\ y \in Seq(A) /\ Len(y) = Beyond(lo, hi)
       /\ \A k \in 1 .. hi - lo : y[k] = t[lo + k]
  <2>1. hi <= Len(t)
    BY <1>1, <1>2
  <2>2. Cut(t, lo, hi) \in Seq(A) /\ IsPart(Cut(t, lo, hi), t, lo, hi)
    BY <2>1, CutParts, Zenon
  <2> QED BY <1>7, <2>2, Zenon DEF IsPart
<1>13. Len(c) = Len(x) + Len(y)
  <2>1. Beyond(a, ec) = Beyond(a, ex) + Beyond(lo, hi)
    BY <1>2, <1>8, <1>9, SliceLengths, SMTT(30)
  <2> QED BY <1>10, <1>11, <1>12, <2>1, Zenon
<1>14. ASSUME NEW k \in 1 .. Len(x) PROVE c[k] = x[k]
  <2>1. k \in 1 .. ex - a /\ k \in 1 .. ec - a /\ a + k \in 1 .. n
    BY <1>8, <1>9, <1>11 DEF Beyond, Least
  <2>2. c[k] = st[a + k] /\ x[k] = s[a + k] /\ st[a + k] = s[a + k]
    BY <1>4, <1>10, <1>11, <2>1
  <2> QED BY <2>2
<1>15. ASSUME NEW k \in 1 .. Len(y) PROVE c[Len(x) + k] = y[k]
  <2>1. k \in 1 .. hi - lo /\ lo + k \in 1 .. m
    BY <1>2, <1>12, SMTT(30) DEF Beyond
  <2>2. y[k] = t[lo + k]
    BY <1>12, <2>1
  <2>3. Len(x) + k \in 1 .. ec - a /\ a + (Len(x) + k) = n + (lo + k)
    <3>1. Len(x) = Beyond(a, ex)
      BY <1>11
    <3> QED BY <1>2, <1>8, <1>9, <2>1, <3>1, SMTT(30) DEF Beyond, Least
  <2>4. c[Len(x) + k] = st[n + (lo + k)]
    BY <1>10, <2>3
  <2> QED BY <1>4, <2>1, <2>2, <2>4
<1>16. c = x \o y
  BY <1>10, <1>11, <1>12, <1>13, <1>14, <1>15, ConcatBy
<1> QED BY <1>3, <1>5, <1>6, <1>7, <1>12, <1>16

LEMMA SliceMore ==
  ASSUME NEW A, NEW s \in Seq(A), NEW t \in Seq(A), NEW a \in Nat, NEW b \in Nat, a <= b
  PROVE  Slice(s \o t, a + 1, b)
           = Slice(s, a + 1, b) \o Cut(t, Beyond(Len(s), a), Least(b - Len(s), Len(t)))
<1>1. Len(s) \in Nat /\ Len(t) \in Nat
  OBVIOUS
<1>2. PICK lo \in Nat : lo = Beyond(Len(s), a)
  BY <1>1, BoundTypes, Zenon
<1>3. PICK hi \in Int : hi = Least(b - Len(s), Len(t))
  BY <1>1, BoundTypes, Zenon
<1>4. Slice(s \o t, a + 1, b) = Slice(s, a + 1, b) \o Cut(t, lo, hi)
  BY <1>2, <1>3, SliceConcat, SMTT(30)
<1> QED BY <1>2, <1>3, <1>4, Zenon

-----------------------------------------------------------------------------
(* The transactions of ticks. *)

IdsOf(txs)          == [k \in DOMAIN txs |-> txs[k].id]
TxLists(ticks)      == [k \in DOMAIN ticks |-> ticks[k].transactions]
IdLists(ticks)      == [k \in DOMAIN ticks |-> IdsOf(ticks[k].transactions)]
Kept(q)             == {tx \in Tx : q.scOnly => tx.sc}
MatchedIn(ticks, K) == IdsOf(Filter(FlattenSeq(TxLists(ticks)), K))

LEMMA IdsOfParts ==
  ASSUME NEW txs \in Seq(Tx)
  PROVE  /\ IdsOf(txs) \in Seq(Nat \X Nat) /\ Len(IdsOf(txs)) = Len(txs)
         /\ \A k \in 1 .. Len(txs) : IdsOf(txs)[k] = txs[k].id
<1>1. DOMAIN txs = 1 .. Len(txs) /\ Len(txs) \in Nat /\ \A k \in 1 .. Len(txs) : txs[k] \in Tx
  OBVIOUS
<1>2. \A tx \in Tx : tx.id \in Nat \X Nat
  BY DEF Tx
<1>3. IdsOf(txs) = [k \in 1 .. Len(txs) |-> txs[k].id]
  BY <1>1 DEF IdsOf
<1>4. \A k \in 1 .. Len(txs) : txs[k].id \in Nat \X Nat
  BY <1>1, <1>2
<1>5. IdsOf(txs) \in [1 .. Len(txs) -> Nat \X Nat]
  BY <1>3, <1>4
<1>6. IdsOf(txs) \in Seq(Nat \X Nat) /\ Len(IdsOf(txs)) = Len(txs)
  <2> DEFINE I == Nat \X Nat
  <2> HIDE DEF I
  <2> QED BY <1>1, <1>5 DEF I
<1> QED BY <1>3, <1>6

LEMMA IdsOfConcat ==
  ASSUME NEW s \in Seq(Tx), NEW t \in Seq(Tx)
  PROVE  IdsOf(s \o t) = IdsOf(s) \o IdsOf(t)
<1>1. PICK st : st = s \o t
  OBVIOUS
<1>2. /\ st \in Seq(Tx) /\ Len(st) = Len(s) + Len(t) /\ Len(s) \in Nat /\ Len(t) \in Nat
      /\ \A k \in 1 .. Len(s) : st[k] = s[k]
      /\ \A k \in 1 .. Len(t) : st[Len(s) + k] = t[k]
  BY <1>1, ConcatParts
<1>3. PICK I : I = Nat \X Nat
  OBVIOUS
<1>4. /\ IdsOf(st) \in Seq(I) /\ Len(IdsOf(st)) = Len(st)
      /\ \A k \in 1 .. Len(st) : IdsOf(st)[k] = st[k].id
  BY <1>2, <1>3, IdsOfParts
<1>5. /\ IdsOf(s) \in Seq(I) /\ Len(IdsOf(s)) = Len(s)
      /\ \A k \in 1 .. Len(s) : IdsOf(s)[k] = s[k].id
  BY <1>3, IdsOfParts
<1>6. /\ IdsOf(t) \in Seq(I) /\ Len(IdsOf(t)) = Len(t)
      /\ \A k \in 1 .. Len(t) : IdsOf(t)[k] = t[k].id
  BY <1>3, IdsOfParts
<1>7. \A k \in 1 .. Len(IdsOf(s)) : IdsOf(st)[k] = IdsOf(s)[k]
  BY <1>2, <1>4, <1>5
<1>8. \A k \in 1 .. Len(IdsOf(t)) : IdsOf(st)[Len(IdsOf(s)) + k] = IdsOf(t)[k]
  <2> SUFFICES ASSUME NEW k \in 1 .. Len(t) PROVE IdsOf(st)[Len(s) + k] = IdsOf(t)[k]
    BY <1>5, <1>6
  <2>1. Len(s) + k \in 1 .. Len(st)
    BY <1>2
  <2> QED BY <1>2, <1>4, <1>6, <2>1
<1>9. Len(IdsOf(st)) = Len(IdsOf(s)) + Len(IdsOf(t))
  BY <1>2, <1>4, <1>5, <1>6
<1> QED BY <1>1, <1>4, <1>5, <1>6, <1>7, <1>8, <1>9, ConcatBy

LEMMA IdsOfCut ==
  ASSUME NEW s \in Seq(Tx), NEW a \in Nat, NEW b \in Int, b <= Len(s)
  PROVE  Cut(s, a, b) \in Seq(Tx) /\ IdsOf(Cut(s, a, b)) = Cut(IdsOf(s), a, b)
<1>1. PICK I : I = Nat \X Nat
  OBVIOUS
<1>2. PICK c : c = Cut(s, a, b)
  OBVIOUS
<1>3. c \in Seq(Tx) /\ IsPart(c, s, a, b)
  BY <1>2, CutParts
<1>4. /\ IdsOf(s) \in Seq(I) /\ Len(IdsOf(s)) = Len(s)
      /\ \A k \in 1 .. Len(s) : IdsOf(s)[k] = s[k].id
  BY <1>1, IdsOfParts
<1>5. PICK d : d = Cut(IdsOf(s), a, b)
  OBVIOUS
<1>6. d \in Seq(I) /\ IsPart(d, IdsOf(s), a, b)
  BY <1>4, <1>5, CutParts
<1>7. /\ IdsOf(c) \in Seq(I) /\ Len(IdsOf(c)) = Len(c)
      /\ \A k \in 1 .. Len(c) : IdsOf(c)[k] = c[k].id
  BY <1>1, <1>3, IdsOfParts
<1>8. Len(c) = Len(d) /\ Len(c) = Beyond(a, b)
  BY <1>3, <1>6 DEF IsPart
<1>9. ASSUME NEW k \in 1 .. Len(IdsOf(c)) PROVE IdsOf(c)[k] = d[k]
  <2>1. k \in 1 .. b - a /\ a + k \in 1 .. Len(s)
    BY <1>7, <1>8 DEF Beyond
  <2>2. c[k] = s[a + k] /\ d[k] = IdsOf(s)[a + k]
    BY <1>3, <1>6, <2>1 DEF IsPart
  <2> QED BY <1>4, <1>7, <2>1, <2>2
<1>10. IdsOf(c) = d
  BY <1>6, <1>7, <1>8, <1>9, SameSeq
<1> QED BY <1>2, <1>3, <1>5, <1>10

LEMMA TxListsParts ==
  ASSUME NEW ticks \in Seq(PerTick)
  PROVE  /\ TxLists(ticks) \in Seq(Seq(Tx)) /\ Len(TxLists(ticks)) = Len(ticks)
         /\ \A k \in 1 .. Len(ticks) : TxLists(ticks)[k] = ticks[k].transactions
<1>1. /\ DOMAIN ticks = 1 .. Len(ticks) /\ Len(ticks) \in Nat
      /\ \A k \in 1 .. Len(ticks) : ticks[k] \in PerTick
  OBVIOUS
<1>2. \A p \in PerTick : p.transactions \in Seq(Tx)
  BY DEF PerTick
<1>3. TxLists(ticks) = [k \in 1 .. Len(ticks) |-> ticks[k].transactions]
  BY <1>1 DEF TxLists
<1>4. \A k \in 1 .. Len(ticks) : ticks[k].transactions \in Seq(Tx)
  BY <1>1, <1>2
<1>5. TxLists(ticks) \in [1 .. Len(ticks) -> Seq(Tx)]
  BY <1>3, <1>4
<1> QED BY <1>1, <1>3, <1>5

LEMMA TxListsConcat ==
  ASSUME NEW s \in Seq(PerTick), NEW t \in Seq(PerTick)
  PROVE  TxLists(s \o t) = TxLists(s) \o TxLists(t)
<1>1. PICK st : st = s \o t
  OBVIOUS
<1>2. /\ st \in Seq(PerTick) /\ Len(st) = Len(s) + Len(t) /\ Len(s) \in Nat /\ Len(t) \in Nat
      /\ \A k \in 1 .. Len(s) : st[k] = s[k]
      /\ \A k \in 1 .. Len(t) : st[Len(s) + k] = t[k]
  BY <1>1, ConcatParts
<1>3. PICK I : I = Seq(Tx)
  OBVIOUS
<1>4. /\ TxLists(st) \in Seq(I) /\ Len(TxLists(st)) = Len(st)
      /\ \A k \in 1 .. Len(st) : TxLists(st)[k] = st[k].transactions
  BY <1>2, <1>3, TxListsParts
<1>5. /\ TxLists(s) \in Seq(I) /\ Len(TxLists(s)) = Len(s)
      /\ \A k \in 1 .. Len(s) : TxLists(s)[k] = s[k].transactions
  BY <1>3, TxListsParts
<1>6. /\ TxLists(t) \in Seq(I) /\ Len(TxLists(t)) = Len(t)
      /\ \A k \in 1 .. Len(t) : TxLists(t)[k] = t[k].transactions
  BY <1>3, TxListsParts
<1>7. \A k \in 1 .. Len(TxLists(s)) : TxLists(st)[k] = TxLists(s)[k]
  <2> SUFFICES ASSUME NEW k \in 1 .. Len(s) PROVE TxLists(st)[k] = TxLists(s)[k]
    BY <1>5
  <2>1. k \in 1 .. Len(st)
    BY <1>2
  <2> QED BY <1>2, <1>4, <1>5, <2>1
<1>8. \A k \in 1 .. Len(TxLists(t)) : TxLists(st)[Len(TxLists(s)) + k] = TxLists(t)[k]
  <2> SUFFICES ASSUME NEW k \in 1 .. Len(t) PROVE TxLists(st)[Len(s) + k] = TxLists(t)[k]
    BY <1>5, <1>6
  <2>1. Len(s) + k \in 1 .. Len(st)
    BY <1>2
  <2> QED BY <1>2, <1>4, <1>6, <2>1
<1>9. Len(TxLists(st)) = Len(TxLists(s)) + Len(TxLists(t))
  BY <1>2, <1>4, <1>5, <1>6
<1> QED BY <1>1, <1>4, <1>5, <1>6, <1>7, <1>8, <1>9, ConcatBy

LEMMA MatchedType ==
  ASSUME NEW ticks \in Seq(PerTick), NEW K
  PROVE  MatchedIn(ticks, K) \in Seq(Nat \X Nat)
<1>1. FlattenSeq(TxLists(ticks)) \in Seq(Tx)
  BY TxListsParts, FlattenElements
<1>2. Filter(FlattenSeq(TxLists(ticks)), K) \in Seq(Tx)
  BY <1>1, FilterType
<1> QED BY <1>2, IdsOfParts DEF MatchedIn

\* What matches in ticks after one another.
LEMMA MatchedConcat ==
  ASSUME NEW s \in Seq(PerTick), NEW t \in Seq(PerTick), NEW K
  PROVE  MatchedIn(s \o t, K) = MatchedIn(s, K) \o MatchedIn(t, K)
<1>1. TxLists(s) \in Seq(Seq(Tx)) /\ TxLists(t) \in Seq(Seq(Tx))
  BY TxListsParts
<1>2. PICK fs, ft : fs = FlattenSeq(TxLists(s)) /\ ft = FlattenSeq(TxLists(t))
  OBVIOUS
<1>3. fs \in Seq(Tx) /\ ft \in Seq(Tx)
  BY <1>1, <1>2, FlattenElements
<1>4. FlattenSeq(TxLists(s \o t)) = fs \o ft
  <2>1. TxLists(s \o t) = TxLists(s) \o TxLists(t)
    BY TxListsConcat
  <2>2. FlattenSeq(TxLists(s) \o TxLists(t)) = FlattenSeq(TxLists(s)) \o FlattenSeq(TxLists(t))
    BY <1>1, FlattenConcat
  <2> QED BY <1>2, <2>1, <2>2
<1>5. Filter(fs \o ft, K) = Filter(fs, K) \o Filter(ft, K)
  BY <1>3, FilterConcat
<1>6. Filter(fs, K) \in Seq(Tx) /\ Filter(ft, K) \in Seq(Tx)
  BY <1>3, FilterType
<1>7. IdsOf(Filter(fs, K) \o Filter(ft, K)) = IdsOf(Filter(fs, K)) \o IdsOf(Filter(ft, K))
  BY <1>6, IdsOfConcat
<1> QED BY <1>2, <1>4, <1>5, <1>7 DEF MatchedIn

LEMMA FlattenOne ==
  ASSUME NEW A, NEW s \in Seq(A) PROVE FlattenSeq(<<s>>) = s
<1>1. <<>> \in Seq(Seq(A)) /\ Append(<<>>, s) = <<s>>
  OBVIOUS
<1>2. FlattenSeq(Append(<<>>, s)) = FlattenSeq(<<>>) \o s
  BY <1>1, FlattenAppend
<1>3. FlattenSeq(<<>>) \o s = s
  BY NoElement
<1> QED BY <1>1, <1>2, <1>3

LEMMA MatchedOne ==
  ASSUME NEW p \in PerTick, NEW K
  PROVE  MatchedIn(<<p>>, K) = IdsOf(Filter(p.transactions, K))
<1>1. p.transactions \in Seq(Tx)
  BY DEF PerTick
<1>2. TxLists(<<p>>) = <<p.transactions>>
  BY DEF TxLists
<1>3. FlattenSeq(<<p.transactions>>) = p.transactions
  BY <1>1, FlattenOne
<1> QED BY <1>2, <1>3 DEF MatchedIn

LEMMA MatchedNone ==
  ASSUME NEW K PROVE MatchedIn(<<>>, K) = <<>>
<1>1. TxLists(<<>>) = <<>> /\ IdsOf(<<>>) = <<>>
  BY DEF TxLists, IdsOf
<1> QED BY <1>1, NoElement, FilterNone DEF MatchedIn

HasFilter(q) == q.scOnly \in BOOLEAN

\* The filter of a tick.
LEMMA FilteredTick ==
  ASSUME NEW q, HasFilter(q), NEW p \in PerTick
  PROVE  /\ FilterTransactions(q, p) = Filter(p.transactions, Kept(q))
         /\ FilterTransactions(q, p) \in Seq(Tx)
<1>1. PICK txs \in Seq(Tx) : txs = p.transactions
  BY DEF PerTick
<1>2. CASE q.scOnly
  <2>1. [k \in DOMAIN txs |-> IF txs[k].sc THEN <<txs[k]>> ELSE <<>>]
          = [k \in DOMAIN txs |-> IF txs[k] \in Kept(q) THEN <<txs[k]>> ELSE <<>>]
    <3>1. \A k \in DOMAIN txs : txs[k] \in Tx
      OBVIOUS
    <3>2. \A k \in DOMAIN txs : txs[k].sc <=> txs[k] \in Kept(q)
      BY <1>2, <3>1 DEF Kept
    <3> QED BY <3>2
  <2>2. FilterTransactions(q, p) = Filter(txs, Kept(q))
    BY <1>1, <1>2, <2>1 DEF FilterTransactions, Filter
  <2> QED BY <1>1, <2>2, FilterType
<1>3. CASE ~q.scOnly
  <2>1. Tx \subseteq Kept(q)
    BY <1>3 DEF Kept
  <2>2. Filter(txs, Kept(q)) = txs
    BY <2>1, FilterAll
  <2> QED BY <1>1, <1>3, <2>2 DEF FilterTransactions
<1> QED BY <1>2, <1>3 DEF HasFilter

-----------------------------------------------------------------------------
(* The assembly of a page, tick by tick. *)

Assembled == [index : Nat, page : Seq(PerTick)]

\* A further part of the page.
LEMMA IdsAppend ==
  ASSUME NEW part \in Seq(PerTick), NEW p \in PerTick
  PROVE  Ids(Append(part, p)) = Ids(part) \o IdsOf(p.transactions)
<1>1. PICK I : I = Nat \X Nat
  OBVIOUS
<1>2. \A ticks : Ids(ticks) = FlattenSeq(IdLists(ticks))
  BY DEF Ids, IdLists, IdsOf
<1>3. \A x \in PerTick : IdsOf(x.transactions) \in Seq(I)
  <2>1. \A x \in PerTick : x.transactions \in Seq(Tx)
    BY DEF PerTick
  <2> QED BY <1>1, <2>1, IdsOfParts
<1>4. IdLists(part) \in Seq(Seq(I))
  <2>1. DOMAIN part = 1 .. Len(part) /\ Len(part) \in Nat
        /\ \A k \in 1 .. Len(part) : part[k] \in PerTick
    OBVIOUS
  <2>2. \A k \in 1 .. Len(part) : IdsOf(part[k].transactions) \in Seq(I)
    BY <1>3, <2>1
  <2>3. IdLists(part) \in [1 .. Len(part) -> Seq(I)]
    BY <2>1, <2>2 DEF IdLists
  <2> QED BY <2>1, <2>3
<1>5. IdLists(Append(part, p)) = Append(IdLists(part), IdsOf(p.transactions))
  <2>1. /\ DOMAIN part = 1 .. Len(part) /\ Len(part) \in Nat
        /\ DOMAIN Append(part, p) = 1 .. Len(part) + 1
        /\ Append(part, p)[Len(part) + 1] = p
        /\ \A k \in 1 .. Len(part) : Append(part, p)[k] = part[k]
    OBVIOUS
  <2>2. PICK ids : ids = IdsOf(p.transactions)
    OBVIOUS
  <2>3. PICK lists \in Seq(Seq(I)) : lists = IdLists(part)
    BY <1>4
  <2>4. /\ Len(lists) = Len(part)
        /\ \A k \in 1 .. Len(part) : lists[k] = IdsOf(part[k].transactions)
    BY <2>1, <2>3 DEF IdLists
  <2>5. ids \in Seq(I)
    BY <1>3, <2>2
  <2>6. PICK more : more = IdLists(Append(part, p))
    OBVIOUS
  <2>7. more = [k \in 1 .. Len(part) + 1 |-> IdsOf(Append(part, p)[k].transactions)]
    BY <2>1, <2>6 DEF IdLists
  <2>8. \A k \in 1 .. Len(part) + 1 : IdsOf(Append(part, p)[k].transactions) = Append(lists, ids)[k]
    <3> SUFFICES ASSUME NEW k \in 1 .. Len(part) + 1
                 PROVE  IdsOf(Append(part, p)[k].transactions) = Append(lists, ids)[k]
      OBVIOUS
    <3>1. CASE k = Len(part) + 1
      <4>1. Append(part, p)[k] = p
        BY <2>1, <3>1
      <4>2. Append(lists, ids)[k] = ids
        BY <2>4, <2>5, <3>1
      <4> QED BY <2>2, <4>1, <4>2
    <3>2. CASE k # Len(part) + 1
      <4>1. k \in 1 .. Len(part)
        BY <2>1, <3>2
      <4>2. Append(lists, ids)[k] = lists[k]
        BY <2>4, <2>5, <4>1
      <4>3. Append(part, p)[k] = part[k]
        BY <2>1, <4>1
      <4> QED BY <2>4, <4>1, <4>2, <4>3
    <3> QED BY <3>1, <3>2
  <2>9. Append(lists, ids) \in Seq(Seq(I)) /\ Len(Append(lists, ids)) = Len(part) + 1
    BY <2>4, <2>5
  <2>10. PICK ext, N : ext = Append(lists, ids) /\ N = Len(part) + 1
    OBVIOUS
  <2>11. more = ext
    <3>1. more = [k \in 1 .. N |-> more[k]] /\ \A k \in 1 .. N : more[k] = ext[k]
      BY <2>7, <2>8, <2>10
    <3>2. ext \in Seq(Seq(I)) /\ Len(ext) = N
      BY <2>9, <2>10
    <3>3. ext = [k \in 1 .. N |-> ext[k]]
      BY <3>2
    <3> QED BY <3>1, <3>3
  <2> QED BY <2>2, <2>3, <2>6, <2>10, <2>11, Zenon
<1>6. FlattenSeq(Append(IdLists(part), IdsOf(p.transactions)))
        = FlattenSeq(IdLists(part)) \o IdsOf(p.transactions)
  BY <1>3, <1>4, FlattenAppend
<1> QED BY <1>2, <1>5, <1>6

\* acc has the page's part of the records seen so far, and their number.
PageOf(acc, seen, a, b) ==
  /\ acc \in Assembled
  /\ acc.index = Len(seen)
  /\ Ids(acc.page) = Slice(seen, a + 1, b)

\* A further tick keeps it so.
LEMMA PageRound ==
  ASSUME NEW q, HasFilter(q), NEW a \in Nat, NEW b \in Nat, a <= b,
         NEW acc, NEW p \in PerTick, NEW seen \in Seq(Nat \X Nat), PageOf(acc, seen, a, b)
  PROVE  PageOf(GetTransfersPage(q, a, b, acc, p),
                seen \o IdsOf(Filter(p.transactions, Kept(q))), a, b)
<1>a. PICK next, now : /\ next = GetTransfersPage(q, a, b, acc, p)
                       /\ now = seen \o IdsOf(Filter(p.transactions, Kept(q)))
  OBVIOUS
<1>b. acc \in Assembled
  BY DEF PageOf
<1>c. acc.index = Len(seen) /\ Ids(acc.page) = Slice(seen, a + 1, b)
  BY Zenon DEF PageOf
<1>0. /\ FilterTransactions(q, p) = Filter(p.transactions, Kept(q))
      /\ FilterTransactions(q, p) \in Seq(Tx)
  BY FilteredTick, Zenon
<1>1. PICK txs \in Seq(Tx) : txs = FilterTransactions(q, p)
  BY <1>0
<1>2. now = seen \o IdsOf(txs)
  BY <1>a, <1>0, <1>1, Zenon
<1>3. PICK I : I = Nat \X Nat
  OBVIOUS
<1>4. IdsOf(txs) \in Seq(I) /\ Len(IdsOf(txs)) = Len(txs) /\ seen \in Seq(I)
  BY <1>3, IdsOfParts, Zenon
<1>5. PICK n \in Nat, m \in Nat : n = Len(seen) /\ m = Len(txs)
  BY <1>4
<1>5a. n = acc.index
  BY <1>c, <1>5
<1>6. PICK lo \in Nat : lo = Beyond(n, a)
  BY BoundTypes, Zenon
<1>7. PICK hi \in Int : hi = Least(b - n, m)
  BY BoundTypes, Zenon
<1>8. Slice(now, a + 1, b) = Slice(seen, a + 1, b) \o Cut(IdsOf(txs), lo, hi)
  <2>1. lo = Beyond(Len(seen), a) /\ hi = Least(b - Len(seen), Len(IdsOf(txs)))
    BY <1>4, <1>5, <1>6, <1>7, Zenon
  <2>2. Slice(seen \o IdsOf(txs), a + 1, b) = Slice(seen, a + 1, b) \o Cut(IdsOf(txs), lo, hi)
    <3>1. seen \in Seq(I)
      BY <1>4
    <3>2. IdsOf(txs) \in Seq(I)
      BY <1>4
    <3> QED BY <2>1, <3>1, <3>2, SliceMore, ZenonT(30)
  <2> QED BY <1>2, <2>2, Zenon
<1>9. hi <= Len(txs)
  BY <1>5, <1>7, BoundTypes, Zenon
<1>10. PICK taken \in Seq(Tx) : taken = Cut(txs, lo, hi)
  BY <1>9, IdsOfCut
<1>11. Cut(IdsOf(txs), lo, hi) = IdsOf(taken)
  BY <1>9, <1>10, IdsOfCut
<1>12. PICK part : part = [p EXCEPT !.transactions = taken]
  OBVIOUS
<1>13. part \in PerTick /\ part.transactions = taken
  BY <1>12 DEF PerTick
<1>14. next = [index |-> n + m, page |-> IF hi > lo THEN Append(acc.page, part) ELSE acc.page]
  <2>1. (IF a > n THEN a - n ELSE 0) = lo
    BY <1>6 DEF Beyond
  <2>2. (IF b - n < m THEN b - n ELSE m) = hi
    BY <1>7 DEF Least
  <2>3. (m > 0 /\ n + m >= a /\ n < b /\ hi > lo) <=> hi > lo
    BY <1>6, <1>7 DEF Beyond, Least
  <2>4. next = [index |-> n + m,
                page  |-> IF m > 0 /\ n + m >= a /\ n < b /\ hi > lo
                          THEN Append(acc.page, part) ELSE acc.page]
    BY <1>a, <1>1, <1>5, <1>5a, <1>10, <1>12, <2>1, <2>2 DEF GetTransfersPage, Cut
  <2> QED BY <2>3, <2>4
<1>15. acc.page \in Seq(PerTick)
  BY <1>b DEF Assembled
<1>16. next \in Assembled
  BY <1>13, <1>14, <1>15 DEF Assembled
<1>17. next.index = Len(now)
  <2>1. next.index = n + m
    BY <1>14
  <2>2. Len(seen \o IdsOf(txs)) = Len(seen) + Len(IdsOf(txs))
    <3>1. seen \in Seq(I)
      BY <1>4
    <3>2. IdsOf(txs) \in Seq(I)
      BY <1>4
    <3> QED BY <3>1, <3>2, ConcatParts, Zenon
  <2> QED BY <1>2, <1>4, <1>5, <2>1, <2>2, Zenon
<1>18. ASSUME hi > lo PROVE Ids(next.page) = Slice(now, a + 1, b)
  <2>1. next.page = Append(acc.page, part)
    BY <1>14, <1>18
  <2>2. Ids(Append(acc.page, part)) = Ids(acc.page) \o IdsOf(part.transactions)
    BY <1>13, <1>15, IdsAppend, Zenon
  <2> QED BY <1>c, <1>8, <1>11, <1>13, <2>1, <2>2, Zenon
<1>19. ASSUME ~(hi > lo) PROVE Ids(next.page) = Slice(now, a + 1, b)
  <2>1. taken = <<>>
    <3>1. IsPart(taken, txs, lo, hi)
      BY <1>9, <1>10, CutParts
    <3>2. Len(taken) = 0
      BY <1>19, <3>1 DEF IsPart, Beyond
    <3> QED BY <3>2
  <2>2. IdsOf(taken) = <<>>
    BY <2>1 DEF IdsOf
  <2>3. Slice(seen, a + 1, b) \in Seq(I)
    BY <1>4, SliceParts
  <2>4. Slice(seen, a + 1, b) \o <<>> = Slice(seen, a + 1, b)
    BY <2>3
  <2>5. next.page = acc.page
    BY <1>14, <1>19
  <2> QED BY <1>c, <1>8, <1>11, <2>2, <2>4, <2>5
<1> QED BY <1>a, <1>16, <1>17, <1>18, <1>19, Zenon DEF PageOf

\* Every tick leaves a page and a number of records.
LEMMA StepType ==
  ASSUME NEW q, HasFilter(q), NEW a \in Nat, NEW b \in Nat,
         NEW acc \in Assembled, NEW p \in PerTick
  PROVE  GetTransfersPage(q, a, b, acc, p) \in Assembled
<1>1. PICK txs \in Seq(Tx) : txs = FilterTransactions(q, p)
  BY FilteredTick, Zenon
<1>2. acc.index \in Nat /\ acc.page \in Seq(PerTick)
  BY DEF Assembled
<1>3. PICK n \in Nat : n = acc.index
  BY <1>2
<1>4. PICK m \in Nat : m = Len(txs)
  OBVIOUS
<1>5. PICK lo \in Nat : lo = Beyond(n, a)
  BY BoundTypes, Zenon
<1>6. PICK hi \in Int : hi = Least(b - n, m)
  BY BoundTypes, Zenon
<1>7. hi <= Len(txs)
  BY <1>4, <1>6, BoundTypes, Zenon
<1>8. PICK taken \in Seq(Tx) : taken = Cut(txs, lo, hi)
  BY <1>7, IdsOfCut
<1>9. PICK part : part = [p EXCEPT !.transactions = taken]
  OBVIOUS
<1>10. part \in PerTick
  BY <1>9 DEF PerTick
<1>11. PICK added \in BOOLEAN : added = (m > 0 /\ n + m >= a /\ n < b /\ hi > lo)
  OBVIOUS
<1>12. GetTransfersPage(q, a, b, acc, p)
         = [index |-> n + m, page |-> IF added THEN Append(acc.page, part) ELSE acc.page]
  <2>1. (IF a > n THEN a - n ELSE 0) = lo
    BY <1>5 DEF Beyond
  <2>2. (IF b - n < m THEN b - n ELSE m) = hi
    BY <1>6 DEF Least
  <2>4. GetTransfersPage(q, a, b, acc, p)
          = [index |-> n + m,
             page  |-> IF m > 0 /\ n + m >= a /\ n < b /\ hi > lo
                       THEN Append(acc.page, part) ELSE acc.page]
    BY <1>1, <1>3, <1>4, <1>8, <1>9, <2>1, <2>2 DEF GetTransfersPage, Cut
  <2> QED BY <1>11, <2>4
<1> QED BY <1>2, <1>10, <1>12 DEF Assembled

\* f has what the loop over the ticks has assembled after each of them.
Assembles(f, ticks, q, a, b) ==
  f = [k \in 0 .. Len(ticks) |->
         IF k = 0 THEN [index |-> 0, page |-> <<>>]
         ELSE GetTransfersPage(q, a, b, f[k - 1], ticks[k])]

LEMMA AssemblyExists ==
  ASSUME NEW q, HasFilter(q), NEW a \in Nat, NEW b \in Nat, NEW ticks \in Seq(PerTick)
  PROVE  \E f : Assembles(f, ticks, q, a, b)
<1> DEFINE n == Len(ticks)
           base == [index |-> 0, page |-> <<>>]
           step == [k \in 1 .. n |-> [acc \in Assembled |-> GetTransfersPage(q, a, b, acc, ticks[k])]]
<1>1. n \in Nat /\ \A k \in 1 .. n : ticks[k] \in PerTick
  OBVIOUS
<1>2. base \in Assembled
  BY DEF Assembled
<1>3. step \in [1 .. n -> [Assembled -> Assembled]]
  BY <1>1, StepType
<1>4. \E f \in [0 .. n -> Assembled] : Loop(base, n, step, f)
  <2> HIDE DEF n, step, base
  <2> QED BY <1>1, <1>2, <1>3, LoopExists, Zenon
<1>5. PICK f \in [0 .. n -> Assembled] : Loop(base, n, step, f)
  BY <1>4
<1>6. f[0] = base
  BY <1>5, Zenon DEF Loop
<1>7. \A k \in 1 .. n : f[k] = step[k][f[k - 1]]
  BY <1>5, Zenon DEF Loop
<1> HIDE DEF n
<1>8. ASSUME NEW k \in 1 .. n PROVE f[k] = GetTransfersPage(q, a, b, f[k - 1], ticks[k])
  <2>1. k - 1 \in 0 .. n /\ f[k - 1] \in Assembled
    BY <1>1
  <2>2. step[k] = [acc \in Assembled |-> GetTransfersPage(q, a, b, acc, ticks[k])]
    OBVIOUS
  <2>3. step[k][f[k - 1]] = GetTransfersPage(q, a, b, f[k - 1], ticks[k])
    BY <2>1, <2>2
  <2> QED BY <1>7, <2>3
<1>9. ASSUME NEW k \in 0 .. n
      PROVE  f[k] = IF k = 0 THEN base ELSE GetTransfersPage(q, a, b, f[k - 1], ticks[k])
  <2>1. CASE k = 0
    BY <1>6, <2>1
  <2>2. CASE k # 0
    <3>1. k \in 1 .. n
      BY <1>1, <2>2
    <3> QED BY <1>8, <2>2, <3>1
  <2> QED BY <2>1, <2>2
<1>10. f = [k \in 0 .. n |-> IF k = 0 THEN base ELSE GetTransfersPage(q, a, b, f[k - 1], ticks[k])]
  <2> HIDE DEF base
  <2> QED BY <1>9
<1> QED BY <1>10, Zenon DEF Assembles, n

\* The first places of a list, one after the other.
LEMMA CutNext ==
  ASSUME NEW A, NEW s \in Seq(A)
  PROVE  /\ Cut(s, 0, 0) = <<>> /\ Cut(s, 0, Len(s)) = s
         /\ \A m \in Nat : m + 1 <= Len(s) => Cut(s, 0, m + 1) = Cut(s, 0, m) \o <<s[m + 1]>>
<1>1. Len(s) \in Nat /\ 0 \in Nat /\ 0 \in Int /\ Len(s) \in Int
  OBVIOUS
<1>2. \A m \in Nat : m <= Len(s) =>
         /\ Cut(s, 0, m) \in Seq(A) /\ Len(Cut(s, 0, m)) = m
         /\ \A k \in 1 .. m : Cut(s, 0, m)[k] = s[k]
  <2> SUFFICES ASSUME NEW m \in Nat, m <= Len(s)
               PROVE  /\ Cut(s, 0, m) \in Seq(A) /\ Len(Cut(s, 0, m)) = m
                      /\ \A k \in 1 .. m : Cut(s, 0, m)[k] = s[k]
    OBVIOUS
  <2>1. m \in Int
    OBVIOUS
  <2>2. Cut(s, 0, m) \in Seq(A) /\ IsPart(Cut(s, 0, m), s, 0, m)
    BY <1>1, <2>1, CutParts
  <2>3. Beyond(0, m) = m /\ m - 0 = m /\ \A k \in 1 .. m : 0 + k = k
    BY DEF Beyond
  <2> QED BY <2>2, <2>3 DEF IsPart
<1>3. Cut(s, 0, 0) = <<>>
  <2>1. Cut(s, 0, 0) \in Seq(A) /\ Len(Cut(s, 0, 0)) = 0
    BY <1>1, <1>2
  <2> QED BY <2>1
<1>4. Cut(s, 0, Len(s)) = s
  <2>1. PICK c : c = Cut(s, 0, Len(s))
    OBVIOUS
  <2>2. c \in Seq(A) /\ Len(c) = Len(s) /\ \A k \in 1 .. Len(c) : c[k] = s[k]
    BY <1>1, <1>2, <2>1
  <2>3. c = s
    BY <2>2, SameSeq
  <2> QED BY <2>1, <2>3
<1>5. ASSUME NEW m \in Nat, m + 1 <= Len(s)
      PROVE  Cut(s, 0, m + 1) = Cut(s, 0, m) \o <<s[m + 1]>>
  <2>1. PICK c : c = Cut(s, 0, m)
    OBVIOUS
  <2>2. PICK d : d = Cut(s, 0, m + 1)
    OBVIOUS
  <2>3. PICK e \in A : e = s[m + 1]
    BY <1>5
  <2>4. m + 1 \in Nat /\ m <= Len(s)
    BY <1>1, <1>5
  <2>5. c \in Seq(A) /\ Len(c) = m /\ \A k \in 1 .. m : c[k] = s[k]
    BY <1>2, <2>1, <2>4
  <2>6. d \in Seq(A) /\ Len(d) = m + 1 /\ \A k \in 1 .. m + 1 : d[k] = s[k]
    BY <1>2, <1>5, <2>2, <2>4
  <2>7. PICK o : o = <<e>>
    OBVIOUS
  <2>8. o \in Seq(A) /\ Len(o) = 1 /\ o[1] = e
    BY <2>7
  <2>9. Len(d) = Len(c) + Len(o)
    BY <2>5, <2>6, <2>8
  <2>10. \A k \in 1 .. Len(c) : d[k] = c[k]
    BY <2>5, <2>6
  <2>11. \A k \in 1 .. Len(o) : d[Len(c) + k] = o[k]
    <3>1. d[m + 1] = e
      BY <2>3, <2>6
    <3>2. \A k \in 1 .. Len(o) : k = 1
      BY <2>8
    <3> QED BY <2>5, <2>8, <3>1, <3>2
  <2>12. d = c \o o
    BY <2>5, <2>6, <2>8, <2>9, <2>10, <2>11, ConcatBy
  <2> QED BY <2>1, <2>2, <2>3, <2>7, <2>12, Zenon
<1> QED BY <1>3, <1>4, <1>5

\* The page has its part of all that matches, the index counts all.
LEMMA AssembledPage ==
  ASSUME NEW q, HasFilter(q), NEW a \in Nat, NEW b \in Nat, a <= b,
         NEW ticks \in Seq(PerTick), NEW f, Assembles(f, ticks, q, a, b)
  PROVE  PageOf(f[Len(ticks)], MatchedIn(ticks, Kept(q)), a, b)
<1> DEFINE n == Len(ticks)
           K == Kept(q)
           G(m) == MatchedIn(Cut(ticks, 0, m), K)
           Good(m) == PageOf(f[m], G(m), a, b)
           T == {m \in Nat : m <= n => Good(m)}
<1>1. n \in Nat /\ \A k \in 1 .. n : ticks[k] \in PerTick
  OBVIOUS
<1>2. /\ f[0] = [index |-> 0, page |-> <<>>]
      /\ \A k \in 1 .. n : f[k] = GetTransfersPage(q, a, b, f[k - 1], ticks[k])
  <2> HIDE DEF n
  <2>1. f = [k \in 0 .. n |->
               IF k = 0 THEN [index |-> 0, page |-> <<>>]
               ELSE GetTransfersPage(q, a, b, f[k - 1], ticks[k])]
    BY Zenon DEF Assembles, n
  <2>2. \A k \in 0 .. n : f[k] = IF k = 0 THEN [index |-> 0, page |-> <<>>]
                                 ELSE GetTransfersPage(q, a, b, f[k - 1], ticks[k])
    BY <2>1, Zenon
  <2>3. 0 \in 0 .. n /\ \A k \in 1 .. n : k \in 0 .. n /\ k # 0
    BY <1>1
  <2> QED BY <2>2, <2>3
<1>3. Good(0)
  <2>1. G(0) = <<>>
    BY CutNext, MatchedNone, Zenon
  <2>2. f[0] \in Assembled /\ f[0].index = 0 /\ f[0].page = <<>>
    BY <1>2 DEF Assembled
  <2>3. Ids(<<>>) = <<>>
    BY NoElement DEF Ids
  <2>4. Slice(<<>>, a + 1, b) = <<>>
    <3>1. <<>> \in Seq(Nat)
      OBVIOUS
    <3>2. /\ Slice(<<>>, a + 1, b) \in Seq(Nat)
          /\ IsPart(Slice(<<>>, a + 1, b), <<>>, a, Least(b, Len(<<>>)))
      BY <3>1, SliceParts, Zenon
    <3>3. Least(b, Len(<<>>)) = 0
      BY DEF Least
    <3>4. Len(Slice(<<>>, a + 1, b)) = 0
      BY <3>2, <3>3 DEF IsPart, Beyond
    <3> QED BY <3>2, <3>4
  <2> QED BY <2>1, <2>2, <2>3, <2>4 DEF PageOf
<1>4. ASSUME NEW m \in Nat, m + 1 <= n, Good(m) PROVE Good(m + 1)
  <2>1. PICK p \in PerTick : p = ticks[m + 1]
    BY <1>1, <1>4
  <2>2. PICK c \in Seq(PerTick) : c = Cut(ticks, 0, m)
    <3>1. m \in Int /\ 0 \in Nat /\ m <= Len(ticks)
      BY <1>1, <1>4
    <3> QED BY <3>1, CutParts
  <2>3. Cut(ticks, 0, m + 1) = c \o <<p>>
    BY <1>4, <2>1, <2>2, CutNext
  <2>4. <<p>> \in Seq(PerTick)
    OBVIOUS
  <2>5. MatchedIn(c \o <<p>>, K) = MatchedIn(c, K) \o MatchedIn(<<p>>, K)
    <3> HIDE DEF K
    <3> QED BY <2>4, MatchedConcat, ZenonT(30)
  <2>6. MatchedIn(<<p>>, K) = IdsOf(Filter(p.transactions, K))
    <3> HIDE DEF K
    <3> QED BY MatchedOne, Zenon
  <2>7. G(m + 1) = G(m) \o IdsOf(Filter(p.transactions, K))
    BY <2>2, <2>3, <2>5, <2>6, Zenon
  <2>8. f[m + 1] = GetTransfersPage(q, a, b, f[m], p)
    <3>1. m + 1 \in 1 .. n /\ (m + 1) - 1 = m
      BY <1>1, <1>4
    <3> QED BY <1>2, <2>1, <3>1
  <2>9. G(m) \in Seq(Nat \X Nat)
    BY <2>2, MatchedType, Zenon
  <2> HIDE DEF G
  <2>10. PageOf(GetTransfersPage(q, a, b, f[m], p), G(m) \o IdsOf(Filter(p.transactions, K)), a, b)
    BY <1>4, <2>9, PageRound, Zenon
  <2> QED BY <2>7, <2>8, <2>10, Zenon
<1>5. 0 \in T /\ \A m \in T : m + 1 \in T
  <2> HIDE DEF Good
  <2> QED BY <1>1, <1>3, <1>4
<1>6. T \in SUBSET Nat
  OBVIOUS
<1>7. Good(n)
  <2> HIDE DEF Good
  <2>1. T = Nat
    <3> HIDE DEF T
    <3> QED BY <1>5, <1>6, NatSetInduction
  <2> QED BY <1>1, <2>1
<1>8. G(n) = MatchedIn(ticks, K)
  BY CutNext, Zenon
<1> QED BY <1>7, <1>8, Zenon

-----------------------------------------------------------------------------
(* What matches, in an archive that grows. *)

LEMMA ReverseParts ==
  ASSUME NEW A, NEW s \in Seq(A)
  PROVE  /\ Reverse(s) \in Seq(A) /\ Len(Reverse(s)) = Len(s)
         /\ \A k \in 1 .. Len(s) : Reverse(s)[k] = s[(Len(s) - k) + 1]
<1>1. Len(s) \in Nat /\ \A k \in 1 .. Len(s) : s[k] \in A
  OBVIOUS
<1>2. \A k \in 1 .. Len(s) : (Len(s) - k) + 1 \in 1 .. Len(s)
  BY <1>1
<1>3. Reverse(s) \in [1 .. Len(s) -> A]
  BY <1>1, <1>2 DEF Reverse
<1> QED BY <1>1, <1>3 DEF Reverse

LEMMA ReverseConcat ==
  ASSUME NEW A, NEW s \in Seq(A), NEW t \in Seq(A)
  PROVE  Reverse(s \o t) = Reverse(t) \o Reverse(s)
<1>1. PICK st : st = s \o t
  OBVIOUS
<1>2. PICK n \in Nat : n = Len(s)
  OBVIOUS
<1>3. PICK m \in Nat : m = Len(t)
  OBVIOUS
<1>4. /\ st \in Seq(A) /\ Len(st) = n + m
      /\ \A k \in 1 .. n : st[k] = s[k]
      /\ \A k \in 1 .. m : st[n + k] = t[k]
  BY <1>1, <1>2, <1>3, ConcatParts
<1>5. PICK rst : rst = Reverse(st)
  OBVIOUS
<1>6. PICK rs : rs = Reverse(s)
  OBVIOUS
<1>7. PICK rt : rt = Reverse(t)
  OBVIOUS
<1>8. /\ rst \in Seq(A) /\ Len(rst) = n + m
      /\ \A k \in 1 .. n + m : rst[k] = st[((n + m) - k) + 1]
  <2>1. st \in Seq(A)
    BY <1>4
  <2>2. /\ Reverse(st) \in Seq(A) /\ Len(Reverse(st)) = Len(st)
        /\ \A k \in 1 .. Len(st) : Reverse(st)[k] = st[(Len(st) - k) + 1]
    BY <2>1, ReverseParts
  <2> QED BY <1>4, <1>5, <2>2
<1>9. /\ rs \in Seq(A) /\ Len(rs) = n
      /\ \A k \in 1 .. n : rs[k] = s[(n - k) + 1]
  BY <1>2, <1>6, ReverseParts
<1>10. /\ rt \in Seq(A) /\ Len(rt) = m
       /\ \A k \in 1 .. m : rt[k] = t[(m - k) + 1]
  BY <1>3, <1>7, ReverseParts
<1>11. ASSUME NEW k \in 1 .. m PROVE rst[k] = rt[k]
  <2>1. PICK j \in 1 .. m : j = (m - k) + 1
    OBVIOUS
  <2>2. k \in 1 .. n + m /\ ((n + m) - k) + 1 = n + j
    BY <2>1
  <2>3. rst[k] = st[n + j]
    BY <1>8, <2>2
  <2>4. st[n + j] = t[j]
    BY <1>4
  <2>5. rt[k] = t[j]
    BY <1>10, <2>1
  <2> QED BY <2>3, <2>4, <2>5
<1>12. ASSUME NEW k \in 1 .. n PROVE rst[m + k] = rs[k]
  <2>1. PICK j \in 1 .. n : j = (n - k) + 1
    OBVIOUS
  <2>2. m + k \in 1 .. n + m /\ ((n + m) - (m + k)) + 1 = j
    BY <2>1
  <2>3. rst[m + k] = st[j]
    BY <1>8, <2>2
  <2>4. st[j] = s[j]
    BY <1>4
  <2>5. rs[k] = s[j]
    BY <1>9, <2>1
  <2> QED BY <2>3, <2>4, <2>5
<1>13. Len(rst) = Len(rt) + Len(rs)
  BY <1>8, <1>9, <1>10
<1>14. /\ \A k \in 1 .. Len(rt) : rst[k] = rt[k]
       /\ \A k \in 1 .. Len(rs) : rst[Len(rt) + k] = rs[k]
  BY <1>9, <1>10, <1>11, <1>12
<1>15. rst = rt \o rs
  BY <1>8, <1>9, <1>10, <1>13, <1>14, ConcatBy
<1> QED BY <1>1, <1>5, <1>6, <1>7, <1>15

HasOrder(q) == q.descending \in BOOLEAN

\* The requests of a query.
IsQuery(q) ==
  /\ HasFilter(q)
  /\ HasOrder(q)
  /\ q.size \in Nat
  /\ q.kind \in {"transfers", "emptyTicks", "epochTicks"}

LEMMA QueryFacts ==
  ASSUME NEW q \in Query
  PROVE  /\ IsQuery(q)
         /\ q.kind = "transfers" => IsQuery([q EXCEPT !.descending = FALSE, !.scOnly = FALSE])
BY PagingAssumption DEF Query, IsQuery, HasFilter, HasOrder

Within(q) == {p \in PerTick : q.start <= p.tick /\ p.tick < q.end + 1}

LEMMA InRangeFilter ==
  ASSUME NEW q, NEW records \in Seq(PerTick)
  PROVE  InRange(records, q) = Filter(records, Within(q))
<1>1. \A k \in DOMAIN records : records[k] \in PerTick
  OBVIOUS
<1>2. \A k \in DOMAIN records :
        (q.start <= records[k].tick /\ records[k].tick < q.end + 1) <=> records[k] \in Within(q)
  BY <1>1 DEF Within
<1>3. [k \in DOMAIN records |->
         IF q.start <= records[k].tick /\ records[k].tick < q.end + 1 THEN <<records[k]>> ELSE <<>>]
        = [k \in DOMAIN records |-> IF records[k] \in Within(q) THEN <<records[k]>> ELSE <<>>]
  BY <1>2, Zenon
<1> QED BY <1>3, Zenon DEF InRange, Filter

LEMMA IteratedGrown ==
  ASSUME NEW q, HasOrder(q), NEW r \in Seq(PerTick), NEW m \in Seq(PerTick)
  PROVE  /\ Iterated(r, q) \in Seq(PerTick)
         /\ q.descending => Iterated(r \o m, q) = Iterated(m, q) \o Iterated(r, q)
         /\ ~q.descending => Iterated(r \o m, q) = Iterated(r, q) \o Iterated(m, q)
<1>1. PICK W : W = Within(q)
  OBVIOUS
<1>2. r \o m \in Seq(PerTick)
  BY ConcatParts
<1>3. InRange(r, q) = Filter(r, W) /\ InRange(m, q) = Filter(m, W) /\ InRange(r \o m, q) = Filter(r \o m, W)
  BY <1>1, <1>2, InRangeFilter, Zenon
<1>4. Filter(r, W) \in Seq(PerTick) /\ Filter(m, W) \in Seq(PerTick)
  BY FilterType
<1>5. Filter(r \o m, W) = Filter(r, W) \o Filter(m, W)
  BY FilterConcat
<1>6. Reverse(Filter(r, W)) \in Seq(PerTick)
  BY <1>4, ReverseParts, Zenon
<1>7. Reverse(Filter(r, W) \o Filter(m, W)) = Reverse(Filter(m, W)) \o Reverse(Filter(r, W))
  BY <1>4, ReverseConcat, Zenon
<1>8. CASE q.descending
  <2>1. /\ Iterated(r, q) = Reverse(InRange(r, q)) /\ Iterated(m, q) = Reverse(InRange(m, q))
        /\ Iterated(r \o m, q) = Reverse(InRange(r \o m, q))
    BY <1>8 DEF Iterated
  <2>2. Iterated(r, q) \in Seq(PerTick)
    BY <1>3, <1>6, <2>1, Zenon
  <2>3. Iterated(r \o m, q) = Iterated(m, q) \o Iterated(r, q)
    BY <1>3, <1>5, <1>7, <2>1, Zenon
  <2> QED BY <1>8, <2>2, <2>3, Zenon
<1>9. CASE ~q.descending
  <2>1. /\ Iterated(r, q) = InRange(r, q) /\ Iterated(m, q) = InRange(m, q)
        /\ Iterated(r \o m, q) = InRange(r \o m, q)
    BY <1>9 DEF Iterated
  <2>2. Iterated(r, q) \in Seq(PerTick)
    BY <1>3, <1>4, <2>1, Zenon
  <2>3. Iterated(r \o m, q) = Iterated(r, q) \o Iterated(m, q)
    BY <1>3, <1>5, <2>1, Zenon
  <2> QED BY <1>9, <2>2, <2>3, Zenon
<1> QED BY <1>8, <1>9 DEF HasOrder

LEMMA TransfersMatched ==
  ASSUME NEW q, IsQuery(q), q.kind = "transfers", NEW r \in Seq(PerTick)
  PROVE  MatchingTransfers(r, q) = MatchedIn(Iterated(r, q), Kept(q))
<1>1. PICK ticks \in Seq(PerTick) : ticks = Iterated(r, q)
  BY IteratedGrown DEF IsQuery
<1>2. PICK all \in Seq(Tx) : all = FlattenSeq(TxLists(ticks))
  <2>1. FlattenSeq(TxLists(ticks)) \in Seq(Tx)
    BY TxListsParts, FlattenElements
  <2> QED BY <2>1
<1>3. all = FlattenSeq([k \in DOMAIN ticks |-> ticks[k].transactions])
  BY <1>2, Zenon DEF TxLists
<1>4. Filter(all, Kept(q)) = FlattenSeq([k \in DOMAIN all |->
                               IF q.scOnly => all[k].sc THEN <<all[k]>> ELSE <<>>])
  <2>1. \A k \in DOMAIN all : all[k] \in Kept(q) <=> (q.scOnly => all[k].sc)
    BY DEF Kept
  <2>2. [k \in DOMAIN all |-> IF q.scOnly => all[k].sc THEN <<all[k]>> ELSE <<>>]
          = [k \in DOMAIN all |-> IF all[k] \in Kept(q) THEN <<all[k]>> ELSE <<>>]
    BY <2>1, Zenon
  <2> QED BY <2>2, Zenon DEF Filter
<1> QED BY <1>1, <1>2, <1>3, <1>4, Zenon DEF MatchingTransfers, MatchedIn, IdsOf

LEMMA RecordLists ==
  /\ Seq(Nat) \subseteq Seq(Record)
  /\ Seq(Nat \X Nat) \subseteq Seq(Record)
<1>1. \A A, B : A \subseteq B => Seq(A) \subseteq Seq(B)
  OBVIOUS
<1>2. Nat \subseteq Record /\ (Nat \X Nat) \subseteq Record
  BY DEF Record
<1> QED BY <1>1, <1>2, Zenon

\* The records of later keys match after the others, or before them when the
\* newest come first.
LEMMA TransfersGrown ==
  ASSUME NEW q, IsQuery(q), q.kind = "transfers", NEW r \in Seq(PerTick), NEW m \in Seq(PerTick)
  PROVE  /\ MatchingTransfers(r, q) \in Seq(Record)
         /\ q.descending =>
              MatchingTransfers(r \o m, q) = MatchingTransfers(m, q) \o MatchingTransfers(r, q)
         /\ ~q.descending =>
              MatchingTransfers(r \o m, q) = MatchingTransfers(r, q) \o MatchingTransfers(m, q)
<1>1. r \o m \in Seq(PerTick)
  BY ConcatParts
<1>2. PICK K : K = Kept(q)
  OBVIOUS
<1>3. PICK ir \in Seq(PerTick) : ir = Iterated(r, q)
  BY IteratedGrown DEF IsQuery
<1>4. PICK im \in Seq(PerTick) : im = Iterated(m, q)
  BY IteratedGrown DEF IsQuery
<1>5. /\ MatchingTransfers(r, q) = MatchedIn(ir, K) /\ MatchingTransfers(m, q) = MatchedIn(im, K)
      /\ MatchingTransfers(r \o m, q) = MatchedIn(Iterated(r \o m, q), K)
  BY <1>1, <1>2, <1>3, <1>4, TransfersMatched, Zenon
<1>6. MatchingTransfers(r, q) \in Seq(Record)
  BY <1>5, MatchedType, RecordLists, Zenon
<1>7. ASSUME q.descending
      PROVE  MatchingTransfers(r \o m, q) = MatchingTransfers(m, q) \o MatchingTransfers(r, q)
  <2>1. Iterated(r \o m, q) = im \o ir
    BY <1>3, <1>4, <1>7, IteratedGrown, Zenon DEF IsQuery
  <2>2. MatchedIn(im \o ir, K) = MatchedIn(im, K) \o MatchedIn(ir, K)
    BY MatchedConcat, ZenonT(30)
  <2> QED BY <1>5, <2>1, <2>2, Zenon
<1>8. ASSUME ~q.descending
      PROVE  MatchingTransfers(r \o m, q) = MatchingTransfers(r, q) \o MatchingTransfers(m, q)
  <2>1. Iterated(r \o m, q) = ir \o im
    BY <1>3, <1>4, <1>8, IteratedGrown, Zenon DEF IsQuery
  <2>2. MatchedIn(ir \o im, K) = MatchedIn(ir, K) \o MatchedIn(im, K)
    BY MatchedConcat, ZenonT(30)
  <2> QED BY <1>5, <2>1, <2>2, Zenon
<1> QED BY <1>6, <1>7, <1>8

\* How many match is the sum of the parts.
LEMMA TransfersCount ==
  ASSUME NEW q, IsQuery(q), q.kind = "transfers", NEW r \in Seq(PerTick), NEW m \in Seq(PerTick)
  PROVE  /\ Len(MatchingTransfers(r \o m, q))
              = Len(MatchingTransfers(r, q)) + Len(MatchingTransfers(m, q))
         /\ Len(MatchingTransfers(r, q)) \in Nat
<1>1. PICK x \in Seq(Record) : x = MatchingTransfers(r, q)
  BY TransfersGrown, Zenon
<1>2. PICK y \in Seq(Record) : y = MatchingTransfers(m, q)
  BY TransfersGrown, Zenon
<1>3. PICK z : z = MatchingTransfers(r \o m, q)
  OBVIOUS
<1>4. z = x \o y \/ z = y \o x
  BY <1>1, <1>2, <1>3, TransfersGrown, Zenon DEF IsQuery, HasOrder
<1>5. Len(x \o y) = Len(x) + Len(y) /\ Len(x) \in Nat /\ Len(y) \in Nat
  BY ConcatParts
<1>6. Len(y \o x) = Len(y) + Len(x)
  BY ConcatParts
<1>7. Len(z) = Len(x) + Len(y)
  BY <1>4, <1>5, <1>6
<1> QED BY <1>1, <1>2, <1>3, <1>5, <1>7, Zenon

-----------------------------------------------------------------------------
(* The keys of the identity. *)

IsArchive(ar) == \A t \in DOMAIN ar : ar[t] \in Seq(Tx)

\* The key of a tick, and the keys of the ticks after a up to b.
KeyAt(ar, t) == IF t \in DOMAIN ar THEN <<[tick |-> t, transactions |-> ar[t]]>> ELSE <<>>
KeyList(ar, a, b)  == [k \in 1 .. b - a |-> KeyAt(ar, a + k)]
KeysFrom(ar, a, b) == FlattenSeq(KeyList(ar, a, b))

LEMMA KeyAtType ==
  ASSUME NEW ar, IsArchive(ar), NEW t \in Nat
  PROVE  KeyAt(ar, t) \in Seq(PerTick)
<1>1. CASE t \in DOMAIN ar
  <2>1. PICK txs \in Seq(Tx) : txs = ar[t]
    BY <1>1 DEF IsArchive
  <2>2. [tick |-> t, transactions |-> txs] \in PerTick
    BY DEF PerTick
  <2>3. <<[tick |-> t, transactions |-> txs]>> \in Seq(PerTick)
    BY <2>2, OneElement, Zenon
  <2> QED BY <1>1, <2>1, <2>3, Zenon DEF KeyAt
<1>2. CASE t \notin DOMAIN ar
  BY <1>2 DEF KeyAt
<1> QED BY <1>1, <1>2

LEMMA KeyListParts ==
  ASSUME NEW ar, IsArchive(ar), NEW a \in Nat, NEW b \in Nat, a <= b
  PROVE  /\ KeyList(ar, a, b) \in Seq(Seq(PerTick)) /\ Len(KeyList(ar, a, b)) = b - a
         /\ \A k \in 1 .. b - a : KeyList(ar, a, b)[k] = KeyAt(ar, a + k)
<1>1. PICK n \in Nat : n = b - a
  OBVIOUS
<1>2. \A k \in 1 .. n : a + k \in Nat
  OBVIOUS
<1>3. \A k \in 1 .. n : KeyAt(ar, a + k) \in Seq(PerTick)
  BY <1>2, KeyAtType, Zenon
<1>4. PICK list : list = KeyList(ar, a, b)
  OBVIOUS
<1>5. list = [k \in 1 .. n |-> KeyAt(ar, a + k)]
  BY <1>1, <1>4 DEF KeyList
<1>6. list \in [1 .. n -> Seq(PerTick)]
  BY <1>3, <1>5
<1>7. list \in Seq(Seq(PerTick)) /\ Len(list) = n
  <2> DEFINE S == Seq(PerTick)
  <2> HIDE DEF S
  <2> QED BY <1>6 DEF S
<1>8. \A k \in 1 .. n : list[k] = KeyAt(ar, a + k)
  BY <1>5
<1> QED BY <1>1, <1>4, <1>7, <1>8, Zenon

\* The keys up to m, then the others.
LEMMA KeysSplit ==
  ASSUME NEW ar, IsArchive(ar), NEW a \in Nat, NEW m \in Nat, NEW b \in Nat, a <= m, m <= b
  PROVE  /\ KeysFrom(ar, a, b) = KeysFrom(ar, a, m) \o KeysFrom(ar, m, b)
         /\ KeysFrom(ar, a, m) \in Seq(PerTick) /\ KeysFrom(ar, m, b) \in Seq(PerTick)
<1>0. a <= b
  OBVIOUS
<1>1. PICK s \in Seq(Seq(PerTick)) : s = KeyList(ar, a, m)
  BY KeyListParts
<1>2. PICK r \in Seq(Seq(PerTick)) : r = KeyList(ar, m, b)
  BY KeyListParts
<1>3. PICK c \in Seq(Seq(PerTick)) : c = KeyList(ar, a, b)
  BY <1>0, KeyListParts
<1>4. Len(s) = m - a /\ \A k \in 1 .. m - a : s[k] = KeyAt(ar, a + k)
  BY <1>1, KeyListParts, Zenon
<1>5. Len(r) = b - m /\ \A k \in 1 .. b - m : r[k] = KeyAt(ar, m + k)
  BY <1>2, KeyListParts, Zenon
<1>6. Len(c) = b - a /\ \A k \in 1 .. b - a : c[k] = KeyAt(ar, a + k)
  BY <1>0, <1>3, KeyListParts, Zenon
<1>7. Len(c) = Len(s) + Len(r)
  BY <1>4, <1>5, <1>6
<1>8. \A k \in 1 .. Len(s) : c[k] = s[k]
  <2> SUFFICES ASSUME NEW k \in 1 .. m - a PROVE c[k] = s[k]
    BY <1>4
  <2>1. k \in 1 .. b - a
    OBVIOUS
  <2> QED BY <1>4, <1>6, <2>1, Zenon
<1>9. \A k \in 1 .. Len(r) : c[Len(s) + k] = r[k]
  <2> SUFFICES ASSUME NEW k \in 1 .. b - m PROVE c[(m - a) + k] = r[k]
    BY <1>4, <1>5
  <2>1. PICK j \in 1 .. b - a : j = (m - a) + k
    OBVIOUS
  <2>2. a + j = m + k
    BY <2>1
  <2> QED BY <1>5, <1>6, <2>1, <2>2, Zenon
<1>10. c = s \o r
  <2> DEFINE S == Seq(PerTick)
  <2>1. s \in Seq(S) /\ r \in Seq(S) /\ c \in Seq(S)
    OBVIOUS
  <2> HIDE DEF S
  <2> QED BY <1>7, <1>8, <1>9, <2>1, ConcatBy
<1>11. FlattenSeq(s \o r) = FlattenSeq(s) \o FlattenSeq(r)
  BY FlattenConcat, Zenon
<1>12. FlattenSeq(s) \in Seq(PerTick) /\ FlattenSeq(r) \in Seq(PerTick)
  BY FlattenElements, Zenon
<1> QED BY <1>1, <1>2, <1>3, <1>10, <1>11, <1>12, Zenon DEF KeysFrom

LEMMA KeysFromOne ==
  ASSUME NEW ar, IsArchive(ar), NEW a \in Nat, NEW t \in Nat, t = a + 1
  PROVE  KeysFrom(ar, a, t) = KeyAt(ar, t)
<1>1. PICK s : s = KeyAt(ar, t)
  OBVIOUS
<1>2. s \in Seq(PerTick)
  BY <1>1, KeyAtType, Zenon
<1>3. KeyList(ar, a, t) = <<s>>
  <2>1. t - a = 1 /\ a + 1 = t
    OBVIOUS
  <2>2. KeyList(ar, a, t) = [k \in 1 .. 1 |-> KeyAt(ar, a + k)]
    BY <2>1, Zenon DEF KeyList
  <2>3. \A k \in 1 .. 1 : KeyAt(ar, a + k) = s
    <3>1. \A k \in 1 .. 1 : a + k = t
      BY <2>1
    <3> QED BY <1>1, <3>1, Zenon
  <2>4. [k \in 1 .. 1 |-> KeyAt(ar, a + k)] = [k \in 1 .. 1 |-> s]
    BY <2>3, Zenon
  <2>5. [k \in 1 .. 1 |-> s] = <<s>>
    OBVIOUS
  <2> QED BY <2>2, <2>4, <2>5, Zenon
<1>4. FlattenSeq(<<s>>) = s
  BY <1>2, FlattenOne, Zenon
<1> QED BY <1>1, <1>3, <1>4, Zenon DEF KeysFrom

LEMMA KeysFromStart ==
  ASSUME NEW ar, NEW b \in Nat
  PROVE  KeysUpTo(ar, b) = KeysFrom(ar, 0, b)
<1>1. b - 0 = b /\ \A t \in 1 .. b : 0 + t = t
  OBVIOUS
<1>2. [t \in 1 .. b |-> IF t \in DOMAIN ar THEN <<[tick |-> t, transactions |-> ar[t]]>> ELSE <<>>]
        = [k \in 1 .. b |-> KeyAt(ar, 0 + k)]
  <2>1. \A t \in 1 .. b : KeyAt(ar, 0 + t) =
          IF t \in DOMAIN ar THEN <<[tick |-> t, transactions |-> ar[t]]>> ELSE <<>>
    BY <1>1, Zenon DEF KeyAt
  <2> QED BY <2>1, Zenon
<1>3. KeyList(ar, 0, b) = [k \in 1 .. b |-> KeyAt(ar, 0 + k)]
  BY <1>1, Zenon DEF KeyList
<1> QED BY <1>2, <1>3, Zenon DEF KeysUpTo, KeysFrom

\* Keys of other ticks do not matter.
SameKeys(ar, ar2, a, b) == \A t \in Nat : a < t /\ t <= b => KeyAt(ar2, t) = KeyAt(ar, t)

LEMMA KeysSame ==
  ASSUME NEW ar, NEW ar2, NEW a \in Nat, NEW b \in Nat, SameKeys(ar, ar2, a, b)
  PROVE  KeysFrom(ar2, a, b) = KeysFrom(ar, a, b)
<1>1. \A k \in 1 .. b - a : KeyAt(ar2, a + k) = KeyAt(ar, a + k)
  <2> SUFFICES ASSUME NEW k \in 1 .. b - a PROVE KeyAt(ar2, a + k) = KeyAt(ar, a + k)
    OBVIOUS
  <2>1. PICK t \in Nat : t = a + k /\ a < t /\ t <= b
    OBVIOUS
  <2> QED BY <2>1, Zenon DEF SameKeys
<1>2. KeyList(ar2, a, b) = KeyList(ar, a, b)
  BY <1>1, Zenon DEF KeyList
<1> QED BY <1>2, Zenon DEF KeysFrom

LEMMA KeysType ==
  ASSUME NEW ar, IsArchive(ar), NEW b \in Nat
  PROVE  KeysUpTo(ar, b) \in Seq(PerTick)
<1>1. 0 \in Nat /\ 0 <= b /\ b <= b
  OBVIOUS
<1>2. KeysFrom(ar, 0, b) \in Seq(PerTick)
  BY <1>1, KeysSplit, Zenon
<1> QED BY <1>2, KeysFromStart, Zenon

\* The keys before a tick, its own, and those after it.
LEMMA KeysAround ==
  ASSUME NEW ar, IsArchive(ar), NEW s \in Nat, NEW t \in Nat, t = s + 1, NEW n \in Nat, t <= n
  PROVE  /\ KeysUpTo(ar, n) = (KeysFrom(ar, 0, s) \o KeyAt(ar, t)) \o KeysFrom(ar, t, n)
         /\ KeysFrom(ar, 0, s) \in Seq(PerTick) /\ KeyAt(ar, t) \in Seq(PerTick)
         /\ KeysFrom(ar, t, n) \in Seq(PerTick)
         /\ KeysFrom(ar, 0, s) \o KeyAt(ar, t) \in Seq(PerTick)
<1>1. 0 \in Nat /\ 0 <= s /\ s <= t /\ 0 <= t
  OBVIOUS
<1>2. KeysFrom(ar, 0, n) = KeysFrom(ar, 0, t) \o KeysFrom(ar, t, n)
      /\ KeysFrom(ar, 0, t) \in Seq(PerTick) /\ KeysFrom(ar, t, n) \in Seq(PerTick)
  BY <1>1, KeysSplit, ZenonT(40)
<1>3. KeysFrom(ar, 0, t) = KeysFrom(ar, 0, s) \o KeysFrom(ar, s, t)
      /\ KeysFrom(ar, 0, s) \in Seq(PerTick) /\ KeysFrom(ar, s, t) \in Seq(PerTick)
  BY <1>1, KeysSplit, ZenonT(40)
<1>4. KeysFrom(ar, s, t) = KeyAt(ar, t)
  BY KeysFromOne, Zenon
<1>5. KeysUpTo(ar, n) = KeysFrom(ar, 0, n)
  BY KeysFromStart, Zenon
<1> QED BY <1>2, <1>3, <1>4, <1>5, Zenon

LEMMA ListedType ==
  ASSUME NEW list \in Seq(Nat), NEW q, IsQuery(q)
  PROVE  ListedTicks(list, q) \in Seq(Nat)
<1>1. Reverse(list) \in Seq(Nat)
  BY ReverseParts, Zenon
<1> QED BY <1>1, Zenon DEF ListedTicks

LEMMA MatchingType ==
  ASSUME NEW ar, IsArchive(ar), NEW list \in Seq(Nat), NEW last \in Nat, NEW q, IsQuery(q)
  PROVE  MatchingUpTo(ar, last, list, q) \in Seq(Record)
<1>1. CASE q.kind = "transfers"
  <2>1. PICK r \in Seq(PerTick) : r = KeysUpTo(ar, last)
    BY KeysType, Zenon
  <2>2. MatchingTransfers(r, q) \in Seq(Record)
    BY <1>1, TransfersGrown, Zenon
  <2> QED BY <1>1, <2>1, <2>2, Zenon DEF MatchingUpTo
<1>2. CASE q.kind # "transfers"
  <2>1. ListedTicks(list, q) \in Seq(Record)
    BY ListedType, RecordLists, Zenon
  <2> QED BY <1>2, <2>1, Zenon DEF MatchingUpTo
<1> QED BY <1>1, <1>2

-----------------------------------------------------------------------------
(* A list stored again in another order. *)

Places(s, K) == {k \in 1 .. Len(s) : s[k] \in K}

LEMMA PlacesFinite ==
  ASSUME NEW A, NEW s \in Seq(A), NEW K
  PROVE  IsFiniteSet(Places(s, K)) /\ Cardinality(Places(s, K)) \in Nat
<1>1. IsFiniteSet(1 .. Len(s))
  <2>1. Len(s) \in Int /\ 1 \in Int
    OBVIOUS
  <2> QED BY <2>1, FS_Interval
<1>2. Places(s, K) \subseteq 1 .. Len(s)
  BY DEF Places
<1>3. IsFiniteSet(Places(s, K))
  BY <1>1, <1>2, FS_Subset
<1> QED BY <1>3, FS_CardinalityType

LEMMA FilterAppend ==
  ASSUME NEW A, NEW r \in Seq(A), NEW e \in A, NEW K
  PROVE  Filter(Append(r, e), K) = Filter(r, K) \o (IF e \in K THEN <<e>> ELSE <<>>)
<1>1. PICK one : one = <<e>>
  OBVIOUS
<1>2. one \in Seq(A) /\ Append(r, e) = r \o one
  BY <1>1
<1>3. Filter(r \o one, K) = Filter(r, K) \o Filter(one, K)
  BY <1>2, FilterConcat
<1>4. Filter(<<e>>, K) = IF e \in K THEN <<e>> ELSE <<>>
  BY FilterOne, Zenon
<1> QED BY <1>1, <1>2, <1>3, <1>4, Zenon

\* A filter keeps as many elements as there are places that it keeps.
LEMMA FilterCount ==
  ASSUME NEW A, NEW s \in Seq(A), NEW K
  PROVE  Len(Filter(s, K)) = Cardinality(Places(s, K))
<1> DEFINE Good(r) == Len(Filter(r, K)) = Cardinality(Places(r, K))
           T == {r \in Seq(A) : Good(r)}
<1>1. Good(<<>>)
  <2>1. Places(<<>>, K) = {}
    BY DEF Places
  <2>2. Filter(<<>>, K) = <<>>
    BY FilterNone, Zenon
  <2>3. Len(<<>>) = 0 /\ Cardinality({}) = 0
    BY FS_EmptySet
  <2> QED BY <2>1, <2>2, <2>3
<1>2. ASSUME NEW r \in Seq(A), Good(r), NEW e \in A PROVE Good(Append(r, e))
  <2>1. PICK n \in Nat : n = Len(r)
    OBVIOUS
  <2>2. PICK more \in Seq(A) : more = Append(r, e)
    <3>1. Append(r, e) \in Seq(A)
      OBVIOUS
    <3> QED BY <3>1, Zenon
  <2>3. /\ Len(more) = n + 1 /\ more[n + 1] = e
        /\ \A k \in 1 .. n : more[k] = r[k]
    BY <2>1, <2>2
  <2>4. PICK fr \in Seq(A) : fr = Filter(r, K)
    BY FilterType, Zenon
  <2>6. Filter(more, K) = fr \o (IF e \in K THEN <<e>> ELSE <<>>)
    BY <2>2, <2>4, FilterAppend, Zenon
  <2>7. IsFiniteSet(Places(r, K)) /\ Cardinality(Places(r, K)) \in Nat
    BY PlacesFinite, Zenon
  <2>8. CASE e \in K
    <3>1. Places(more, K) = Places(r, K) \cup {n + 1}
      BY <2>1, <2>3, <2>8 DEF Places
    <3>2. n + 1 \notin Places(r, K)
      BY <2>1 DEF Places
    <3>3. Cardinality(Places(more, K)) = Cardinality(Places(r, K)) + 1
      BY <2>7, <3>1, <3>2, FS_AddElement
    <3>4. Len(Filter(more, K)) = Len(fr) + 1
      <4>1. Filter(more, K) = fr \o <<e>>
        BY <2>6, <2>8, Zenon
      <4> QED BY <4>1
    <3> QED BY <1>2, <2>2, <2>4, <3>3, <3>4
  <2>9. CASE e \notin K
    <3>1. Places(more, K) = Places(r, K)
      BY <2>1, <2>3, <2>9 DEF Places
    <3>2. Filter(more, K) = fr
      <4>1. Filter(more, K) = fr \o <<>>
        BY <2>6, <2>9, Zenon
      <4> QED BY <4>1
    <3> QED BY <1>2, <2>2, <2>4, <3>1, <3>2
  <2> QED BY <2>8, <2>9
<1> HIDE DEF Good
<1>3. <<>> \in T /\ \A r \in T : \A e \in A : Append(r, e) \in T
  <2>1. <<>> \in Seq(A) /\ \A r \in Seq(A) : \A e \in A : Append(r, e) \in Seq(A)
    OBVIOUS
  <2> QED BY <1>1, <1>2, <2>1, Zenon
<1>4. T \in SUBSET Seq(A)
  OBVIOUS
<1> HIDE DEF T
<1>5. T = Seq(A)
  BY <1>3, <1>4, SeqSetInduction, Zenon
<1>6. Good(s)
  BY <1>5 DEF T
<1> QED BY <1>6 DEF Good

\* As many elements of a list are kept, in whatever order it is.
Rearranged(s, r) ==
  \E order \in Bijection(DOMAIN s, DOMAIN s) : r = Reordered(s, order)

SameCounts(s, r) == \A K : Len(Filter(r, K)) = Len(Filter(s, K))

LEMMA FilterRearranged ==
  ASSUME NEW A, NEW s \in Seq(A), NEW r, Rearranged(s, r)
  PROVE  r \in Seq(A) /\ SameCounts(s, r)
<1>0. PICK order \in Bijection(DOMAIN s, DOMAIN s) : r = [k \in DOMAIN s |-> s[order[k]]]
  BY DEF Rearranged, Reordered
<1>1. PICK n \in Nat : n = Len(s)
  OBVIOUS
<1>2. DOMAIN s = 1 .. n /\ \A k \in 1 .. n : s[k] \in A
  BY <1>1
<1>3. /\ order \in [1 .. n -> 1 .. n]
      /\ \A j, k \in 1 .. n : order[j] = order[k] => j = k
      /\ \A j \in 1 .. n : \E k \in 1 .. n : order[k] = j
  BY <1>2 DEF Bijection, Injection, Surjection, IsInjective
<1>4. r \in [1 .. n -> A] /\ \A k \in 1 .. n : r[k] = s[order[k]]
  BY <1>0, <1>2, <1>3
<1>5. r \in Seq(A) /\ Len(r) = n
  BY <1>4
<1> SUFFICES ASSUME NEW K PROVE Len(Filter(r, K)) = Len(Filter(s, K))
  BY <1>5 DEF SameCounts
<1>6. PICK S : S = Places(r, K)
  OBVIOUS
<1>7. PICK T : T = Places(s, K)
  OBVIOUS
<1>8. S = {k \in 1 .. n : s[order[k]] \in K} /\ T = {j \in 1 .. n : s[j] \in K}
  BY <1>1, <1>4, <1>5, <1>6, <1>7 DEF Places
<1>9. ExistsBijection(S, T)
  <2>1. PICK f : f = [k \in S |-> order[k]]
    OBVIOUS
  <2>2. f \in [S -> T]
    BY <1>3, <1>8, <2>1
  <2>3. \A j, k \in S : f[j] = f[k] => j = k
    BY <1>3, <1>8, <2>1
  <2>4. \A j \in T : \E k \in S : f[k] = j
    <3> SUFFICES ASSUME NEW j \in T PROVE \E k \in S : f[k] = j
      OBVIOUS
    <3>1. PICK k \in 1 .. n : order[k] = j
      BY <1>3, <1>8
    <3>2. k \in S
      BY <1>8, <3>1
    <3> QED BY <2>1, <3>1, <3>2
  <2>5. f \in Bijection(S, T)
    BY <2>2, <2>3, <2>4 DEF Bijection, Injection, Surjection, IsInjective
  <2> QED BY <2>5 DEF ExistsBijection
<1>10. IsFiniteSet(S)
  <2>1. r \in Seq(A)
    BY <1>5
  <2> QED BY <1>6, <2>1, PlacesFinite, Zenon
<1>11. Cardinality(T) = Cardinality(S)
  BY <1>9, <1>10, FS_Bijection
<1>12. Len(Filter(r, K)) = Cardinality(S) /\ Len(Filter(s, K)) = Cardinality(T)
  <2>1. r \in Seq(A)
    BY <1>5
  <2> QED BY <1>6, <1>7, <2>1, FilterCount, Zenon
<1> QED BY <1>11, <1>12

-----------------------------------------------------------------------------
(* Page numbers and sorted ticks. *)

LEMMA Multiples ==
  ASSUME NEW a \in Int, NEW b \in Int, NEW size \in Nat \ {0}
  PROVE  /\ a * size \in Int /\ (a + 1) * size = a * size + size
         /\ a <= b => a * size <= b * size
         /\ a < b => a * size + size <= b * size
         /\ a \in Nat => a * size \in Nat
<1>1. a * size \in Int /\ b * size \in Int /\ (a + 1) * size = a * size + size
  OBVIOUS
<1>2. ASSUME a <= b PROVE a * size <= b * size
  <2>1. b - a >= 0 /\ (b - a) * size >= 0
    BY <1>2
  <2>2. (b - a) * size = b * size - a * size
    OBVIOUS
  <2> QED BY <1>1, <2>1, <2>2
<1>3. ASSUME a < b PROVE a * size + size <= b * size
  <2>1. b - (a + 1) >= 0 /\ (b - (a + 1)) * size >= 0
    BY <1>3
  <2>2. (b - (a + 1)) * size = b * size - (a * size + size)
    OBVIOUS
  <2> QED BY <1>1, <2>1, <2>2
<1>4. a \in Nat => a * size \in Nat
  OBVIOUS
<1> QED BY <1>1, <1>2, <1>3, <1>4

\* Page k exists exactly when the pages before it do not hold all records.
LEMMA PageCounts ==
  ASSUME NEW n \in Nat, NEW size \in Nat \ {0}, NEW k \in Int
  PROVE  /\ PageCount(n, size) \in Int
         /\ k <= PageCount(n, size) <=> (k - 1) * size < n
<1>1. PICK d \in Int : d = n \div size
  OBVIOUS
<1>2. PICK r \in Int : r = n % size /\ 0 <= r /\ r < size
  OBVIOUS
<1>3. n - size * d = r
  BY <1>1, <1>2
<1>4. size * d = d * size /\ d * size \in Int /\ (k - 1) * size \in Int /\ k - 1 \in Int
  OBVIOUS
<1>5. n = d * size + r
  BY <1>3, <1>4
<1>6. /\ k - 1 <= d => (k - 1) * size <= d * size
      /\ k - 1 < d => (k - 1) * size + size <= d * size
      /\ d <= k - 1 => d * size <= (k - 1) * size
      /\ d < k - 1 => d * size + size <= (k - 1) * size
  BY <1>4, Multiples
<1>7. CASE r = 0
  <2>1. PageCount(n, size) = d
    BY <1>1, <1>2, <1>7 DEF PageCount
  <2>2. PICK x \in Int : x = (k - 1) * size
    BY <1>4
  <2>3. PICK y \in Int : y = d * size
    BY <1>4
  <2> QED BY <1>2, <1>5, <1>6, <1>7, <2>1, <2>2, <2>3
<1>8. CASE r # 0
  <2>1. PageCount(n, size) = d + 1
    BY <1>1, <1>2, <1>8 DEF PageCount
  <2>2. PICK x \in Int : x = (k - 1) * size
    BY <1>4
  <2>3. PICK y \in Int : y = d * size
    BY <1>4
  <2> QED BY <1>2, <1>5, <1>6, <1>8, <2>1, <2>2, <2>3
<1> QED BY <1>7, <1>8

\* The first places of a list without duplicates.
FirstOf(list, m) == {list[j] : j \in 1 .. m}

LEMMA FirstCount ==
  ASSUME NEW list, NEW n \in Nat, \A j, k \in 1 .. n : list[j] = list[k] => j = k
  PROVE  \A m \in 0 .. n : IsFiniteSet(FirstOf(list, m)) /\ Cardinality(FirstOf(list, m)) = m
<1> DEFINE Good(m) == IsFiniteSet(FirstOf(list, m)) /\ Cardinality(FirstOf(list, m)) = m
           T == {m \in Nat : m <= n => Good(m)}
<1>1. Good(0)
  <2>1. FirstOf(list, 0) = {}
    BY DEF FirstOf
  <2> QED BY <2>1, FS_EmptySet
<1>2. ASSUME NEW m \in Nat, m + 1 <= n, Good(m) PROVE Good(m + 1)
  <2>1. FirstOf(list, m + 1) = FirstOf(list, m) \cup {list[m + 1]}
    BY DEF FirstOf
  <2>2. list[m + 1] \notin FirstOf(list, m)
    <3> SUFFICES ASSUME NEW j \in 1 .. m, list[m + 1] = list[j] PROVE FALSE
      BY Zenon DEF FirstOf
    <3>1. j \in 1 .. n /\ m + 1 \in 1 .. n
      BY <1>2
    <3>2. m + 1 = j
      BY <3>1
    <3> QED BY <3>2
  <2>3. Cardinality(FirstOf(list, m) \cup {list[m + 1]}) = Cardinality(FirstOf(list, m)) + 1
        /\ IsFiniteSet(FirstOf(list, m) \cup {list[m + 1]})
    BY <1>2, <2>2, FS_AddElement
  <2> QED BY <1>2, <2>1, <2>3
<1> HIDE DEF Good
<1>3. 0 \in T /\ \A m \in T : m + 1 \in T
  BY <1>1, <1>2
<1>4. T \in SUBSET Nat
  OBVIOUS
<1> HIDE DEF T
<1>5. T = Nat
  BY <1>3, <1>4, NatSetInduction
<1>6. \A m \in 0 .. n : Good(m)
  BY <1>5 DEF T
<1> QED BY <1>6 DEF Good

Precedes(u, t, descending) == IF descending THEN u > t ELSE u < t

Ordered(list, descending) ==
  \A j, k \in 1 .. Len(list) : j < k => Precedes(list[j], list[k], descending)

\* Sorting the ticks of an ordered list gives the list.
LEMMA SortedList ==
  ASSUME NEW list \in Seq(Nat), NEW descending \in BOOLEAN, Ordered(list, descending)
  PROVE  SortedTicks(ToSet(list), descending) = list
<1>1. PICK n \in Nat : n = Len(list)
  OBVIOUS
<1>2. \A k \in 1 .. n : list[k] \in Nat
  BY <1>1
<1>3. \A j, k \in 1 .. n : Precedes(list[j], list[k], descending) <=> j < k
  <2> SUFFICES ASSUME NEW j \in 1 .. n, NEW k \in 1 .. n
               PROVE  Precedes(list[j], list[k], descending) <=> j < k
    OBVIOUS
  <2>1. j < k => Precedes(list[j], list[k], descending)
    BY <1>1 DEF Ordered
  <2>2. k < j => Precedes(list[k], list[j], descending)
    BY <1>1 DEF Ordered
  <2>3. PICK u \in Nat, t \in Nat : u = list[j] /\ t = list[k]
    BY <1>2
  <2>4. ~(Precedes(u, t, descending) /\ Precedes(t, u, descending)) /\ ~Precedes(u, u, descending)
    BY DEF Precedes
  <2> QED BY <2>1, <2>2, <2>3, <2>4
<1>4. \A j, k \in 1 .. n : list[j] = list[k] => j = k
  <2> SUFFICES ASSUME NEW j \in 1 .. n, NEW k \in 1 .. n, list[j] = list[k], j # k PROVE FALSE
    OBVIOUS
  <2>1. j < k \/ k < j
    OBVIOUS
  <2>2. Precedes(list[j], list[j], descending)
    BY <1>3, <2>1
  <2> QED BY <1>2, <2>2 DEF Precedes
<1>5. \A m \in 0 .. n : Cardinality(FirstOf(list, m)) = m
  BY <1>4, FirstCount
<1>6. PICK S : S = ToSet(list)
  OBVIOUS
<1>7. S = FirstOf(list, n)
  BY <1>1, <1>6 DEF ToSet, FirstOf
<1>8. Cardinality(S) = n
  BY <1>5, <1>7
<1> DEFINE Before(t) == {u \in S : Precedes(u, t, descending)}
<1>9. ASSUME NEW k \in 1 .. n PROVE Cardinality(Before(list[k])) = k - 1
  <2>1. Before(list[k]) = FirstOf(list, k - 1)
    <3>1. \A j \in 1 .. n : j < k <=> j \in 1 .. k - 1
      OBVIOUS
    <3>2. \A j \in 1 .. k - 1 : j \in 1 .. n
      OBVIOUS
    <3>3. ASSUME NEW u \in Before(list[k]) PROVE u \in FirstOf(list, k - 1)
      <4>1. PICK j \in 1 .. n : u = list[j]
        BY <1>7 DEF FirstOf
      <4>2. j < k
        BY <1>3, <4>1
      <4> QED BY <3>1, <4>1, <4>2 DEF FirstOf
    <3>4. ASSUME NEW u \in FirstOf(list, k - 1) PROVE u \in Before(list[k])
      <4>1. PICK j \in 1 .. k - 1 : u = list[j]
        BY DEF FirstOf
      <4>2. j \in 1 .. n /\ j < k
        BY <3>1, <3>2
      <4>3. u \in S
        BY <1>7, <4>1, <4>2 DEF FirstOf
      <4>4. Precedes(u, list[k], descending)
        BY <1>3, <4>1, <4>2
      <4> QED BY <4>3, <4>4
    <3> HIDE DEF Before
    <3> QED BY <3>3, <3>4
  <2>2. k - 1 \in 0 .. n
    OBVIOUS
  <2> QED BY <1>5, <2>1, <2>2
<1> HIDE DEF Before
<1>10. ASSUME NEW k \in 1 .. n PROVE (CHOOSE t \in S : Cardinality(Before(t)) = k - 1) = list[k]
  <2>1. list[k] \in S
    BY <1>7 DEF FirstOf
  <2>2. ASSUME NEW t \in S, Cardinality(Before(t)) = k - 1 PROVE t = list[k]
    <3>1. PICK j \in 1 .. n : t = list[j]
      BY <1>7 DEF FirstOf
    <3>2. j - 1 = k - 1
      BY <1>9, <2>2, <3>1
    <3> QED BY <3>1, <3>2
  <2> QED BY <1>9, <2>1, <2>2
<1>11. SortedTicks(S, descending)
         = [k \in 1 .. n |-> CHOOSE t \in S : Cardinality(Before(t)) = k - 1]
  BY <1>8, Zenon DEF SortedTicks, Before, Precedes
<1>12. SortedTicks(S, descending) = [k \in 1 .. n |-> list[k]]
  BY <1>10, <1>11
<1>13. list = [k \in 1 .. n |-> list[k]]
  BY <1>1
<1> QED BY <1>6, <1>12, <1>13

-----------------------------------------------------------------------------
(* Replies. *)

LEMMA PagedTransfers ==
  ASSUME IsArchive(archive), NEW q, IsQuery(q), q.kind = "transfers",
         NEW number \in Nat, NEW size \in Nat \ {0}
  PROVE  PageOf(GetTransactionsForEntityPaged(q, number, size), Matching(q),
                number * size, number * size + size)
<1>0. PICK keys \in Seq(PerTick) : keys = KeysUpTo(archive, MaxTicks)
  <2>1. MaxTicks \in Nat
    BY PagingAssumption
  <2> QED BY <2>1, KeysType, Zenon
<1>1. PICK ticks \in Seq(PerTick) : ticks = Iterated(keys, q)
  <2>2. HasOrder(q)
    BY DEF IsQuery
  <2>3. Iterated(keys, q) \in Seq(PerTick)
    BY <2>2, IteratedGrown, Zenon
  <2> QED BY <2>3, Zenon
<1>2. Matching(q) = MatchedIn(ticks, Kept(q))
  <2>1. Matching(q) = MatchingTransfers(keys, q)
    BY <1>0, Zenon DEF Matching, MatchingUpTo
  <2> QED BY <1>1, <2>1, TransfersMatched, Zenon
<1>3. HasFilter(q)
  BY DEF IsQuery
<1>4. PICK a \in Nat : a = number * size
  OBVIOUS
<1>5. PICK b \in Nat : b = number * size + size
  BY <1>4
<1>6. a <= b
  BY <1>4, <1>5
<1>7. PICK f : f = CHOOSE g : Assembles(g, ticks, q, a, b)
  OBVIOUS
<1>8. Assembles(f, ticks, q, a, b)
  BY <1>3, <1>7, AssemblyExists, Zenon
<1>9. GetTransactionsForEntityPaged(q, number, size) = f[Len(ticks)]
  BY <1>0, <1>1, <1>4, <1>5, <1>7, Zenon DEF GetTransactionsForEntityPaged, Assembles
<1>10. PageOf(f[Len(ticks)], MatchedIn(ticks, Kept(q)), a, b)
  BY <1>3, <1>6, <1>8, AssembledPage, Zenon
<1> QED BY <1>2, <1>4, <1>5, <1>9, <1>10, Zenon

ArchiveInv ==
  /\ IsArchive(archive)
  /\ listed \in Seq(Nat)
  /\ query.kind = "epochTicks" => Ordered(listed, FALSE)
  /\ processed \in Nat /\ processed <= MaxTicks

LEMMA ReversedOrder ==
  ASSUME NEW list \in Seq(Nat), Ordered(list, FALSE)
  PROVE  Ordered(Reverse(list), TRUE)
<1>1. PICK n \in Nat : n = Len(list)
  OBVIOUS
<1>2. PICK rev : rev = Reverse(list)
  OBVIOUS
<1>3. /\ rev \in Seq(Nat) /\ Len(rev) = n
      /\ \A k \in 1 .. n : rev[k] = list[(n - k) + 1]
  BY <1>1, <1>2, ReverseParts
<1>4. ASSUME NEW j \in 1 .. n, NEW k \in 1 .. n, j < k PROVE Precedes(rev[j], rev[k], TRUE)
  <2>1. PICK x \in 1 .. n, y \in 1 .. n : x = (n - j) + 1 /\ y = (n - k) + 1
    OBVIOUS
  <2>2. y < x
    BY <1>4, <2>1
  <2>3. list[y] < list[x]
    BY <1>1, <2>2 DEF Ordered, Precedes
  <2>4. rev[j] = list[x] /\ rev[k] = list[y]
    BY <1>3, <2>1
  <2>5. list[x] \in Nat /\ list[y] \in Nat
    BY <1>1
  <2> QED BY <2>3, <2>4, <2>5 DEF Precedes
<1> QED BY <1>2, <1>3, <1>4 DEF Ordered

LEMMA ReversedSet ==
  ASSUME NEW list \in Seq(Nat)
  PROVE  ToSet(Reverse(list)) = ToSet(list)
<1>1. PICK n \in Nat : n = Len(list) /\ DOMAIN list = 1 .. n
  OBVIOUS
<1>2. PICK rev : rev = Reverse(list)
  OBVIOUS
<1>3. /\ rev \in Seq(Nat) /\ Len(rev) = n
      /\ \A k \in 1 .. n : rev[k] = list[(n - k) + 1]
  BY <1>1, <1>2, ReverseParts
<1>4. DOMAIN rev = 1 .. n
  BY <1>3
<1>5. \A k \in 1 .. n : \E j \in 1 .. n : rev[k] = list[j]
  <2> SUFFICES ASSUME NEW k \in 1 .. n PROVE \E j \in 1 .. n : rev[k] = list[j]
    OBVIOUS
  <2>1. (n - k) + 1 \in 1 .. n
    OBVIOUS
  <2> QED BY <1>3, <2>1, Zenon
<1>6. \A j \in 1 .. n : \E k \in 1 .. n : rev[k] = list[j]
  <2> SUFFICES ASSUME NEW j \in 1 .. n PROVE \E k \in 1 .. n : rev[k] = list[j]
    OBVIOUS
  <2>1. PICK k \in 1 .. n : k = (n - j) + 1 /\ (n - k) + 1 = j
    OBVIOUS
  <2> QED BY <1>3, <2>1, Zenon
<1>7. ToSet(rev) = ToSet(list)
  <2>1. ToSet(rev) = {rev[k] : k \in 1 .. n} /\ ToSet(list) = {list[k] : k \in 1 .. n}
    BY <1>1, <1>4, Zenon DEF ToSet
  <2>2. {rev[k] : k \in 1 .. n} = {list[k] : k \in 1 .. n}
    <3> DEFINE R == {rev[k] : k \in 1 .. n}
               L == {list[k] : k \in 1 .. n}
    <3>1. ASSUME NEW e \in R PROVE e \in L
      <4>1. PICK k \in 1 .. n : e = rev[k]
        OBVIOUS
      <4>2. PICK j \in 1 .. n : rev[k] = list[j]
        BY <1>5
      <4> QED BY <4>1, <4>2
    <3>2. ASSUME NEW e \in L PROVE e \in R
      <4>1. PICK j \in 1 .. n : e = list[j]
        OBVIOUS
      <4>2. PICK k \in 1 .. n : rev[k] = list[j]
        BY <1>6
      <4> QED BY <4>1, <4>2
    <3> HIDE DEF R, L
    <3>3. R = L
      BY <3>1, <3>2
    <3> QED BY <3>3 DEF R, L
  <2> QED BY <2>1, <2>2, Zenon
<1> QED BY <1>2, <1>7, Zenon

\* Sorting the ticks of an epoch gives its list, in the order that is asked for.
LEMMA ListedSorted ==
  ASSUME NEW list \in Seq(Nat), Ordered(list, FALSE), NEW q, IsQuery(q)
  PROVE  SortedTicks(ToSet(list), q.descending) = ListedTicks(list, q)
<1>1. q.descending \in BOOLEAN
  BY DEF IsQuery, HasOrder
<1>2. CASE q.descending
  <2>1. PICK rev \in Seq(Nat) : rev = Reverse(list)
    BY ReverseParts, Zenon
  <2>2. Ordered(rev, TRUE)
    BY <2>1, ReversedOrder, Zenon
  <2>3. SortedTicks(ToSet(rev), TRUE) = rev
    BY <2>2, SortedList, Zenon
  <2>4. q.descending = TRUE
    BY <1>1, <1>2
  <2>5. ToSet(rev) = ToSet(list)
    BY <2>1, ReversedSet, Zenon
  <2> QED BY <1>2, <2>1, <2>3, <2>4, <2>5, Zenon DEF ListedTicks
<1>3. CASE ~q.descending
  <2>1. SortedTicks(ToSet(list), FALSE) = list
    BY SortedList, Zenon
  <2>2. q.descending = FALSE
    BY <1>1, <1>3
  <2> QED BY <1>3, <2>1, <2>2, Zenon DEF ListedTicks
<1> QED BY <1>1, <1>2, <1>3

SizeOf(q)     == IF q.kind = "transfers" /\ q.size = 0 THEN DefaultPageSize ELSE q.size
NumberOf(req) == IF req > 0 THEN req ELSE 1

\* The requests that get a page, if there is one.
Served(q) == q.size <= MaxPageSize /\ (q.kind # "transfers" => q.size > 0)

\* x is page k of the records M.
PageReply(x, M, k, size) ==
  /\ x.code = "OK" /\ x.number = k /\ x.size = size
  /\ x.records = Slice(M, (k - 1) * size + 1, k * size)
  /\ x.pagination.totalRecords = Len(M)
  /\ x.pagination.totalPages = PageCount(Len(M), size)
  /\ x.pagination.nextPage = IF k * size < Len(M) THEN k + 1 ELSE -1

LEMMA NextPages ==
  ASSUME NEW n \in Nat, NEW size \in Nat \ {0}, NEW k \in Nat \ {0}
  PROVE  /\ k + 1 <= PageCount(n, size) <=> k * size < n
         /\ k <= PageCount(n, size) <=> (k - 1) * size < n
         /\ PageCount(n, size) \in Int
<1>1. k + 1 \in Int /\ (k + 1) - 1 = k
  OBVIOUS
<1> QED BY <1>1, PageCounts

LEMMA MatchingNow ==
  ASSUME IsArchive(archive), listed \in Seq(Nat), NEW q, IsQuery(q)
  PROVE  Matching(q) \in Seq(Record)
<1>1. PICK ar, list, last : ar = archive /\ list = listed /\ last = MaxTicks
  OBVIOUS
<1>2. IsArchive(ar) /\ list \in Seq(Nat) /\ last \in Nat
  BY <1>1, PagingAssumption
<1>3. MatchingUpTo(ar, last, list, q) \in Seq(Record)
  BY <1>2, MatchingType, Zenon
<1> QED BY <1>1, <1>3, Zenon DEF Matching

LEMMA TransfersReplies ==
  ASSUME IsArchive(archive), listed \in Seq(Nat), NEW q, IsQuery(q), q.kind = "transfers",
         q.size <= MaxPageSize, NEW req \in Nat
  PROVE  PageReply(TransfersReply(q, req), Matching(q), NumberOf(req), SizeOf(q))
<1>1. PICK size \in Nat \ {0} : size = SizeOf(q)
  BY PagingAssumption DEF SizeOf, IsQuery
<1>2. PICK k \in Nat \ {0} : k = NumberOf(req)
  BY DEF NumberOf
<1>3. PICK number \in Nat : number = k - 1
  OBVIOUS
<1>4. (IF req > 0 THEN req - 1 ELSE 0) = number
  BY <1>2, <1>3 DEF NumberOf
<1>5. (IF q.size = 0 THEN DefaultPageSize ELSE q.size) = size
  BY <1>1 DEF SizeOf
<1>6. PICK found : found = GetTransactionsForEntityPaged(q, number, size)
  OBVIOUS
<1>7. PICK M \in Seq(Record) : M = Matching(q)
  BY MatchingNow, Zenon
<1>8. PICK n \in Nat : n = Len(M)
  OBVIOUS
<1>9. found.index = n /\ Ids(found.page) = Slice(M, number * size + 1, number * size + size)
  <2>1. PageOf(found, M, number * size, number * size + size)
    BY <1>6, <1>7, PagedTransfers, Zenon
  <2> QED BY <1>8, <2>1, Zenon DEF PageOf
<1>10. number * size = (k - 1) * size /\ number * size + size = k * size /\ number + 1 = k
  BY <1>3
<1>11. PICK records : records = Ids(found.page)
  OBVIOUS
<1>12. PICK pagination : pagination = Pagination(n, k, size)
  OBVIOUS
<1>13. ~(q.size > MaxPageSize)
  BY PagingAssumption DEF IsQuery
<1>14. TransfersReply(q, req) = OK(k, size, records, pagination)
  BY <1>4, <1>5, <1>6, <1>9, <1>10, <1>11, <1>12, <1>13 DEF TransfersReply
<1>15. records = Slice(M, (k - 1) * size + 1, k * size)
  BY <1>9, <1>10, <1>11, Zenon
<1>16. PICK pages \in Int : pages = PageCount(n, size)
  BY NextPages
<1>17. /\ pagination.totalRecords = n
       /\ pagination.totalPages = pages
       /\ pagination.nextPage = IF k + 1 > pages THEN -1 ELSE k + 1
  BY <1>12, <1>16 DEF Pagination
<1>18. pagination.nextPage = IF k * size < n THEN k + 1 ELSE -1
  <2>1. k + 1 <= pages <=> k * size < n
    BY <1>16, NextPages
  <2>2. k + 1 > pages <=> ~(k + 1 <= pages)
    OBVIOUS
  <2> QED BY <1>17, <2>1, <2>2, Zenon
<1>19. PICK x : x = TransfersReply(q, req)
  OBVIOUS
<1>20. /\ x.code = "OK" /\ x.number = k /\ x.size = size
       /\ x.records = records /\ x.pagination = pagination
  BY <1>14, <1>19 DEF OK
<1>21. PageReply(x, M, k, size)
  BY <1>8, <1>15, <1>16, <1>17, <1>18, <1>20, Zenon DEF PageReply
<1> QED BY <1>1, <1>2, <1>7, <1>19, <1>21, Zenon

LEMMA ListReplies ==
  ASSUME NEW q, IsQuery(q), q.size > 0, NEW req \in Nat, NEW M \in Seq(Record)
  PROVE  \/ PageReply(PagedList(M, q, req), M, NumberOf(req), q.size)
         \/ /\ PagedList(M, q, req) = [code |-> "NotFound"]
            /\ ~((NumberOf(req) - 1) * q.size < Len(M))
<1>1. PICK size \in Nat \ {0} : size = q.size
  BY DEF IsQuery
<1>2. PICK k \in Nat \ {0} : k = NumberOf(req)
  BY DEF NumberOf
<1>3. (IF req <= 0 THEN 1 ELSE req) = k
  BY <1>2 DEF NumberOf
<1>4. PICK n \in Nat : n = Len(M)
  OBVIOUS
<1>5. PICK pages \in Int : pages = PageCount(n, size)
  BY NextPages
<1>6. (k + 1 <= pages <=> k * size < n) /\ (k <= pages <=> (k - 1) * size < n)
  BY <1>5, NextPages
<1>7. CASE k > pages
  <2>1. PagedList(M, q, req) = [code |-> "NotFound"]
    BY <1>1, <1>3, <1>4, <1>5, <1>7 DEF PagedList
  <2>2. ~(k <= pages)
    BY <1>7
  <2> QED BY <1>1, <1>2, <1>4, <1>6, <2>1, <2>2, Zenon
<1>8. CASE ~(k > pages)
  <2>1. PICK records : records = ListPage(M, k, size)
    OBVIOUS
  <2>2. PICK pagination : pagination = [totalRecords |-> n,
                                        totalPages   |-> pages,
                                        currentPage  |-> k,
                                        nextPage     |-> IF k = pages THEN -1 ELSE k + 1,
                                        previousPage |-> IF k = 1 THEN -1 ELSE k - 1]
    OBVIOUS
  <2>3. PagedList(M, q, req) = OK(k, size, records, pagination)
    BY <1>1, <1>3, <1>4, <1>5, <1>8, <2>1, <2>2 DEF PagedList
  <2>4. records = Slice(M, (k - 1) * size + 1, k * size)
    BY <2>1 DEF ListPage, Slice
  <2>5. /\ pagination.totalRecords = n /\ pagination.totalPages = pages
        /\ pagination.nextPage = IF k = pages THEN -1 ELSE k + 1
    BY <2>2
  <2>6. pagination.nextPage = IF k * size < n THEN k + 1 ELSE -1
    <3>1. k = pages <=> ~(k + 1 <= pages)
      BY <1>8
    <3> QED BY <1>6, <2>5, <3>1, Zenon
  <2>7. PICK x : x = PagedList(M, q, req)
    OBVIOUS
  <2>8. /\ x.code = "OK" /\ x.number = k /\ x.size = size
        /\ x.records = records /\ x.pagination = pagination
    BY <2>3, <2>7 DEF OK
  <2>9. PageReply(x, M, k, size)
    BY <1>4, <1>5, <2>4, <2>5, <2>6, <2>8, Zenon DEF PageReply
  <2> QED BY <1>1, <1>2, <2>7, <2>9, Zenon
<1> QED BY <1>7, <1>8

Refusal == {"InvalidArgument", "NotFound", "FailedPrecondition"}

\* Every request gets its page of what matches, or is refused: for its size,
\* or since there is no such page.
LEMMA Replies ==
  ASSUME ArchiveInv, NEW q, IsQuery(q), q.kind = query.kind, NEW req \in Nat,
         NEW x, x = ReplyTo(q, req), NEW M, M = Matching(q)
  PROVE  \/ SizeOf(q) \in Nat \ {0} /\ PageReply(x, M, NumberOf(req), SizeOf(q))
         \/ /\ x.code \in Refusal
            /\ Served(q) => ~((NumberOf(req) - 1) * SizeOf(q) < Len(M))
<1>1. IsArchive(archive) /\ listed \in Seq(Nat) /\ q.size \in Nat
  BY DEF ArchiveInv, IsQuery
<1>2. M \in Seq(Record)
  <2>1. IsArchive(archive) /\ listed \in Seq(Nat)
    BY <1>1
  <2> QED BY <2>1, MatchingNow, Zenon
<1>3. q.kind \in {"transfers", "emptyTicks", "epochTicks"}
  BY DEF IsQuery
<1>4. CASE q.kind = "transfers"
  <2>1. x = TransfersReply(q, req)
    BY <1>4 DEF ReplyTo
  <2>2. SizeOf(q) \in Nat \ {0}
    BY <1>1, <1>4, PagingAssumption DEF SizeOf
  <2>3. CASE q.size <= MaxPageSize
    <3>1. IsArchive(archive) /\ listed \in Seq(Nat)
      BY <1>1
    <3>2. PageReply(TransfersReply(q, req), Matching(q), NumberOf(req), SizeOf(q))
      BY <1>4, <2>3, <3>1, TransfersReplies, Zenon
    <3> QED BY <2>1, <2>2, <3>2, Zenon
  <2>4. CASE ~(q.size <= MaxPageSize)
    <3>1. q.size > MaxPageSize
      BY <1>1, <2>4, PagingAssumption
    <3>2. x = [code |-> "InvalidArgument"]
      BY <2>1, <3>1 DEF TransfersReply
    <3>3. x.code = "InvalidArgument"
      BY <3>2
    <3> QED BY <2>4, <3>3 DEF Refusal, Served
  <2> QED BY <2>3, <2>4
<1>5. CASE q.kind # "transfers"
  <2>1. SizeOf(q) = q.size
    BY <1>5 DEF SizeOf
  <2>2. x = IF q.size <= 0 THEN [code |-> "FailedPrecondition"] ELSE PagedList(M, q, req)
    <3>1. ListedTicks(listed, q) = M
      BY <1>5, Zenon DEF Matching, MatchingUpTo
    <3>2. q.kind = "emptyTicks" \/ q.kind = "epochTicks"
      BY <1>3, <1>5
    <3>3. CASE q.kind = "emptyTicks"
      <4>1. x = GetEmptyTickListV2(q, req)
        BY <3>3 DEF ReplyTo
      <4> QED BY <3>1, <4>1, Zenon DEF GetEmptyTickListV2
    <3>4. CASE q.kind = "epochTicks"
      <4>1. x = GetEpochTickListV2(q, req)
        BY <3>4 DEF ReplyTo
      <4>2. PICK list \in Seq(Nat) : list = listed
        BY <1>1
      <4>3. Ordered(list, FALSE)
        BY <3>4, <4>2 DEF ArchiveInv
      <4>4. SortedTicks(ToSet(list), q.descending) = ListedTicks(list, q)
        BY <4>3, ListedSorted, Zenon
      <4> QED BY <3>1, <4>1, <4>2, <4>4, Zenon DEF GetEpochTickListV2
    <3> QED BY <3>2, <3>3, <3>4
  <2>3. CASE q.size <= 0
    <3>1. x.code = "FailedPrecondition"
      BY <2>2, <2>3
    <3>2. ~Served(q)
      BY <1>1, <1>5, <2>3 DEF Served
    <3> QED BY <3>1, <3>2 DEF Refusal
  <2>4. CASE ~(q.size <= 0)
    <3>1. q.size > 0
      BY <1>1, <2>4
    <3>2. x = PagedList(M, q, req)
      BY <2>2, <2>4
    <3>3. \/ PageReply(PagedList(M, q, req), M, NumberOf(req), q.size)
          \/ /\ PagedList(M, q, req) = [code |-> "NotFound"]
             /\ ~((NumberOf(req) - 1) * q.size < Len(M))
      BY <1>2, <3>1, ListReplies, Zenon
    <3>4. CASE PageReply(PagedList(M, q, req), M, NumberOf(req), q.size)
      <4>1. SizeOf(q) \in Nat \ {0}
        BY <1>1, <2>1, <3>1
      <4> QED BY <2>1, <3>2, <3>4, <4>1, Zenon
    <3>5. CASE /\ PagedList(M, q, req) = [code |-> "NotFound"]
               /\ ~((NumberOf(req) - 1) * q.size < Len(M))
      <4>1. x.code = "NotFound"
        BY <3>2, <3>5
      <4>2. x.code \in Refusal
        BY <4>1 DEF Refusal
      <4> QED BY <2>1, <3>5, <4>2, Zenon
    <3> QED BY <3>3, <3>4, <3>5
  <2> QED BY <2>3, <2>4
<1> QED BY <1>4, <1>5

-----------------------------------------------------------------------------
-----------------------------------------------------------------------------
(* The walk along the next-page numbers. *)

SeenPages(pg) == IF pg = 0 THEN 0 ELSE pg - 1

Leads(g, M) == Len(g) <= Len(M) /\ \A k \in 1 .. Len(g) : g[k] = M[k]

InList(e, s, c) == \E j \in 1 .. Len(s) : c < j /\ s[j] = e

Has(g, st) == \A k \in 1 .. Len(st) : InList(st[k], g, 0)

\* As far as both go, the lists are the same.
Agree(g, st) == \A k \in 1 .. Len(g) : k <= Len(st) => g[k] = st[k]

\* The records st are those of M after place off.
Placed(st, M, off) ==
  /\ off \in Nat /\ off + Len(st) <= Len(M)
  /\ \A k \in 1 .. Len(st) : M[off + k] = st[k]

\* What was settled comes last when the newest come first, else first.
Off(q, M, st) == IF q.descending THEN Len(M) - Len(st) ELSE 0

\* Every record of st has been seen, or is after place c of what matches.
Covered(st, g, off, c) ==
  \A k \in 1 .. Len(st) : InList(st[k], g, 0) \/ c < off + k

\* After the first page and before the end.
Going(q, M, seen, g, st) ==
  /\ SizeOf(q) \in Nat \ {0} /\ seen * SizeOf(q) < Len(M)
  /\ Placed(st, M, Off(q, M, st))
  /\ Covered(st, g, Off(q, M, st), seen * SizeOf(q))
  /\ ~q.descending => Len(g) = seen * SizeOf(q)

\* The records g seen by a walk that asks for page pg next, where M matches
\* and st was settled when it began.
Walk(q, M, pg, g, st) ==
  /\ M \in Seq(Record) /\ g \in Seq(Record) /\ st \in Seq(Record)
  /\ pg = -1 \/ pg = 0 \/ (pg \in Nat /\ pg >= 2)
  /\ pg = 0 => g = <<>>
  /\ pg > 0 => Going(q, M, SeenPages(pg), g, st)
  /\ ~q.descending => Agree(g, st)
  /\ ~q.descending /\ q.kind # "transfers" => Leads(g, M)
  /\ pg = -1 /\ Served(q) => Has(g, st)

\* What comes in goes before the records, or after them.
LEMMA PlacedGrown ==
  ASSUME NEW q, HasOrder(q), NEW M \in Seq(Record), NEW st \in Seq(Record),
         Placed(st, M, Off(q, M, st)), NEW x \in Seq(Record),
         NEW M2, q.descending => M2 = x \o M, ~q.descending => M2 = M \o x
  PROVE  Placed(st, M2, Off(q, M2, st))
<1>1. PICK n \in Nat : n = Len(M)
  OBVIOUS
<1>2. PICK l \in Nat : l = Len(st)
  OBVIOUS
<1>3. CASE q.descending
  <2>0. PICK y \in Nat : y = Len(x)
    OBVIOUS
  <2>1. Len(M2) = y + n /\ \A k \in 1 .. n : M2[y + k] = M[k]
    BY <1>1, <1>3, <2>0, ConcatParts
  <2>2. Off(q, M, st) = n - l /\ Off(q, M2, st) = (y + n) - l
    BY <1>1, <1>2, <1>3, <2>1 DEF Off
  <2>3. PICK d \in Nat : d = n - l /\ d = Off(q, M, st)
    BY <2>2 DEF Placed
  <2>4. \A k \in 1 .. l : M[d + k] = st[k]
    BY <1>2, <2>3, Zenon DEF Placed
  <2>5. y + d \in Nat /\ (y + d) + l <= Len(M2) /\ Off(q, M2, st) = y + d
    BY <2>1, <2>2, <2>3
  <2>6. ASSUME NEW k \in 1 .. l PROVE M2[(y + d) + k] = st[k]
    <3>1. d + k \in 1 .. n /\ (y + d) + k = y + (d + k)
      BY <2>3
    <3>2. M2[y + (d + k)] = M[d + k]
      BY <2>1, <3>1
    <3>3. M[d + k] = st[k]
      BY <2>4
    <3> QED BY <3>1, <3>2, <3>3
  <2> QED BY <1>2, <2>2, <2>5, <2>6, Zenon DEF Placed
<1>4. CASE ~q.descending
  <2>1. /\ Len(M2) = n + Len(x) /\ Len(x) \in Nat
        /\ \A k \in 1 .. n : M2[k] = M[k]
    BY <1>1, <1>4, ConcatParts
  <2>2. Off(q, M, st) = 0 /\ Off(q, M2, st) = 0
    BY <1>4 DEF Off
  <2>3. l <= n /\ \A k \in 1 .. l : M[0 + k] = st[k]
    BY <1>1, <1>2, <2>2 DEF Placed
  <2>4. ASSUME NEW k \in 1 .. l PROVE M2[0 + k] = st[k]
    <3>1. k \in 1 .. n /\ 0 + k = k
      BY <2>3
    <3> QED BY <2>1, <2>3, <3>1
  <2>5. 0 \in Nat /\ 0 + l <= Len(M2)
    BY <2>1, <2>3
  <2> QED BY <1>2, <2>2, <2>4, <2>5, Zenon DEF Placed
<1> QED BY <1>3, <1>4 DEF HasOrder

LEMMA PlacedSame ==
  ASSUME NEW q, HasOrder(q), NEW M \in Seq(Record)
  PROVE  Placed(M, M, Off(q, M, M))
<1>1. PICK n \in Nat : n = Len(M)
  OBVIOUS
<1>2. Off(q, M, M) = 0
  BY <1>1 DEF Off
<1>3. \A k \in 1 .. n : M[0 + k] = M[k]
  OBVIOUS
<1>4. 0 \in Nat /\ 0 + n <= n
  OBVIOUS
<1> QED BY <1>1, <1>2, <1>3, <1>4, Zenon DEF Placed

LEMMA PlacedConcat ==
  ASSUME NEW q, HasOrder(q), NEW st \in Seq(Record), NEW x \in Seq(Record),
         NEW M, q.descending => M = x \o st, ~q.descending => M = st \o x
  PROVE  Placed(st, M, Off(q, M, st))
BY PlacedSame, PlacedGrown, Zenon

LEMMA InConcat ==
  ASSUME NEW A, NEW s \in Seq(A), NEW t \in Seq(A), NEW e, NEW c \in Nat
  PROVE  /\ InList(e, s, c) => InList(e, s \o t, c)
         /\ InList(e, t, c) => InList(e, s \o t, c)
<1>1. PICK st : st = s \o t
  OBVIOUS
<1>2. /\ Len(st) = Len(s) + Len(t) /\ Len(s) \in Nat /\ Len(t) \in Nat
      /\ \A k \in 1 .. Len(s) : st[k] = s[k]
      /\ \A k \in 1 .. Len(t) : st[Len(s) + k] = t[k]
  BY <1>1, ConcatParts
<1>3. ASSUME InList(e, s, c) PROVE InList(e, st, c)
  <2>1. PICK j \in 1 .. Len(s) : c < j /\ s[j] = e
    BY <1>3 DEF InList
  <2>2. j \in 1 .. Len(st) /\ st[j] = e
    BY <1>2, <2>1
  <2> QED BY <2>1, <2>2 DEF InList
<1>4. ASSUME InList(e, t, c) PROVE InList(e, st, c)
  <2>1. PICK j \in 1 .. Len(t) : c < j /\ t[j] = e
    BY <1>4 DEF InList
  <2>2. Len(s) + j \in 1 .. Len(st) /\ st[Len(s) + j] = e /\ c < Len(s) + j
    BY <1>2, <2>1
  <2> QED BY <2>2 DEF InList
<1> QED BY <1>1, <1>3, <1>4, Zenon

LEMMA SizeType ==
  ASSUME NEW q, IsQuery(q)
  PROVE  /\ SizeOf(q) \in Nat
         /\ \A n \in Nat : n * SizeOf(q) \in Nat
         /\ 0 * SizeOf(q) = 0
<1>1. SizeOf(q) \in Nat
  BY PagingAssumption DEF SizeOf, IsQuery
<1>2. PICK s \in Nat : s = SizeOf(q)
  BY <1>1
<1>3. (\A n \in Nat : n * s \in Nat) /\ 0 * s = 0
  OBVIOUS
<1> QED BY <1>1, <1>2, <1>3

\* What is stored during a walk.
LEMMA WalkGrows ==
  ASSUME NEW q, IsQuery(q), NEW M, NEW pg, NEW g, NEW st, Walk(q, M, pg, g, st),
         NEW M2 \in Seq(Record), Len(M) <= Len(M2),
         pg > 0 => Placed(st, M2, Off(q, M2, st)),
         ~q.descending /\ q.kind # "transfers" => Leads(M, M2)
  PROVE  Walk(q, M2, pg, g, st)
<1>1. M \in Seq(Record) /\ g \in Seq(Record) /\ st \in Seq(Record)
  BY DEF Walk
<1>2. PICK n \in Nat : n = Len(M)
  BY <1>1
<1>3. PICK n2 \in Nat : n2 = Len(M2)
  OBVIOUS
<1>4. pg = -1 \/ pg = 0 \/ (pg \in Nat /\ pg >= 2)
  BY DEF Walk
<1>5. ASSUME pg > 0 PROVE Going(q, M2, SeenPages(pg), g, st)
  <2>1. Going(q, M, SeenPages(pg), g, st)
    BY <1>5 DEF Walk
  <2>2. PICK c \in Nat : c = SeenPages(pg) * SizeOf(q)
    <3>1. SeenPages(pg) \in Nat
      BY <1>4, <1>5 DEF SeenPages
    <3> QED BY <3>1, SizeType, Zenon
  <2>3. c < n2
    BY <1>2, <1>3, <2>1, <2>2 DEF Going
  <2>4. PICK off \in Nat : off = Off(q, M, st)
    BY <2>1 DEF Going, Placed
  <2>5. PICK off2 \in Nat : off2 = Off(q, M2, st)
    BY <1>5 DEF Placed
  <2>6. off <= off2
    <3>1. PICK l \in Nat : l = Len(st)
      BY <1>1
    <3>2. CASE q.descending
      BY <1>2, <1>3, <2>4, <2>5, <3>1, <3>2 DEF Off
    <3>3. CASE ~q.descending
      BY <2>4, <2>5, <3>3 DEF Off
    <3> QED BY <3>2, <3>3 DEF IsQuery, HasOrder
  <2>7. Covered(st, g, off, c)
    BY <2>1, <2>2, <2>4, Zenon DEF Going
  <2>8. Covered(st, g, off2, c)
    <3> SUFFICES ASSUME NEW k \in 1 .. Len(st) PROVE InList(st[k], g, 0) \/ c < off2 + k
      BY DEF Covered
    <3>1. InList(st[k], g, 0) \/ c < off + k
      BY <2>7 DEF Covered
    <3>2. c < off + k => c < off2 + k
      BY <2>6
    <3> QED BY <3>1, <3>2
  <2>9. SizeOf(q) \in Nat \ {0} /\ (~q.descending => Len(g) = SeenPages(pg) * SizeOf(q))
    BY <2>1, Zenon DEF Going
  <2>10. Placed(st, M2, Off(q, M2, st))
    BY <1>5
  <2>11. SeenPages(pg) * SizeOf(q) < Len(M2)
    BY <1>3, <2>2, <2>3, Zenon
  <2> QED BY <2>2, <2>5, <2>8, <2>9, <2>10, <2>11, Zenon DEF Going
<1>6. ASSUME ~q.descending, q.kind # "transfers" PROVE Leads(g, M2)
  <2>1. Leads(g, M) /\ Leads(M, M2)
    BY <1>6 DEF Walk
  <2>2. PICK l \in Nat : l = Len(g)
    BY <1>1
  <2>3. l <= n2
    BY <1>2, <1>3, <2>1, <2>2 DEF Leads
  <2>4. \A k \in 1 .. l : g[k] = M2[k]
    BY <1>2, <2>1, <2>2 DEF Leads
  <2> QED BY <1>3, <2>2, <2>3, <2>4 DEF Leads
<1>7. /\ pg = 0 => g = <<>>
      /\ ~q.descending => Agree(g, st)
      /\ pg = -1 /\ Served(q) => Has(g, st)
  BY Zenon DEF Walk
<1> QED BY <1>1, <1>4, <1>5, <1>6, <1>7, Zenon DEF Walk
\* The pages before page k, and the page.
LEMMA PageBounds ==
  ASSUME NEW q, IsQuery(q), NEW M, NEW pg, NEW g, NEW st, Walk(q, M, pg, g, st), pg >= 0,
         NEW k, k = NumberOf(pg)
  PROVE  /\ k \in Nat \ {0} /\ SeenPages(pg) = k - 1
         /\ (k - 1) * SizeOf(q) \in Nat /\ (k - 1) * SizeOf(q) <= Len(M)
<1>1. pg = 0 \/ (pg \in Nat /\ pg >= 2)
  BY DEF Walk
<1>2. k \in Nat \ {0} /\ SeenPages(pg) = k - 1 /\ k - 1 \in Nat
  BY <1>1 DEF SeenPages, NumberOf
<1>3. (k - 1) * SizeOf(q) \in Nat
  BY <1>2, SizeType, Zenon
<1>4. Len(M) \in Nat
  <2>1. M \in Seq(Record)
    BY DEF Walk
  <2> QED BY <2>1
<1>5. (k - 1) * SizeOf(q) <= Len(M)
  <2>1. CASE pg = 0
    <3>1. k - 1 = 0
      BY <1>2, <2>1 DEF SeenPages
    <3>2. (k - 1) * SizeOf(q) = 0
      BY <3>1, SizeType, Zenon
    <3> QED BY <1>4, <3>2
  <2>2. CASE pg # 0
    <3>1. pg > 0
      BY <1>1, <2>2
    <3>2. (k - 1) * SizeOf(q) < Len(M)
      BY <1>2, <3>1, Zenon DEF Walk, Going
    <3>3. PICK y \in Nat : y = (k - 1) * SizeOf(q)
      BY <1>3
    <3> QED BY <1>4, <3>2, <3>3
  <2> QED BY <2>1, <2>2
<1> QED BY <1>2, <1>3, <1>5

LEMMA NextNumber ==
  \A k \in Nat \ {0} : k + 1 \in Nat /\ k + 1 >= 2 /\ SeenPages(k + 1) = k
BY DEF SeenPages

LEMMA NumberBefore ==
  \A k \in Nat \ {0} : k \in Int /\ k - 1 \in Int /\ (k - 1) + 1 = k
OBVIOUS

LEMMA NotEnded == \A k \in Nat : k >= 2 => ~(k = 0) /\ ~(k = -1)
OBVIOUS

\* What a walk is to see, after the pages it has seen: from its first page on
\* the records st2 that are settled then, and the same at every page.
LEMMA WalkBefore ==
  ASSUME NEW q, IsQuery(q), NEW M, NEW pg, NEW g, NEW st, Walk(q, M, pg, g, st), pg >= 0,
         NEW k, k = NumberOf(pg),
         NEW st2 \in Seq(Record), Placed(st2, M, Off(q, M, st2)), pg > 0 => st2 = st
  PROVE  /\ Covered(st2, g, Off(q, M, st2), (k - 1) * SizeOf(q))
         /\ ~q.descending => Len(g) = (k - 1) * SizeOf(q) /\ Agree(g, st2)
         /\ ~q.descending /\ q.kind # "transfers" => Leads(g, M)
<1>1. SeenPages(pg) = k - 1
  BY PageBounds
<1>2. pg = 0 \/ pg > 0
  <2>1. pg = 0 \/ (pg \in Nat /\ pg >= 2)
    BY DEF Walk
  <2> QED BY <2>1
<1>3. ~q.descending /\ q.kind # "transfers" => Leads(g, M)
  BY Zenon DEF Walk
<1>4. CASE pg = 0
  <2>1. g = <<>> /\ Len(<<>>) = 0
    BY <1>4 DEF Walk
  <2>2. (k - 1) * SizeOf(q) = 0
    <3>1. k - 1 = 0
      BY <1>1, <1>4 DEF SeenPages
    <3> QED BY <3>1, SizeType, Zenon
  <2>3. Agree(g, st2)
    BY <2>1 DEF Agree
  <2>4. Covered(st2, g, Off(q, M, st2), 0)
    <3>1. PICK off \in Nat : off = Off(q, M, st2)
      BY DEF Placed
    <3>2. \A i \in 1 .. Len(st2) : 0 < off + i
      OBVIOUS
    <3>3. Covered(st2, g, off, 0)
      BY <3>2, Zenon DEF Covered
    <3> QED BY <3>1, <3>3, Zenon
  <2> QED BY <1>3, <2>1, <2>2, <2>3, <2>4, Zenon
<1>5. CASE pg > 0
  <2>1. Going(q, M, k - 1, g, st) /\ st2 = st
    BY <1>1, <1>5, Zenon DEF Walk
  <2>2. ~q.descending => Agree(g, st)
    BY Zenon DEF Walk
  <2> QED BY <1>3, <2>1, <2>2, Zenon DEF Going
<1> QED BY <1>2, <1>4, <1>5

\* A walk takes a further page.
LEMMA WalkServed ==
  ASSUME NEW q, IsQuery(q), NEW M, NEW pg, NEW g, NEW st, Walk(q, M, pg, g, st), pg >= 0,
         NEW st2 \in Seq(Record), Placed(st2, M, Off(q, M, st2)), pg > 0 => st2 = st,
         NEW k, k = NumberOf(pg), NEW size \in Nat \ {0}, size = SizeOf(q),
         NEW rec, rec = Slice(M, (k - 1) * size + 1, k * size),
         NEW pg2, pg2 = IF k * size < Len(M) THEN k + 1 ELSE -1
  PROVE  Walk(q, M, pg2, g \o rec, st2)
<1>1. M \in Seq(Record) /\ g \in Seq(Record)
  BY DEF Walk
<1>2. /\ k \in Nat \ {0} /\ SeenPages(pg) = k - 1
      /\ (k - 1) * SizeOf(q) \in Nat /\ (k - 1) * SizeOf(q) <= Len(M)
  BY PageBounds
<1>3. PICK c \in Nat : c = (k - 1) * size
  BY <1>2
<1>4. PICK b \in Nat : b = k * size
  BY <1>2
<1>5. b = c + size
  <2>1. k \in Int /\ k - 1 \in Int /\ (k - 1) + 1 = k
    BY <1>2, NumberBefore, Zenon
  <2>2. ((k - 1) + 1) * size = (k - 1) * size + size
    BY <2>1, Multiples
  <2> QED BY <1>3, <1>4, <2>1, <2>2
<1>6. PICK n \in Nat : n = Len(M)
  BY <1>1
<1>7. c <= n
  BY <1>2, <1>3, <1>6
<1>8. PICK e \in Nat : e = Least(b, n)
  BY DEF Least
<1>9. c <= e /\ e <= n /\ e <= b /\ (b < n => e = b) /\ (~(b < n) => e = n)
  BY <1>5, <1>7, <1>8 DEF Least
<1>10. /\ rec \in Seq(Record) /\ Len(rec) = e - c
       /\ \A i \in 1 .. e - c : rec[i] = M[c + i]
  <2>1. M \in Seq(Record)
    BY <1>1
  <2>2. Slice(M, c + 1, b) \in Seq(Record) /\ IsPart(Slice(M, c + 1, b), M, c, Least(b, Len(M)))
    BY <2>1, SliceParts, Zenon
  <2>3. rec = Slice(M, c + 1, b)
    BY <1>3, <1>4, Zenon
  <2>4. Beyond(c, e) = e - c
    BY <1>9 DEF Beyond
  <2>5. rec \in Seq(Record) /\ IsPart(rec, M, c, e)
    BY <1>6, <1>8, <2>2, <2>3, Zenon
  <2> QED BY <2>4, <2>5, Zenon DEF IsPart
<1>11. PICK h : h = g \o rec
  OBVIOUS
<1>12. /\ h \in Seq(Record) /\ Len(h) = Len(g) + Len(rec) /\ Len(g) \in Nat
       /\ \A i \in 1 .. Len(g) : h[i] = g[i]
       /\ \A i \in 1 .. Len(rec) : h[Len(g) + i] = rec[i]
  <2>1. g \in Seq(Record)
    BY <1>1
  <2>2. rec \in Seq(Record)
    BY <1>10
  <2> QED BY <1>11, <2>1, <2>2, ConcatParts
<1>13. PICK off \in Nat : off = Off(q, M, st2)
  BY DEF Placed
<1>14. PICK l \in Nat : l = Len(st2)
  OBVIOUS
<1>15. off + l <= n /\ \A i \in 1 .. l : M[off + i] = st2[i]
  <2>1. Placed(st2, M, off)
    BY <1>13, Zenon
  <2> QED BY <1>6, <1>14, <2>1 DEF Placed
<1>16. /\ Covered(st2, g, off, c)
       /\ ~q.descending => Len(g) = c /\ Agree(g, st2)
       /\ ~q.descending /\ q.kind # "transfers" => Leads(g, M)
  BY <1>3, <1>13, WalkBefore, Zenon
<1>17. ASSUME ~q.descending
       PROVE  /\ Len(h) = e
              /\ \A i \in 1 .. c : h[i] = g[i]
              /\ \A i \in 1 .. e : c < i => h[i] = M[i]
  <2>1. Len(g) = c
    BY <1>16, <1>17
  <2>2. Len(h) = e
    BY <1>9, <1>10, <1>12, <2>1
  <2>3. ASSUME NEW i \in 1 .. e, c < i PROVE h[i] = M[i]
    <3>1. PICK j \in 1 .. e - c : i = c + j
      <4>1. i - c \in 1 .. e - c /\ i = c + (i - c)
        BY <2>3
      <4> QED BY <4>1
    <3>2. rec[j] = M[c + j]
      BY <1>10
    <3>3. h[c + j] = rec[j]
      BY <1>10, <1>12, <2>1
    <3> QED BY <3>1, <3>2, <3>3
  <2> QED BY <1>12, <2>1, <2>2, <2>3
<1>18. ~q.descending => Agree(h, st2)
  <2> SUFFICES ASSUME ~q.descending, NEW i \in 1 .. e, i <= l PROVE h[i] = st2[i]
    BY <1>14, <1>17 DEF Agree
  <2>1. CASE i <= c
    <3>1. i \in 1 .. c /\ Len(g) = c
      BY <1>16, <2>1
    <3>2. g[i] = st2[i]
      BY <1>14, <1>16, <3>1 DEF Agree
    <3> QED BY <1>17, <3>1, <3>2
  <2>2. CASE c < i
    <3>1. off = 0
      BY <1>13 DEF Off
    <3>2. i \in 1 .. l /\ off + i = i
      BY <3>1
    <3> QED BY <1>15, <1>17, <2>2, <3>2
  <2> QED BY <2>1, <2>2
<1>19. ~q.descending /\ q.kind # "transfers" => Leads(h, M)
  <2> SUFFICES ASSUME ~q.descending, q.kind # "transfers" PROVE Leads(h, M)
    OBVIOUS
  <2>1. \A i \in 1 .. c : g[i] = M[i]
    BY <1>16 DEF Leads
  <2>2. ASSUME NEW i \in 1 .. e PROVE h[i] = M[i]
    <3>1. i \in 1 .. c \/ c < i
      OBVIOUS
    <3> QED BY <1>17, <2>1, <3>1
  <2> QED BY <1>6, <1>9, <1>17, <2>2 DEF Leads
<1>20. ASSUME NEW i \in 1 .. l
       PROVE  InList(st2[i], h, 0) \/ (b < n /\ b < off + i)
  <2>1. CASE InList(st2[i], g, 0)
    <3>1. g \in Seq(Record)
      BY <1>1
    <3>2. rec \in Seq(Record)
      BY <1>10
    <3>3. 0 \in Nat
      OBVIOUS
    <3>4. InList(st2[i], g \o rec, 0)
      BY <2>1, <3>1, <3>2, <3>3, InConcat, Zenon
    <3> QED BY <1>11, <3>4, Zenon
  <2>2. CASE c < off + i
    <3>1. PICK j \in 1 .. n : j = off + i /\ M[j] = st2[i]
      <4>1. off + i \in 1 .. n
        BY <1>15
      <4> QED BY <1>15, <4>1
    <3>2. CASE j <= e
      <4>1. PICK m \in 1 .. e - c : j = c + m
        <5>1. j - c \in 1 .. e - c /\ j = c + (j - c)
          BY <2>2, <3>1, <3>2
        <5> QED BY <5>1
      <4>2. rec[m] = st2[i] /\ m \in 1 .. Len(rec)
        BY <1>10, <3>1, <4>1
      <4>3. h[Len(g) + m] = st2[i] /\ Len(g) + m \in 1 .. Len(h) /\ 0 < Len(g) + m
        BY <1>12, <4>2
      <4> QED BY <4>3 DEF InList
    <3>3. CASE e < j
      <4>1. b < n /\ b < j
        BY <1>9, <3>3
      <4> QED BY <3>1, <4>1
    <3> QED BY <3>2, <3>3
  <2> QED BY <1>14, <1>16, <2>1, <2>2 DEF Covered
<1>21. h \in Seq(Record)
  BY <1>12
<1>22. CASE b < n
  <2>1. pg2 = k + 1
    BY <1>4, <1>6, <1>22, Zenon
  <2>2. pg2 \in Nat /\ pg2 >= 2 /\ SeenPages(pg2) = k
    BY <1>2, <2>1, NextNumber, Zenon
  <2>3. ~(pg2 = 0) /\ ~(pg2 = -1)
    BY <2>2, NotEnded, Zenon
  <2>4. Covered(st2, h, off, b)
    BY <1>14, <1>20, Zenon DEF Covered
  <2>5. ~q.descending => Len(h) = b
    BY <1>9, <1>17, <1>22
  <2>6. Going(q, M, k, h, st2)
    <3>1. k * SizeOf(q) = b /\ SizeOf(q) \in Nat \ {0} /\ b < Len(M)
      BY <1>4, <1>6, <1>22, Zenon
    <3> QED BY <1>13, <2>4, <2>5, <3>1, Zenon DEF Going
  <2>7. Walk(q, M, pg2, h, st2)
    BY <1>1, <1>18, <1>19, <1>21, <2>2, <2>3, <2>6, Zenon DEF Walk
  <2> QED BY <1>11, <2>7, Zenon
<1>23. CASE ~(b < n)
  <2>0. pg2 = -1
    BY <1>4, <1>6, <1>23, Zenon
  <2>1. pg2 = -1 /\ ~(pg2 = 0) /\ ~(pg2 > 0)
    BY <2>0
  <2>2. Has(h, st2)
    BY <1>14, <1>20, <1>23, Zenon DEF Has
  <2>3. Walk(q, M, pg2, h, st2)
    BY <1>1, <1>18, <1>19, <1>21, <2>1, <2>2, Zenon DEF Walk
  <2> QED BY <1>11, <2>3, Zenon
<1> QED BY <1>22, <1>23

\* A walk ends on a refusal.
LEMMA WalkRefused ==
  ASSUME NEW q, IsQuery(q), NEW M, NEW pg, NEW g, NEW st, Walk(q, M, pg, g, st), pg >= 0,
         NEW st2 \in Seq(Record), Placed(st2, M, Off(q, M, st2)), pg > 0 => st2 = st,
         Served(q) => ~((NumberOf(pg) - 1) * SizeOf(q) < Len(M))
  PROVE  Walk(q, M, -1, g, st2)
<1>1. M \in Seq(Record) /\ g \in Seq(Record)
  BY DEF Walk
<1>2. pg = 0 \/ (pg \in Nat /\ pg >= 2)
  BY DEF Walk
<1>3. PICK k : k = NumberOf(pg)
  OBVIOUS
<1>4. ASSUME Served(q) PROVE Has(g, st2)
  <2>1. ~((k - 1) * SizeOf(q) < Len(M))
    BY <1>3, <1>4
  <2>2. CASE pg = 0
    <3>1. k - 1 = 0
      BY <1>3, <2>2 DEF NumberOf
    <3>2. (k - 1) * SizeOf(q) = 0
      BY <3>1, SizeType, Zenon
    <3>3. Len(M) = 0
      BY <1>1, <2>1, <3>2
    <3>4. Len(st2) = 0
      <4>1. PICK off \in Nat : off = Off(q, M, st2) /\ off + Len(st2) <= Len(M)
        BY DEF Placed
      <4>2. Len(st2) \in Nat
        OBVIOUS
      <4> QED BY <3>3, <4>1, <4>2
    <3> QED BY <3>4 DEF Has
  <2>3. CASE pg # 0
    <3>1. pg > 0 /\ SeenPages(pg) = k - 1
      BY <1>2, <1>3, <2>3 DEF NumberOf, SeenPages
    <3>2. (k - 1) * SizeOf(q) < Len(M)
      BY <3>1, Zenon DEF Walk, Going
    <3> QED BY <2>1, <3>2
  <2> QED BY <2>2, <2>3
<1>5. /\ ~q.descending => Agree(g, st2)
      /\ ~q.descending /\ q.kind # "transfers" => Leads(g, M)
  BY <1>3, WalkBefore, Zenon
<1>6. ~(-1 = 0) /\ ~(-1 > 0)
  OBVIOUS
<1> QED BY <1>1, <1>4, <1>5, <1>6, Zenon DEF Walk
-----------------------------------------------------------------------------
(* What attempts store. *)

\* The keys of processed ticks are among those that match, at their end.
LEMMA SettledPlaced ==
  ASSUME NEW ar, IsArchive(ar), NEW m \in Nat, NEW n \in Nat, m <= n,
         NEW q, IsQuery(q), q.kind = "transfers",
         NEW st, st = MatchingTransfers(KeysUpTo(ar, m), q),
         NEW M, M = MatchingTransfers(KeysUpTo(ar, n), q)
  PROVE  Placed(st, M, Off(q, M, st))
<1>1. PICK r : r = KeysFrom(ar, 0, m)
  OBVIOUS
<1>2. PICK x : x = KeysFrom(ar, m, n)
  OBVIOUS
<1>3. 0 \in Nat /\ 0 <= m
  OBVIOUS
<1>4. KeysFrom(ar, 0, n) = r \o x /\ r \in Seq(PerTick) /\ x \in Seq(PerTick)
  BY <1>1, <1>2, <1>3, KeysSplit, Zenon
<1>5. KeysUpTo(ar, m) = r /\ KeysUpTo(ar, n) = r \o x
  BY <1>1, <1>4, KeysFromStart, Zenon
<1>6. PICK y : y = MatchingTransfers(x, q)
  OBVIOUS
<1>7. st \in Seq(Record) /\ y \in Seq(Record)
  BY <1>4, <1>5, <1>6, TransfersGrown, Zenon
<1>8. (q.descending => M = y \o st) /\ (~q.descending => M = st \o y)
  BY <1>4, <1>5, <1>6, TransfersGrown, ZenonT(40)
<1>9. HasOrder(q)
  BY DEF IsQuery
<1> QED BY <1>7, <1>8, <1>9, PlacedConcat, Zenon

\* How many transfers of one tick match.
LEMMA OneTickCount ==
  ASSUME NEW q, IsQuery(q), q.kind = "transfers", NEW p \in PerTick
  PROVE  Len(MatchingTransfers(<<p>>, q))
           = IF p \in Within(q) THEN Len(Filter(p.transactions, Kept(q))) ELSE 0
<1>1. PICK one : one = <<p>>
  OBVIOUS
<1>2. one \in Seq(PerTick)
  BY <1>1, OneElement, Zenon
<1>3. MatchingTransfers(one, q) = MatchedIn(Iterated(one, q), Kept(q))
  BY <1>2, TransfersMatched, Zenon
<1>4. InRange(one, q) = IF p \in Within(q) THEN <<p>> ELSE <<>>
  BY <1>1, <1>2, InRangeFilter, FilterOne, Zenon
<1>5. CASE p \in Within(q)
  <2>1. Reverse(<<p>>) = <<p>>
    BY DEF Reverse
  <2>2. Iterated(one, q) = <<p>>
    BY <1>4, <1>5, <2>1, Zenon DEF Iterated
  <2>3. MatchedIn(<<p>>, Kept(q)) = IdsOf(Filter(p.transactions, Kept(q)))
    BY MatchedOne, Zenon
  <2>4. p.transactions \in Seq(Tx)
    BY DEF PerTick
  <2>5. Filter(p.transactions, Kept(q)) \in Seq(Tx)
    BY <2>4, FilterType
  <2>6. Len(IdsOf(Filter(p.transactions, Kept(q)))) = Len(Filter(p.transactions, Kept(q)))
    BY <2>5, IdsOfParts, Zenon
  <2> QED BY <1>1, <1>3, <1>5, <2>2, <2>3, <2>6, Zenon
<1>6. CASE p \notin Within(q)
  <2>1. Reverse(<<>>) = <<>>
    BY DEF Reverse
  <2>2. Iterated(one, q) = <<>>
    BY <1>4, <1>6, <2>1, Zenon DEF Iterated
  <2>3. MatchedIn(<<>>, Kept(q)) = <<>> /\ Len(<<>>) = 0
    BY MatchedNone
  <2> QED BY <1>1, <1>3, <1>6, <2>2, <2>3, Zenon
<1> QED BY <1>5, <1>6

StoredAt(ar, t, txs) == [u \in DOMAIN ar \cup {t} |-> IF u = t THEN txs ELSE ar[u]]

LEMMA ListsToStore ==
  ASSUME NEW ar, NEW t \in Nat, NEW txs \in TransferLists(ar, t)
  PROVE  /\ t \in DOMAIN ar => Rearranged(ar[t], txs)
         /\ t \notin DOMAIN ar => txs \in Seq(Tx)
<1>1. ASSUME t \in DOMAIN ar PROVE Rearranged(ar[t], txs)
  <2>1. PICK order \in Bijection(DOMAIN ar[t], DOMAIN ar[t]) : txs = Reordered(ar[t], order)
    BY <1>1 DEF TransferLists
  <2> QED BY <2>1, Zenon DEF Rearranged
<1>2. ASSUME t \notin DOMAIN ar PROVE txs \in Seq(Tx)
  <2>1. PICK l \in 1 .. MaxPerTick, calls \in ContractCalls : txs = NewTransfers(t, l, calls)
    BY <1>2 DEF TransferLists
  <2>2. txs = [k \in 1 .. l |-> [id |-> <<t, k>>, sc |-> k \in calls]]
    BY <2>1, Zenon DEF NewTransfers
  <2>3. l \in Nat
    BY PagingAssumption
  <2>4. \A k \in 1 .. l : [id |-> <<t, k>>, sc |-> k \in calls] \in Tx
    BY <2>3 DEF Tx
  <2>5. txs \in [1 .. l -> Tx]
    BY <2>2, <2>4
  <2> QED BY <2>3, <2>5
<1> QED BY <1>1, <1>2

OtherKeysSame(ar, ar2, t) == \A u \in Nat : u # t => KeyAt(ar2, u) = KeyAt(ar, u)

\* An attempt stores transfers, and as many as an earlier one did.
LEMMA StoredAgain ==
  ASSUME NEW ar, IsArchive(ar), NEW t \in Nat, NEW txs,
         t \in DOMAIN ar => Rearranged(ar[t], txs),
         t \notin DOMAIN ar => txs \in Seq(Tx),
         NEW ar2, ar2 = StoredAt(ar, t, txs)
  PROVE  /\ IsArchive(ar2) /\ t \in DOMAIN ar2 /\ ar2[t] = txs /\ txs \in Seq(Tx)
         /\ t \in DOMAIN ar => SameCounts(ar[t], txs)
         /\ OtherKeysSame(ar, ar2, t)
<1>1. ASSUME t \in DOMAIN ar
      PROVE  txs \in Seq(Tx) /\ SameCounts(ar[t], txs)
  <2>1. PICK s \in Seq(Tx) : s = ar[t]
    BY <1>1 DEF IsArchive
  <2>2. Rearranged(s, txs)
    BY <1>1, <2>1, Zenon
  <2>3. txs \in Seq(Tx) /\ SameCounts(s, txs)
    BY <2>2, FilterRearranged, Zenon
  <2> QED BY <2>1, <2>3, Zenon
<1>2. txs \in Seq(Tx)
  BY <1>1
<1>3. DOMAIN ar2 = DOMAIN ar \cup {t} /\ \A u \in DOMAIN ar2 : ar2[u] = IF u = t THEN txs ELSE ar[u]
  BY DEF StoredAt
<1>4. IsArchive(ar2)
  BY <1>2, <1>3, Zenon DEF IsArchive
<1>5. t \in DOMAIN ar2 /\ ar2[t] = txs
  BY <1>3
<1>6. ASSUME NEW u \in Nat, u # t PROVE KeyAt(ar2, u) = KeyAt(ar, u)
  <2>1. u \in DOMAIN ar2 <=> u \in DOMAIN ar
    BY <1>3, <1>6
  <2>2. CASE u \in DOMAIN ar
    <3>1. ar2[u] = ar[u]
      BY <1>3, <1>6, <2>1, <2>2
    <3> QED BY <2>1, <2>2, <3>1, Zenon DEF KeyAt
  <2>3. CASE u \notin DOMAIN ar
    BY <2>1, <2>3, Zenon DEF KeyAt
  <2> QED BY <2>2, <2>3
<1> QED BY <1>1, <1>2, <1>4, <1>5, <1>6, Zenon DEF OtherKeysSame

\* What is stored for a tick that is not processed leaves the keys of the
\* processed ones alone, and no fewer records match.
LEMMA StoredMore ==
  ASSUME NEW ar, IsArchive(ar), NEW t \in Nat \ {0}, NEW n \in Nat, t <= n,
         NEW q, IsQuery(q), q.kind = "transfers",
         NEW ar2, IsArchive(ar2), t \in DOMAIN ar2,
         t \in DOMAIN ar => SameCounts(ar[t], ar2[t]), OtherKeysSame(ar, ar2, t)
  PROVE  /\ \A m \in Nat : m < t => KeysUpTo(ar2, m) = KeysUpTo(ar, m)
         /\ Len(MatchingTransfers(KeysUpTo(ar, n), q)) <= Len(MatchingTransfers(KeysUpTo(ar2, n), q))
<1> DEFINE Count(r) == Len(MatchingTransfers(r, q))
<1>1. PICK s \in Nat : s = t - 1 /\ t = s + 1 /\ s <= t /\ 0 <= s /\ 0 <= t
  <2>1. t - 1 \in Nat /\ t = (t - 1) + 1 /\ t - 1 <= t /\ 0 <= t - 1 /\ 0 <= t
    OBVIOUS
  <2> QED BY <2>1
<1>2. ASSUME NEW m \in Nat, m < t PROVE KeysUpTo(ar2, m) = KeysUpTo(ar, m)
  <2>1. 0 \in Nat /\ SameKeys(ar, ar2, 0, m)
    BY <1>2 DEF SameKeys, OtherKeysSame
  <2>2. KeysFrom(ar2, 0, m) = KeysFrom(ar, 0, m)
    BY <2>1, KeysSame
  <2> QED BY <2>2, KeysFromStart, Zenon
<1>3. ASSUME NEW a, IsArchive(a)
      PROVE  /\ Count(KeysUpTo(a, n))
                  = (Count(KeysFrom(a, 0, s)) + Count(KeyAt(a, t))) + Count(KeysFrom(a, t, n))
             /\ Count(KeysFrom(a, 0, s)) \in Nat /\ Count(KeyAt(a, t)) \in Nat
             /\ Count(KeysFrom(a, t, n)) \in Nat
  <2>1. PICK x, y, z : x = KeysFrom(a, 0, s) /\ y = KeyAt(a, t) /\ z = KeysFrom(a, t, n)
    OBVIOUS
  <2>2. PICK w : w = x \o y
    OBVIOUS
  <2>3. /\ KeysUpTo(a, n) = w \o z
        /\ x \in Seq(PerTick) /\ y \in Seq(PerTick) /\ z \in Seq(PerTick) /\ w \in Seq(PerTick)
    <3>1. t \in Nat /\ t = s + 1
      BY <1>1
    <3>2. /\ KeysUpTo(a, n) = (KeysFrom(a, 0, s) \o KeyAt(a, t)) \o KeysFrom(a, t, n)
          /\ KeysFrom(a, 0, s) \in Seq(PerTick) /\ KeyAt(a, t) \in Seq(PerTick)
          /\ KeysFrom(a, t, n) \in Seq(PerTick)
          /\ KeysFrom(a, 0, s) \o KeyAt(a, t) \in Seq(PerTick)
      BY <1>3, <3>1, KeysAround
    <3> QED BY <2>1, <2>2, <3>2, Zenon
  <2>4. Count(w \o z) = Count(w) + Count(z)
    BY <2>3, TransfersCount, Zenon
  <2>5. Count(x \o y) = Count(x) + Count(y)
    BY <2>3, TransfersCount, Zenon
  <2>6. Count(x) \in Nat /\ Count(y) \in Nat /\ Count(z) \in Nat
    BY <2>3, TransfersCount, Zenon
  <2>7. Count(KeysUpTo(a, n)) = (Count(x) + Count(y)) + Count(z)
    BY <2>2, <2>3, <2>4, <2>5, Zenon
  <2> QED BY <2>1, <2>6, <2>7, Zenon
<1>4. KeysFrom(ar2, 0, s) = KeysFrom(ar, 0, s)
  <2>1. 0 \in Nat /\ SameKeys(ar, ar2, 0, s)
    BY <1>1 DEF SameKeys, OtherKeysSame
  <2> QED BY <2>1, KeysSame
<1>5. KeysFrom(ar2, t, n) = KeysFrom(ar, t, n)
  <2>1. t \in Nat /\ SameKeys(ar, ar2, t, n)
    BY DEF SameKeys, OtherKeysSame
  <2> QED BY <2>1, KeysSame
<1>6. Count(KeyAt(ar, t)) <= Count(KeyAt(ar2, t))
  <2>1. CASE t \in DOMAIN ar
    <3>1. PICK p, p2 : /\ p = [tick |-> t, transactions |-> ar[t]]
                       /\ p2 = [tick |-> t, transactions |-> ar2[t]]
      OBVIOUS
    <3>2. ar[t] \in Seq(Tx) /\ ar2[t] \in Seq(Tx)
      BY <2>1 DEF IsArchive
    <3>3. /\ p \in PerTick /\ p2 \in PerTick /\ p.tick = t /\ p2.tick = t
          /\ p.transactions = ar[t] /\ p2.transactions = ar2[t]
      BY <3>1, <3>2 DEF PerTick
    <3>4. p \in Within(q) <=> p2 \in Within(q)
      BY <3>3, Zenon DEF Within
    <3>5. KeyAt(ar, t) = <<p>> /\ KeyAt(ar2, t) = <<p2>>
      BY <2>1, <3>1, Zenon DEF KeyAt
    <3>6. Len(MatchingTransfers(<<p>>, q)) = Len(MatchingTransfers(<<p2>>, q))
      <4>1. Len(Filter(p2.transactions, Kept(q))) = Len(Filter(p.transactions, Kept(q)))
        BY <2>1, <3>3, Zenon DEF SameCounts
      <4> QED BY <3>3, <3>4, <4>1, OneTickCount, Zenon
    <3>7. Count(KeyAt(ar, t)) = Count(KeyAt(ar2, t))
      BY <3>5, <3>6, Zenon
    <3>8. Count(KeyAt(ar, t)) \in Nat
      BY <1>3, Zenon
    <3> QED BY <3>7, <3>8
  <2>2. CASE t \notin DOMAIN ar
    <3>1. KeyAt(ar, t) = <<>>
      BY <2>2 DEF KeyAt
    <3>2. MatchingTransfers(<<>>, q) = <<>>
      <4>1. <<>> \in Seq(PerTick) /\ Reverse(<<>>) = <<>>
        BY DEF Reverse
      <4>2. InRange(<<>>, q) = <<>>
        BY <4>1, InRangeFilter, FilterNone, Zenon
      <4>3. Iterated(<<>>, q) = <<>>
        BY <4>1, <4>2, Zenon DEF Iterated
      <4> QED BY <4>1, <4>3, TransfersMatched, MatchedNone, Zenon
    <3>3. Count(KeyAt(ar, t)) = 0
      <4>1. Len(<<>>) = 0
        OBVIOUS
      <4> QED BY <3>1, <3>2, <4>1, Zenon
    <3>4. Count(KeyAt(ar2, t)) \in Nat
      BY <1>3, Zenon
    <3> QED BY <3>3, <3>4
  <2> QED BY <2>1, <2>2
<1> HIDE DEF Count
<1>7. Count(KeysUpTo(ar, n)) <= Count(KeysUpTo(ar2, n))
  <2>1. PICK x, y, y2, z : /\ x = Count(KeysFrom(ar, 0, s)) /\ z = Count(KeysFrom(ar, t, n))
                           /\ y = Count(KeyAt(ar, t)) /\ y2 = Count(KeyAt(ar2, t))
    OBVIOUS
  <2>2. Count(KeysUpTo(ar, n)) = (x + y) + z /\ x \in Nat /\ y \in Nat /\ z \in Nat
    BY <1>3, <2>1, Zenon
  <2>3. Count(KeysUpTo(ar2, n)) = (x + y2) + z /\ y2 \in Nat
    BY <1>3, <1>4, <1>5, <2>1, Zenon
  <2>4. y <= y2
    BY <1>6, <2>1, Zenon
  <2> QED BY <2>2, <2>3, <2>4
<1> QED BY <1>2, <1>7 DEF Count

\* A tick at the end of a list.
IsListedMore(list, t, q, M, M2) == M = ListedTicks(list, q) /\ M2 = ListedTicks(Append(list, t), q)

LEMMA ListedMore ==
  ASSUME NEW list \in Seq(Nat), NEW t \in Nat, NEW q, IsQuery(q),
         NEW M, NEW M2, IsListedMore(list, t, q, M, M2)
  PROVE  /\ M \in Seq(Record) /\ M2 \in Seq(Record) /\ <<t>> \in Seq(Record)
         /\ q.descending => M2 = <<t>> \o M
         /\ ~q.descending => M2 = M \o <<t>>
<1>1. PICK one : one = <<t>>
  OBVIOUS
<1>2. one \in Seq(Nat) /\ Append(list, t) = list \o one /\ Append(list, t) \in Seq(Nat)
  BY <1>1
<1>3. Reverse(one) = one
  BY <1>1 DEF Reverse
<1>4. Reverse(list \o one) = Reverse(one) \o Reverse(list)
  BY <1>2, ReverseConcat, Zenon
<1>5. M \in Seq(Record) /\ M2 \in Seq(Record)
  BY <1>2, ListedType, RecordLists, Zenon DEF IsListedMore
<1>6. <<t>> \in Seq(Record)
  BY <1>1, <1>2, RecordLists, Zenon
<1>7. CASE q.descending
  <2>1. M = Reverse(list) /\ M2 = Reverse(list \o one)
    BY <1>2, <1>7, Zenon DEF ListedTicks, IsListedMore
  <2> QED BY <1>1, <1>3, <1>4, <1>5, <1>6, <1>7, <2>1, Zenon
<1>8. CASE ~q.descending
  <2>1. M = list /\ M2 = list \o one
    BY <1>2, <1>8, Zenon DEF ListedTicks, IsListedMore
  <2> QED BY <1>1, <1>5, <1>6, <1>8, <2>1, Zenon
<1> QED BY <1>7, <1>8 DEF IsQuery, HasOrder
-----------------------------------------------------------------------------
(* The inductive invariant. *)

Unpaged(q) == [q EXCEPT !.descending = FALSE, !.scOnly = FALSE]

ReplyInv ==
  /\ reply.code = "OK" =>
       \E k \in Nat \ {0} :
         /\ SizeOf(query) \in Nat \ {0}
         /\ PageReply(reply, Matching(query), k, SizeOf(query))
  /\ reply.code = "unpaged" =>
       reply.records = Slice(Matching(Unpaged(query)), 1, LimitWithoutPaging)

WalkInv == Walk(query, Matching(query), page, got, atStart)

\* The transfers that were settled when the walk began are still those of
\* the ticks up to the one that was the last processed then.
SettledAt(ar, last, list, q, st) == \E m \in 0 .. last : st = MatchingUpTo(ar, m, list, q)

SettledInv ==
  page # 0 /\ query.kind = "transfers" => SettledAt(archive, processed, listed, query, atStart)

PagingIInv == ArchiveInv /\ query \in Query /\ ReplyInv /\ WalkInv /\ SettledInv

LEMMA PagingInit == Init => PagingIInv
<1> SUFFICES ASSUME Init PROVE PagingIInv
  OBVIOUS
<1>1. /\ archive = <<>> /\ listed = <<>> /\ processed = 0 /\ query \in Query
      /\ page = 0 /\ got = <<>> /\ atStart = <<>> /\ reply = NoReply
  BY DEF Init
<1>2. PICK q \in Query : q = query
  BY <1>1
<1>3. IsQuery(q)
  BY QueryFacts, Zenon
<1>4. ArchiveInv
  <2>1. IsArchive(<<>>)
    BY DEF IsArchive
  <2>2. Ordered(<<>>, FALSE)
    BY DEF Ordered
  <2>3. <<>> \in Seq(Nat) /\ 0 \in Nat /\ 0 <= MaxTicks
    BY PagingAssumption
  <2> QED BY <1>1, <2>1, <2>2, <2>3, Zenon DEF ArchiveInv
<1>5. PICK M \in Seq(Record) : M = Matching(query)
  BY <1>2, <1>3, <1>4, MatchingNow, Zenon DEF ArchiveInv
<1>6. ReplyInv
  BY <1>1 DEF ReplyInv, NoReply
<1>7. Walk(q, M, 0, <<>>, <<>>)
  <2>1. <<>> \in Seq(Record) /\ Len(<<>>) = 0
    OBVIOUS
  <2>2. Leads(<<>>, M) /\ Agree(<<>>, <<>>)
    BY DEF Leads, Agree
  <2>3. ~(0 = -1) /\ ~(0 > 0)
    OBVIOUS
  <2> QED BY <2>1, <2>2, <2>3, Zenon DEF Walk
<1>8. WalkInv
  BY <1>1, <1>2, <1>5, <1>7, Zenon DEF WalkInv
<1>9. SettledInv
  BY <1>1 DEF SettledInv
<1> QED BY <1>1, <1>4, <1>6, <1>8, <1>9 DEF PagingIInv

\* The transfers an attempt stores for a tick that is not processed.
LEMMA PagingPutTransfers ==
  ASSUME PagingIInv, PutTransferTransactionsPerTick PROVE PagingIInv'
<1>1. PICK ar, list, last : ar = archive /\ list = listed /\ last = processed
  OBVIOUS
<1>2. PICK q \in Query : q = query
  BY DEF PagingIInv
<1>3. IsQuery(q) /\ q.kind = "transfers"
  BY <1>2, QueryFacts, Zenon DEF PutTransferTransactionsPerTick
<1>4. IsArchive(ar) /\ list \in Seq(Nat) /\ last \in Nat /\ last <= MaxTicks
  BY <1>1, Zenon DEF PagingIInv, ArchiveInv
<1>5. PICK t \in processed + 1 .. MaxTicks : \E txs \in TransferLists(archive, t) :
        archive' = StoredAt(archive, t, txs)
  BY Zenon DEF PutTransferTransactionsPerTick, StoredAt
<1>6. PICK txs \in TransferLists(archive, t) : archive' = StoredAt(archive, t, txs)
  BY <1>5, Zenon
<1>7. /\ query' = query /\ page' = page /\ got' = got /\ reply' = NoReply
      /\ listed' = listed /\ processed' = processed /\ atStart' = atStart
  BY DEF PutTransferTransactionsPerTick
<1>8. PICK n \in Nat : n = MaxTicks
  BY PagingAssumption
<1>9. t \in Nat \ {0} /\ t <= n /\ last < t /\ last <= n
  BY <1>1, <1>4, <1>8
<1>10. t \in DOMAIN ar => Rearranged(ar[t], txs)
  <2>1. t \in Nat /\ txs \in TransferLists(ar, t)
    BY <1>1, <1>6, <1>9
  <2> QED BY <2>1, ListsToStore, Zenon
<1>11. t \notin DOMAIN ar => txs \in Seq(Tx)
  <2>1. t \in Nat /\ txs \in TransferLists(ar, t)
    BY <1>1, <1>6, <1>9
  <2> QED BY <2>1, ListsToStore, Zenon
<1>12. PICK ar2 : ar2 = archive' /\ ar2 = StoredAt(ar, t, txs)
  BY <1>1, <1>6, Zenon
<1>13. /\ IsArchive(ar2) /\ t \in DOMAIN ar2
       /\ t \in DOMAIN ar => SameCounts(ar[t], ar2[t])
       /\ OtherKeysSame(ar, ar2, t)
  <2>1. t \in Nat
    BY <1>9
  <2>2. /\ IsArchive(ar2) /\ t \in DOMAIN ar2 /\ ar2[t] = txs
        /\ t \in DOMAIN ar => SameCounts(ar[t], txs)
        /\ OtherKeysSame(ar, ar2, t)
    BY <1>4, <1>10, <1>11, <1>12, <2>1, StoredAgain, ZenonT(40)
  <2> QED BY <2>2, Zenon
<1>14. /\ \A m \in Nat : m < t => KeysUpTo(ar2, m) = KeysUpTo(ar, m)
       /\ Len(MatchingTransfers(KeysUpTo(ar, n), q)) <= Len(MatchingTransfers(KeysUpTo(ar2, n), q))
  BY <1>3, <1>4, <1>9, <1>13, StoredMore
<1>15. PICK M, M2 : M = MatchingTransfers(KeysUpTo(ar, n), q) /\ M2 = MatchingTransfers(KeysUpTo(ar2, n), q)
  OBVIOUS
<1>16. Matching(query) = M /\ Matching(query)' = M2
  BY <1>1, <1>2, <1>3, <1>7, <1>8, <1>12, <1>15, Zenon DEF Matching, MatchingUpTo
<1>17. PICK pg, g, st : pg = page /\ g = got /\ st = atStart
  OBVIOUS
<1>18. pg # 0 => \E m \in 0 .. last : st = MatchingTransfers(KeysUpTo(ar2, m), q)
  <2> SUFFICES ASSUME pg # 0 PROVE \E m \in 0 .. last : st = MatchingTransfers(KeysUpTo(ar2, m), q)
    OBVIOUS
  <2>1. SettledAt(ar, last, list, q, st)
    BY <1>1, <1>2, <1>3, <1>17, Zenon DEF PagingIInv, SettledInv
  <2>2. PICK m \in 0 .. last : st = MatchingUpTo(ar, m, list, q)
    BY <2>1, Zenon DEF SettledAt
  <2>3. m \in Nat /\ m < t
    BY <1>4, <1>9
  <2>4. st = MatchingTransfers(KeysUpTo(ar2, m), q)
    BY <1>3, <1>14, <2>2, <2>3, Zenon DEF MatchingUpTo
  <2> QED BY <2>4
<1>19. Walk(q, M, pg, g, st)
  BY <1>2, <1>16, <1>17, Zenon DEF PagingIInv, WalkInv
<1>20. pg > 0 => Placed(st, M2, Off(q, M2, st))
  <2> SUFFICES ASSUME pg > 0 PROVE Placed(st, M2, Off(q, M2, st))
    OBVIOUS
  <2>1. pg # 0
    <3>1. pg = -1 \/ pg = 0 \/ (pg \in Nat /\ pg >= 2)
      BY <1>19 DEF Walk
    <3> QED BY <3>1
  <2>2. PICK m \in 0 .. last : st = MatchingTransfers(KeysUpTo(ar2, m), q)
    BY <1>18, <2>1
  <2>3. m \in Nat /\ m <= n
    BY <1>4, <1>9
  <2> QED BY <1>3, <1>13, <1>15, <2>2, <2>3, SettledPlaced, Zenon
<1>21. M2 \in Seq(Record)
  <2>1. KeysUpTo(ar2, n) \in Seq(PerTick)
    BY <1>13, KeysType, Zenon
  <2> QED BY <1>3, <1>15, <2>1, TransfersGrown, Zenon
<1>22. Walk(q, M2, pg, g, st)
  <2>1. Len(M) <= Len(M2)
    BY <1>14, <1>15, Zenon
  <2> QED BY <1>3, <1>19, <1>20, <1>21, <2>1, WalkGrows, Zenon
<1>23. WalkInv'
  BY <1>2, <1>7, <1>16, <1>17, <1>22, Zenon DEF WalkInv
<1>24. SettledInv'
  <2>1. pg # 0 => SettledAt(ar2, last, list, q, st)
    BY <1>3, <1>18, Zenon DEF SettledAt, MatchingUpTo
  <2> QED BY <1>1, <1>2, <1>7, <1>12, <1>17, <2>1, Zenon DEF SettledInv
<1>25. ArchiveInv'
  <2>1. /\ listed' \in Seq(Nat) /\ processed' \in Nat /\ processed' <= MaxTicks
        /\ query'.kind = "epochTicks" => Ordered(listed', FALSE)
    BY <1>7, Zenon DEF PagingIInv, ArchiveInv
  <2> QED BY <1>12, <1>13, <2>1, Zenon DEF ArchiveInv
<1>26. ReplyInv'
  BY <1>7 DEF ReplyInv, NoReply
<1>27. query' \in Query
  BY <1>2, <1>7
<1> QED BY <1>23, <1>24, <1>25, <1>26, <1>27 DEF PagingIInv

\* A tick at the end of a list.
LEMMA PagingListTick ==
  ASSUME PagingIInv, NEW t \in Nat, query.kind # "transfers", listed' = Append(listed, t),
         query.kind = "epochTicks" => \A k \in DOMAIN listed : listed[k] < t,
         archive' = archive, processed' = processed, query' = query, page' = page,
         got' = got, atStart' = atStart, reply' = NoReply
  PROVE  PagingIInv'
<1>1. PICK q \in Query : q = query
  BY DEF PagingIInv
<1>2. IsQuery(q) /\ q.kind # "transfers"
  BY <1>1, QueryFacts, Zenon
<1>3. PICK list \in Seq(Nat) : list = listed
  BY Zenon DEF PagingIInv, ArchiveInv
<1>4. PICK more : more = Append(list, t)
  OBVIOUS
<1>5. more \in Seq(Nat) /\ listed' = more
  BY <1>3, <1>4
<1>6. ASSUME q.kind = "epochTicks" PROVE Ordered(more, FALSE)
  <2>1. Ordered(list, FALSE)
    BY <1>1, <1>3, <1>6, Zenon DEF PagingIInv, ArchiveInv
  <2>2. PICK n \in Nat : n = Len(list) /\ DOMAIN list = 1 .. n
    OBVIOUS
  <2>3. \A k \in 1 .. n : list[k] < t
    BY <1>1, <1>3, <1>6, <2>2
  <2>4. Len(more) = n + 1 /\ more[n + 1] = t /\ \A k \in 1 .. n : more[k] = list[k]
    BY <1>4, <2>2
  <2>5. \A j, k \in 1 .. n : j < k => list[j] < list[k]
    BY <2>1, <2>2 DEF Ordered, Precedes
  <2>6. ASSUME NEW j \in 1 .. n + 1, NEW k \in 1 .. n + 1, j < k PROVE more[j] < more[k]
    <3>1. j \in 1 .. n
      BY <2>6
    <3>2. CASE k = n + 1
      BY <2>3, <2>4, <3>1, <3>2
    <3>3. CASE k # n + 1
      <4>1. k \in 1 .. n
        BY <3>3
      <4> QED BY <2>4, <2>5, <2>6, <3>1, <4>1
    <3> QED BY <3>2, <3>3
  <2> QED BY <2>4, <2>6 DEF Ordered, Precedes
<1>7. ArchiveInv'
  <2>1. IsArchive(archive') /\ processed' \in Nat /\ processed' <= MaxTicks
    BY Zenon DEF PagingIInv, ArchiveInv
  <2> QED BY <1>1, <1>5, <1>6, <2>1, Zenon DEF ArchiveInv
<1>8. PICK M, M2 : M = ListedTicks(list, q) /\ M2 = ListedTicks(more, q)
  OBVIOUS
<1>9. PICK x : x = <<t>>
  OBVIOUS
<1>10. /\ M \in Seq(Record) /\ M2 \in Seq(Record) /\ x \in Seq(Record)
       /\ q.descending => M2 = x \o M
       /\ ~q.descending => M2 = M \o x
  <2>1. IsListedMore(list, t, q, M, M2)
    BY <1>4, <1>8, Zenon DEF IsListedMore
  <2>2. /\ M \in Seq(Record) /\ M2 \in Seq(Record) /\ <<t>> \in Seq(Record)
        /\ q.descending => M2 = <<t>> \o M
        /\ ~q.descending => M2 = M \o <<t>>
    BY <1>2, <2>1, ListedMore, Zenon
  <2> QED BY <1>9, <2>2, Zenon
<1>11. Matching(query) = M /\ Matching(query)' = M2
  BY <1>1, <1>2, <1>3, <1>5, <1>8, Zenon DEF Matching, MatchingUpTo
<1>12. PICK pg, g, st : pg = page /\ g = got /\ st = atStart
  OBVIOUS
<1>13. Walk(q, M, pg, g, st)
  BY <1>1, <1>11, <1>12, Zenon DEF PagingIInv, WalkInv
<1>14. HasOrder(q) /\ q.descending \in BOOLEAN
  BY <1>2, Zenon DEF IsQuery, HasOrder
<1>15. Len(M) <= Len(M2)
  <2>1. Len(x \o M) = Len(x) + Len(M) /\ Len(x) \in Nat /\ Len(M) \in Nat
    BY <1>10, ConcatParts, Zenon
  <2>2. Len(M \o x) = Len(M) + Len(x)
    BY <1>10, ConcatParts, Zenon
  <2>3. Len(M2) = Len(x) + Len(M) \/ Len(M2) = Len(M) + Len(x)
    BY <1>10, <1>14, <2>1, <2>2, Zenon
  <2> QED BY <2>1, <2>3
<1>16. pg > 0 => Placed(st, M2, Off(q, M2, st))
  <2> SUFFICES ASSUME pg > 0 PROVE Placed(st, M2, Off(q, M2, st))
    OBVIOUS
  <2>1. Placed(st, M, Off(q, M, st)) /\ st \in Seq(Record)
    BY <1>13, Zenon DEF Walk, Going
  <2> QED BY <1>10, <1>14, <2>1, PlacedGrown, Zenon
<1>17. ~q.descending => Leads(M, M2)
  <2> SUFFICES ASSUME ~q.descending PROVE Leads(M, M2)
    OBVIOUS
  <2>1. M2 = M \o x
    BY <1>10
  <2>2. \A k \in 1 .. Len(M) : (M \o x)[k] = M[k]
    BY <1>10, ConcatParts, Zenon
  <2> QED BY <1>15, <2>1, <2>2, Zenon DEF Leads
<1>18. Walk(q, M2, pg, g, st)
  BY <1>2, <1>10, <1>13, <1>15, <1>16, <1>17, WalkGrows, Zenon
<1>19. WalkInv'
  BY <1>1, <1>11, <1>12, <1>18, Zenon DEF WalkInv
<1>20. SettledInv'
  BY <1>1, <1>2, Zenon DEF SettledInv
<1>21. ReplyInv'
  BY DEF ReplyInv, NoReply
<1>22. query' \in Query
  BY <1>1
<1> QED BY <1>7, <1>19, <1>20, <1>21, <1>22 DEF PagingIInv

LEMMA PagingListActions ==
  ASSUME PagingIInv, AppendEmptyTickToEmptyTickListPerEpoch \/ SetProcessedTickInterval
  PROVE  PagingIInv'
<1>1. /\ archive' = archive /\ processed' = processed /\ query' = query /\ page' = page
      /\ got' = got /\ atStart' = atStart /\ reply' = NoReply
  BY Zenon DEF AppendEmptyTickToEmptyTickListPerEpoch, SetProcessedTickInterval
<1>2. processed \in Nat
  BY DEF PagingIInv, ArchiveInv
<1>3. CASE AppendEmptyTickToEmptyTickListPerEpoch
  <2>1. PICK t \in processed + 1 .. MaxTicks : listed' = Append(listed, t)
    BY <1>3, Zenon DEF AppendEmptyTickToEmptyTickListPerEpoch
  <2>2. query.kind = "emptyTicks"
    BY <1>3 DEF AppendEmptyTickToEmptyTickListPerEpoch
  <2>3. t \in Nat /\ query.kind # "transfers" /\ query.kind # "epochTicks"
    BY <1>2, <2>2
  <2> QED BY <1>1, <2>1, <2>3, PagingListTick
<1>4. CASE SetProcessedTickInterval
  <2>1. PICK t \in 1 .. MaxTicks :
          (\A k \in DOMAIN listed : listed[k] < t) /\ listed' = Append(listed, t)
    BY <1>4, Zenon DEF SetProcessedTickInterval
  <2>2. query.kind = "epochTicks"
    BY <1>4 DEF SetProcessedTickInterval
  <2>3. t \in Nat /\ query.kind # "transfers"
    BY <2>2
  <2> QED BY <1>1, <2>1, <2>3, PagingListTick
<1> QED BY <1>3, <1>4

LEMMA PagingProcessed ==
  ASSUME PagingIInv, SetLastProcessedTick PROVE PagingIInv'
<1>1. /\ archive' = archive /\ listed' = listed /\ query' = query /\ page' = page
      /\ got' = got /\ atStart' = atStart /\ reply' = reply
      /\ processed' \in processed + 1 .. MaxTicks
  BY DEF SetLastProcessedTick
<1>2. PICK last \in Nat : last = processed
  BY Zenon DEF PagingIInv, ArchiveInv
<1>3. PICK now : now = processed'
  OBVIOUS
<1>4. now \in Nat /\ now <= MaxTicks /\ last <= now
  BY <1>1, <1>2, <1>3, PagingAssumption
<1>5. ArchiveInv'
  BY <1>1, <1>3, <1>4, Zenon DEF PagingIInv, ArchiveInv
<1>6. Matching(query)' = Matching(query) /\ Matching(Unpaged(query))' = Matching(Unpaged(query))
  BY <1>1, Zenon DEF Matching, Unpaged
<1>7. ReplyInv'
  BY <1>1, <1>6, Zenon DEF PagingIInv, ReplyInv
<1>8. WalkInv'
  BY <1>1, <1>6, Zenon DEF PagingIInv, WalkInv
<1>9. SettledInv'
  <2>1. PICK ar, list, q, st : ar = archive /\ list = listed /\ q = query /\ st = atStart
    OBVIOUS
  <2>2. ASSUME SettledAt(ar, last, list, q, st) PROVE SettledAt(ar, now, list, q, st)
    <3>1. PICK m \in 0 .. last : st = MatchingUpTo(ar, m, list, q)
      BY <2>2 DEF SettledAt
    <3>2. m \in 0 .. now
      BY <1>4
    <3> QED BY <3>1, <3>2, Zenon DEF SettledAt
  <2> QED BY <1>1, <1>2, <1>3, <2>1, <2>2, Zenon DEF PagingIInv, SettledInv
<1>10. query' \in Query
  BY <1>1, Zenon DEF PagingIInv
<1> QED BY <1>5, <1>7, <1>8, <1>9, <1>10 DEF PagingIInv
\* The reply to a request, as ReplyInv has it.
LEMMA RequestReply ==
  ASSUME PagingIInv, NEW req \in Nat, reply' = ReplyTo(query, req),
         archive' = archive, listed' = listed, query' = query
  PROVE  ReplyInv'
<1>1. PICK q \in Query : q = query
  BY DEF PagingIInv
<1>2. PICK x, M : x = ReplyTo(query, req) /\ M = Matching(query)
  OBVIOUS
<1>3. IsQuery(q) /\ ArchiveInv
  BY QueryFacts, Zenon DEF PagingIInv
<1>4. \/ SizeOf(q) \in Nat \ {0} /\ PageReply(x, M, NumberOf(req), SizeOf(q))
      \/ /\ x.code \in Refusal
         /\ Served(q) => ~((NumberOf(req) - 1) * SizeOf(q) < Len(M))
  BY <1>1, <1>2, <1>3, Replies, Zenon
<1>5. PICK k \in Nat \ {0} : k = NumberOf(req)
  BY DEF NumberOf
<1>6. reply' = x /\ Matching(query)' = M /\ query' = q
  BY <1>1, <1>2, Zenon DEF Matching
<1>7. CASE SizeOf(q) \in Nat \ {0} /\ PageReply(x, M, NumberOf(req), SizeOf(q))
  <2>1. x.code # "unpaged"
    <3>1. x.code = "OK"
      BY <1>7, Zenon DEF PageReply
    <3> QED BY <3>1
  <2>2. \E j \in Nat \ {0} : SizeOf(q) \in Nat \ {0} /\ PageReply(x, M, j, SizeOf(q))
    BY <1>5, <1>7, Zenon
  <2> QED BY <1>6, <2>1, <2>2, Zenon DEF ReplyInv
<1>8. CASE x.code \in Refusal
  <2>1. x.code # "OK" /\ x.code # "unpaged"
    BY <1>8 DEF Refusal
  <2> QED BY <1>6, <2>1, Zenon DEF ReplyInv
<1> QED BY <1>4, <1>7, <1>8

\* The records that are settled when a walk begins, and those of a walk under
\* way, have their place in what matches.
LEMMA WalkStarts ==
  ASSUME PagingIInv, page >= 0, NEW st2, st2 = IF page = 0 THEN Settled(query) ELSE atStart
  PROVE  /\ st2 \in Seq(Record) /\ Placed(st2, Matching(query), Off(query, Matching(query), st2))
         /\ page > 0 => st2 = atStart
         /\ query.kind = "transfers" => SettledAt(archive, processed, listed, query, st2)
<1>1. PICK ar, list, last : ar = archive /\ list = listed /\ last = processed
  OBVIOUS
<1>2. PICK q \in Query : q = query
  BY DEF PagingIInv
<1>3. IsQuery(q)
  BY QueryFacts, Zenon
<1>4. IsArchive(ar) /\ list \in Seq(Nat) /\ last \in Nat /\ last <= MaxTicks
  BY <1>1, Zenon DEF PagingIInv, ArchiveInv
<1>5. PICK n \in Nat : n = MaxTicks
  BY PagingAssumption
<1>6. PICK M : M = MatchingUpTo(ar, n, list, q)
  OBVIOUS
<1>7. Matching(query) = M
  BY <1>1, <1>2, <1>5, <1>6, Zenon DEF Matching
<1>8. Walk(q, M, page, got, atStart)
  BY <1>2, <1>7, Zenon DEF PagingIInv, WalkInv
<1>9. CASE page = 0
  <2>1. st2 = MatchingUpTo(ar, last, list, q)
    BY <1>1, <1>2, <1>9, Zenon DEF Settled
  <2>2. st2 \in Seq(Record) /\ M \in Seq(Record)
    BY <1>3, <1>4, <1>6, <2>1, MatchingType, Zenon
  <2>3. Placed(st2, M, Off(q, M, st2))
    <3>1. CASE q.kind = "transfers"
      <4>1. st2 = MatchingTransfers(KeysUpTo(ar, last), q) /\ M = MatchingTransfers(KeysUpTo(ar, n), q)
        BY <1>6, <2>1, <3>1, Zenon DEF MatchingUpTo
      <4>2. last \in Nat /\ last <= n
        BY <1>4, <1>5
      <4> QED BY <1>3, <1>4, <3>1, <4>1, <4>2, SettledPlaced, Zenon
    <3>2. CASE q.kind # "transfers"
      <4>1. st2 = M
        BY <1>6, <2>1, <3>2, Zenon DEF MatchingUpTo
      <4>2. HasOrder(q)
        BY <1>3 DEF IsQuery
      <4> QED BY <2>2, <4>1, <4>2, PlacedSame, Zenon
    <3> QED BY <3>1, <3>2
  <2>4. last \in 0 .. last
    BY <1>4
  <2>5. SettledAt(ar, last, list, q, st2)
    BY <2>1, <2>4, Zenon DEF SettledAt
  <2>6. ~(page > 0)
    BY <1>9
  <2> QED BY <1>1, <1>2, <1>7, <2>2, <2>3, <2>5, <2>6, Zenon
<1>10. CASE page # 0
  <2>1. st2 = atStart /\ page > 0
    <3>1. page = -1 \/ page = 0 \/ (page \in Nat /\ page >= 2)
      BY <1>8, Zenon DEF Walk
    <3> QED BY <1>10, <3>1
  <2>2. st2 \in Seq(Record) /\ Placed(st2, M, Off(q, M, st2))
    BY <1>8, <2>1, Zenon DEF Walk, Going
  <2>3. query.kind = "transfers" => SettledAt(archive, processed, listed, query, st2)
    BY <1>10, <2>1, Zenon DEF PagingIInv, SettledInv
  <2> QED BY <1>2, <1>7, <2>1, <2>2, <2>3, Zenon
<1> QED BY <1>9, <1>10

LEMMA PagingNextPage ==
  ASSUME PagingIInv, NextPage PROVE PagingIInv'
<1>1. /\ page >= 0 /\ reply' = ReplyTo(query, page)
      /\ archive' = archive /\ listed' = listed /\ processed' = processed /\ query' = query
      /\ atStart' = IF page = 0 THEN Settled(query) ELSE atStart
  BY DEF NextPage, growthVars
<1>2. PICK q \in Query : q = query
  BY DEF PagingIInv
<1>3. IsQuery(q) /\ ArchiveInv
  BY QueryFacts, Zenon DEF PagingIInv
<1>4. PICK pg, g, st, M : pg = page /\ g = got /\ st = atStart /\ M = Matching(query)
  OBVIOUS
<1>5. Walk(q, M, pg, g, st) /\ pg >= 0
  BY <1>1, <1>2, <1>4, Zenon DEF PagingIInv, WalkInv
<1>6. pg \in Nat
  BY <1>5 DEF Walk
<1>7. ReplyInv'
  <2>1. PICK req \in Nat : req = page
    BY <1>4, <1>6
  <2> QED BY <1>1, <2>1, RequestReply, Zenon
<1>8. ArchiveInv' /\ query' \in Query
  BY <1>1, <1>2, <1>3 DEF ArchiveInv
<1>9. PICK x : x = ReplyTo(query, page)
  OBVIOUS
<1>10. \/ SizeOf(q) \in Nat \ {0} /\ PageReply(x, M, NumberOf(pg), SizeOf(q))
       \/ /\ x.code \in Refusal
          /\ Served(q) => ~((NumberOf(pg) - 1) * SizeOf(q) < Len(M))
  BY <1>2, <1>3, <1>4, <1>6, <1>9, Replies, Zenon
<1>11. reply' = x /\ Matching(query)' = M /\ query' = q
  BY <1>1, <1>2, <1>4, <1>9, Zenon DEF Matching
<1>12. PICK st2 : st2 = atStart'
  OBVIOUS
<1>13. /\ st2 \in Seq(Record) /\ Placed(st2, M, Off(q, M, st2)) /\ (pg > 0 => st2 = st)
       /\ q.kind = "transfers" => SettledAt(archive, processed, listed, q, st2)
  BY <1>1, <1>2, <1>4, <1>5, <1>12, WalkStarts, Zenon
<1>14. SettledInv'
  <2>1. PICK ar, list, last : ar = archive /\ list = listed /\ last = processed
    OBVIOUS
  <2>2. q.kind = "transfers" => SettledAt(ar, last, list, q, st2)
    BY <1>13, <2>1, Zenon
  <2>3. archive' = ar /\ listed' = list /\ processed' = last /\ query' = q /\ atStart' = st2
    BY <1>1, <1>2, <1>12, <2>1, Zenon
  <2> QED BY <2>2, <2>3, Zenon DEF SettledInv
<1>15. CASE SizeOf(q) \in Nat \ {0} /\ PageReply(x, M, NumberOf(pg), SizeOf(q))
  <2>1. PICK size \in Nat \ {0} : size = SizeOf(q)
    BY <1>15, Zenon
  <2>2. PICK k : k = NumberOf(pg)
    OBVIOUS
  <2>3. PageReply(x, M, k, size)
    BY <1>15, <2>1, <2>2, Zenon
  <2>4. /\ x.code = "OK"
        /\ x.records = Slice(M, (k - 1) * size + 1, k * size)
        /\ x.pagination.nextPage = IF k * size < Len(M) THEN k + 1 ELSE -1
    BY <2>3, Zenon DEF PageReply
  <2>5. got' = g \o x.records /\ page' = x.pagination.nextPage
    <3>1. reply'.code = "OK"
      BY <1>11, <2>4, Zenon
    <3>2. got' = got \o reply'.records /\ page' = reply'.pagination.nextPage
      BY <3>1 DEF NextPage
    <3> QED BY <1>4, <1>11, <3>2, Zenon
  <2>6. PICK rec, pg2 : rec = x.records /\ pg2 = x.pagination.nextPage
    OBVIOUS
  <2>7. /\ rec = Slice(M, (k - 1) * size + 1, k * size)
        /\ pg2 = IF k * size < Len(M) THEN k + 1 ELSE -1
    BY <2>4, <2>6, Zenon
  <2>8. Walk(q, M, pg2, g \o rec, st2)
    BY <1>3, <1>5, <1>13, <2>1, <2>2, <2>7, WalkServed, Zenon
  <2>9. WalkInv'
    BY <1>11, <1>12, <2>5, <2>6, <2>8, Zenon DEF WalkInv
  <2> QED BY <1>7, <1>8, <1>14, <2>9 DEF PagingIInv
<1>16. CASE /\ x.code \in Refusal
            /\ Served(q) => ~((NumberOf(pg) - 1) * SizeOf(q) < Len(M))
  <2>1. x.code # "OK"
    BY <1>16 DEF Refusal
  <2>2. page' = -1 /\ got' = g
    <3>1. reply'.code # "OK"
      BY <1>11, <2>1, Zenon
    <3>2. page' = -1 /\ got' = got
      BY <3>1 DEF NextPage
    <3> QED BY <1>4, <3>2, Zenon
  <2>3. Walk(q, M, -1, g, st2)
    BY <1>3, <1>5, <1>13, <1>16, WalkRefused, Zenon
  <2>4. WalkInv'
    BY <1>11, <1>12, <2>2, <2>3, Zenon DEF WalkInv
  <2> QED BY <1>7, <1>8, <1>14, <2>4 DEF PagingIInv
<1> QED BY <1>10, <1>15, <1>16

\* The requests that leave the walk alone.
LEMMA PagingOtherRequests ==
  ASSUME PagingIInv, RequestPage \/ RequestUnpaged PROVE PagingIInv'
<1>1. /\ archive' = archive /\ listed' = listed /\ processed' = processed
      /\ query' = query /\ page' = page /\ got' = got /\ atStart' = atStart
  BY DEF RequestPage, RequestUnpaged, growthVars
<1>2. ArchiveInv' /\ query' \in Query /\ WalkInv' /\ SettledInv'
  <2>1. ArchiveInv'
    BY <1>1 DEF PagingIInv, ArchiveInv
  <2>2. query' \in Query
    BY <1>1 DEF PagingIInv
  <2>3. WalkInv'
    BY <1>1, Zenon DEF PagingIInv, WalkInv, Matching
  <2>4. SettledInv'
    BY <1>1, Zenon DEF PagingIInv, SettledInv
  <2> QED BY <2>1, <2>2, <2>3, <2>4
<1>3. CASE RequestPage
  <2>1. PICK number \in 1 .. MaxPage : reply' = ReplyTo(query, number)
    BY <1>3 DEF RequestPage
  <2>2. number \in Nat
    BY PagingAssumption
  <2>3. ReplyInv'
    BY <1>1, <2>1, <2>2, RequestReply, Zenon
  <2> QED BY <1>2, <2>3 DEF PagingIInv
<1>4. CASE RequestUnpaged
  <2>1. PICK q \in Query : q = query
    BY DEF PagingIInv
  <2>2. PICK u : u = Unpaged(q)
    OBVIOUS
  <2>3. q.kind = "transfers"
    BY <1>4, <2>1 DEF RequestUnpaged
  <2>4. IsQuery(u) /\ u.kind = "transfers"
    <3>1. u.kind = "transfers"
      BY <2>2, <2>3 DEF Unpaged, Query
    <3> QED BY <2>2, <2>3, <3>1, QueryFacts, Zenon DEF Unpaged
  <2>5. PICK found : found = GetTransactionsForEntityPaged(u, 0, LimitWithoutPaging)
    OBVIOUS
  <2>6. reply' = [code |-> "unpaged", records |-> Ids(found.page)]
    BY <1>4, <2>1, <2>2, <2>5, Zenon DEF RequestUnpaged, GetTransactionsForEntity, Unpaged
  <2>7. PICK limit \in Nat \ {0} : limit = LimitWithoutPaging
    BY PagingAssumption
  <2>8. IsArchive(archive)
    BY DEF PagingIInv, ArchiveInv
  <2>9. PageOf(found, Matching(u), 0 * limit, 0 * limit + limit)
    <3>1. 0 \in Nat
      OBVIOUS
    <3> QED BY <2>4, <2>5, <2>7, <2>8, <3>1, PagedTransfers, Zenon
  <2>10. 0 * limit + 1 = 1 /\ 0 * limit + limit = limit
    OBVIOUS
  <2>11. Ids(found.page) = Slice(Matching(u), 1, limit)
    BY <2>9, <2>10, Zenon DEF PageOf
  <2>12. reply'.code = "unpaged" /\ reply'.records = Ids(found.page)
    BY <2>6
  <2>13. reply'.code # "OK"
    BY <2>12
  <2>14. reply'.records = Slice(Matching(Unpaged(query))', 1, LimitWithoutPaging)
    <3>1. Matching(Unpaged(query))' = Matching(u)
      BY <1>1, <2>1, <2>2, Zenon DEF Matching, Unpaged
    <3> QED BY <2>7, <2>11, <2>12, <3>1, Zenon
  <2>15. ReplyInv'
    BY <2>13, <2>14, Zenon DEF ReplyInv
  <2> QED BY <1>2, <2>15 DEF PagingIInv
<1> QED BY <1>3, <1>4

\* Every step of the processor and of a client preserves the invariant: the
\* last reply is a page of what matches now or a refusal, a walk has seen what
\* comes before its page, and what was settled when it began has kept its place.
LEMMA PagingInvariant == Spec => []PagingIInv
<1>1. Init => PagingIInv
  BY PagingInit
<1>2. PagingIInv /\ [Next]_pagingVars => PagingIInv'
  <2> SUFFICES ASSUME PagingIInv, [Next]_pagingVars PROVE PagingIInv'
    OBVIOUS
  <2>1. CASE \/ PutTransferTransactionsPerTick \/ AppendEmptyTickToEmptyTickListPerEpoch
             \/ SetProcessedTickInterval       \/ SetLastProcessedTick
    BY <2>1, PagingPutTransfers, PagingListActions, PagingProcessed
  <2>2. CASE NextPage
    BY <2>2, PagingNextPage
  <2>3. CASE RequestPage \/ RequestUnpaged
    BY <2>3, PagingOtherRequests
  <2>4. CASE UNCHANGED pagingVars
    <3>1. /\ archive' = archive /\ listed' = listed /\ processed' = processed /\ query' = query
          /\ page' = page /\ got' = got /\ atStart' = atStart /\ reply' = reply
      BY <2>4 DEF pagingVars, growthVars
    <3>2. ArchiveInv' /\ query' \in Query
      BY <3>1 DEF PagingIInv, ArchiveInv
    <3>3. ReplyInv'
      BY <3>1, Zenon DEF PagingIInv, ReplyInv, Matching, Unpaged
    <3>4. WalkInv'
      BY <3>1, Zenon DEF PagingIInv, WalkInv, Matching
    <3>5. SettledInv'
      BY <3>1, Zenon DEF PagingIInv, SettledInv
    <3> QED BY <3>2, <3>3, <3>4, <3>5 DEF PagingIInv
  <2> QED BY <2>1, <2>2, <2>3, <2>4 DEF Next
<1> QED BY <1>1, <1>2, PTL DEF Spec

-----------------------------------------------------------------------------
(* The properties of the run, for every archive and every walk. *)

\* Every page that is served, by the loop over the ticks or from a tick list,
\* is its part of what matches, and so is the answer to the v1 request
\* (store.GetTransactionsForEntityPaged, GetTransactionsForEntity).
THEOREM PagesAreSlices == Spec => []PageIsSlice
<1>1. PagingIInv => PageIsSlice
  <2> SUFFICES ASSUME PagingIInv PROVE PageIsSlice
    OBVIOUS
  <2>1. ReplyInv
    BY DEF PagingIInv
  <2>2. ASSUME reply.code = "OK"
        PROVE  reply.records = Slice(Matching(query),
                                     (reply.number - 1) * reply.size + 1, reply.number * reply.size)
    <3>1. PICK k \in Nat \ {0} : PageReply(reply, Matching(query), k, SizeOf(query))
      BY <2>1, <2>2, Zenon DEF ReplyInv
    <3> QED BY <3>1, Zenon DEF PageReply
  <2>3. reply.code = "unpaged" =>
          reply.records = Slice(Matching(Unpaged(query)), 1, LimitWithoutPaging)
    BY <2>1, Zenon DEF ReplyInv
  <2> QED BY <2>2, <2>3, Zenon DEF PageIsSlice, Unpaged
<1> QED BY <1>1, PagingInvariant, PTL

LEMMA PageNotEmpty ==
  ASSUME NEW A, NEW M \in Seq(A), NEW k \in Nat \ {0}, NEW size \in Nat \ {0}
  PROVE  Slice(M, (k - 1) * size + 1, k * size) # <<>> <=> k <= PageCount(Len(M), size)
<1>1. PICK n \in Nat : n = Len(M)
  OBVIOUS
<1>2. k - 1 \in Nat /\ k - 1 \in Int /\ (k - 1) + 1 = k
  OBVIOUS
<1>3. (k - 1) * size \in Nat /\ k * size = (k - 1) * size + size
  <2>1. ((k - 1) + 1) * size = (k - 1) * size + size /\ (k - 1) * size \in Nat
    BY <1>2, Multiples
  <2> QED BY <1>2, <2>1
<1>4. PICK a \in Nat : a = (k - 1) * size
  BY <1>3
<1>5. PICK b \in Nat : b = k * size
  BY <1>3
<1>6. b = a + size
  BY <1>3, <1>4, <1>5
<1>7. PICK s : s = Slice(M, a + 1, b)
  OBVIOUS
<1>8. s \in Seq(A) /\ IsPart(s, M, a, Least(b, n))
  BY <1>1, <1>7, SliceParts, Zenon
<1>9. Len(s) = Beyond(a, Least(b, n))
  BY <1>8 DEF IsPart
<1>10. Beyond(a, Least(b, n)) = 0 <=> ~(a < n)
  BY <1>6 DEF Beyond, Least
<1>11. s # <<>> <=> Len(s) # 0
  BY <1>8
<1>12. k <= PageCount(n, size) <=> a < n
  BY <1>4, NextPages
<1>13. s # <<>> <=> k <= PageCount(n, size)
  BY <1>9, <1>10, <1>11, <1>12, Zenon
<1> QED BY <1>1, <1>4, <1>5, <1>7, <1>13, Zenon

\* The totals of a reply are true and a next page is announced exactly when
\* there is one (getPaginationInformation and the pagination of the tick
\* lists).
THEOREM TruePagination == Spec => []PaginationTrue
<1>1. PagingIInv => PaginationTrue
  <2> SUFFICES ASSUME PagingIInv, reply.code = "OK"
               PROVE  /\ reply.pagination.totalRecords = Len(Matching(query))
                      /\ reply.records # <<>> <=> reply.number <= reply.pagination.totalPages
                      /\ reply.pagination.nextPage =
                           IF reply.number * reply.size < Len(Matching(query))
                           THEN reply.number + 1 ELSE -1
    BY Zenon DEF PaginationTrue
  <2>1. ReplyInv /\ WalkInv
    BY DEF PagingIInv
  <2>2. PICK k \in Nat \ {0} : /\ SizeOf(query) \in Nat \ {0}
                              /\ PageReply(reply, Matching(query), k, SizeOf(query))
    BY <2>1, Zenon DEF ReplyInv
  <2>3. PICK M \in Seq(Record) : M = Matching(query)
    BY <2>1, Zenon DEF WalkInv, Walk
  <2>4. PICK size \in Nat \ {0} : size = SizeOf(query)
    BY <2>2, Zenon
  <2>5. PageReply(reply, M, k, size)
    BY <2>2, <2>3, <2>4, Zenon
  <2>6. /\ reply.number = k /\ reply.size = size
        /\ reply.records = Slice(M, (k - 1) * size + 1, k * size)
        /\ reply.pagination.totalRecords = Len(M)
        /\ reply.pagination.totalPages = PageCount(Len(M), size)
        /\ reply.pagination.nextPage = IF k * size < Len(M) THEN k + 1 ELSE -1
    BY <2>5, Zenon DEF PageReply
  <2>7. Slice(M, (k - 1) * size + 1, k * size) # <<>> <=> k <= PageCount(Len(M), size)
    BY PageNotEmpty, Zenon
  <2> QED BY <2>3, <2>6, <2>7, Zenon
<1> QED BY <1>1, PagingInvariant, PTL

LEMMA LeadsPrefix ==
  ASSUME NEW M \in Seq(Record), NEW g \in Seq(Record), Leads(g, M)
  PROVE  IsPrefix(g, M)
<1>1. PICK n \in Nat : n = Len(g)
  OBVIOUS
<1>2. n <= Len(M) /\ \A k \in 1 .. n : g[k] = M[k]
  BY <1>1, Zenon DEF Leads
<1>3. PICK m : m = Cut(M, 0, n)
  OBVIOUS
<1>4. m \in Seq(Record) /\ IsPart(m, M, 0, n)
  <2>1. n \in Int /\ 0 \in Nat
    OBVIOUS
  <2> QED BY <1>2, <1>3, <2>1, CutParts, Zenon
<1>5. Len(m) = n /\ \A k \in 1 .. n : m[k] = M[k]
  <2>1. Beyond(0, n) = n /\ n - 0 = n /\ \A k \in 1 .. n : 0 + k = k
    BY DEF Beyond
  <2> QED BY <1>4, <2>1 DEF IsPart
<1>6. m = g
  <2>1. m \in Seq(Record)
    BY <1>4
  <2>2. Len(m) = Len(g) /\ \A k \in 1 .. Len(m) : m[k] = g[k]
    BY <1>1, <1>2, <1>5
  <2> QED BY <2>1, <2>2, SameSeq, Zenon
<1>7. 0 + 1 = 1
  OBVIOUS
<1>8. SubSeq(g, 1, n) = g
  <2>1. Cut(g, 0, Len(g)) = g
    BY CutNext, Zenon
  <2> QED BY <1>1, <1>7, <2>1, Zenon DEF Cut
<1>9. SubSeq(M, 1, n) = g
  BY <1>3, <1>6, <1>7, Zenon DEF Cut
<1> QED BY <1>1, <1>2, <1>8, <1>9, Zenon DEF IsPrefix

\* A walk in ascending order sees what was settled when it began first, once
\* and in order, whatever attempts store and rewrite between its pages; of a
\* tick list it has seen a prefix of what the list has now.
THEOREM AscendingWalks == Spec => []AscendingWalk
<1>1. PagingIInv => AscendingWalk
  <2> SUFFICES ASSUME PagingIInv, ~query.descending
               PROVE  /\ IsPrefix(got, atStart) \/ IsPrefix(atStart, got)
                      /\ query.kind # "transfers" => IsPrefix(got, Matching(query))
    BY DEF AscendingWalk
  <2>1. PICK M, g, st : M = Matching(query) /\ g = got /\ st = atStart
    OBVIOUS
  <2>2. Walk(query, M, page, g, st)
    BY <2>1, Zenon DEF PagingIInv, WalkInv
  <2>3. M \in Seq(Record) /\ g \in Seq(Record) /\ st \in Seq(Record) /\ Agree(g, st)
    BY <2>2, Zenon DEF Walk
  <2>4. query.kind # "transfers" => IsPrefix(g, M)
    BY <2>2, <2>3, LeadsPrefix, Zenon DEF Walk
  <2>5. Leads(g, st) \/ Leads(st, g)
    <3>1. PICK n \in Nat : n = Len(g)
      BY <2>3
    <3>2. PICK l \in Nat : l = Len(st)
      BY <2>3
    <3>3. \A k \in 1 .. n : k <= l => g[k] = st[k]
      BY <2>3, <3>1, <3>2, Zenon DEF Agree
    <3>4. CASE n <= l
      <4>1. \A k \in 1 .. n : g[k] = st[k]
        BY <3>3, <3>4
      <4> QED BY <3>1, <3>2, <3>4, <4>1, Zenon DEF Leads
    <3>5. CASE l <= n
      <4>1. \A k \in 1 .. l : st[k] = g[k]
        BY <3>3, <3>5
      <4> QED BY <3>1, <3>2, <3>5, <4>1, Zenon DEF Leads
    <3>6. n <= l \/ l <= n
      OBVIOUS
    <3> QED BY <3>4, <3>5, <3>6
  <2>6. IsPrefix(g, st) \/ IsPrefix(st, g)
    BY <2>3, <2>5, LeadsPrefix, Zenon
  <2> QED BY <2>1, <2>4, <2>6, Zenon
<1> QED BY <1>1, PagingInvariant, PTL

\* A walk that has ended has seen all that was settled when it began, in either
\* order and whatever attempts have stored and rewritten meanwhile.
THEOREM CompleteWalks == Spec => []WalkComplete
<1>1. PagingIInv => WalkComplete
  <2> SUFFICES ASSUME PagingIInv, page = -1, query.size <= MaxPageSize,
                      query.kind # "transfers" => query.size > 0
               PROVE  ToSet(atStart) \subseteq ToSet(got)
    BY Zenon DEF WalkComplete
  <2>1. PICK g, st : g = got /\ st = atStart
    OBVIOUS
  <2>2. Walk(query, Matching(query), page, g, st)
    BY <2>1, Zenon DEF PagingIInv, WalkInv
  <2>3. g \in Seq(Record) /\ st \in Seq(Record) /\ Has(g, st)
    BY <2>2, Zenon DEF Walk, Served
  <2>4. DOMAIN g = 1 .. Len(g) /\ DOMAIN st = 1 .. Len(st)
    BY <2>3
  <2>5. ToSet(st) \subseteq ToSet(g)
    <3> SUFFICES ASSUME NEW k \in 1 .. Len(st) PROVE st[k] \in ToSet(g)
      BY <2>4, Zenon DEF ToSet
    <3>1. PICK i \in 1 .. Len(g) : g[i] = st[k]
      BY <2>3, Zenon DEF Has, InList
    <3> QED BY <2>4, <3>1, Zenon DEF ToSet
  <2> QED BY <2>1, <2>5, Zenon
<1> QED BY <1>1, PagingInvariant, PTL
=============================================================================
