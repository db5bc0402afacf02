---------------------------- MODULE LoopTheorems ----------------------------
(***************************************************************************)
(* What the loops of the program compute, for inputs of any length: loops  *)
(* that append to a list are written FlattenSeq over the contributions of  *)
(* their rounds.  The results are stated for sequences and sets, without   *)
(* operator parameters; induction is by sets of numbers.                   *)
(***************************************************************************)
EXTENDS Integers, SequencesExt, SequenceTheorems, NaturalsInduction,
        WellFoundedInduction, TLAPS

\* A set of numbers with 0 and the successor of each of its members has them
\* all.
LEMMA NatSetInduction ==
  ASSUME NEW T \in SUBSET Nat, 0 \in T, \A n \in T : n + 1 \in T
  PROVE  T = Nat
<1> DEFINE U == Nat \ T
           R == {ss \in Nat \X Nat : ss[1] < ss[2]}
<1> SUFFICES ASSUME U # {} PROVE FALSE
  OBVIOUS
<1>1. IsWellFoundedOn(R, Nat)
  BY NatLessThanWellFounded DEF OpToRel
<1>2. \A x, y \in Nat : ~(<<y, x>> \in R) => x <= y
  OBVIOUS
<1> HIDE DEF R
<1>3. PICK x \in U : \A y \in U : ~(<<y, x>> \in R)
  BY <1>1, WFMin
<1>4. \A y \in U : x <= y
  BY <1>2, <1>3
<1>5. x # 0 /\ x - 1 \in Nat /\ x - 1 \notin U
  BY <1>4
<1> QED BY <1>5

\* A bounded set of numbers has a maximum.
LEMMA MaxInSet ==
  ASSUME NEW n \in Nat, NEW S \in SUBSET (0 .. n), S # {}
  PROVE  Max(S) \in S /\ \A y \in S : Max(S) >= y
<1> DEFINE Top(U) == \E x \in U : \A y \in U : x >= y
           T == {m \in Nat : \A U \in SUBSET (0 .. m) : U # {} => Top(U)}
<1>1. 0 \in T
  <2> SUFFICES ASSUME NEW U \in SUBSET (0 .. 0), U # {} PROVE Top(U)
    OBVIOUS
  <2>1. \A y \in U : y = 0
    OBVIOUS
  <2>2. PICK x \in U : TRUE
    OBVIOUS
  <2> QED BY <2>1, <2>2
<1>2. ASSUME NEW m \in T PROVE m + 1 \in T
  <2> SUFFICES ASSUME NEW U \in SUBSET (0 .. m + 1), U # {} PROVE Top(U)
    OBVIOUS
  <2>1. CASE m + 1 \in U
    <3>1. \A y \in U : m + 1 >= y
      OBVIOUS
    <3> QED BY <2>1, <3>1
  <2>2. CASE m + 1 \notin U
    <3>1. U \in SUBSET (0 .. m)
      BY <2>2
    <3> HIDE DEF Top
    <3> QED BY <3>1
  <2> QED BY <2>1, <2>2
<1>3. T \in SUBSET Nat
  OBVIOUS
<1> HIDE DEF T
<1>4. T = Nat
  BY <1>1, <1>2, <1>3, NatSetInduction
<1>5. Top(S)
  BY <1>4 DEF T
<1> QED BY <1>5 DEF Max

\* The values f of a loop of n rounds.
Loop(base, n, step, f) ==
  /\ f[0] = base
  /\ \A k \in 1 .. n : f[k] = step[k][f[k - 1]]

\* A loop of n rounds has a value after each of them.
LEMMA LoopExists ==
  ASSUME NEW A, NEW base \in A, NEW n \in Nat, NEW step \in [1 .. n -> [A -> A]]
  PROVE  \E f \in [0 .. n -> A] : Loop(base, n, step, f)
<1> DEFINE Is(m, f) == /\ f[0] = base
                       /\ \A k \in 1 .. m : f[k] = step[k][f[k - 1]]
           P(m) == \E f \in [0 .. m -> A] : Is(m, f)
           T == {m \in Nat : m <= n => P(m)}
<1>1. P(0)
  <2>1. Is(0, [k \in 0 .. 0 |-> base])
    OBVIOUS
  <2>2. [k \in 0 .. 0 |-> base] \in [0 .. 0 -> A]
    OBVIOUS
  <2> HIDE DEF Is
  <2> QED BY <2>1, <2>2
<1>2. ASSUME NEW m \in Nat, m + 1 <= n, P(m) PROVE P(m + 1)
  <2>1. PICK f \in [0 .. m -> A] : Is(m, f)
    BY <1>2
  <2> DEFINE last == step[m + 1][f[m]]
             g == [k \in 0 .. m + 1 |-> IF k = m + 1 THEN last ELSE f[k]]
  <2>2. last \in A
    <3>1. m + 1 \in 1 .. n /\ f[m] \in A
      BY <1>2
    <3> QED BY <3>1
  <2>3. g \in [0 .. m + 1 -> A]
    <3> HIDE DEF last
    <3> QED BY <2>2
  <2>4. \A k \in 1 .. m + 1 : g[k] = step[k][g[k - 1]]
    <3> SUFFICES ASSUME NEW k \in 1 .. m + 1 PROVE g[k] = step[k][g[k - 1]]
      OBVIOUS
    <3>1. CASE k = m + 1
      <4>1. g[k - 1] = f[m] /\ g[k] = last
        BY <3>1
      <4> QED BY <4>1, <3>1
    <3>2. CASE k # m + 1
      <4>1. k \in 1 .. m /\ k - 1 \in 0 .. m /\ g[k] = f[k] /\ g[k - 1] = f[k - 1]
        BY <3>2
      <4> QED BY <4>1, <2>1
    <3> QED BY <3>1, <3>2
  <2>5. g[0] = base
    BY <2>1
  <2>6. Is(m + 1, g)
    BY <2>4, <2>5
  <2> HIDE DEF Is, g
  <2> QED BY <2>3, <2>6
<1> HIDE DEF P
<1>3. 0 \in T /\ \A m \in T : m + 1 \in T
  BY <1>1, <1>2
<1>4. T \in SUBSET Nat
  OBVIOUS
<1> HIDE DEF T
<1>5. T = Nat
  BY <1>3, <1>4, NatSetInduction
<1>6. P(n)
  BY <1>5 DEF T
<1> QED BY <1>6 DEF P, Loop

-----------------------------------------------------------------------------
(* Appending loops. *)

Concat(s, t) == s \o t

LEMMA ConcatType ==
  ASSUME NEW A, NEW s \in Seq(A), NEW t \in Seq(A)
  PROVE  Concat(s, t) \in Seq(A) /\ Concat(<<>>, t) = t
BY DEF Concat

\* The loop's list after each round.
Rounds(lists, f) ==
  /\ DOMAIN f = 0 .. Len(lists)
  /\ f[0] = <<>>
  /\ \A k \in 1 .. Len(lists) : f[k] = Concat(f[k - 1], lists[k])

LEMMA RoundsExist ==
  ASSUME NEW A, NEW lists \in Seq(Seq(A))
  PROVE  \E f \in [0 .. Len(lists) -> Seq(A)] : Rounds(lists, f)
<1> DEFINE n == Len(lists)
           step == [k \in 1 .. n |-> [a \in Seq(A) |-> Concat(a, lists[k])]]
<1>1. n \in Nat /\ <<>> \in Seq(A) /\ \A k \in 1 .. n : lists[k] \in Seq(A)
  OBVIOUS
<1>2. step \in [1 .. n -> [Seq(A) -> Seq(A)]]
  BY <1>1, ConcatType
<1>3. PICK f \in [0 .. n -> Seq(A)] : /\ f[0] = <<>>
                                      /\ \A k \in 1 .. n : f[k] = step[k][f[k - 1]]
  <2>1. \E f \in [0 .. n -> Seq(A)] : Loop(<<>>, n, step, f)
    <3> HIDE DEF n, step
    <3> QED BY <1>1, <1>2, LoopExists, Zenon
  <2> QED BY <2>1 DEF Loop
<1>4. \A k \in 1 .. n : f[k] = Concat(f[k - 1], lists[k])
  <2> SUFFICES ASSUME NEW k \in 1 .. n PROVE f[k] = Concat(f[k - 1], lists[k])
    OBVIOUS
  <2> HIDE DEF n
  <2>1. k - 1 \in 0 .. n /\ f[k - 1] \in Seq(A)
    BY <1>1
  <2>2. step[k] = [a \in Seq(A) |-> Concat(a, lists[k])]
    OBVIOUS
  <2>3. step[k][f[k - 1]] = Concat(f[k - 1], lists[k])
    BY <2>1, <2>2
  <2> QED BY <1>3, <2>3
<1> QED BY <1>3, <1>4 DEF Rounds

LEMMA RoundsUnique ==
  ASSUME NEW lists, Len(lists) \in Nat, NEW f, NEW g,
         Rounds(lists, f), Rounds(lists, g)
  PROVE  \A k \in 0 .. Len(lists) : f[k] = g[k]
<1> DEFINE n == Len(lists)
           T == {m \in Nat : m <= n => f[m] = g[m]}
<1>1. n \in Nat /\ f[0] = g[0]
  BY DEF Rounds
<1>2. \A k \in 1 .. n : f[k] = Concat(f[k - 1], lists[k]) /\ g[k] = Concat(g[k - 1], lists[k])
  BY DEF Rounds
<1> HIDE DEF n
<1>3. 0 \in T /\ \A m \in T : m + 1 \in T
  <2>1. ASSUME NEW m \in Nat, m + 1 <= n, f[m] = g[m] PROVE f[m + 1] = g[m + 1]
    <3>1. m + 1 \in 1 .. n /\ (m + 1) - 1 = m
      BY <1>1, <2>1
    <3> QED BY <1>2, <2>1, <3>1
  <2> QED BY <1>1, <2>1
<1>4. T \in SUBSET Nat
  OBVIOUS
<1> HIDE DEF T
<1>5. T = Nat
  BY <1>3, <1>4, NatSetInduction
<1> QED BY <1>1, <1>5 DEF T, n

\* FlattenSeq is the list after the last round.
LEMMA FlattenRounds ==
  ASSUME NEW A, NEW lists \in Seq(Seq(A)), NEW f, Rounds(lists, f)
  PROVE  FlattenSeq(lists) = f[Len(lists)]
<1>1. CASE lists = <<>>
  BY <1>1 DEF FlattenSeq, Rounds
<1>2. CASE lists # <<>>
  <2> DEFINE n == Len(lists)
             Is(h) == h = [i \in 1 .. n |-> IF i = 1 THEN lists[i] ELSE Concat(h[i - 1], lists[i])]
             flatten == CHOOSE h : Is(h)
             h0 == [i \in 1 .. n |-> f[i]]
             g == [k \in 0 .. n |-> IF k = 0 THEN <<>> ELSE flatten[k]]
  <2>1. n \in Nat \ {0}
    BY <1>2
  <2>2. \A k \in 1 .. n : lists[k] \in Seq(A) /\ Concat(<<>>, lists[k]) = lists[k]
    BY ConcatType
  <2>3. FlattenSeq(lists) = flatten[n]
    BY <2>1, Zenon DEF FlattenSeq, Concat
  <2>4. f[0] = <<>> /\ \A k \in 1 .. n : f[k] = Concat(f[k - 1], lists[k])
    BY DEF Rounds
  <2> HIDE DEF n
  <2>5. Is(h0)
    <3>1. f[1] = lists[1]
      BY <2>1, <2>2, <2>4
    <3>2. \A i \in 1 .. n : f[i] = IF i = 1 THEN lists[i] ELSE Concat(h0[i - 1], lists[i])
      BY <2>1, <2>4, <3>1
    <3> QED BY <3>2
  <2>6. Is(flatten)
    <3> HIDE DEF Is
    <3> QED BY <2>5
  <2> HIDE DEF flatten
  <2>7. \A i \in 1 .. n : flatten[i] = IF i = 1 THEN lists[i] ELSE Concat(flatten[i - 1], lists[i])
    BY <2>6
  <2> HIDE DEF Is
  <2>8. \A k \in 1 .. n : g[k] = Concat(g[k - 1], lists[k])
    <3> SUFFICES ASSUME NEW k \in 1 .. n PROVE g[k] = Concat(g[k - 1], lists[k])
      OBVIOUS
    <3>1. CASE k = 1
      BY <2>1, <2>2, <2>7, <3>1
    <3>2. CASE k # 1
      BY <2>1, <2>7, <3>2
    <3> QED BY <3>1, <3>2
  <2>9. DOMAIN g = 0 .. n /\ g[0] = <<>> /\ g[n] = flatten[n]
    BY <2>1
  <2> HIDE DEF g
  <2>10. Rounds(lists, g)
    BY <2>8, <2>9 DEF Rounds, n
  <2>11. f[n] = g[n]
    BY <2>1, <2>10, RoundsUnique DEF n
  <2> QED BY <2>3, <2>9, <2>11 DEF n
<1> QED BY <1>1, <1>2

\* A further round appends its list.
LEMMA FlattenAppend ==
  ASSUME NEW A, NEW lists \in Seq(Seq(A)), NEW s \in Seq(A)
  PROVE  /\ FlattenSeq(lists) \in Seq(A)
         /\ FlattenSeq(Append(lists, s)) = FlattenSeq(lists) \o s
<1> DEFINE n == Len(lists)
           more == Append(lists, s)
<1>1. /\ n \in Nat /\ more \in Seq(Seq(A)) /\ Len(more) = n + 1 /\ more[n + 1] = s
      /\ \A k \in 1 .. n : more[k] = lists[k]
  OBVIOUS
<1>2. PICK f \in [0 .. n -> Seq(A)] : Rounds(lists, f)
  BY RoundsExist
<1>3. FlattenSeq(lists) = f[n] /\ f[n] \in Seq(A)
  BY <1>1, <1>2, FlattenRounds
<1>4. PICK g \in [0 .. n + 1 -> Seq(A)] : Rounds(more, g)
  <2> HIDE DEF n, more
  <2> QED BY <1>1, RoundsExist
<1>5. FlattenSeq(more) = g[n + 1] /\ g[n + 1] = Concat(g[n], s)
  <2> HIDE DEF n, more
  <2>1. FlattenSeq(more) = g[n + 1]
    BY <1>1, <1>4, FlattenRounds
  <2>2. n + 1 \in 1 .. Len(more) /\ (n + 1) - 1 = n
    BY <1>1
  <2>3. g[n + 1] = Concat(g[n], more[n + 1])
    BY <1>4, <2>2 DEF Rounds
  <2> QED BY <1>1, <2>1, <2>3
<1>6. g[n] = f[n]
  <2> DEFINE h == [k \in 0 .. n |-> g[k]]
  <2>1. DOMAIN h = 0 .. n /\ h[0] = <<>> /\ h[n] = g[n]
    BY <1>1, <1>4 DEF Rounds
  <2>2. \A k \in 1 .. n : h[k] = Concat(h[k - 1], lists[k])
    <3> SUFFICES ASSUME NEW k \in 1 .. n PROVE h[k] = Concat(h[k - 1], lists[k])
      OBVIOUS
    <3> HIDE DEF n, more
    <3>1. k \in 1 .. Len(more) /\ more[k] = lists[k] /\ k - 1 \in 0 .. n
      BY <1>1
    <3>2. g[k] = Concat(g[k - 1], lists[k])
      BY <1>4, <3>1 DEF Rounds
    <3>3. h[k] = g[k] /\ h[k - 1] = g[k - 1]
      BY <1>1, <3>1
    <3> QED BY <3>2, <3>3
  <2> HIDE DEF h
  <2>3. Rounds(lists, h)
    BY <2>1, <2>2 DEF Rounds
  <2>4. Len(lists) \in Nat /\ n \in 0 .. Len(lists)
    BY <1>1
  <2> QED BY <2>4, <1>2, <2>1, <2>3, RoundsUnique
<1> QED BY <1>3, <1>5, <1>6 DEF Concat

\* A set of sequences with the empty one and every extension of its members
\* has them all.
LEMMA SeqSetInduction ==
  ASSUME NEW X, NEW T \in SUBSET Seq(X), <<>> \in T,
         \A s \in T : \A e \in X : Append(s, e) \in T
  PROVE  T = Seq(X)
<1> DEFINE N == {n \in Nat : \A s \in Seq(X) : Len(s) = n => s \in T}
<1>1. 0 \in N
  OBVIOUS
<1>2. ASSUME NEW n \in N PROVE n + 1 \in N
  <2> SUFFICES ASSUME NEW s \in Seq(X), Len(s) = n + 1 PROVE s \in T
    OBVIOUS
  <2>1. n \in Nat /\ s # <<>>
    OBVIOUS
  <2>2. PICK front \in Seq(X), last \in X : s = Append(front, last)
    BY <2>1, SequenceEmptyOrAppend
  <2>3. Len(front) = n
    BY <2>1, <2>2
  <2> QED BY <2>1, <2>2, <2>3
<1>3. N \in SUBSET Nat
  OBVIOUS
<1> HIDE DEF N
<1>4. N = Nat
  BY <1>1, <1>2, <1>3, NatSetInduction
<1>5. \A s \in Seq(X) : s \in T
  <2> SUFFICES ASSUME NEW s \in Seq(X) PROVE s \in T
    OBVIOUS
  <2>1. Len(s) \in N
    BY <1>4
  <2> QED BY <2>1 DEF N
<1> QED BY <1>5

LEMMA ToSetConcat ==
  ASSUME NEW A, NEW s \in Seq(A), NEW t \in Seq(A)
  PROVE  ToSet(s \o t) = ToSet(s) \cup ToSet(t)
<1>1. \A k \in 1 .. Len(s \o t) : (s \o t)[k] \in ToSet(s) \cup ToSet(t)
  BY DEF ToSet
<1>2. \A k \in 1 .. Len(s) : k \in 1 .. Len(s \o t) /\ (s \o t)[k] = s[k]
  OBVIOUS
<1>3. \A k \in 1 .. Len(t) : Len(s) + k \in 1 .. Len(s \o t) /\ (s \o t)[Len(s) + k] = t[k]
  OBVIOUS
<1>4. DOMAIN (s \o t) = 1 .. Len(s \o t) /\ DOMAIN s = 1 .. Len(s) /\ DOMAIN t = 1 .. Len(t)
  OBVIOUS
<1>5. ToSet(s) \subseteq ToSet(s \o t)
  BY <1>2, <1>4, Zenon DEF ToSet
<1>6. ToSet(t) \subseteq ToSet(s \o t)
  BY <1>3, <1>4, Zenon DEF ToSet
<1>7. ToSet(s \o t) \subseteq ToSet(s) \cup ToSet(t)
  BY <1>1, <1>4, Zenon DEF ToSet
<1> QED BY <1>5, <1>6, <1>7

\* The elements of a loop's list are those of the rounds.
LEMMA FlattenElements ==
  ASSUME NEW A, NEW lists \in Seq(Seq(A))
  PROVE  /\ FlattenSeq(lists) \in Seq(A)
         /\ ToSet(FlattenSeq(lists)) = UNION {ToSet(lists[k]) : k \in DOMAIN lists}
<1> DEFINE All(ls) == UNION {ToSet(ls[k]) : k \in DOMAIN ls}
           T == {ls \in Seq(Seq(A)) : ToSet(FlattenSeq(ls)) = All(ls)}
<1>1. <<>> \in T
  <2>1. FlattenSeq(<<>>) = <<>>
    BY DEF FlattenSeq
  <2> QED BY <2>1 DEF ToSet
<1>2. ASSUME NEW ls \in Seq(Seq(A)), ls \in T, NEW s \in Seq(A) PROVE Append(ls, s) \in T
  <2> DEFINE more == Append(ls, s)
  <2>1. /\ more \in Seq(Seq(A)) /\ DOMAIN ls = 1 .. Len(ls) /\ DOMAIN more = 1 .. Len(ls) + 1
        /\ Len(ls) \in Nat /\ more[Len(ls) + 1] = s
        /\ \A k \in 1 .. Len(ls) : more[k] = ls[k]
    OBVIOUS
  <2>2. ToSet(FlattenSeq(more)) = ToSet(FlattenSeq(ls)) \cup ToSet(s)
    <3>1. FlattenSeq(ls) \in Seq(A) /\ FlattenSeq(more) = FlattenSeq(ls) \o s
      BY FlattenAppend
    <3> HIDE DEF more
    <3> QED BY <3>1, ToSetConcat, ZenonT(30)
  <2>3. All(more) = All(ls) \cup ToSet(s)
    <3> HIDE DEF more
    <3>0. /\ \A k \in 1 .. Len(ls) : k \in 1 .. Len(ls) + 1
          /\ Len(ls) + 1 \in 1 .. Len(ls) + 1
          /\ \A k \in 1 .. Len(ls) + 1 : k \in 1 .. Len(ls) \/ k = Len(ls) + 1
      BY <2>1
    <3>1. All(ls) \subseteq All(more)
      BY <2>1, <3>0, Zenon
    <3>2. ToSet(s) \subseteq All(more)
      BY <2>1, <3>0, Zenon
    <3>3. All(more) \subseteq All(ls) \cup ToSet(s)
      BY <2>1, <3>0, Zenon
    <3> QED BY <3>1, <3>2, <3>3
  <2>4. ToSet(FlattenSeq(ls)) = All(ls)
    BY <1>2
  <2> HIDE DEF more, All
  <2>5. ToSet(FlattenSeq(more)) = All(more)
    BY <2>2, <2>3, <2>4
  <2> QED BY <2>1, <2>5 DEF more
<1>3. T \in SUBSET Seq(Seq(A))
  OBVIOUS
<1> HIDE DEF T, All
<1>4. T = Seq(Seq(A))
  BY <1>1, <1>2, <1>3, SeqSetInduction, Zenon
<1>5. FlattenSeq(lists) \in Seq(A)
  <2>1. <<>> \in Seq(A)
    OBVIOUS
  <2> QED BY <2>1, FlattenAppend
<1> QED BY <1>4, <1>5 DEF T, All

LEMMA ConcatInjective ==
  ASSUME NEW A, NEW s \in Seq(A), NEW t \in Seq(A),
         IsInjective(s), IsInjective(t), ToSet(s) \cap ToSet(t) = {}
  PROVE  IsInjective(s \o t)
<1> DEFINE st == s \o t
<1>1. /\ DOMAIN st = 1 .. Len(s) + Len(t) /\ DOMAIN s = 1 .. Len(s) /\ DOMAIN t = 1 .. Len(t)
      /\ Len(s) \in Nat /\ Len(t) \in Nat
      /\ \A k \in 1 .. Len(s) : st[k] = s[k]
      /\ \A k \in Len(s) + 1 .. Len(s) + Len(t) : st[k] = t[k - Len(s)]
  OBVIOUS
<1> HIDE DEF st
<1>2. \A j \in 1 .. Len(s) : \A k \in 1 .. Len(t) : s[j] # t[k]
  <2>1. \A j \in 1 .. Len(s) : s[j] \in ToSet(s)
    BY <1>1, Zenon DEF ToSet
  <2>2. \A k \in 1 .. Len(t) : t[k] \in ToSet(t)
    BY <1>1, Zenon DEF ToSet
  <2> QED BY <2>1, <2>2, Zenon
<1>3. SUFFICES ASSUME NEW a \in DOMAIN st, NEW b \in DOMAIN st, st[a] = st[b] PROVE a = b
  BY DEF IsInjective, st
<1>4. CASE a \in 1 .. Len(s) /\ b \in 1 .. Len(s)
  BY <1>1, <1>3, <1>4 DEF IsInjective
<1>5. CASE a \in Len(s) + 1 .. Len(s) + Len(t) /\ b \in Len(s) + 1 .. Len(s) + Len(t)
  <2>1. a - Len(s) \in DOMAIN t /\ b - Len(s) \in DOMAIN t /\ t[a - Len(s)] = t[b - Len(s)]
    BY <1>1, <1>3, <1>5
  <2>2. a - Len(s) = b - Len(s)
    BY <2>1 DEF IsInjective
  <2> QED BY <1>1, <1>5, <2>2
<1>6. CASE a \in 1 .. Len(s) /\ b \in Len(s) + 1 .. Len(s) + Len(t)
  <2>1. b - Len(s) \in 1 .. Len(t) /\ s[a] = t[b - Len(s)]
    BY <1>1, <1>3, <1>6
  <2> QED BY <1>2, <1>6, <2>1
<1>7. CASE b \in 1 .. Len(s) /\ a \in Len(s) + 1 .. Len(s) + Len(t)
  <2>1. a - Len(s) \in 1 .. Len(t) /\ s[b] = t[a - Len(s)]
    BY <1>1, <1>3, <1>7
  <2> QED BY <1>2, <1>7, <2>1
<1> QED BY <1>1, <1>3, <1>4, <1>5, <1>6, <1>7

\* Each round appends other elements, none of them twice.
Apart(lists) ==
  /\ \A k \in DOMAIN lists : IsInjective(lists[k])
  /\ \A j, k \in DOMAIN lists : j # k => ToSet(lists[j]) \cap ToSet(lists[k]) = {}

\* Then the loop's list has no element twice.
LEMMA FlattenInjective ==
  ASSUME NEW A, NEW lists \in Seq(Seq(A)), Apart(lists)
  PROVE  IsInjective(FlattenSeq(lists))
<1> DEFINE T == {ls \in Seq(Seq(A)) : Apart(ls) => IsInjective(FlattenSeq(ls))}
<1>1. <<>> \in T
  <2>1. FlattenSeq(<<>>) = <<>>
    BY DEF FlattenSeq
  <2>2. IsInjective(<<>>)
    BY DEF IsInjective
  <2> QED BY <2>1, <2>2
<1>2. ASSUME NEW ls \in T, NEW s \in Seq(A) PROVE Append(ls, s) \in T
  <2> DEFINE more == Append(ls, s)
  <2>1. /\ more \in Seq(Seq(A)) /\ DOMAIN ls = 1 .. Len(ls) /\ DOMAIN more = 1 .. Len(ls) + 1
        /\ Len(ls) \in Nat /\ more[Len(ls) + 1] = s
        /\ \A k \in 1 .. Len(ls) : more[k] = ls[k]
        /\ ls \in Seq(Seq(A))
    OBVIOUS
  <2> SUFFICES ASSUME Apart(more) PROVE IsInjective(FlattenSeq(more))
    BY <2>1
  <2>2. FlattenSeq(ls) \in Seq(A) /\ FlattenSeq(more) = FlattenSeq(ls) \o s
    BY <2>1, FlattenAppend
  <2> HIDE DEF more
  <2>3. /\ \A k \in 1 .. Len(ls) : k \in DOMAIN more
        /\ Len(ls) + 1 \in DOMAIN more
        /\ \A k \in 1 .. Len(ls) : k # Len(ls) + 1
    BY <2>1
  <2>4. Apart(ls)
    <3>1. \A k \in DOMAIN ls : k \in DOMAIN more /\ more[k] = ls[k]
      BY <2>1, <2>3
    <3>2. \A k \in DOMAIN ls : IsInjective(ls[k])
      BY <3>1, Zenon DEF Apart
    <3>3. \A j, k \in DOMAIN ls : j # k => ToSet(ls[j]) \cap ToSet(ls[k]) = {}
      BY <3>1, Zenon DEF Apart
    <3> QED BY <3>2, <3>3 DEF Apart
  <2>5. IsInjective(FlattenSeq(ls))
    BY <2>4
  <2>6. IsInjective(s) /\ \A k \in DOMAIN ls : ToSet(ls[k]) \cap ToSet(s) = {}
    BY <2>1, <2>3, Zenon DEF Apart
  <2>7. ToSet(FlattenSeq(ls)) = UNION {ToSet(ls[k]) : k \in DOMAIN ls}
    BY <2>1, FlattenElements, Zenon
  <2>8. ToSet(FlattenSeq(ls)) \cap ToSet(s) = {}
    BY <2>6, <2>7, Zenon
  <2> QED BY <2>2, <2>5, <2>6, <2>8, ConcatInjective, Zenon
<1>3. T \in SUBSET Seq(Seq(A))
  OBVIOUS
<1> HIDE DEF T
<1>4. T = Seq(Seq(A))
  BY <1>1, <1>2, <1>3, SeqSetInduction, Zenon
<1> QED BY <1>4 DEF T

LEMMA OneElement ==
  ASSUME NEW A, NEW e \in A
  PROVE  <<e>> \in Seq(A) /\ ToSet(<<e>>) = {e} /\ IsInjective(<<e>>)
BY DEF ToSet, IsInjective

LEMMA NoElement ==
  ASSUME NEW A
  PROVE  <<>> \in Seq(A) /\ ToSet(<<>>) = {} /\ IsInjective(<<>>) /\ FlattenSeq(<<>>) = <<>>
BY DEF ToSet, IsInjective, FlattenSeq

\* A loop of n rounds that appends e[k] in the rounds k of keep.
Filtered(n, keep, e) == [k \in 1 .. n |-> IF k \in keep THEN <<e[k]>> ELSE <<>>]

LEMMA FilterLoop ==
  ASSUME NEW A, NEW n \in Nat, NEW keep \in SUBSET (1 .. n), NEW e,
         \A k \in keep : e[k] \in A
  PROVE  /\ FlattenSeq(Filtered(n, keep, e)) \in Seq(A)
         /\ ToSet(FlattenSeq(Filtered(n, keep, e))) = {e[k] : k \in keep}
         /\ (\A j, k \in keep : e[j] = e[k] => j = k)
              => IsInjective(FlattenSeq(Filtered(n, keep, e)))
<1> DEFINE lists == Filtered(n, keep, e)
<1>0. lists = [k \in 1 .. n |-> IF k \in keep THEN <<e[k]>> ELSE <<>>]
  BY DEF Filtered
<1> HIDE DEF lists
<1>1. \A k \in 1 .. n :
        /\ k \in keep => lists[k] = <<e[k]>> /\ lists[k] \in Seq(A) /\ ToSet(lists[k]) = {e[k]}
        /\ k \notin keep => lists[k] = <<>> /\ lists[k] \in Seq(A) /\ ToSet(lists[k]) = {}
        /\ IsInjective(lists[k])
  <2> SUFFICES ASSUME NEW k \in 1 .. n
               PROVE  /\ k \in keep => /\ lists[k] = <<e[k]>> /\ lists[k] \in Seq(A)
                                       /\ ToSet(lists[k]) = {e[k]}
                      /\ k \notin keep => /\ lists[k] = <<>> /\ lists[k] \in Seq(A)
                                          /\ ToSet(lists[k]) = {}
                      /\ IsInjective(lists[k])
    OBVIOUS
  <2>1. CASE k \in keep
    <3>1. lists[k] = <<e[k]>> /\ e[k] \in A
      BY <1>0, <2>1
    <3> QED BY <2>1, <3>1, OneElement, Zenon
  <2>2. CASE k \notin keep
    <3>1. lists[k] = <<>>
      BY <1>0, <2>2
    <3> QED BY <2>2, <3>1, NoElement, Zenon
  <2> QED BY <2>1, <2>2
<1>2. lists \in Seq(Seq(A)) /\ DOMAIN lists = 1 .. n
  <2>1. \A k \in 1 .. n : lists[k] \in Seq(A)
    BY <1>1
  <2>2. lists \in [1 .. n -> Seq(A)]
    BY <1>0, <2>1
  <2> QED BY <2>2
<1>3. FlattenSeq(lists) \in Seq(A)
      /\ ToSet(FlattenSeq(lists)) = UNION {ToSet(lists[k]) : k \in 1 .. n}
  BY <1>2, FlattenElements, Zenon
<1>4. UNION {ToSet(lists[k]) : k \in 1 .. n} = {e[k] : k \in keep}
  <2>1. {e[k] : k \in keep} \subseteq UNION {ToSet(lists[k]) : k \in 1 .. n}
    <3> SUFFICES ASSUME NEW k \in keep
                 PROVE  e[k] \in UNION {ToSet(lists[j]) : j \in 1 .. n}
      BY Zenon
    <3>1. k \in 1 .. n
      OBVIOUS
    <3>2. e[k] \in ToSet(lists[k])
      BY <1>1, <3>1, Zenon
    <3> QED BY <3>1, <3>2
  <2>2. UNION {ToSet(lists[k]) : k \in 1 .. n} \subseteq {e[k] : k \in keep}
    <3> SUFFICES ASSUME NEW k \in 1 .. n, NEW x \in ToSet(lists[k])
                 PROVE  x \in {e[j] : j \in keep}
      BY Zenon
    <3>1. k \in keep
      BY <1>1, Zenon
    <3>2. x = e[k]
      BY <1>1, <3>1, Zenon
    <3> QED BY <3>1, <3>2
  <2> QED BY <2>1, <2>2
<1>5. ASSUME \A j, k \in keep : e[j] = e[k] => j = k PROVE IsInjective(FlattenSeq(lists))
  <2>1. ASSUME NEW j \in 1 .. n, NEW k \in 1 .. n, j # k
        PROVE  ToSet(lists[j]) \cap ToSet(lists[k]) = {}
    <3>1. CASE j \in keep /\ k \in keep
      <4>1. ToSet(lists[j]) = {e[j]} /\ ToSet(lists[k]) = {e[k]} /\ e[j] # e[k]
        BY <1>1, <1>5, <2>1, <3>1, Zenon
      <4> QED BY <4>1
    <3>2. CASE j \notin keep \/ k \notin keep
      <4>1. ToSet(lists[j]) = {} \/ ToSet(lists[k]) = {}
        BY <1>1, <3>2, Zenon
      <4> QED BY <4>1
    <3> QED BY <3>1, <3>2
  <2>2. Apart(lists)
    BY <1>1, <1>2, <2>1, Zenon DEF Apart
  <2> QED BY <1>2, <2>2, FlattenInjective, Zenon
<1> QED BY <1>3, <1>4, <1>5 DEF lists

\* The elements of r come from rounds of keep, in the order of the rounds.
RoundOrder(r, keep, e) ==
  \A m, p \in DOMAIN r : m < p =>
    \E j, k \in keep : j < k /\ e[j] = r[m] /\ e[k] = r[p]

LEMMA FilterOrder ==
  ASSUME NEW A, NEW n \in Nat, NEW keep \in SUBSET (1 .. n), NEW e,
         \A k \in keep : e[k] \in A
  PROVE  RoundOrder(FlattenSeq(Filtered(n, keep, e)), keep, e)
<1> DEFINE lists == Filtered(n, keep, e)
           r == FlattenSeq(lists)
<1>1. lists = [k \in 1 .. n |-> IF k \in keep THEN <<e[k]>> ELSE <<>>]
  BY DEF Filtered
<1> HIDE DEF lists
<1>2. \A k \in 1 .. n : lists[k] \in Seq(A)
  BY <1>1
<1>3. lists \in [1 .. n -> Seq(A)]
  BY <1>1, <1>2
<1>4. lists \in Seq(Seq(A)) /\ Len(lists) = n
  BY <1>3
<1>5. PICK f \in [0 .. n -> Seq(A)] : Rounds(lists, f)
  BY <1>4, RoundsExist
<1>6. r = f[n]
  BY <1>4, <1>5, FlattenRounds
<1>7. f[0] = <<>> /\ \A k \in 1 .. n : f[k] = f[k - 1] \o lists[k]
  BY <1>4, <1>5 DEF Rounds, Concat
<1> DEFINE From(s, i) == \A m \in DOMAIN s : \E j \in keep : j <= i /\ e[j] = s[m]
           Ordered(s) == \A m, p \in DOMAIN s : m < p =>
                           \E j, k \in keep : j < k /\ e[j] = s[m] /\ e[k] = s[p]
           T == {i \in Nat : i <= n => From(f[i], i) /\ Ordered(f[i])}
<1>8. 0 \in T
  <2>1. DOMAIN f[0] = {}
    BY <1>7
  <2> QED BY <2>1
<1>9. ASSUME NEW i \in T PROVE i + 1 \in T
  <2>1. i \in Nat
    OBVIOUS
  <2> SUFFICES ASSUME i + 1 <= n PROVE From(f[i + 1], i + 1) /\ Ordered(f[i + 1])
    <3> HIDE DEF From, Ordered
    <3> QED BY <2>1
  <2> DEFINE s == f[i]
             t == f[i + 1]
  <2>2. From(s, i) /\ Ordered(s)
    OBVIOUS
  <2>3. i + 1 \in 1 .. n /\ (i + 1) - 1 = i /\ i \in 0 .. n
    BY <2>1
  <2>4. s \in Seq(A) /\ t = s \o lists[i + 1]
    BY <1>7, <2>3
  <2>5. \A j \in keep : j \in Nat
    OBVIOUS
  <2> HIDE DEF s, t, T
  <2>6. CASE i + 1 \notin keep
    <3>1. lists[i + 1] = <<>>
      BY <1>1, <2>3, <2>6
    <3>2. t = s
      BY <2>4, <3>1
    <3>3. From(t, i + 1)
      BY <2>1, <2>2, <2>5, <3>2
    <3>4. Ordered(t)
      BY <2>2, <3>2
    <3> HIDE DEF From, Ordered
    <3> QED BY <3>3, <3>4 DEF t
  <2>7. CASE i + 1 \in keep
    <3>1. lists[i + 1] = <<e[i + 1]>> /\ e[i + 1] \in A
      BY <1>1, <2>3, <2>7
    <3>2. /\ Len(s) \in Nat /\ DOMAIN s = 1 .. Len(s) /\ DOMAIN t = 1 .. Len(s) + 1
          /\ \A m \in 1 .. Len(s) : t[m] = s[m]
          /\ t[Len(s) + 1] = e[i + 1]
      BY <2>4, <3>1
    <3>3. ASSUME NEW m \in DOMAIN t
          PROVE  \E j \in keep : j <= i + 1 /\ e[j] = t[m]
      <4>1. CASE m \in DOMAIN s
        <5>1. PICK j \in keep : j <= i /\ e[j] = s[m]
          BY <2>2, <4>1
        <5> QED BY <2>1, <2>5, <3>2, <4>1, <5>1
      <4>2. CASE m = Len(s) + 1
        BY <2>1, <2>7, <3>2, <4>2
      <4> QED BY <3>2, <4>1, <4>2
    <3>4. ASSUME NEW m \in DOMAIN t, NEW p \in DOMAIN t, m < p
          PROVE  \E j, k \in keep : j < k /\ e[j] = t[m] /\ e[k] = t[p]
      <4>1. m \in DOMAIN s /\ t[m] = s[m]
        BY <3>2, <3>4
      <4>2. CASE p \in DOMAIN s
        <5>1. t[p] = s[p]
          BY <3>2, <4>2
        <5>2. PICK j \in keep, k \in keep : j < k /\ e[j] = s[m] /\ e[k] = s[p]
          BY <2>2, <3>4, <4>1, <4>2
        <5> QED BY <4>1, <5>1, <5>2
      <4>3. CASE p = Len(s) + 1
        <5>1. PICK j \in keep : j <= i /\ e[j] = s[m]
          BY <2>2, <4>1
        <5>2. j < i + 1 /\ e[i + 1] = t[p] /\ e[j] = t[m]
          BY <2>1, <2>5, <3>2, <4>1, <4>3, <5>1
        <5> QED BY <2>7, <5>2
      <4> QED BY <3>2, <4>2, <4>3
    <3>5. From(t, i + 1) /\ Ordered(t)
      BY <3>3, <3>4
    <3> HIDE DEF From, Ordered
    <3> QED BY <3>5 DEF t
  <2> QED BY <2>6, <2>7
<1>10. T \in SUBSET Nat
  OBVIOUS
<1> HIDE DEF T
<1>11. T = Nat
  BY <1>8, <1>9, <1>10, NatSetInduction
<1>12. Ordered(f[n])
  <2> HIDE DEF From, Ordered
  <2>1. n \in T
    BY <1>11
  <2> QED BY <2>1 DEF T
<1> QED BY <1>6, <1>12 DEF RoundOrder, lists

LEMMA RoundOrderAmong ==
  ASSUME NEW r, NEW e, NEW keep, NEW among, keep \subseteq among, RoundOrder(r, keep, e)
  PROVE  RoundOrder(r, among, e)
<1> SUFFICES ASSUME NEW m \in DOMAIN r, NEW p \in DOMAIN r, m < p
             PROVE  \E j, k \in among : j < k /\ e[j] = r[m] /\ e[k] = r[p]
  BY Zenon DEF RoundOrder
<1>1. PICK j \in keep, k \in keep : j < k /\ e[j] = r[m] /\ e[k] = r[p]
  BY Zenon DEF RoundOrder
<1> QED BY <1>1

\* The first m elements.
Prefix(e, m) == [k \in 1 .. m |-> e[k]]

\* A loop that keeps its first m elements returns the prefix of length m.
LEMMA PrefixLoop ==
  ASSUME NEW A, NEW n \in Nat, NEW m \in 0 .. n, NEW e, \A k \in 1 .. m : e[k] \in A
  PROVE  FlattenSeq(Filtered(n, 1 .. m, e)) = Prefix(e, m)
<1> DEFINE lists == Filtered(n, 1 .. m, e)
           Upto(j) == IF j < m THEN j ELSE m
           Part(j) == [k \in 1 .. Upto(j) |-> e[k]]
           f == [j \in 0 .. n |-> Part(j)]
<1>1. lists = [k \in 1 .. n |-> IF k \in 1 .. m THEN <<e[k]>> ELSE <<>>]
  BY DEF Filtered
<1> HIDE DEF lists
<1>2. lists \in Seq(Seq(A)) /\ Len(lists) = n
  <2>1. \A k \in 1 .. n : lists[k] \in Seq(A)
    BY <1>1
  <2>2. lists \in [1 .. n -> Seq(A)]
    BY <1>1, <2>1
  <2> QED BY <2>2
<1>3. \A j \in 0 .. n : Part(j) \in Seq(A) /\ Len(Part(j)) = Upto(j)
  OBVIOUS
<1>4. ASSUME NEW j \in 1 .. n PROVE Part(j) = Concat(Part(j - 1), lists[j])
  <2>0. j - 1 \in 0 .. n /\ Part(j - 1) \in Seq(A) /\ Len(Part(j - 1)) = Upto(j - 1)
    BY <1>3
  <2>1. CASE j <= m
    <3>1. lists[j] = <<e[j]>> /\ e[j] \in A
      BY <1>1, <2>1
    <3>2. Upto(j - 1) = j - 1 /\ Upto(j) = j
      BY <2>1
    <3>3. \A k \in 1 .. j : Concat(Part(j - 1), lists[j])[k] = e[k]
      BY <2>0, <3>1, <3>2 DEF Concat
    <3>4. Concat(Part(j - 1), lists[j]) \in Seq(A) /\ Len(Concat(Part(j - 1), lists[j])) = j
      BY <2>0, <3>1, <3>2 DEF Concat
    <3> DEFINE c == Concat(Part(j - 1), lists[j])
    <3>5. c = [k \in 1 .. j |-> e[k]]
      <4> HIDE DEF c
      <4> QED BY <3>3, <3>4 DEF c
    <3> QED BY <3>2, <3>5
  <2>2. CASE j > m
    <3>1. lists[j] = <<>>
      BY <1>1, <2>2
    <3>2. Upto(j - 1) = m /\ Upto(j) = m
      BY <2>2
    <3> QED BY <2>0, <3>1, <3>2 DEF Concat
  <2> QED BY <2>1, <2>2
<1>5. f[0] = <<>>
  OBVIOUS
<1>6. \A k \in 1 .. Len(lists) : f[k] = Concat(f[k - 1], lists[k])
  <2> SUFFICES ASSUME NEW k \in 1 .. n PROVE f[k] = Concat(f[k - 1], lists[k])
    BY <1>2
  <2>1. k \in 0 .. n /\ k - 1 \in 0 .. n
    OBVIOUS
  <2> HIDE DEF Part
  <2> QED BY <1>4, <2>1
<1>7. DOMAIN f = 0 .. Len(lists) /\ f[n] = [k \in 1 .. m |-> e[k]]
  BY <1>2
<1> HIDE DEF f
<1>8. Rounds(lists, f)
  BY <1>5, <1>6, <1>7 DEF Rounds
<1>9. FlattenSeq(lists) = f[Len(lists)]
  BY <1>2, <1>8, FlattenRounds
<1> QED BY <1>2, <1>7, <1>9 DEF lists, Prefix

-----------------------------------------------------------------------------
(* Loops over parts of a list. *)

LEMMA SameSeq ==
  ASSUME NEW A, NEW B, NEW s \in Seq(A), NEW t \in Seq(B), Len(s) = Len(t),
         \A k \in 1 .. Len(s) : s[k] = t[k]
  PROVE  s = t
<1>1. s = [k \in 1 .. Len(s) |-> s[k]] /\ t = [k \in 1 .. Len(t) |-> t[k]]
  OBVIOUS
<1> QED BY <1>1

\* A loop over two lists after one another.
LEMMA FlattenConcat ==
  ASSUME NEW A, NEW lists \in Seq(Seq(A)), NEW more \in Seq(Seq(A))
  PROVE  FlattenSeq(lists \o more) = FlattenSeq(lists) \o FlattenSeq(more)
<1> DEFINE T == {m \in Seq(Seq(A)) : FlattenSeq(lists \o m) = FlattenSeq(lists) \o FlattenSeq(m)}
<1>0. FlattenSeq(lists) \in Seq(A)
  BY FlattenElements
<1>1. <<>> \in T
  <2>1. FlattenSeq(<<>>) = <<>> /\ <<>> \in Seq(Seq(A))
    BY NoElement
  <2>2. lists \o <<>> = lists
    OBVIOUS
  <2>3. FlattenSeq(lists) \o <<>> = FlattenSeq(lists)
    BY <1>0
  <2> QED BY <2>1, <2>2, <2>3
<1>2. ASSUME NEW m \in T, NEW s \in Seq(A) PROVE Append(m, s) \in T
  <2>1. m \in Seq(Seq(A)) /\ FlattenSeq(lists \o m) = FlattenSeq(lists) \o FlattenSeq(m)
    OBVIOUS
  <2>2. lists \o Append(m, s) = Append(lists \o m, s) /\ lists \o m \in Seq(Seq(A))
    BY <2>1
  <2>3. FlattenSeq(Append(lists \o m, s)) = FlattenSeq(lists \o m) \o s
    BY <2>2, FlattenAppend
  <2>4. FlattenSeq(Append(m, s)) = FlattenSeq(m) \o s /\ FlattenSeq(m) \in Seq(A)
    BY <2>1, FlattenAppend
  <2>5. (FlattenSeq(lists) \o FlattenSeq(m)) \o s = FlattenSeq(lists) \o (FlattenSeq(m) \o s)
    BY <1>0, <2>4
  <2>6. FlattenSeq(lists \o Append(m, s)) = FlattenSeq(lists) \o FlattenSeq(Append(m, s))
    BY <2>1, <2>2, <2>3, <2>4, <2>5
  <2>7. Append(m, s) \in Seq(Seq(A))
    BY <2>1
  <2> QED BY <2>6, <2>7
<1>3. T \in SUBSET Seq(Seq(A))
  OBVIOUS
<1> HIDE DEF T
<1>4. T = Seq(Seq(A))
  BY <1>1, <1>2, <1>3, SeqSetInduction, Zenon
<1> QED BY <1>4 DEF T

\* The elements of a list that belong to K, in order.
Filter(s, K) == FlattenSeq([k \in DOMAIN s |-> IF s[k] \in K THEN <<s[k]>> ELSE <<>>])

LEMMA FilterType ==
  ASSUME NEW A, NEW s \in Seq(A), NEW K
  PROVE  Filter(s, K) \in Seq(A)
<1> DEFINE lists == [k \in DOMAIN s |-> IF s[k] \in K THEN <<s[k]>> ELSE <<>>]
<1>1. DOMAIN s = 1 .. Len(s) /\ Len(s) \in Nat
  OBVIOUS
<1>2. \A k \in DOMAIN s : lists[k] \in Seq(A)
  OBVIOUS
<1>3. lists \in [1 .. Len(s) -> Seq(A)]
  BY <1>1, <1>2
<1>4. lists \in Seq(Seq(A))
  <2> HIDE DEF lists
  <2> QED BY <1>1, <1>3
<1> HIDE DEF lists
<1>5. FlattenSeq(lists) \in Seq(A)
  BY <1>4, FlattenElements
<1> QED BY <1>5 DEF Filter, lists

LEMMA ConcatBy ==
  ASSUME NEW A, NEW s \in Seq(A), NEW t \in Seq(A), NEW c \in Seq(A),
         Len(c) = Len(s) + Len(t),
         \A k \in 1 .. Len(s) : c[k] = s[k],
         \A k \in 1 .. Len(t) : c[Len(s) + k] = t[k]
  PROVE  c = s \o t
<1> DEFINE st == s \o t
<1>1. Len(s) \in Nat /\ Len(t) \in Nat
  OBVIOUS
<1>2. /\ st \in Seq(A) /\ Len(st) = Len(s) + Len(t)
      /\ \A k \in 1 .. Len(s) + Len(t) : st[k] = IF k <= Len(s) THEN s[k] ELSE t[k - Len(s)]
  BY ConcatProperties
<1> HIDE DEF st
<1>3. ASSUME NEW k \in 1 .. Len(c) PROVE c[k] = st[k]
  <2>1. CASE k <= Len(s)
    BY <1>1, <1>2, <2>1
  <2>2. CASE ~(k <= Len(s))
    <3>1. k - Len(s) \in 1 .. Len(t) /\ Len(s) + (k - Len(s)) = k
      BY <1>1, <2>2
    <3>2. c[k] = t[k - Len(s)]
      BY <3>1
    <3> QED BY <1>1, <1>2, <2>2, <3>2
  <2> QED BY <2>1, <2>2
<1>4. c = st
  BY <1>2, <1>3, SameSeq
<1> QED BY <1>4 DEF st

LEMMA ConcatParts ==
  ASSUME NEW A, NEW s \in Seq(A), NEW t \in Seq(A)
  PROVE  /\ s \o t \in Seq(A) /\ Len(s \o t) = Len(s) + Len(t)
         /\ Len(s) \in Nat /\ Len(t) \in Nat
         /\ \A k \in 1 .. Len(s) : (s \o t)[k] = s[k]
         /\ \A k \in 1 .. Len(t) : (s \o t)[Len(s) + k] = t[k]
<1> DEFINE st == s \o t
<1>1. Len(s) \in Nat /\ Len(t) \in Nat
  OBVIOUS
<1>2. /\ st \in Seq(A) /\ Len(st) = Len(s) + Len(t)
      /\ \A k \in 1 .. Len(s) + Len(t) : st[k] = IF k <= Len(s) THEN s[k] ELSE t[k - Len(s)]
  BY ConcatProperties
<1> HIDE DEF st
<1>3. \A k \in 1 .. Len(s) : st[k] = s[k]
  BY <1>1, <1>2
<1>4. ASSUME NEW k \in 1 .. Len(t) PROVE st[Len(s) + k] = t[k]
  <2>1. Len(s) + k \in 1 .. Len(s) + Len(t) /\ ~(Len(s) + k <= Len(s)) /\ Len(s) + k - Len(s) = k
    BY <1>1
  <2> QED BY <1>2, <2>1
<1> QED BY <1>1, <1>2, <1>3, <1>4 DEF st

\* The contributions of the elements.
IfIn(e, K) == IF e \in K THEN <<e>> ELSE <<>>

Chosen(s, K) == [k \in DOMAIN s |-> IF s[k] \in K THEN <<s[k]>> ELSE <<>>]

LEMMA ChosenType ==
  ASSUME NEW A, NEW s \in Seq(A), NEW K
  PROVE  /\ Chosen(s, K) \in Seq(Seq(A)) /\ Len(Chosen(s, K)) = Len(s)
         /\ \A k \in 1 .. Len(s) : Chosen(s, K)[k] = IfIn(s[k], K)
<1>1. DOMAIN s = 1 .. Len(s) /\ Len(s) \in Nat
  OBVIOUS
<1>2. \A k \in DOMAIN s : Chosen(s, K)[k] \in Seq(A)
  BY DEF Chosen
<1>3. Chosen(s, K) \in [1 .. Len(s) -> Seq(A)]
  BY <1>1, <1>2 DEF Chosen
<1>4. Chosen(s, K) \in Seq(Seq(A)) /\ Len(Chosen(s, K)) = Len(s)
  BY <1>1, <1>3
<1> QED BY <1>1, <1>4 DEF Chosen, IfIn

LEMMA FilterConcat ==
  ASSUME NEW A, NEW s \in Seq(A), NEW t \in Seq(A), NEW K
  PROVE  Filter(s \o t, K) = Filter(s, K) \o Filter(t, K)
<1> DEFINE st == s \o t
<1>1. /\ st \in Seq(A) /\ Len(st) = Len(s) + Len(t) /\ Len(s) \in Nat /\ Len(t) \in Nat
      /\ \A k \in 1 .. Len(s) : st[k] = s[k]
      /\ \A k \in 1 .. Len(t) : st[Len(s) + k] = t[k]
  BY ConcatParts
<1> HIDE DEF st
<1>2. PICK c : c = Chosen(st, K)
  OBVIOUS
<1>3. PICK cs : cs = Chosen(s, K)
  OBVIOUS
<1>4. PICK ct : ct = Chosen(t, K)
  OBVIOUS
<1>5. /\ c \in Seq(Seq(A)) /\ Len(c) = Len(st)
      /\ \A k \in 1 .. Len(st) : c[k] = IfIn(st[k], K)
  <2>1. st \in Seq(A)
    BY <1>1
  <2> QED BY <1>2, <2>1, ChosenType, Zenon
<1>6. /\ cs \in Seq(Seq(A)) /\ Len(cs) = Len(s)
      /\ \A k \in 1 .. Len(s) : cs[k] = IfIn(s[k], K)
  BY <1>3, ChosenType, Zenon
<1>7. /\ ct \in Seq(Seq(A)) /\ Len(ct) = Len(t)
      /\ \A k \in 1 .. Len(t) : ct[k] = IfIn(t[k], K)
  BY <1>4, ChosenType, Zenon
<1>8. \A k \in 1 .. Len(cs) : c[k] = cs[k]
  <2>1. Len(cs) = Len(s) /\ \A k \in 1 .. Len(s) : k \in 1 .. Len(st)
    BY <1>1, <1>6
  <2> QED BY <1>1, <1>5, <1>6, <2>1, Zenon
<1>9. \A k \in 1 .. Len(ct) : c[Len(cs) + k] = ct[k]
  <2> SUFFICES ASSUME NEW k \in 1 .. Len(t) PROVE c[Len(s) + k] = ct[k]
    BY <1>6, <1>7
  <2>1. Len(s) + k \in 1 .. Len(st)
    BY <1>1
  <2> QED BY <1>1, <1>5, <1>7, <2>1
<1>10. c = cs \o ct
  <2>1. Len(c) = Len(cs) + Len(ct)
    BY <1>1, <1>5, <1>6, <1>7
  <2> QED BY <1>5, <1>6, <1>7, <1>8, <1>9, <2>1, ConcatBy
<1>11. FlattenSeq(c) = FlattenSeq(cs) \o FlattenSeq(ct)
  BY <1>6, <1>7, <1>10, FlattenConcat
<1> QED BY <1>2, <1>3, <1>4, <1>11 DEF Filter, Chosen, st

\* One further element.
LEMMA FilterOne ==
  ASSUME NEW A, NEW e \in A, NEW K
  PROVE  Filter(<<e>>, K) = IF e \in K THEN <<e>> ELSE <<>>
<1> DEFINE one == IF e \in K THEN <<e>> ELSE <<>>
<1>1. one \in Seq(A)
  OBVIOUS
<1>2. [k \in DOMAIN <<e>> |-> IF <<e>>[k] \in K THEN <<(<<e>>[k])>> ELSE <<>>] = <<one>>
  OBVIOUS
<1>3. FlattenSeq(<<one>>) = one
  <2> HIDE DEF one
  <2>1. <<>> \in Seq(Seq(A)) /\ Append(<<>>, one) = <<one>>
    BY <1>1
  <2>2. FlattenSeq(Append(<<>>, one)) = FlattenSeq(<<>>) \o one
    BY <1>1, <2>1, FlattenAppend
  <2>3. FlattenSeq(<<>>) \o one = one
    BY <1>1, NoElement
  <2> QED BY <2>1, <2>2, <2>3
<1> QED BY <1>2, <1>3 DEF Filter

LEMMA FilterNone ==
  ASSUME NEW K PROVE Filter(<<>>, K) = <<>>
<1>1. [k \in DOMAIN <<>> |-> IF <<>>[k] \in K THEN <<(<<>>[k])>> ELSE <<>>] = <<>>
  OBVIOUS
<1> QED BY <1>1, NoElement DEF Filter

\* All elements belong to K.
LEMMA FilterAll ==
  ASSUME NEW A, NEW s \in Seq(A), NEW K, A \subseteq K
  PROVE  Filter(s, K) = s
<1> DEFINE n == Len(s)
<1>1. n \in Nat /\ n \in 0 .. n /\ DOMAIN s = 1 .. n /\ s = [k \in 1 .. n |-> s[k]]
      /\ \A k \in 1 .. n : s[k] \in A
  OBVIOUS
<1>2. [k \in DOMAIN s |-> IF s[k] \in K THEN <<s[k]>> ELSE <<>>] = Filtered(n, 1 .. n, s)
  <2> HIDE DEF n
  <2> QED BY <1>1 DEF Filtered
<1> HIDE DEF n
<1>3. FlattenSeq(Filtered(n, 1 .. n, s)) = Prefix(s, n)
  <2>1. n \in Nat /\ n \in 0 .. n /\ \A k \in 1 .. n : s[k] \in A
    BY <1>1
  <2> QED BY <2>1, PrefixLoop, Zenon
<1> QED BY <1>1, <1>2, <1>3 DEF Filter, Prefix
=============================================================================
