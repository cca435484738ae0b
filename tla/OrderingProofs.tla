---------------------------- MODULE OrderingProofs ----------------------------
(****************************************************************************)
(* Facts about lists that several proofs need: what is in a sequence, and   *)
(* that the members of a finite set with a strict total order come in       *)
(* order when each is put at the place that is the number of those before   *)
(* it.                                                                      *)
(****************************************************************************)
EXTENDS Ordering, SequencesExt, FiniteSetTheorems, TLAPS

-----------------------------------------------------------------------------
(* Members of sequences.                                                    *)

LEMMA InSequence ==
    ASSUME NEW S, NEW s \in Seq(S), NEW e
    PROVE  e \in ToSet(s) <=> \E k \in DOMAIN s : s[k] = e
  BY Zenon DEF ToSet

LEMMA NoneInEmpty == ToSet(<<>>) = {}
  BY DEF ToSet

LEMMA InAppend ==
    ASSUME NEW S, NEW s \in Seq(S), NEW e \in S
    PROVE  ToSet(Append(s, e)) = ToSet(s) \cup {e}
<1>. DEFINE longer == Append(s, e)
<1>1. /\ longer \in Seq(S)
      /\ longer[Len(s) + 1] = e
      /\ Len(s) + 1 \in DOMAIN longer
      /\ \A k \in DOMAIN s : k \in DOMAIN longer /\ longer[k] = s[k]
      /\ \A k \in DOMAIN longer : k = Len(s) + 1 \/ k \in DOMAIN s
  OBVIOUS
<1>. HIDE DEF longer
<1>2. \A d : d \in ToSet(longer) <=> d \in ToSet(s) \cup {e}
  <2>. SUFFICES ASSUME NEW d PROVE d \in ToSet(longer) <=> d \in ToSet(s) \/ d = e
    OBVIOUS
  <2>1. d \in ToSet(longer) <=> \E k \in DOMAIN longer : longer[k] = d
    BY <1>1, InSequence
  <2>2. d \in ToSet(s) <=> \E k \in DOMAIN s : s[k] = d
    BY InSequence
  <2>. QED  BY <1>1, <2>1, <2>2
<1>. QED  BY <1>2 DEF longer

LEMMA InHeadAndTail ==
    ASSUME NEW S, NEW s \in Seq(S), s # <<>>
    PROVE  /\ Head(s) \in S
           /\ Tail(s) \in Seq(S)
           /\ ToSet(s) = {Head(s)} \cup ToSet(Tail(s))
<1>. DEFINE tail == Tail(s)
<1>1. /\ Head(s) \in S
      /\ tail \in Seq(S)
      /\ 1 \in DOMAIN s /\ s[1] = Head(s)
      /\ \A k \in DOMAIN tail : k + 1 \in DOMAIN s /\ s[k + 1] = tail[k]
      /\ \A k \in DOMAIN s : k = 1 \/ (k - 1 \in DOMAIN tail /\ tail[k - 1] = s[k])
  OBVIOUS
<1>. HIDE DEF tail
<1>2. \A d : d \in ToSet(s) <=> d \in {Head(s)} \cup ToSet(tail)
  <2>. SUFFICES ASSUME NEW d PROVE d \in ToSet(s) <=> d = Head(s) \/ d \in ToSet(tail)
    OBVIOUS
  <2>1. d \in ToSet(tail) <=> \E k \in DOMAIN tail : tail[k] = d
    BY <1>1, InSequence
  <2>2. d \in ToSet(s) <=> \E k \in DOMAIN s : s[k] = d
    BY InSequence
  <2>. QED  BY <1>1, <2>1, <2>2
<1>. QED  BY <1>1, <1>2 DEF tail

LEMMA OnceInTail ==
    ASSUME NEW S, NEW s \in Seq(S), s # <<>>, IsInjective(s)
    PROVE  IsInjective(Tail(s)) /\ Head(s) \notin ToSet(Tail(s))
<1>. DEFINE tail == Tail(s)
<1>1. /\ tail \in Seq(S)
      /\ 1 \in DOMAIN s /\ s[1] = Head(s)
      /\ \A k \in DOMAIN tail : k \in Nat /\ k > 0 /\ k + 1 \in DOMAIN s /\ s[k + 1] = tail[k]
  OBVIOUS
<1>. HIDE DEF tail
<1>2. \A i, j \in DOMAIN s : s[i] = s[j] => i = j
  BY DEF IsInjective
<1>3. ASSUME NEW i \in DOMAIN tail, NEW j \in DOMAIN tail, tail[i] = tail[j]
      PROVE  i = j
  <2>1. i + 1 = j + 1
    BY <1>1, <1>2, <1>3
  <2>. QED  BY <1>1, <2>1
<1>4. ASSUME NEW i \in DOMAIN tail, tail[i] = Head(s)
      PROVE  FALSE
  <2>1. i + 1 = 1
    BY <1>1, <1>2, <1>4
  <2>. QED  BY <1>1, <2>1
<1>5. Head(s) \notin ToSet(tail)
  BY <1>1, <1>4, InSequence
<1>. QED  BY <1>3, <1>5 DEF tail, IsInjective

LEMMA OnceAppended ==
    ASSUME NEW S, NEW s \in Seq(S), IsInjective(s), NEW e \in S, e \notin ToSet(s)
    PROVE  IsInjective(Append(s, e))
<1>. DEFINE longer == Append(s, e)
<1>1. /\ longer[Len(s) + 1] = e
      /\ \A k \in DOMAIN longer : k = Len(s) + 1 \/ (k \in DOMAIN s /\ longer[k] = s[k])
  OBVIOUS
<1>2. \A k \in DOMAIN s : s[k] # e
  BY InSequence
<1>3. \A i, j \in DOMAIN s : s[i] = s[j] => i = j
  BY DEF IsInjective
<1>. HIDE DEF longer
<1>4. \A i, j \in DOMAIN longer : longer[i] = longer[j] => i = j
  BY <1>1, <1>2, <1>3
<1>. QED  BY <1>4 DEF longer, IsInjective

LEMMA OnceEmpty == IsInjective(<<>>)
  BY DEF IsInjective

\* The indices of a list that are picked from it.
LEMMA IndexSet ==
    ASSUME NEW n \in Nat, NEW T, T \subseteq 1 .. n
    PROVE  IsFiniteSet(T) /\ Cardinality(T) \in Nat
<1>1. IsFiniteSet(1 .. n)
  BY FS_Interval
<1>2. T \in SUBSET (1 .. n)
  OBVIOUS
<1>3. IsFiniteSet(T)
  BY <1>1, <1>2, FS_Subset
<1>. QED  BY <1>3, FS_CardinalityType

-----------------------------------------------------------------------------
(* Order.                                                                   *)

StrictOrder(S, before) ==
    /\ \A x, y \in S : x = y \/ <<x, y>> \in before \/ <<y, x>> \in before
    /\ \A x, y \in S : <<x, y>> \in before => <<y, x>> \notin before
    /\ \A x, y, z \in S : <<x, y>> \in before /\ <<y, z>> \in before => <<x, z>> \in before

Predecessors(x, S, before) == {y \in S : <<y, x>> \in before}

\* As many places as members, each taken by the member with as many before it.
LEMMA PlacesFilled ==
    ASSUME NEW S, IsFiniteSet(S), NEW before, StrictOrder(S, before)
    PROVE  /\ \A x \in S : Cardinality(Predecessors(x, S, before)) \in 0 .. Cardinality(S) - 1
           /\ \A x, y \in S : <<x, y>> \in before =>
                 Cardinality(Predecessors(x, S, before)) < Cardinality(Predecessors(y, S, before))
           /\ \A k \in 1 .. Cardinality(S) : \E x \in S :
                 Cardinality(Predecessors(x, S, before)) = k - 1
<1>. DEFINE n == Cardinality(S)
            pred(x) == Predecessors(x, S, before)
<1>0. n \in Nat
  BY FS_CardinalityType
<1>1. ASSUME NEW x \in S
      PROVE  IsFiniteSet(pred(x)) /\ Cardinality(pred(x)) \in 0 .. n - 1
  <2>1. pred(x) \in SUBSET S /\ x \notin pred(x)
    BY DEF Predecessors, StrictOrder
  <2>2. IsFiniteSet(pred(x)) /\ Cardinality(pred(x)) <= n
        /\ (n = Cardinality(pred(x)) => S = pred(x))
    BY <2>1, FS_Subset
  <2>3. Cardinality(pred(x)) \in Nat
    BY <2>2, FS_CardinalityType
  <2>. QED  BY <1>0, <2>1, <2>2, <2>3
<1>2. ASSUME NEW x \in S, NEW y \in S, <<x, y>> \in before
      PROVE  Cardinality(pred(x)) < Cardinality(pred(y))
  <2>1. pred(x) \in SUBSET pred(y) /\ x \in pred(y) /\ x \notin pred(x)
    BY <1>2 DEF Predecessors, StrictOrder
  <2>2. /\ Cardinality(pred(x)) <= Cardinality(pred(y))
        /\ Cardinality(pred(y)) = Cardinality(pred(x)) => pred(y) = pred(x)
    BY <1>1, <2>1, FS_Subset
  <2>3. Cardinality(pred(x)) \in Nat /\ Cardinality(pred(y)) \in Nat
    BY <1>0, <1>1
  <2>. QED  BY <2>1, <2>2, <2>3
<1>3. ASSUME NEW k \in 1 .. n
      PROVE  \E x \in S : Cardinality(pred(x)) = k - 1
  <2>. DEFINE place == [x \in S |-> Cardinality(pred(x)) + 1]
  <2>1. place \in [S -> 1 .. n]
    BY <1>0, <1>1
  <2>2. \A x, y \in S : place[x] = place[y] => x = y
    <3>. SUFFICES ASSUME NEW x \in S, NEW y \in S, x # y
                  PROVE  Cardinality(pred(x)) + 1 # Cardinality(pred(y)) + 1
      OBVIOUS
    <3>1. <<x, y>> \in before \/ <<y, x>> \in before
      BY DEF StrictOrder
    <3>2. Cardinality(pred(x)) \in Nat /\ Cardinality(pred(y)) \in Nat
      BY <1>0, <1>1
    <3>3. Cardinality(pred(x)) < Cardinality(pred(y)) \/ Cardinality(pred(y)) < Cardinality(pred(x))
      BY <1>2, <3>1
    <3>. QED  BY <3>2, <3>3
  <2>3. place \in Injection(S, 1 .. n)
    BY <2>1, <2>2 DEF Injection, IsInjective
  <2>4. IsFiniteSet(1 .. n) /\ Cardinality(1 .. n) = n
    BY <1>0, FS_Interval
  <2>5. place \in Surjection(S, 1 .. n)
    BY <2>3, <2>4, FS_Injection
  <2>6. PICK x \in S : place[x] = k
    BY <2>5 DEF Surjection
  <2>7. Cardinality(pred(x)) \in Nat
    BY <1>0, <1>1
  <2>. QED  BY <2>6, <2>7
<1>. QED  BY <1>1, <1>2, <1>3

\* InOrder is such a sequence; it has each member once, at its place.
LEMMA Ordered ==
    ASSUME NEW S, IsFiniteSet(S), NEW before, StrictOrder(S, before)
    PROVE  LET order == InOrder(S, before)
           IN  /\ order \in [1 .. Cardinality(S) -> S]
               /\ \A i, j \in 1 .. Cardinality(S) : i < j => <<order[i], order[j]>> \in before
               /\ \A x \in S : \E k \in 1 .. Cardinality(S) : order[k] = x
               /\ \A k \in 1 .. Cardinality(S) :
                     Cardinality(Predecessors(order[k], S, before)) = k - 1
<1>. DEFINE n == Cardinality(S)
            places(x) == Cardinality(Predecessors(x, S, before))
            sorted(o) == \A i, j \in 1 .. n : i < j => <<o[i], o[j]>> \in before
            order == InOrder(S, before)
<1>0. n \in Nat
  BY FS_CardinalityType
<1>1. /\ \A x \in S : places(x) \in 0 .. n - 1
      /\ \A x, y \in S : <<x, y>> \in before => places(x) < places(y)
      /\ \A k \in 1 .. n : \E x \in S : places(x) = k - 1
  BY PlacesFilled
<1>. HIDE DEF places
<1>6. \A k \in 1 .. n : order[k] \in S /\ places(order[k]) = k - 1
  BY <1>1 DEF InOrder, places, Predecessors
<1>2. ASSUME NEW i \in 1 .. n, NEW j \in 1 .. n, i < j
      PROVE  <<order[i], order[j]>> \in before
  <2>1. order[i] \in S /\ order[j] \in S /\ places(order[i]) = i - 1 /\ places(order[j]) = j - 1
    BY <1>6
  <2>. HIDE DEF order
  <2>2. order[i] # order[j] /\ <<order[j], order[i]>> \notin before
    BY <1>1, <1>2, <2>1
  <2>. QED  BY <2>1, <2>2 DEF StrictOrder
<1>3. order \in [1 .. n -> S] /\ sorted(order)
  BY <1>2, <1>6 DEF InOrder
<1>. HIDE DEF order
<1>4. \A i, j \in 1 .. n : order[i] = order[j] => i = j
  <2>. SUFFICES ASSUME NEW i \in 1 .. n, NEW j \in 1 .. n, i # j
                PROVE  order[i] # order[j]
    OBVIOUS
  <2>1. order[i] \in S /\ order[j] \in S
    BY <1>3
  <2>2. i < j \/ j < i
    OBVIOUS
  <2>. QED  BY <1>3, <2>1, <2>2 DEF StrictOrder
<1>5. \A x \in S : \E k \in 1 .. n : order[k] = x
  <2>1. order \in Injection(1 .. n, S)
    BY <1>3, <1>4 DEF Injection, IsInjective
  <2>2. IsFiniteSet(1 .. n) /\ Cardinality(1 .. n) = n
    BY <1>0, FS_Interval
  <2>3. order \in Surjection(1 .. n, S)
    BY <2>1, <2>2, FS_Injection
  <2>. QED  BY <2>3 DEF Surjection
<1>. QED  BY <1>3, <1>5, <1>6 DEF order, places

\* Indices from the least one on.
LEMMA Ascends ==
    ASSUME NEW n \in Nat, NEW T, T \subseteq 1 .. n
    PROVE  LET order == Ascending(T)
           IN  /\ Cardinality(T) \in Nat
               /\ order \in [1 .. Cardinality(T) -> T]
               /\ \A i, j \in 1 .. Cardinality(T) : i < j => order[i] < order[j]
               /\ \A x \in T : \E k \in 1 .. Cardinality(T) : order[k] = x
<1>. DEFINE before == {pair \in T \X T : pair[1] < pair[2]}
            order == InOrder(T, before)
<1>1. IsFiniteSet(T) /\ Cardinality(T) \in Nat
  BY IndexSet
<1>2. \A x, y \in T : <<x, y>> \in before <=> x < y
  OBVIOUS
<1>. HIDE DEF before
<1>3. StrictOrder(T, before)
  BY <1>2 DEF StrictOrder
<1>4. /\ order \in [1 .. Cardinality(T) -> T]
      /\ \A i, j \in 1 .. Cardinality(T) : i < j => <<order[i], order[j]>> \in before
      /\ \A x \in T : \E k \in 1 .. Cardinality(T) : order[k] = x
  BY <1>1, <1>3, Ordered
<1>5. Ascending(T) = order
  BY DEF Ascending, before
<1>. HIDE DEF order
<1>6. \A i, j \in 1 .. Cardinality(T) : i < j => order[i] < order[j]
  BY <1>2, <1>4
<1>. QED  BY <1>1, <1>4, <1>5, <1>6

LEMMA HasGreatest ==
    ASSUME NEW n \in Nat, NEW T, T \subseteq 1 .. n, T # {}
    PROVE  \E x \in T : \A y \in T : y <= x
<1>. DEFINE m == Cardinality(T)
            order == Ascending(T)
<1>1. /\ m \in Nat
      /\ order \in [1 .. m -> T]
      /\ \A i, j \in 1 .. m : i < j => order[i] < order[j]
      /\ \A x \in T : \E k \in 1 .. m : order[k] = x
  BY Ascends
<1>. HIDE DEF m, order
<1>2. m \in 1 .. m
  <2>1. PICK x : x \in T
    OBVIOUS
  <2>2. PICK k \in 1 .. m : order[k] = x
    BY <1>1, <2>1
  <2>. QED  BY <1>1, <2>2
<1>3. ASSUME NEW y \in T PROVE y <= order[m]
  <2>1. PICK k \in 1 .. m : order[k] = y
    BY <1>1
  <2>2. k < m \/ k = m
    BY <1>1
  <2>3. order[m] \in T
    BY <1>1, <1>2
  <2>5. k < m => order[k] < order[m]
    BY <1>1, <1>2
  <2>6. y \in 1 .. n /\ order[m] \in 1 .. n
    BY <1>3, <2>3
  <2>4. y \in Int /\ order[m] \in Int
    BY <2>6
  <2>. QED  BY <2>1, <2>2, <2>4, <2>5
<1>. QED  BY <1>1, <1>2, <1>3

LEMMA HasLeast ==
    ASSUME NEW n \in Nat, NEW T, T \subseteq 1 .. n, T # {}
    PROVE  \E x \in T : \A y \in T : x <= y
<1>. DEFINE U == {n + 1 - x : x \in T}
<1>1. \A x \in T : x \in 1 .. n /\ n + 1 - x \in 1 .. n /\ n + 1 - (n + 1 - x) = x
  OBVIOUS
<1>2. U \subseteq 1 .. n /\ U # {}
  BY <1>1
<1>3. \A u \in U : n + 1 - u \in T
  BY <1>1
<1>4. \A x \in T : n + 1 - x \in U
  OBVIOUS
<1>5. PICK u \in U : \A v \in U : v <= u
  <2>. HIDE DEF U
  <2>. QED  BY <1>2, HasGreatest
<1>6. n + 1 - u \in T /\ u \in Int
  BY <1>2, <1>3
<1>. HIDE DEF U
<1>7. \A y \in T : n + 1 - u <= y
  <2>. TAKE y \in T
  <2>1. n + 1 - y <= u /\ y \in Int
    BY <1>1, <1>4, <1>5
  <2>. QED  BY <1>6, <2>1
<1>. QED  BY <1>6, <1>7

LEMMA FiniteImage ==
    ASSUME NEW S, IsFiniteSet(S), NEW f, DOMAIN f = S
    PROVE  IsFiniteSet({f[x] : x \in S})
<1>. DEFINE T == {f[x] : x \in S}
            g == [x \in S |-> f[x]]
<1>1. g \in [S -> T]
  OBVIOUS
<1>2. \A y \in T : \E x \in S : g[x] = y
  OBVIOUS
<1>. HIDE DEF T, g
<1>3. g \in Surjection(S, T)
  BY <1>1, <1>2 DEF Surjection
<1>4. IsFiniteSet(T)
  BY <1>3, FS_Surjection
<1>. QED  BY <1>4 DEF T

\* A sequence has no more members than places.
LEMMA FewMembers ==
    ASSUME NEW S, NEW s \in Seq(S)
    PROVE  /\ IsFiniteSet(ToSet(s))
           /\ Cardinality(ToSet(s)) \in Nat
           /\ Cardinality(ToSet(s)) <= Len(s)
<1>1. Len(s) \in Nat /\ DOMAIN s = 1 .. Len(s) /\ s \in [1 .. Len(s) -> S]
  OBVIOUS
<1>2. \A e : e \in ToSet(s) <=> \E k \in 1 .. Len(s) : s[k] = e
  BY <1>1, InSequence
<1>3. s \in Surjection(1 .. Len(s), ToSet(s))
  BY <1>1, <1>2 DEF Surjection
<1>4. IsFiniteSet(1 .. Len(s)) /\ Cardinality(1 .. Len(s)) = Len(s)
  BY <1>1, FS_Interval
<1>5. IsFiniteSet(ToSet(s)) /\ Cardinality(ToSet(s)) <= Len(s)
  BY <1>3, <1>4, FS_Surjection
<1>. QED  BY <1>5, FS_CardinalityType

LEMMA Smaller ==
    ASSUME NEW a \in Int, NEW b \in Int
    PROVE  Min({a, b}) \in {a, b} /\ Min({a, b}) <= a /\ Min({a, b}) <= b
  BY DEF Min
=============================================================================
