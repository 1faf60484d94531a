---------------------------- MODULE Ranking_proofs ----------------------------
(***************************************************************************)
(* What the operators of Ranking return, for any rows: how many, which and *)
(* in which order.                                                         *)
(*                                                                         *)
(* All of them choose positions and put them in an order, so everything    *)
(* rests on Places: in a finite ordered set there is one element for each  *)
(* place from 1 to the size of the set.                                    *)
(***************************************************************************)
EXTENDS Ranking, FiniteSetTheorems, FunctionTheorems, SequenceTheorems, TLAPS

-----------------------------------------------------------------------------
(* Orders of finite sets.                                                  *)

IsOrder(S, R) ==
    /\ \A x, y \in S : <<x, y>> \in R \/ <<y, x>> \in R
    /\ \A x, y \in S : <<x, y>> \in R /\ <<y, x>> \in R => x = y
    /\ \A x, y, z \in S : <<x, y>> \in R /\ <<y, z>> \in R => <<x, z>> \in R

UpToIn(S, R, x) == {y \in S : <<y, x>> \in R}

Place(S, R, x) == Cardinality(UpToIn(S, R, x))

LEMMA PlaceBounds ==
    ASSUME NEW S, IsFiniteSet(S), NEW R, IsOrder(S, R), NEW x \in S
    PROVE  Place(S, R, x) \in 1 .. Cardinality(S)
<1>1. UpToIn(S, R, x) \in SUBSET S /\ x \in UpToIn(S, R, x)
  BY DEF UpToIn, IsOrder
<1>2. IsFiniteSet(UpToIn(S, R, x)) /\ Place(S, R, x) <= Cardinality(S)
  BY <1>1, FS_Subset DEF Place
<1>3. Place(S, R, x) \in Nat /\ Cardinality(S) \in Nat /\ Place(S, R, x) # 0
  BY <1>1, <1>2, FS_CardinalityType, FS_EmptySet DEF Place
<1> QED BY <1>2, <1>3

LEMMA PlaceGrows ==
    ASSUME NEW S, IsFiniteSet(S), NEW R, IsOrder(S, R), NEW x \in S, NEW y \in S,
           <<x, y>> \in R, x # y
    PROVE  Place(S, R, x) < Place(S, R, y)
<1>1. UpToIn(S, R, x) \in SUBSET UpToIn(S, R, y)
  BY DEF UpToIn, IsOrder
<1>2. y \in UpToIn(S, R, y) /\ y \notin UpToIn(S, R, x)
  BY DEF UpToIn, IsOrder
<1>3. UpToIn(S, R, y) \in SUBSET S
  BY DEF UpToIn
<1>4. IsFiniteSet(UpToIn(S, R, y))
  BY <1>3, FS_Subset
<1>5. /\ Place(S, R, x) <= Place(S, R, y)
      /\ Place(S, R, x) = Place(S, R, y) => UpToIn(S, R, x) = UpToIn(S, R, y)
  BY <1>1, <1>4, FS_Subset DEF Place
<1>6. Place(S, R, x) # Place(S, R, y)
  BY <1>2, <1>5
<1>7. Place(S, R, x) \in Int /\ Place(S, R, y) \in Int
  BY PlaceBounds
<1> QED BY <1>5, <1>6, <1>7

LEMMA Places ==
    ASSUME NEW S, IsFiniteSet(S), NEW R, IsOrder(S, R), NEW k \in 1 .. Cardinality(S)
    PROVE  \E x \in S : Place(S, R, x) = k
<1> DEFINE n == Cardinality(S)
           place == [x \in S |-> Place(S, R, x)]
<1>1. n \in Nat
  BY FS_CardinalityType
<1>2. place \in [S -> 1 .. n]
  BY PlaceBounds
<1>3. \A x, y \in S : place[x] = place[y] => x = y
  <2> SUFFICES ASSUME NEW x \in S, NEW y \in S, x # y PROVE place[x] # place[y]
    OBVIOUS
  <2>1. <<x, y>> \in R \/ <<y, x>> \in R
    BY DEF IsOrder
  <2>2. Place(S, R, x) < Place(S, R, y) \/ Place(S, R, y) < Place(S, R, x)
    BY <2>1, PlaceGrows
  <2>3. Place(S, R, x) \in Int /\ Place(S, R, y) \in Int
    BY PlaceBounds
  <2> QED BY <2>2, <2>3
<1>4. place \in Injection(S, 1 .. n)
  BY <1>2, <1>3 DEF Injection, IsInjective
<1>5. IsFiniteSet(1 .. n) /\ Cardinality(1 .. n) = n
  BY <1>1, FS_Interval
<1>6. place \in Surjection(S, 1 .. n)
  BY <1>4, <1>5, FS_Injection
<1> QED BY <1>6 DEF Surjection

(* A sequence of the elements of S, each at its place. *)
InPlace(s, S, R) ==
    s \in [1 .. Cardinality(S) -> S] /\ \A k \in 1 .. Cardinality(S) : Place(S, R, s[k]) = k

LEMMA InPlaceIs ==
    ASSUME NEW S, IsFiniteSet(S), NEW R, IsOrder(S, R), NEW s, InPlace(s, S, R)
    PROVE  /\ \A x \in S : \E k \in 1 .. Cardinality(S) : s[k] = x
           /\ \A k, l \in 1 .. Cardinality(S) : k <= l <=> <<s[k], s[l]>> \in R
           /\ \A k, l \in 1 .. Cardinality(S) : s[k] = s[l] => k = l
<1>0. Cardinality(S) \in Nat
  BY FS_CardinalityType
<1>1. \A k, l \in 1 .. Cardinality(S) : s[k] = s[l] => k = l
  BY DEF InPlace
<1>2. ASSUME NEW x \in S PROVE \E k \in 1 .. Cardinality(S) : s[k] = x
  <2> DEFINE k == Place(S, R, x)
  <2>1. k \in 1 .. Cardinality(S)
    BY PlaceBounds
  <2>2. s[k] \in S /\ Place(S, R, s[k]) = k
    BY <2>1 DEF InPlace
  <2>3. <<s[k], x>> \in R \/ <<x, s[k]>> \in R
    BY <2>2 DEF IsOrder
  <2>4. s[k] = x
    BY <2>1, <2>2, <2>3, PlaceGrows
  <2> QED BY <2>1, <2>4
<1>3. ASSUME NEW k \in 1 .. Cardinality(S), NEW l \in 1 .. Cardinality(S)
      PROVE  k <= l <=> <<s[k], s[l]>> \in R
  <2>1. s[k] \in S /\ s[l] \in S /\ Place(S, R, s[k]) = k /\ Place(S, R, s[l]) = l
    BY DEF InPlace
  <2>2. <<s[k], s[l]>> \in R \/ <<s[l], s[k]>> \in R
    BY <2>1 DEF IsOrder
  <2>3. <<s[k], s[l]>> \in R => k <= l
    BY <1>0, <2>1, PlaceGrows
  <2>4. <<s[l], s[k]>> \in R /\ k # l => l < k
    BY <1>0, <2>1, PlaceGrows
  <2>5. k = l => <<s[k], s[l]>> \in R
    BY <2>1 DEF IsOrder
  <2> QED BY <1>0, <2>2, <2>3, <2>4, <2>5
<1> QED BY <1>1, <1>2, <1>3

-----------------------------------------------------------------------------
(* Choosing some of a sequence's elements, and sorting them.               *)

(* The positions in at up to each other, as an order. *)
AtMost(S) == {e \in S \X S : e[1] <= e[2]}

LEMMA AtMostOrders ==
    ASSUME NEW S \in SUBSET Int
    PROVE  IsOrder(S, AtMost(S))
BY DEF IsOrder, AtMost

LEMMA ListedIs ==
    ASSUME NEW n \in Nat, NEW f, f = [k \in 1 .. n |-> f[k]]
    PROVE  Listed(f) = f
BY DEF Listed

(* Positions of s in increasing order. *)
Ascends(order, at) == InPlace(order, at, AtMost(at))

LEMMA AscendsIs ==
    ASSUME NEW at \in SUBSET Int, IsFiniteSet(at), NEW order, Ascends(order, at)
    PROVE  /\ order \in [1 .. Cardinality(at) -> at]
           /\ \A i \in at : \E k \in 1 .. Cardinality(at) : order[k] = i
           /\ \A k, l \in 1 .. Cardinality(at) : k <= l <=> order[k] <= order[l]
           /\ \A k, l \in 1 .. Cardinality(at) : order[k] = order[l] => k = l
<1>1. InPlace(order, at, AtMost(at)) /\ IsOrder(at, AtMost(at))
  BY AtMostOrders DEF Ascends
<1>2. /\ \A i \in at : \E k \in 1 .. Cardinality(at) : order[k] = i
      /\ \A k, l \in 1 .. Cardinality(at) : k <= l <=> <<order[k], order[l]>> \in AtMost(at)
      /\ \A k, l \in 1 .. Cardinality(at) : order[k] = order[l] => k = l
  BY <1>1, InPlaceIs
<1>3. order \in [1 .. Cardinality(at) -> at]
  BY <1>1 DEF InPlace
<1> QED BY <1>2, <1>3 DEF AtMost

LEMMA UpTo ==
    ASSUME NEW n \in Nat
    PROVE  IsFiniteSet(1 .. n) /\ Cardinality(1 .. n) = n
BY FS_Interval

LEMMA PickedIs ==
    ASSUME NEW T, NEW s \in Seq(T), NEW at \in SUBSET DOMAIN s
    PROVE  /\ IsFiniteSet(at) /\ Cardinality(at) \in Nat
           /\ \E order \in [1 .. Cardinality(at) -> at] :
                /\ Ascends(order, at)
                /\ Picked(s, at) = [k \in 1 .. Cardinality(at) |-> s[order[k]]]
<1> DEFINE n == Cardinality(at)
           order == [k \in 1 .. n |-> CHOOSE x \in at : Cardinality({y \in at : y <= x}) = k]
           inOrder == InOrder(at, LAMBDA i, j : i <= j)
<1>1. at \in SUBSET (1 .. Len(s)) /\ Len(s) \in Nat
  OBVIOUS
<1>2. IsFiniteSet(at) /\ n \in Nat
  <2>1. IsFiniteSet(1 .. Len(s))
    BY <1>1, FS_Interval
  <2>2. IsFiniteSet(at)
    BY <1>1, <2>1, FS_Subset
  <2> QED BY <2>2, FS_CardinalityType
<1>3. IsOrder(at, AtMost(at))
  BY <1>1, AtMostOrders
<1>4. ASSUME NEW x \in at PROVE Place(at, AtMost(at), x) = Cardinality({y \in at : y <= x})
  <2>1. UpToIn(at, AtMost(at), x) = {y \in at : y <= x}
    BY DEF UpToIn, AtMost
  <2> QED BY <2>1 DEF Place
<1>5. ASSUME NEW k \in 1 .. n
      PROVE  order[k] \in at /\ Place(at, AtMost(at), order[k]) = k
  <2>1. \E x \in at : Cardinality({y \in at : y <= x}) = k
    BY <1>2, <1>3, <1>4, Places
  <2>2. order[k] \in at /\ Cardinality({y \in at : y <= order[k]}) = k
    BY <2>1
  <2> QED BY <1>4, <2>2
<1>6. order \in [1 .. n -> at]
  BY <1>5
<1>7. Ascends(order, at)
  BY <1>5, <1>6 DEF Ascends, InPlace
<1>8. inOrder = Listed(order)
  BY DEF InOrder, With
<1>9. inOrder = order
  <2> HIDE DEF order, inOrder
  <2>1. order = [k \in 1 .. n |-> order[k]]
    BY <1>6
  <2> QED BY <1>2, <1>8, <2>1, ListedIs
<1>10. Len(order) = n
  BY <1>2, <1>6
<1>11. Picked(s, at) = Listed([k \in 1 .. n |-> s[order[k]]])
  BY <1>9, <1>10 DEF Picked, Mapped, With
<1>12. Picked(s, at) = [k \in 1 .. n |-> s[order[k]]]
  BY <1>2, <1>11, ListedIs
<1> QED BY <1>2, <1>6, <1>7, <1>12

(* t lists what s has at the positions in at, each of them once. *)
SomeOf(t, s, at) ==
    \E order \in [1 .. Cardinality(at) -> at] :
        /\ \A k, l \in 1 .. Cardinality(at) : order[k] = order[l] => k = l
        /\ \A i \in at : \E k \in 1 .. Cardinality(at) : order[k] = i
        /\ t = [k \in 1 .. Cardinality(at) |-> s[order[k]]]

LEMMA PickedSome ==
    ASSUME NEW T, NEW s \in Seq(T), NEW at \in SUBSET DOMAIN s
    PROVE  SomeOf(Picked(s, at), s, at)
<1>1. PICK order \in [1 .. Cardinality(at) -> at] :
        /\ Ascends(order, at)
        /\ Picked(s, at) = [k \in 1 .. Cardinality(at) |-> s[order[k]]]
  BY PickedIs
<1>2. IsFiniteSet(at) /\ IsOrder(at, AtMost(at))
  BY PickedIs, AtMostOrders
<1>3. /\ \A i \in at : \E k \in 1 .. Cardinality(at) : order[k] = i
      /\ \A k, l \in 1 .. Cardinality(at) : order[k] = order[l] => k = l
  <2>1. at \in SUBSET Int
    OBVIOUS
  <2> QED BY <1>1, <1>2, <2>1, AscendsIs
<1> QED BY <1>1, <1>3 DEF SomeOf

LEMMA SomeOfIs ==
    ASSUME NEW T, NEW s \in Seq(T), NEW at \in SUBSET DOMAIN s, NEW t, SomeOf(t, s, at)
    PROVE  /\ t \in Seq(T) /\ Len(t) = Cardinality(at) /\ Len(t) \in Nat /\ Len(t) <= Len(s)
           /\ \A k \in 1 .. Len(t) : \E i \in at : t[k] = s[i]
           /\ \A i \in at : \E k \in 1 .. Len(t) : t[k] = s[i]
<1>1. PICK order \in [1 .. Cardinality(at) -> at] :
        /\ \A i \in at : \E k \in 1 .. Cardinality(at) : order[k] = i
        /\ t = [k \in 1 .. Cardinality(at) |-> s[order[k]]]
  BY DEF SomeOf
<1>2. IsFiniteSet(at) /\ Cardinality(at) \in Nat
  BY PickedIs
<1>3. Cardinality(at) <= Len(s)
  <2>1. DOMAIN s = 1 .. Len(s) /\ Len(s) \in Nat
    OBVIOUS
  <2>2. IsFiniteSet(DOMAIN s) /\ Cardinality(DOMAIN s) = Len(s)
    BY <2>1, UpTo
  <2>3. at \subseteq DOMAIN s
    OBVIOUS
  <2> QED BY <2>2, <2>3, FS_Subset
<1>4. \A k \in 1 .. Cardinality(at) : order[k] \in at /\ s[order[k]] \in T
  OBVIOUS
<1>5. t \in [1 .. Cardinality(at) -> T]
  BY <1>1, <1>4
<1>6. t \in Seq(T) /\ Len(t) = Cardinality(at)
  BY <1>2, <1>5
<1> QED BY <1>1, <1>2, <1>3, <1>4, <1>6

LEMMA TakenFrom ==
    ASSUME NEW t, NEW s, NEW at, SomeOf(t, s, at), Len(t) = Cardinality(at), NEW k \in 1 .. Len(t)
    PROVE  \E i \in at : t[k] = s[i]
<1>1. PICK order \in [1 .. Cardinality(at) -> at] :
        t = [l \in 1 .. Cardinality(at) |-> s[order[l]]]
  BY DEF SomeOf
<1>2. order[k] \in at /\ t[k] = s[order[k]]
  BY <1>1
<1> QED BY <1>2

LEMMA ConcatIs ==
    ASSUME NEW T, NEW s \in Seq(T), NEW t \in Seq(T)
    PROVE  /\ s \o t \in Seq(T) /\ Len(s \o t) = Len(s) + Len(t)
           /\ \A k \in 1 .. Len(s) : (s \o t)[k] = s[k]
           /\ \A k \in 1 .. Len(t) : (s \o t)[Len(s) + k] = t[k]
           /\ \A k \in Len(s) + 1 .. Len(s \o t) :
                 (s \o t)[k] = t[k - Len(s)] /\ k - Len(s) \in 1 .. Len(t)
<1>1. s \o t \in Seq(T) /\ Len(s \o t) = Len(s) + Len(t)
  BY ConcatProperties
<1>2. \A i \in 1 .. Len(s) + Len(t) : (s \o t)[i] = IF i <= Len(s) THEN s[i] ELSE t[i - Len(s)]
  BY ConcatProperties
<1>3. Len(s) \in Nat /\ Len(t) \in Nat
  OBVIOUS
<1> DEFINE m == Len(s)
           n == Len(t)
<1> HIDE DEF m, n
<1>4. m \in Nat /\ n \in Nat
  BY <1>3 DEF m, n
<1>5. \A k \in 1 .. m : k \in 1 .. m + n /\ k <= m
  BY <1>4
<1>6. \A k \in 1 .. n : m + k \in 1 .. m + n /\ ~(m + k <= m) /\ m + k - m = k
  BY <1>4
<1>7. \A k \in m + 1 .. m + n : k \in 1 .. m + n /\ ~(k <= m) /\ k - m \in 1 .. n
  BY <1>4
<1> QED BY <1>1, <1>2, <1>5, <1>6, <1>7 DEF m, n

LEMMA TakeIs ==
    ASSUME NEW T, NEW s \in Seq(T), NEW n \in Nat
    PROVE  /\ Take(s, n) \in Seq(T)
           /\ Len(Take(s, n)) = IF n < Len(s) THEN n ELSE Len(s)
           /\ \A i \in 1 .. Len(Take(s, n)) : Take(s, n)[i] = s[i]
           /\ Len(s) <= n => Take(s, n) = s
<1> DEFINE m == IF n < Len(s) THEN n ELSE Len(s)
<1>1. Take(s, n) = SubSeq(s, 1, m)
  <2>1. {SubSeq(t, 1, IF n < Len(t) THEN n ELSE Len(t)) : t \in {s}} = {SubSeq(s, 1, m)}
    OBVIOUS
  <2> QED BY <2>1 DEF Take, With
<1>2. s \in [1 .. Len(s) -> T] /\ Len(s) \in Nat /\ m \in 0 .. Len(s)
  OBVIOUS
<1>3. /\ SubSeq(s, 1, m) \in Seq(T) /\ Len(SubSeq(s, 1, m)) = m
      /\ \A i \in 1 .. m : SubSeq(s, 1, m)[i] = s[i]
  BY <1>2
<1>4. ASSUME Len(s) <= n PROVE SubSeq(s, 1, m) = s
  <2>1. m = Len(s)
    <3> DEFINE l == Len(s)
    <3>1. l \in Nat /\ l <= n
      BY <1>2, <1>4
    <3> HIDE DEF l
    <3>2. (IF n < l THEN n ELSE l) = l
      BY <3>1
    <3> QED BY <3>2 DEF l
  <2>2. SubSeq(s, 1, Len(s)) = [i \in 1 .. Len(s) |-> s[i]]
    OBVIOUS
  <2> QED BY <2>1, <2>2
<1> QED BY <1>1, <1>3, <1>4

(* The order of list.sort(reverse=True): by key, equal keys by position. *)
ByKey(S, keys) ==
    {e \in S \X S : keys[e[1]] > keys[e[2]] \/ (keys[e[1]] = keys[e[2]] /\ e[1] <= e[2])}

LEMMA ByKeyOrders ==
    ASSUME NEW S \in SUBSET Int, NEW keys, \A i \in S : keys[i] \in Int
    PROVE  IsOrder(S, ByKey(S, keys))
BY DEF IsOrder, ByKey

LEMMA SortedSome ==
    ASSUME NEW T, NEW s \in Seq(T), NEW keys, \A i \in DOMAIN s : keys[i] \in Int
    PROVE  SomeOf(Sorted(s, keys), s, DOMAIN s)
<1> DEFINE at == DOMAIN s
           n == Cardinality(at)
           upTo(i, j) == keys[i] > keys[j] \/ (keys[i] = keys[j] /\ i <= j)
           order == [k \in 1 .. n |-> CHOOSE x \in at : Cardinality({y \in at : upTo(y, x)}) = k]
           inOrder == InOrder(at, upTo)
<1>1. at = 1 .. Len(s) /\ Len(s) \in Nat
  OBVIOUS
<1>2. IsFiniteSet(at) /\ n \in Nat
  BY PickedIs
<1>3. IsOrder(at, ByKey(at, keys))
  BY <1>1, ByKeyOrders
<1>4. ASSUME NEW x \in at PROVE Place(at, ByKey(at, keys), x) = Cardinality({y \in at : upTo(y, x)})
  <2>1. UpToIn(at, ByKey(at, keys), x) = {y \in at : upTo(y, x)}
    BY DEF UpToIn, ByKey
  <2> QED BY <2>1 DEF Place
<1>5. ASSUME NEW k \in 1 .. n
      PROVE  order[k] \in at /\ Place(at, ByKey(at, keys), order[k]) = k
  <2>0. PICK x \in at : Place(at, ByKey(at, keys), x) = k
    BY <1>2, <1>3, Places
  <2>1. \E z \in at : Cardinality({y \in at : upTo(y, z)}) = k
    BY <1>4, <2>0
  <2>2. order[k] \in at /\ Cardinality({y \in at : upTo(y, order[k])}) = k
    BY <2>1
  <2> QED BY <1>4, <2>2
<1>6. order \in [1 .. n -> at]
  BY <1>5
<1>7. InPlace(order, at, ByKey(at, keys))
  BY <1>5, <1>6 DEF InPlace
<1>8. inOrder = Listed(order)
  BY DEF InOrder, With
<1>9. inOrder = order
  <2> HIDE DEF order, inOrder
  <2>1. order = [k \in 1 .. n |-> order[k]]
    BY <1>6
  <2> QED BY <1>2, <1>8, <2>1, ListedIs
<1>10. Len(order) = n
  BY <1>2, <1>6
<1>11. Sorted(s, keys) = Listed([k \in 1 .. n |-> s[order[k]]])
  BY <1>9, <1>10 DEF Sorted, Mapped, With
<1>12. Sorted(s, keys) = [k \in 1 .. n |-> s[order[k]]]
  BY <1>2, <1>11, ListedIs
<1>13. /\ \A i \in at : \E k \in 1 .. n : order[k] = i
       /\ \A k, l \in 1 .. n : order[k] = order[l] => k = l
  <2> HIDE DEF order
  <2> QED BY <1>2, <1>3, <1>7, InPlaceIs
<1> QED BY <1>6, <1>12, <1>13 DEF SomeOf

LEMMA AscendsExists ==
    ASSUME NEW S \in SUBSET Int, IsFiniteSet(S)
    PROVE  \E order : Ascends(order, S)
<1> DEFINE R == AtMost(S)
           order == [k \in 1 .. Cardinality(S) |-> CHOOSE x \in S : Place(S, R, x) = k]
<1>1. IsOrder(S, R)
  BY AtMostOrders
<1>2. ASSUME NEW k \in 1 .. Cardinality(S)
      PROVE  order[k] \in S /\ Place(S, R, order[k]) = k
  <2>1. \E x \in S : Place(S, R, x) = k
    BY <1>1, Places
  <2> QED BY <2>1
<1>3. InPlace(order, S, R)
  BY <1>2 DEF InPlace
<1> QED BY <1>3 DEF Ascends

(* A finite set of numbers that is not empty has a least and a greatest one. *)
LEMMA LeastAndGreatest ==
    ASSUME NEW S \in SUBSET Int, IsFiniteSet(S), S # {}
    PROVE  /\ Min(S) \in S /\ \A y \in S : Min(S) <= y
           /\ Max(S) \in S /\ \A y \in S : y <= Max(S)
<1> DEFINE n == Cardinality(S)
<1>1. PICK order : Ascends(order, S)
  BY AscendsExists
<1>2. /\ order \in [1 .. n -> S]
      /\ \A i \in S : \E k \in 1 .. n : order[k] = i
      /\ \A k, l \in 1 .. n : k <= l <=> order[k] <= order[l]
  BY <1>1, AscendsIs
<1>3. n \in Nat /\ n # 0
  BY FS_CardinalityType, FS_EmptySet
<1> HIDE DEF n
<1>4. order[1] \in S /\ \A y \in S : order[1] <= y
  BY <1>2, <1>3
<1>5. order[n] \in S /\ \A y \in S : order[n] >= y
  BY <1>2, <1>3
<1>6. Min(S) \in S /\ \A y \in S : Min(S) <= y
  BY <1>4 DEF Min
<1>7. Max(S) \in S /\ \A y \in S : Max(S) >= y
  BY <1>5 DEF Max
<1> QED BY <1>6, <1>7

-----------------------------------------------------------------------------
(* Standards.                                                              *)

LEMMA BucketIs ==
    ASSUME NEW U, NEW targets \in Seq(U), NEW r
    PROVE  Bucket(r, targets) \in 0 .. Len(targets)
<1> DEFINE I == {n \in 1 .. Len(targets) : \/ Within(targets[n], StandardName(r.scope))
                                          \/ Within(StandardName(r.scope), targets[n])}
<1>1. Bucket(r, targets) = IF I # {} THEN Min(I) ELSE 0
  BY DEF Bucket, SelectInSeq
<1>2. Len(targets) \in Nat
  OBVIOUS
<1>3. IsFiniteSet(I) /\ I \in SUBSET Int
  <2>1. IsFiniteSet(1 .. Len(targets)) /\ I \subseteq 1 .. Len(targets)
    BY <1>2, UpTo
  <2> QED BY <1>2, <2>1, FS_Subset
<1> HIDE DEF I
<1>4. ASSUME I # {} PROVE Min(I) \in I
  BY <1>3, <1>4, LeastAndGreatest
<1>5. I \subseteq 1 .. Len(targets)
  BY DEF I
<1>6. Bucket(r, targets) = 0 \/ Bucket(r, targets) \in 1 .. Len(targets)
  BY <1>1, <1>4, <1>5
<1> QED BY <1>2, <1>6

-----------------------------------------------------------------------------
(* Taking turns.                                                           *)

Turns(buckets) == UNION {(1 .. Len(buckets[n])) \X {n} : n \in DOMAIN buckets}

TurnOrder(turns) ==
    {e \in turns \X turns : \/ e[1][1] < e[2][1]
                            \/ e[1][1] = e[2][1] /\ e[1][2] <= e[2][2]}

(* order is the sequence of the turns taken. *)
InTurn(order, buckets) == InPlace(order, Turns(buckets), TurnOrder(Turns(buckets)))

LEMMA TurnsAre ==
    ASSUME NEW T, NEW m \in Nat, NEW buckets \in [1 .. m -> Seq(T)]
    PROVE  /\ IsFiniteSet(Turns(buckets))
           /\ Turns(buckets) = {t \in (Nat \ {0}) \X (1 .. m) : t[1] <= Len(buckets[t[2]])}
           /\ IsOrder(Turns(buckets), TurnOrder(Turns(buckets)))
<1> DEFINE of == [n \in 1 .. m |-> (1 .. Len(buckets[n])) \X {n}]
           sets == {of[n] : n \in 1 .. m}
<1>1. DOMAIN buckets = 1 .. m /\ \A n \in 1 .. m : Len(buckets[n]) \in Nat
  OBVIOUS
<1>2. Turns(buckets) = UNION sets
  BY <1>1 DEF Turns
<1>3. IsFiniteSet(sets)
  <2>1. of \in Surjection(1 .. m, sets)
    BY DEF Surjection
  <2> HIDE DEF of, sets
  <2> QED BY <2>1, UpTo, FS_Surjection
<1>4. ASSUME NEW S \in sets PROVE IsFiniteSet(S)
  <2>1. PICK n \in 1 .. m : S = (1 .. Len(buckets[n])) \X {n}
    OBVIOUS
  <2>2. IsFiniteSet(1 .. Len(buckets[n])) /\ IsFiniteSet({n})
    BY <1>1, UpTo, FS_Singleton
  <2> QED BY <2>1, <2>2, FS_Product
<1>5. IsFiniteSet(Turns(buckets))
  <2> HIDE DEF sets
  <2> QED BY <1>2, <1>3, <1>4, FS_UNION
<1>6. Turns(buckets) = {t \in (Nat \ {0}) \X (1 .. m) : t[1] <= Len(buckets[t[2]])}
  <2>1. ASSUME NEW t \in Turns(buckets)
        PROVE  t \in (Nat \ {0}) \X (1 .. m) /\ t[1] <= Len(buckets[t[2]])
    <3>1. PICK n \in 1 .. m : t \in (1 .. Len(buckets[n])) \X {n}
      BY <1>1 DEF Turns
    <3> QED BY <1>1, <3>1
  <2>2. ASSUME NEW t \in (Nat \ {0}) \X (1 .. m), t[1] <= Len(buckets[t[2]])
        PROVE  t \in Turns(buckets)
    <3>1. t \in (1 .. Len(buckets[t[2]])) \X {t[2]}
      BY <1>1, <2>2
    <3> QED BY <1>1, <3>1 DEF Turns
  <2> QED BY <2>1, <2>2
<1>7. IsOrder(Turns(buckets), TurnOrder(Turns(buckets)))
  <2> DEFINE S == Turns(buckets)
  <2>1. \A t \in S : t = <<t[1], t[2]>> /\ t[1] \in Nat /\ t[2] \in Nat
    BY <1>6
  <2> HIDE DEF S
  <2>2. ASSUME NEW x \in S, NEW y \in S
        PROVE  /\ <<x, y>> \in TurnOrder(S) <=> x[1] < y[1] \/ (x[1] = y[1] /\ x[2] <= y[2])
               /\ x[1] = y[1] /\ x[2] = y[2] => x = y
    BY <2>1 DEF TurnOrder
  <2>3. ASSUME NEW x \in S, NEW y \in S
        PROVE  <<x, y>> \in TurnOrder(S) \/ <<y, x>> \in TurnOrder(S)
    <3>1. x[1] \in Nat /\ x[2] \in Nat /\ y[1] \in Nat /\ y[2] \in Nat
      BY <2>1
    <3> QED BY <2>2, <3>1
  <2>4. \A x, y \in S : <<x, y>> \in TurnOrder(S) /\ <<y, x>> \in TurnOrder(S) => x = y
    BY <2>1, <2>2
  <2>5. \A x, y, z \in S : <<x, y>> \in TurnOrder(S) /\ <<y, z>> \in TurnOrder(S)
                              => <<x, z>> \in TurnOrder(S)
    <3>1. SUFFICES ASSUME NEW x \in S, NEW y \in S, NEW z \in S,
                          <<x, y>> \in TurnOrder(S), <<y, z>> \in TurnOrder(S)
                   PROVE  <<x, z>> \in TurnOrder(S)
      OBVIOUS
    <3>2. /\ x[1] \in Nat /\ y[1] \in Nat /\ z[1] \in Nat
          /\ x[2] \in Nat /\ y[2] \in Nat /\ z[2] \in Nat
      BY <2>1
    <3>3. /\ x[1] < y[1] \/ (x[1] = y[1] /\ x[2] <= y[2])
          /\ y[1] < z[1] \/ (y[1] = z[1] /\ y[2] <= z[2])
      BY <2>2, <3>1
    <3>4. x[1] < z[1] \/ (x[1] = z[1] /\ x[2] <= z[2])
      BY <3>2, <3>3
    <3> QED BY <2>2, <3>4
  <2>6. IsOrder(S, TurnOrder(S))
    BY <2>3, <2>4, <2>5 DEF IsOrder
  <2> QED BY <2>6 DEF S
<1> QED BY <1>5, <1>6, <1>7

LEMMA RoundRobinIs ==
    ASSUME NEW T, NEW m \in Nat, NEW buckets \in [1 .. m -> Seq(T)]
    PROVE  \E order : /\ InTurn(order, buckets)
                      /\ RoundRobin(buckets) =
                           [k \in 1 .. Cardinality(Turns(buckets)) |->
                               buckets[order[k][2]][order[k][1]]]
<1> DEFINE at == Turns(buckets)
           R == TurnOrder(at)
           n == Cardinality(at)
           upTo(t, u) == t[1] < u[1] \/ (t[1] = u[1] /\ t[2] <= u[2])
           order == [k \in 1 .. n |-> CHOOSE x \in at : Cardinality({y \in at : upTo(y, x)}) = k]
           inOrder == InOrder(at, upTo)
<1>2. IsFiniteSet(at) /\ n \in Nat
  BY TurnsAre, FS_CardinalityType
<1>3. IsOrder(at, R)
  BY TurnsAre
<1>4. ASSUME NEW x \in at PROVE Place(at, R, x) = Cardinality({y \in at : upTo(y, x)})
  <2> HIDE DEF at
  <2>1. UpToIn(at, R, x) = {y \in at : upTo(y, x)}
    BY DEF UpToIn, TurnOrder
  <2> QED BY <2>1 DEF Place
<1>5. ASSUME NEW k \in 1 .. n
      PROVE  order[k] \in at /\ Place(at, R, order[k]) = k
  <2>0. PICK x \in at : Place(at, R, x) = k
    BY <1>2, <1>3, Places
  <2>1. \E z \in at : Cardinality({y \in at : upTo(y, z)}) = k
    BY <1>4, <2>0
  <2>2. order[k] \in at /\ Cardinality({y \in at : upTo(y, order[k])}) = k
    BY <2>1
  <2> QED BY <1>4, <2>2
<1>6. order \in [1 .. n -> at]
  BY <1>5
<1>7. InTurn(order, buckets)
  BY <1>5, <1>6 DEF InTurn, InPlace
<1>8. inOrder = Listed(order)
  BY DEF InOrder, With
<1>9. inOrder = order
  <2> HIDE DEF order, inOrder
  <2>1. order = [k \in 1 .. n |-> order[k]]
    BY <1>6
  <2> QED BY <1>2, <1>8, <2>1, ListedIs
<1>10. Len(order) = n
  BY <1>2, <1>6
<1>11. RoundRobin(buckets) = Listed([k \in 1 .. n |-> buckets[order[k][2]][order[k][1]]])
  BY <1>9, <1>10 DEF RoundRobin, Mapped, With, Turns
<1>12. RoundRobin(buckets) = [k \in 1 .. n |-> buckets[order[k][2]][order[k][1]]]
  <2> DEFINE got == [k \in 1 .. n |-> buckets[order[k][2]][order[k][1]]]
  <2>1. got = [k \in 1 .. n |-> got[k]]
    OBVIOUS
  <2>2. RoundRobin(buckets) = Listed(got)
    BY <1>11
  <2> HIDE DEF got
  <2>3. RoundRobin(buckets) = got
    BY <1>2, <2>1, <2>2, ListedIs
  <2> QED BY <2>3 DEF got
<1> QED BY <1>7, <1>12

-----------------------------------------------------------------------------
(* stratify_results.                                                       *)

(* The positions of the rows of a target, of those of any, of those of none. *)
Hits(rows, targets, n) ==
    {i \in DOMAIN rows : /\ Bucket(rows[i], targets) # 0
                         /\ targets[Bucket(rows[i], targets)] = targets[n]}
AllHits(rows, targets) == {i \in DOMAIN rows : Bucket(rows[i], targets) # 0}
Misses(rows, targets) == {i \in DOMAIN rows : Bucket(rows[i], targets) = 0}

LEMMA BucketsAre ==
    ASSUME NEW T, NEW rows \in Seq(T), NEW U, NEW targets \in Seq(U)
    PROVE  /\ Buckets(rows, targets) \in [1 .. Len(targets) -> Seq(T)]
           /\ \A n \in 1 .. Len(targets) :
                 SomeOf(Buckets(rows, targets)[n], rows, Hits(rows, targets, n))
           /\ \A n \in 1 .. Len(targets) : Hits(rows, targets, n) \in SUBSET DOMAIN rows
<1>1. DOMAIN targets = 1 .. Len(targets)
  OBVIOUS
<1>2. ASSUME NEW n \in 1 .. Len(targets)
      PROVE  /\ Hits(rows, targets, n) \in SUBSET DOMAIN rows
             /\ Buckets(rows, targets)[n] = Picked(rows, Hits(rows, targets, n))
  BY <1>1 DEF Buckets, Hits, Kept, With
<1>3. ASSUME NEW n \in 1 .. Len(targets)
      PROVE  /\ SomeOf(Buckets(rows, targets)[n], rows, Hits(rows, targets, n))
             /\ Buckets(rows, targets)[n] \in Seq(T)
  <2>1. SomeOf(Buckets(rows, targets)[n], rows, Hits(rows, targets, n))
    BY <1>2, PickedSome
  <2> QED BY <1>2, <2>1, SomeOfIs
<1>4. Buckets(rows, targets) = [n \in 1 .. Len(targets) |-> Buckets(rows, targets)[n]]
  BY <1>1 DEF Buckets
<1> QED BY <1>2, <1>3, <1>4

LEMMA HitsAndMisses ==
    ASSUME NEW T, NEW rows \in Seq(T), NEW U, NEW targets \in Seq(U), IsInjective(targets)
    PROVE  Cardinality(Turns(Buckets(rows, targets))) + Cardinality(Misses(rows, targets))
             <= Len(rows)
<1> DEFINE m == Len(targets)
           buckets == Buckets(rows, targets)
           turns == Turns(buckets)
           hits == AllHits(rows, targets)
           misses == Misses(rows, targets)
           IsOrderOf(f, n) ==
               /\ f \in [1 .. Len(buckets[n]) -> Hits(rows, targets, n)]
               /\ \A k, l \in 1 .. Len(buckets[n]) : f[k] = f[l] => k = l
           at == [n \in 1 .. m |-> CHOOSE f : IsOrderOf(f, n)]
           place == [t \in turns |-> at[t[2]][t[1]]]
<1>1. m \in Nat /\ DOMAIN targets = 1 .. m
  OBVIOUS
<1>2. ASSUME NEW n \in 1 .. m PROVE IsOrderOf(at[n], n)
  <2>1. SomeOf(buckets[n], rows, Hits(rows, targets, n)) /\ Hits(rows, targets, n) \in SUBSET DOMAIN rows
    BY BucketsAre
  <2>2. Len(buckets[n]) = Cardinality(Hits(rows, targets, n))
    BY <2>1, SomeOfIs
  <2>3. \E f : IsOrderOf(f, n)
    BY <2>1, <2>2 DEF SomeOf
  <2> HIDE DEF IsOrderOf
  <2> QED BY <2>3
<1>3. /\ IsFiniteSet(turns)
      /\ \A t \in turns : /\ t[2] \in 1 .. m /\ t[1] \in 1 .. Len(buckets[t[2]])
                           /\ t = <<t[1], t[2]>>
  <2>1. buckets \in [1 .. m -> Seq(T)] /\ m \in Nat
    BY <1>1, BucketsAre
  <2> HIDE DEF m, buckets
  <2>2. IsFiniteSet(Turns(buckets))
    BY <2>1, TurnsAre
  <2>3. ASSUME NEW t \in Turns(buckets)
        PROVE  t[2] \in 1 .. m /\ t[1] \in 1 .. Len(buckets[t[2]]) /\ t = <<t[1], t[2]>>
    <3>1. PICK n \in 1 .. m : t \in (1 .. Len(buckets[n])) \X {n}
      BY <2>1 DEF Turns
    <3> QED BY <3>1
  <2> QED BY <2>2, <2>3
<1>4. ASSUME NEW t \in turns
      PROVE  /\ place[t] \in Hits(rows, targets, t[2])
             /\ place[t] \in hits
  <2> HIDE DEF at, turns, buckets
  <2>1. place[t] \in Hits(rows, targets, t[2])
    <3> DEFINE n == t[2]
               k == t[1]
    <3>1. n \in 1 .. m /\ k \in 1 .. Len(buckets[n]) /\ place[t] = at[n][k]
      BY <1>3
    <3>2. at[n] \in [1 .. Len(buckets[n]) -> Hits(rows, targets, n)]
      BY <1>2, <3>1
    <3> HIDE DEF n, k, place
    <3>3. at[n][k] \in Hits(rows, targets, n)
      BY <3>1, <3>2
    <3> QED BY <3>1, <3>3 DEF n
  <2> QED BY <2>1 DEF Hits, AllHits
<1>5. ASSUME NEW t \in turns, NEW u \in turns, place[t] = place[u] PROVE t = u
  <2>1. targets[t[2]] = targets[u[2]]
    BY <1>4, <1>5, Zenon DEF Hits
  <2>2. t[2] = u[2]
    BY <1>1, <1>3, <2>1 DEF IsInjective
  <2> HIDE DEF at, turns, buckets
  <2>3. t[1] = u[1]
    BY <1>2, <1>3, <1>5, <2>2
  <2> QED BY <1>3, <2>2, <2>3
<1>6. DOMAIN rows = 1 .. Len(rows) /\ Len(rows) \in Nat
  OBVIOUS
<1>7. IsFiniteSet(DOMAIN rows) /\ Cardinality(DOMAIN rows) = Len(rows)
  BY <1>6, UpTo
<1>8. /\ IsFiniteSet(hits) /\ IsFiniteSet(misses) /\ Cardinality(hits) \in Nat
      /\ Cardinality(misses) \in Nat
  <2>1. hits \in SUBSET DOMAIN rows /\ misses \in SUBSET DOMAIN rows
    BY DEF AllHits, Misses
  <2>2. IsFiniteSet(hits) /\ IsFiniteSet(misses)
    BY <1>7, <2>1, FS_Subset
  <2> QED BY <2>2, FS_CardinalityType
<1>9. Cardinality(hits) + Cardinality(misses) = Len(rows)
  <2>1. hits \cup misses = DOMAIN rows /\ hits \cap misses = {}
    BY DEF AllHits, Misses
  <2> HIDE DEF hits, misses
  <2>2. Cardinality(hits \cap misses) = 0
    BY <2>1, FS_EmptySet
  <2>3. Cardinality(hits \cup misses) = Cardinality(hits) + Cardinality(misses) - 0
    BY <1>8, <2>2, FS_Union
  <2> QED BY <1>7, <1>8, <2>1, <2>3
<1>10. Cardinality(turns) <= Cardinality(hits)
  <2> HIDE DEF turns, hits, place
  <2>1. place \in [turns -> hits]
    BY <1>4 DEF place
  <2>2. place \in Injection(turns, hits)
    BY <1>5, <2>1 DEF Injection, IsInjective
  <2> QED BY <1>8, <2>2, FS_Injection
<1>11. Cardinality(turns) \in Nat
  BY <1>3, FS_CardinalityType
<1> QED BY <1>6, <1>8, <1>9, <1>10, <1>11

LEMMA TargetNamesAre ==
    ASSUME NEW L, NEW scopes \in Seq(L)
    PROVE  /\ TargetNames(scopes) \in Seq({StandardName(l) : l \in L})
           /\ Len(TargetNames(scopes)) = Len(scopes)
BY DEF TargetNames

(* All that stratify_results orders, before the cut. *)
Stratified(rows, targets) ==
    RoundRobin(Buckets(rows, targets)) \o Picked(rows, Misses(rows, targets))

(* Its rows are those of the turns, in the order of these, and then rows of no bucket. *)
TakesTurns(order, rows, buckets, targets) ==
    LET c == Cardinality(Turns(buckets))
    IN /\ InTurn(order, buckets)
       /\ c \in Nat /\ c <= Len(rows)
       /\ \A k \in 1 .. c : rows[k] = buckets[order[k][2]][order[k][1]]
       /\ \A k \in c + 1 .. Len(rows) : Bucket(rows[k], targets) = 0

LEMMA StratifiedIs ==
    ASSUME NEW T, NEW rows \in Seq(T), NEW U, NEW targets \in Seq(U)
    PROVE  /\ Stratified(rows, targets) \in Seq(T)
           /\ \A k \in 1 .. Len(Stratified(rows, targets)) :
                 \E i \in 1 .. Len(rows) : Stratified(rows, targets)[k] = rows[i]
           /\ \A i \in 1 .. Len(rows) :
                 \E k \in 1 .. Len(Stratified(rows, targets)) : Stratified(rows, targets)[k] = rows[i]
           /\ IsInjective(targets) => Len(Stratified(rows, targets)) <= Len(rows)
           /\ \E order : TakesTurns(order, Stratified(rows, targets), Buckets(rows, targets), targets)
<1> DEFINE m == Len(targets)
           buckets == Buckets(rows, targets)
           turns == Turns(buckets)
           c == Cardinality(turns)
           robin == RoundRobin(buckets)
           misses == Misses(rows, targets)
           rest == Picked(rows, misses)
           all == Stratified(rows, targets)
<1>1. m \in Nat /\ DOMAIN targets = 1 .. m /\ DOMAIN rows = 1 .. Len(rows) /\ Len(rows) \in Nat
  OBVIOUS
<1>2. /\ buckets \in [1 .. m -> Seq(T)]
      /\ \A n \in 1 .. m : SomeOf(buckets[n], rows, Hits(rows, targets, n))
      /\ \A n \in 1 .. m : Hits(rows, targets, n) \in SUBSET DOMAIN rows
  BY BucketsAre
<1>3. /\ IsFiniteSet(turns)
      /\ turns = {t \in (Nat \ {0}) \X (1 .. m) : t[1] <= Len(buckets[t[2]])}
      /\ IsOrder(turns, TurnOrder(turns))
  BY <1>1, <1>2, TurnsAre
<1>4. c \in Nat
  BY <1>3, FS_CardinalityType
<1>5. PICK order : /\ InTurn(order, buckets)
                   /\ robin = [k \in 1 .. c |-> buckets[order[k][2]][order[k][1]]]
  <2> HIDE DEF m, buckets
  <2>1. m \in Nat /\ buckets \in [1 .. m -> Seq(T)]
    BY <1>1, <1>2
  <2> QED BY <2>1, RoundRobinIs
<1>6. misses \in SUBSET DOMAIN rows
  BY DEF Misses
<1>7. /\ rest \in Seq(T) /\ Len(rest) = Cardinality(misses) /\ Len(rest) \in Nat
      /\ \A k \in 1 .. Len(rest) : \E i \in misses : rest[k] = rows[i]
      /\ \A i \in misses : \E k \in 1 .. Len(rest) : rest[k] = rows[i]
  <2> HIDE DEF misses
  <2>1. SomeOf(rest, rows, misses)
    BY <1>6, PickedSome
  <2> HIDE DEF rest
  <2> QED BY <1>6, <2>1, SomeOfIs
<1>8. /\ order \in [1 .. c -> turns]
      /\ \A t \in turns : \E k \in 1 .. c : order[k] = t
  <2> HIDE DEF turns
  <2>0. IsFiniteSet(turns) /\ IsOrder(turns, TurnOrder(turns))
    BY <1>3
  <2>1. InPlace(order, turns, TurnOrder(turns))
    BY <1>5 DEF InTurn, turns
  <2>2. order \in [1 .. c -> turns]
    BY <2>1 DEF InPlace
  <2>3. \A t \in turns : \E k \in 1 .. c : order[k] = t
    BY <2>0, <2>1, InPlaceIs
  <2> QED BY <2>2, <2>3
<1> HIDE DEF m, buckets, turns, c, robin, misses, rest
<1>9. ASSUME NEW n \in 1 .. m
      PROVE  /\ Len(buckets[n]) \in Nat
             /\ \A k \in 1 .. Len(buckets[n]) :
                   \E i \in Hits(rows, targets, n) : buckets[n][k] = rows[i]
             /\ \A i \in Hits(rows, targets, n) :
                   \E k \in 1 .. Len(buckets[n]) : buckets[n][k] = rows[i]
  <2> DEFINE at == Hits(rows, targets, n)
             b == buckets[n]
  <2>1. at \in SUBSET DOMAIN rows /\ SomeOf(b, rows, at)
    BY <1>2
  <2> HIDE DEF at, b
  <2>2. b \in Seq(T) /\ Len(b) = Cardinality(at) /\ Len(b) \in Nat
    BY <2>1, SomeOfIs
  <2>3. ASSUME NEW k \in 1 .. Len(b) PROVE \E i \in at : b[k] = rows[i]
    BY <2>1, <2>2, TakenFrom
  <2>4. \A i \in at : \E k \in 1 .. Len(b) : b[k] = rows[i]
    BY <2>1, SomeOfIs
  <2> QED BY <2>2, <2>3, <2>4 DEF at, b
<1>10. ASSUME NEW k \in 1 .. c
       PROVE  /\ robin[k] = buckets[order[k][2]][order[k][1]]
              /\ order[k][2] \in 1 .. m /\ order[k][1] \in 1 .. Len(buckets[order[k][2]])
              /\ robin[k] \in T
              /\ \E i \in 1 .. Len(rows) : robin[k] = rows[i]
  <2>1. order[k] \in turns
    BY <1>8
  <2>2. order[k][2] \in 1 .. m /\ order[k][1] \in Nat \ {0} /\ order[k][1] <= Len(buckets[order[k][2]])
    BY <1>3, <2>1
  <2>3. order[k][1] \in 1 .. Len(buckets[order[k][2]])
    BY <1>9, <2>2
  <2>4. robin[k] = buckets[order[k][2]][order[k][1]]
    BY <1>5
  <2> DEFINE n == order[k][2]
             l == order[k][1]
  <2>5. n \in 1 .. m /\ l \in 1 .. Len(buckets[n]) /\ robin[k] = buckets[n][l]
    BY <2>2, <2>3, <2>4
  <2> HIDE DEF n, l
  <2>6. PICK i \in Hits(rows, targets, n) : robin[k] = rows[i]
    <3>1. \A j \in 1 .. Len(buckets[n]) : \E i \in Hits(rows, targets, n) : buckets[n][j] = rows[i]
      BY <1>9, <2>5
    <3> QED BY <2>5, <3>1
  <2>7. i \in 1 .. Len(rows)
    BY <1>1, <1>2, <2>5, <2>6
  <2> QED BY <2>2, <2>3, <2>4, <2>6, <2>7
<1>11. robin \in Seq(T) /\ Len(robin) = c
  <2>1. robin = [k \in 1 .. c |-> robin[k]]
    BY <1>5
  <2>2. robin \in [1 .. c -> T]
    BY <1>10, <2>1
  <2> QED BY <1>4, <2>2
<1>12. /\ all \in Seq(T) /\ Len(all) = c + Len(rest)
       /\ \A k \in 1 .. c : all[k] = robin[k]
       /\ \A k \in 1 .. Len(rest) : all[c + k] = rest[k]
       /\ \A k \in c + 1 .. Len(all) : all[k] = rest[k - c] /\ k - c \in 1 .. Len(rest)
  <2>1. all = robin \o rest
    BY DEF Stratified, robin, rest, misses, buckets
  <2>2. robin \in Seq(T) /\ rest \in Seq(T) /\ Len(robin) = c
    BY <1>7, <1>11
  <2> HIDE DEF all
  <2>3. all \in Seq(T) /\ Len(all) = Len(robin) + Len(rest)
    BY <2>1, <2>2, ConcatIs
  <2>4. \A k \in 1 .. Len(robin) : all[k] = robin[k]
    BY <2>1, <2>2, ConcatIs
  <2>5. \A k \in 1 .. Len(rest) : all[Len(robin) + k] = rest[k]
    BY <2>1, <2>2, ConcatIs
  <2>6. \A k \in Len(robin) + 1 .. Len(all) :
           all[k] = rest[k - Len(robin)] /\ k - Len(robin) \in 1 .. Len(rest)
    BY <2>1, <2>2, ConcatIs
  <2> QED BY <2>2, <2>3, <2>4, <2>5, <2>6
<1> HIDE DEF all
<1>13. ASSUME NEW k \in c + 1 .. Len(all)
       PROVE  \E i \in misses : all[k] = rows[i]
  BY <1>7, <1>12
<1>14. ASSUME NEW k \in 1 .. Len(all)
       PROVE  \E i \in 1 .. Len(rows) : all[k] = rows[i]
  <2>1. CASE k \in 1 .. c
    BY <1>10, <1>12, <2>1
  <2>2. CASE k \in c + 1 .. Len(all)
    BY <1>1, <1>6, <1>13, <2>2
  <2> QED BY <1>4, <1>7, <1>12, <2>1, <2>2
<1>15. ASSUME NEW i \in 1 .. Len(rows)
       PROVE  \E k \in 1 .. Len(all) : all[k] = rows[i]
  <2>1. CASE Bucket(rows[i], targets) = 0
    <3>1. i \in misses
      BY <1>1, <2>1 DEF Misses, misses
    <3>2. PICK k \in 1 .. Len(rest) : rest[k] = rows[i]
      BY <1>7, <3>1
    <3>3. c + k \in 1 .. Len(all)
      BY <1>4, <1>7, <1>12
    <3> QED BY <1>12, <3>2, <3>3
  <2>2. CASE Bucket(rows[i], targets) # 0
    <3> DEFINE n == Bucket(rows[i], targets)
    <3>1. n \in 1 .. m
      BY <1>1, <2>2, BucketIs DEF m
    <3>2. i \in Hits(rows, targets, n)
      BY <1>1, <2>2 DEF Hits
    <3> HIDE DEF n
    <3>3. PICK k \in 1 .. Len(buckets[n]) : buckets[n][k] = rows[i]
      BY <1>9, <3>1, <3>2
    <3>4. <<k, n>> \in turns
      BY <1>3, <1>9, <3>1
    <3>5. PICK l \in 1 .. c : order[l] = <<k, n>>
      BY <1>8, <3>4
    <3>6. robin[l] = rows[i]
      BY <1>10, <3>3, <3>5
    <3>7. l \in 1 .. Len(all)
      BY <1>4, <1>7, <1>12
    <3> QED BY <1>12, <3>6, <3>7
  <2> QED BY <2>1, <2>2
<1>16. ASSUME IsInjective(targets) PROVE Len(all) <= Len(rows)
  <2>1. c + Cardinality(misses) <= Len(rows)
    BY <1>16, HitsAndMisses DEF c, turns, buckets, misses
  <2> QED BY <1>7, <1>12, <2>1
<1>17. \A k \in c + 1 .. Len(all) : Bucket(all[k], targets) = 0
  BY <1>13 DEF misses, Misses
<1>18. c <= Len(all)
  BY <1>4, <1>7, <1>12
<1>19. \A k \in 1 .. c : all[k] = buckets[order[k][2]][order[k][1]]
  BY <1>10, <1>12
<1>20. TakesTurns(order, all, buckets, targets)
  BY <1>4, <1>5, <1>17, <1>18, <1>19 DEF TakesTurns, c, turns
<1> QED BY <1>12, <1>14, <1>15, <1>16, <1>20 DEF all, buckets

LEMMA StratifyIs ==
    ASSUME NEW T, NEW rows \in Seq(T), NEW L, NEW scopes \in Seq(L), NEW max \in Nat
    PROVE  /\ Stratify(rows, scopes, max) \in Seq(T)
           /\ Len(Stratify(rows, scopes, max)) <= max
           /\ \A k \in 1 .. Len(Stratify(rows, scopes, max)) :
                 \E i \in 1 .. Len(rows) : Stratify(rows, scopes, max)[k] = rows[i]
           /\ IsInjective(TargetNames(scopes)) /\ Len(rows) <= max =>
                 \A i \in 1 .. Len(rows) :
                   \E k \in 1 .. Len(Stratify(rows, scopes, max)) :
                     Stratify(rows, scopes, max)[k] = rows[i]
<1> DEFINE targets == TargetNames(scopes)
           all == Stratified(rows, targets)
           result == Stratify(rows, scopes, max)
<1>1. CASE scopes = <<>> \/ rows = <<>>
  <2>1. result = Take(rows, max)
    BY <1>1 DEF Stratify
  <2>2. /\ result \in Seq(T) /\ Len(result) <= max /\ Len(result) <= Len(rows)
        /\ \A k \in 1 .. Len(result) : result[k] = rows[k]
        /\ Len(rows) <= max => result = rows
    <3> HIDE DEF result
    <3>1. Len(rows) \in Nat
      OBVIOUS
    <3> QED BY <2>1, <3>1, TakeIs
  <2> HIDE DEF result
  <2>3. result \in Seq(T) /\ Len(result) \in Nat /\ Len(rows) \in Nat
    BY <2>2
  <2>4. \A k \in 1 .. Len(result) : k \in 1 .. Len(rows)
    BY <2>2, <2>3
  <2> QED BY <2>2, <2>4 DEF result
<1>2. CASE scopes # <<>> /\ rows # <<>>
  <2>1. result = Take(all, max)
    BY <1>2 DEF Stratify, With, Stratified, Misses, Kept
  <2>2. targets \in Seq({StandardName(l) : l \in L})
    BY TargetNamesAre
  <2> HIDE DEF targets, result
  <2>3. /\ all \in Seq(T)
        /\ \A k \in 1 .. Len(all) : \E i \in 1 .. Len(rows) : all[k] = rows[i]
        /\ \A i \in 1 .. Len(rows) : \E k \in 1 .. Len(all) : all[k] = rows[i]
        /\ IsInjective(targets) => Len(all) <= Len(rows)
    <3>1. all \in Seq(T)
      BY <2>2, StratifiedIs
    <3>2. \A k \in 1 .. Len(all) : \E i \in 1 .. Len(rows) : all[k] = rows[i]
      BY <2>2, StratifiedIs
    <3>3. \A i \in 1 .. Len(rows) : \E k \in 1 .. Len(all) : all[k] = rows[i]
      BY <2>2, StratifiedIs
    <3>4. IsInjective(targets) => Len(all) <= Len(rows)
      BY <2>2, StratifiedIs
    <3> QED BY <3>1, <3>2, <3>3, <3>4
  <2> HIDE DEF all
  <2>4. /\ result \in Seq(T) /\ Len(result) <= max /\ Len(result) <= Len(all)
        /\ \A k \in 1 .. Len(result) : result[k] = all[k]
        /\ Len(all) <= max => result = all
    <3>1. Len(all) \in Nat /\ all \in Seq(T)
      BY <2>3
    <3> QED BY <2>1, <3>1, TakeIs
  <2>5. Len(result) \in Nat /\ Len(all) \in Nat /\ Len(rows) \in Nat
    BY <2>3, <2>4
  <2>6. \A k \in 1 .. Len(result) : k \in 1 .. Len(all)
    BY <2>4, <2>5
  <2>7. IsInjective(targets) /\ Len(rows) <= max => result = all
    BY <2>3, <2>4, <2>5
  <2>8. \A k \in 1 .. Len(result) : \E i \in 1 .. Len(rows) : result[k] = rows[i]
    BY <2>3, <2>4, <2>6
  <2>9. IsInjective(targets) /\ Len(rows) <= max =>
           \A i \in 1 .. Len(rows) : \E k \in 1 .. Len(result) : result[k] = rows[i]
    BY <2>3, <2>7
  <2> QED BY <2>4, <2>8, <2>9 DEF targets, result
<1> QED BY <1>1, <1>2

(* The positions of the rows that fall into bucket n. *)
Falling(rows, targets, n) == {k \in DOMAIN rows : Bucket(rows[k], targets) = n}

LEMMA HitsFall ==
    ASSUME NEW T, NEW rows \in Seq(T), NEW U, NEW targets \in Seq(U), IsInjective(targets),
           NEW n \in 1 .. Len(targets)
    PROVE  Hits(rows, targets, n) = Falling(rows, targets, n)
<1>1. DOMAIN targets = 1 .. Len(targets) /\ Len(targets) \in Nat
  OBVIOUS
<1>2. \A i \in DOMAIN rows : Bucket(rows[i], targets) \in 0 .. Len(targets)
  BY BucketIs
<1>3. ASSUME NEW i \in DOMAIN rows
      PROVE  i \in Hits(rows, targets, n) <=> i \in Falling(rows, targets, n)
  <2> DEFINE b == Bucket(rows[i], targets)
  <2>1. b \in 0 .. Len(targets)
    BY <1>2
  <2>2. b # 0 => b \in DOMAIN targets
    BY <1>1, <2>1
  <2>3. b # 0 /\ targets[b] = targets[n] => b = n
    BY <1>1, <2>2 DEF IsInjective
  <2>4. n # 0
    BY <1>1
  <2> QED BY <2>3, <2>4 DEF Hits, Falling
<1> QED BY <1>3 DEF Hits, Falling

(* As many numbers as a set of positive ones has elements, and one more, are not all of them. *)
LEMMA OneIsMissing ==
    ASSUME NEW S, IsFiniteSet(S)
    PROVE  \E a \in 1 .. Cardinality(S) + 1 : a \notin S
<1>1. Cardinality(S) \in Nat
  BY FS_CardinalityType
<1>2. SUFFICES ASSUME (1 .. Cardinality(S) + 1) \subseteq S PROVE FALSE
  OBVIOUS
<1>3. Cardinality(1 .. Cardinality(S) + 1) = Cardinality(S) + 1
  BY <1>1, UpTo
<1>4. Cardinality(1 .. Cardinality(S) + 1) <= Cardinality(S)
  BY <1>2, FS_Subset
<1> QED BY <1>1, <1>3, <1>4

LEMMA OneIsBeyond ==
    ASSUME NEW S \in SUBSET (Nat \ {0}), IsFiniteSet(S), NEW n \in Nat, Cardinality(S) > n
    PROVE  \E b \in S : b > n
<1>1. SUFFICES ASSUME \A b \in S : ~(b > n) PROVE FALSE
  OBVIOUS
<1>2. S \in SUBSET (1 .. n)
  BY <1>1
<1>3. Cardinality(S) <= n
  <2>1. IsFiniteSet(1 .. n) /\ Cardinality(1 .. n) = n
    BY UpTo
  <2>2. Cardinality(S) <= Cardinality(1 .. n)
    BY <1>2, <2>1, FS_Subset
  <2> QED BY <2>1, <2>2
<1> QED BY <1>3, FS_CardinalityType

(* Turns are taken in order: none of a later round before one of an earlier. *)
LEMMA TurnsAscend ==
    ASSUME NEW T, NEW m \in Nat, NEW buckets \in [1 .. m -> Seq(T)],
           NEW order, InTurn(order, buckets)
    PROVE  /\ order \in [1 .. Cardinality(Turns(buckets)) -> Turns(buckets)]
           /\ \A t \in Turns(buckets) : \E k \in 1 .. Cardinality(Turns(buckets)) : order[k] = t
           /\ \A k, l \in 1 .. Cardinality(Turns(buckets)) : order[k] = order[l] => k = l
           /\ \A k, l \in 1 .. Cardinality(Turns(buckets)) : order[k][1] < order[l][1] => k <= l
<1> DEFINE turns == Turns(buckets)
           R == TurnOrder(turns)
<1>1. IsFiniteSet(turns) /\ IsOrder(turns, R)
  BY TurnsAre
<1>2. InPlace(order, turns, R)
  BY DEF InTurn
<1>3. order \in [1 .. Cardinality(turns) -> turns]
  BY <1>2 DEF InPlace
<1> HIDE DEF turns
<1>4. /\ \A t \in turns : \E k \in 1 .. Cardinality(turns) : order[k] = t
      /\ \A k, l \in 1 .. Cardinality(turns) : k <= l <=> <<order[k], order[l]>> \in R
      /\ \A k, l \in 1 .. Cardinality(turns) : order[k] = order[l] => k = l
  <2> HIDE DEF R
  <2> QED BY <1>1, <1>2, InPlaceIs
<1>5. ASSUME NEW k \in 1 .. Cardinality(turns), NEW l \in 1 .. Cardinality(turns),
             order[k][1] < order[l][1]
      PROVE  k <= l
  <2>1. order[k] \in turns /\ order[l] \in turns
    BY <1>3
  <2>2. <<order[k], order[l]>> \in R
    BY <1>5, <2>1 DEF TurnOrder
  <2> QED BY <1>4, <2>2
<1> QED BY <1>3, <1>4, <1>5 DEF turns

LEMMA StratifyBalances ==
    ASSUME NEW T, NEW rows \in Seq(T), NEW L, NEW scopes \in Seq(L), NEW max \in Nat,
           IsInjective(TargetNames(scopes)),
           NEW i \in 1 .. Len(scopes), NEW j \in 1 .. Len(scopes),
           Cardinality(Falling(Stratify(rows, scopes, max), TargetNames(scopes), i))
             > Cardinality(Falling(Stratify(rows, scopes, max), TargetNames(scopes), j)) + 1
    PROVE  Cardinality(Falling(Stratify(rows, scopes, max), TargetNames(scopes), j))
             = Cardinality(Falling(rows, TargetNames(scopes), j))
<1> DEFINE targets == TargetNames(scopes)
           m == Len(targets)
           buckets == Buckets(rows, targets)
           turns == Turns(buckets)
           c == Cardinality(turns)
           all == Stratified(rows, targets)
           answer == Stratify(rows, scopes, max)
           n == Len(answer)
           Fall(k) == Falling(answer, targets, k)
<1>1. /\ targets \in Seq({StandardName(l) : l \in L}) /\ m = Len(scopes) /\ m \in Nat
      /\ IsInjective(targets)
  <2>1. targets \in Seq({StandardName(l) : l \in L}) /\ m = Len(scopes)
    BY TargetNamesAre
  <2>2. IsInjective(targets) /\ Len(scopes) \in Nat
    OBVIOUS
  <2> QED BY <2>1, <2>2
<1> HIDE DEF targets
<1>2. answer \in Seq(T) /\ n \in Nat /\ DOMAIN answer = 1 .. n
  <2>1. answer \in Seq(T)
    BY StratifyIs
  <2> HIDE DEF answer
  <2> QED BY <2>1
<1>3. ASSUME NEW k PROVE IsFiniteSet(Fall(k)) /\ Cardinality(Fall(k)) \in Nat
  <2>1. IsFiniteSet(1 .. n) /\ Fall(k) \in SUBSET (1 .. n)
    BY <1>2, UpTo DEF Falling
  <2>2. IsFiniteSet(Fall(k))
    BY <2>1, FS_Subset
  <2> QED BY <2>2, FS_CardinalityType
<1>4. scopes # <<>> /\ rows # <<>>
  <2>1. scopes # <<>>
    OBVIOUS
  <2>2. ASSUME rows = <<>> PROVE FALSE
    <3>1. \A k \in 1 .. n : \E l \in 1 .. Len(rows) : answer[k] = rows[l]
      BY StratifyIs
    <3>2. Len(rows) = 0
      BY <2>2
    <3>3. Fall(i) = {}
      BY <1>2, <3>1, <3>2 DEF Falling
    <3>4. Cardinality(Fall(i)) = 0
      BY <3>3, FS_EmptySet
    <3> QED BY <1>3, <3>4 DEF targets
  <2> QED BY <2>1, <2>2
<1>5. answer = Take(all, max)
  BY <1>4 DEF Stratify, With, Stratified, Misses, Kept, targets
<1>6. buckets \in [1 .. m -> Seq(T)]
  BY <1>1, BucketsAre
<1>7. /\ IsFiniteSet(turns)
      /\ turns = {t \in (Nat \ {0}) \X (1 .. m) : t[1] <= Len(buckets[t[2]])}
      /\ IsOrder(turns, TurnOrder(turns))
  BY <1>1, <1>6, TurnsAre
<1>8. PICK order :
        /\ InTurn(order, buckets)
        /\ c \in Nat /\ c <= Len(all)
        /\ \A k \in 1 .. c : all[k] = buckets[order[k][2]][order[k][1]]
        /\ \A k \in c + 1 .. Len(all) : Bucket(all[k], targets) = 0
  <2>1. \E order : TakesTurns(order, all, buckets, targets)
    BY <1>1, StratifiedIs
  <2> HIDE DEF buckets, all
  <2> QED BY <2>1 DEF TakesTurns
<1>9. /\ order \in [1 .. c -> turns]
      /\ \A t \in turns : \E k \in 1 .. c : order[k] = t
      /\ \A k, l \in 1 .. c : order[k] = order[l] => k = l
      /\ \A k, l \in 1 .. c : order[k][1] < order[l][1] => k <= l
  BY <1>1, <1>6, <1>8, TurnsAscend
<1>10. all \in Seq(T)
  BY <1>1, StratifiedIs
<1> HIDE DEF m, all, answer, buckets, turns, c
<1>11. /\ n <= Len(all) /\ Len(all) \in Nat
       /\ \A k \in 1 .. n : answer[k] = all[k]
  <2>1. Len(all) \in Nat
    BY <1>10
  <2> QED BY <1>5, <1>10, <2>1, TakeIs
<1> HIDE DEF n
<1>12. ASSUME NEW k \in 1 .. m
       PROVE  /\ Len(buckets[k]) = Cardinality(Falling(rows, targets, k)) /\ Len(buckets[k]) \in Nat
              /\ \A l \in 1 .. Len(buckets[k]) : Bucket(buckets[k][l], targets) = k
  <2>1. Hits(rows, targets, k) = Falling(rows, targets, k)
    BY <1>1, HitsFall DEF m
  <2>2. Falling(rows, targets, k) \in SUBSET DOMAIN rows
    BY DEF Falling
  <2>3. SomeOf(buckets[k], rows, Falling(rows, targets, k))
    BY <1>1, <2>1, BucketsAre DEF m, buckets
  <2>4. Len(buckets[k]) = Cardinality(Falling(rows, targets, k)) /\ Len(buckets[k]) \in Nat
    BY <2>2, <2>3, SomeOfIs
  <2>5. ASSUME NEW l \in 1 .. Len(buckets[k])
        PROVE  \E p \in Falling(rows, targets, k) : buckets[k][l] = rows[p]
    <3> DEFINE b == buckets[k]
               at == Falling(rows, targets, k)
    <3>1. SomeOf(b, rows, at) /\ Len(b) = Cardinality(at) /\ l \in 1 .. Len(b)
      BY <2>3, <2>4
    <3> HIDE DEF b, at
    <3>2. \E p \in at : b[l] = rows[p]
      BY <3>1, TakenFrom
    <3> QED BY <3>2 DEF b, at
  <2> QED BY <2>4, <2>5 DEF Falling
<1>13. ASSUME NEW k \in 1 .. c
       PROVE  /\ order[k][2] \in 1 .. m /\ order[k][1] \in Nat \ {0}
              /\ order[k][1] \in 1 .. Len(buckets[order[k][2]])
              /\ order[k] = <<order[k][1], order[k][2]>>
              /\ Bucket(all[k], targets) = order[k][2]
  <2>1. order[k] \in turns
    BY <1>9
  <2>2. /\ order[k][2] \in 1 .. m /\ order[k][1] \in Nat \ {0}
        /\ order[k][1] <= Len(buckets[order[k][2]])
        /\ order[k] = <<order[k][1], order[k][2]>>
    BY <1>7, <2>1
  <2>3. order[k][1] \in 1 .. Len(buckets[order[k][2]])
    BY <1>12, <2>2
  <2>4. Bucket(buckets[order[k][2]][order[k][1]], targets) = order[k][2]
    BY <1>12, <2>2, <2>3
  <2>5. all[k] = buckets[order[k][2]][order[k][1]]
    BY <1>8
  <2> QED BY <2>2, <2>3, <2>4, <2>5
(* A row of the answer in bucket k is that of a turn of k. *)
<1>14. ASSUME NEW k \in 1 .. m, NEW l
       PROVE  l \in Fall(k) <=> l \in 1 .. n /\ l \in 1 .. c /\ order[l][2] = k
  <2>1. l \in Fall(k) <=> l \in 1 .. n /\ Bucket(answer[l], targets) = k
    BY <1>2 DEF Falling
  <2>2. k # 0
    BY <1>1
  <2>3. CASE l \in 1 .. n /\ l \in 1 .. c
    BY <1>11, <1>13, <2>1, <2>3
  <2>4. CASE l \in 1 .. n /\ l \notin 1 .. c
    <3>1. l \in c + 1 .. Len(all)
      BY <1>2, <1>8, <1>11, <2>4
    <3>2. Bucket(answer[l], targets) = 0
      BY <1>8, <1>11, <2>4, <3>1
    <3> QED BY <2>1, <2>2, <2>4, <3>2
  <2> QED BY <2>1, <2>3, <2>4
<1> HIDE DEF Fall
(* The rounds in which k had a turn. *)
<1> DEFINE Rounds(k) == {order[l][1] : l \in Fall(k)}
<1>15. ASSUME NEW k \in 1 .. m
       PROVE  /\ IsFiniteSet(Rounds(k)) /\ Cardinality(Rounds(k)) = Cardinality(Fall(k))
              /\ Rounds(k) \in SUBSET (1 .. Len(buckets[k]))
  <2> DEFINE f == [l \in Fall(k) |-> order[l][1]]
             D == Fall(k)
             S == Rounds(k)
  <2>1. ASSUME NEW l \in D
        PROVE  l \in 1 .. c /\ order[l] = <<order[l][1], k>> /\ order[l][1] \in 1 .. Len(buckets[k])
    BY <1>13, <1>14
  <2>2. f \in Surjection(D, S)
    BY DEF Surjection
  <2>3. ASSUME NEW l \in D, NEW r \in D, f[l] = f[r] PROVE l = r
    BY <1>9, <2>1, <2>3
  <2>4. IsFiniteSet(D)
    BY <1>3
  <2>5. S \in SUBSET (1 .. Len(buckets[k]))
    BY <2>1
  <2> HIDE DEF f, D, S
  <2>6. f \in Injection(D, S)
    BY <2>2, <2>3 DEF Injection, Surjection, IsInjective
  <2>7. IsFiniteSet(S) /\ Cardinality(S) = Cardinality(D)
    BY <2>2, <2>4, <2>6, FS_Surjection
  <2> QED BY <2>5, <2>7 DEF D, S
<1>16. i \in 1 .. m /\ j \in 1 .. m
  BY <1>1
<1>17. Cardinality(Fall(i)) > Cardinality(Fall(j)) + 1
  BY DEF Fall, answer, targets
<1>18. Cardinality(Fall(i)) \in Nat /\ Cardinality(Fall(j)) \in Nat /\ Len(buckets[j]) \in Nat
  BY <1>3, <1>12, <1>16
<1> HIDE DEF Rounds
<1>19. Cardinality(Fall(j)) <= Len(buckets[j])
  <2>1. IsFiniteSet(1 .. Len(buckets[j])) /\ Cardinality(1 .. Len(buckets[j])) = Len(buckets[j])
    BY <1>18, UpTo
  <2> QED BY <1>15, <1>16, <2>1, FS_Subset
<1>20. ASSUME Cardinality(Fall(j)) # Len(buckets[j]) PROVE FALSE
  <2>1. PICK a \in 1 .. Cardinality(Fall(j)) + 1 : a \notin Rounds(j)
    BY <1>15, <1>16, OneIsMissing
  <2>2. a \in Nat \ {0} /\ a <= Len(buckets[j])
    BY <1>18, <1>19, <1>20
  <2>3. <<a, j>> \in turns
    BY <1>7, <1>16, <2>2
  <2>4. PICK l \in 1 .. c : order[l] = <<a, j>>
    BY <1>9, <2>3
  <2>5. l \notin Fall(j)
    BY <2>1, <2>4 DEF Rounds
  <2>6. l \notin 1 .. n
    BY <1>14, <1>16, <2>4, <2>5
  <2>7. PICK b \in Rounds(i) : b > Cardinality(Fall(j)) + 1
    <3>1. Rounds(i) \in SUBSET (Nat \ {0})
      BY <1>12, <1>15, <1>16
    <3>2. Cardinality(Fall(j)) + 1 \in Nat /\ Cardinality(Rounds(i)) > Cardinality(Fall(j)) + 1
      BY <1>15, <1>16, <1>17, <1>18
    <3> QED BY <1>15, <1>16, <3>1, <3>2, OneIsBeyond
  <2>8. PICK k \in Fall(i) : order[k][1] = b
    BY DEF Rounds
  <2>9. k \in 1 .. n /\ k \in 1 .. c
    BY <1>14, <1>16
  <2>10. order[l][1] < order[k][1]
    <3>1. order[k][1] \in Nat
      BY <1>13, <2>9
    <3> QED BY <1>18, <2>4, <2>7, <2>8, <3>1
  <2>11. l <= k
    BY <1>9, <2>9, <2>10
  <2> QED BY <1>2, <1>8, <2>6, <2>9, <2>11
<1>21. Cardinality(Fall(j)) = Cardinality(Falling(rows, targets, j))
  BY <1>12, <1>16, <1>20
<1> QED BY <1>21 DEF Fall, answer, targets

-----------------------------------------------------------------------------
(* fuse_late_results.                                                      *)

EachOnce(rows) == \A i, j \in DOMAIN rows : rows[i].id = rows[j].id => i = j

LEMMA IdsAre ==
    ASSUME NEW T, NEW rows \in Seq(T), NEW x
    PROVE  x \in Ids(rows) <=> \E i \in 1 .. Len(rows) : rows[i].id = x
BY DEF Ids

LEMMA FirstByIdIs ==
    ASSUME NEW T, NEW rows \in Seq(T)
    PROVE  /\ FirstById(rows) \in Seq(T)
           /\ EachOnce(FirstById(rows))
           /\ Ids(FirstById(rows)) = Ids(rows)
<1> DEFINE at == {i \in DOMAIN rows : \A j \in 1 .. (i - 1) : rows[j].id # rows[i].id}
           firsts == FirstById(rows)
<1>1. firsts = Picked(rows, at)
  BY DEF FirstById, FirstBy, With
<1>2. DOMAIN rows = 1 .. Len(rows) /\ Len(rows) \in Nat /\ at \in SUBSET DOMAIN rows
  OBVIOUS
<1>3. SomeOf(firsts, rows, at)
  BY <1>1, <1>2, PickedSome
<1>4. \A i, j \in at : rows[i].id = rows[j].id => i = j
  <2>1. SUFFICES ASSUME NEW i \in at, NEW j \in at, rows[i].id = rows[j].id, i < j PROVE FALSE
    BY <1>2
  <2>2. i \in 1 .. (j - 1)
    BY <1>2, <2>1
  <2> QED BY <2>1, <2>2
<1>5. ASSUME NEW i \in DOMAIN rows PROVE \E j \in at : rows[j].id = rows[i].id
  <2> DEFINE S == {j \in DOMAIN rows : rows[j].id = rows[i].id}
  <2>1. S # {} /\ S \in SUBSET Int
    BY <1>2
  <2>2. IsFiniteSet(S)
    <3>1. IsFiniteSet(DOMAIN rows) /\ S \in SUBSET DOMAIN rows
      BY <1>2, UpTo
    <3> QED BY <3>1, FS_Subset
  <2>3. Min(S) \in S /\ \A y \in S : Min(S) <= y
    <3> HIDE DEF S
    <3> QED BY <2>1, <2>2, LeastAndGreatest
  <2> DEFINE j == Min(S)
  <2> HIDE DEF j
  <2>4. j \in DOMAIN rows /\ rows[j].id = rows[i].id
    BY <2>3 DEF j
  <2>5. ASSUME NEW l \in 1 .. (j - 1), rows[l].id = rows[j].id PROVE FALSE
    <3>1. l \in DOMAIN rows /\ ~(j <= l)
      BY <1>2, <2>4
    <3>2. l \in S
      BY <2>4, <2>5, <3>1
    <3> QED BY <2>3, <3>1, <3>2 DEF j
  <2>6. j \in at
    BY <2>4, <2>5
  <2> QED BY <2>4, <2>6
<1> HIDE DEF at, firsts
<1>6. PICK order \in [1 .. Cardinality(at) -> at] :
        /\ \A k, l \in 1 .. Cardinality(at) : order[k] = order[l] => k = l
        /\ \A i \in at : \E k \in 1 .. Cardinality(at) : order[k] = i
        /\ firsts = [k \in 1 .. Cardinality(at) |-> rows[order[k]]]
  BY <1>3 DEF SomeOf
<1>7. firsts \in Seq(T) /\ Len(firsts) = Cardinality(at) /\ Len(firsts) \in Nat
  BY <1>2, <1>3, SomeOfIs
<1>8. EachOnce(firsts)
  BY <1>4, <1>6 DEF EachOnce
<1>9. ASSUME NEW x PROVE x \in Ids(firsts) <=> x \in Ids(rows)
  <2>1. x \in Ids(firsts) <=> \E k \in 1 .. Len(firsts) : firsts[k].id = x
    BY <1>7, IdsAre
  <2>2. x \in Ids(rows) <=> \E i \in 1 .. Len(rows) : rows[i].id = x
    BY IdsAre
  <2>3. ASSUME NEW k \in 1 .. Len(firsts) PROVE \E i \in 1 .. Len(rows) : rows[i].id = firsts[k].id
    <3>1. order[k] \in 1 .. Len(rows) /\ firsts[k] = rows[order[k]]
      BY <1>2, <1>6, <1>7
    <3> QED BY <3>1
  <2>4. ASSUME NEW i \in 1 .. Len(rows) PROVE \E k \in 1 .. Len(firsts) : firsts[k].id = rows[i].id
    <3>1. PICK j \in at : rows[j].id = rows[i].id
      BY <1>2, <1>5
    <3>2. PICK k \in 1 .. Cardinality(at) : order[k] = j
      BY <1>6
    <3> QED BY <1>6, <1>7, <3>1, <3>2
  <2> QED BY <2>1, <2>2, <2>3, <2>4
<1> QED BY <1>7, <1>8, <1>9 DEF firsts

LEMMA AddedIs ==
    ASSUME NEW T, NEW merged \in Seq(T), EachOnce(merged), NEW source \in Seq(T), NEW limit \in Nat
    PROVE  /\ Added(merged, source, limit) \in Seq(T)
           /\ EachOnce(Added(merged, source, limit))
           /\ Ids(merged) \subseteq Ids(Added(merged, source, limit))
           /\ Len(merged) <= Len(Added(merged, source, limit))
           /\ Len(Added(merged, source, limit)) < Len(merged) + limit
                => Ids(source) \subseteq Ids(Added(merged, source, limit))
<1> DEFINE firsts == FirstById(source)
           at == {i \in DOMAIN firsts : firsts[i].id \notin Ids(merged)}
           fresh == Picked(firsts, at)
           taken == Take(fresh, limit)
           result == Added(merged, source, limit)
<1>1. result = merged \o taken
  BY DEF Added, With, Kept
<1>2. firsts \in Seq(T) /\ EachOnce(firsts) /\ Ids(firsts) = Ids(source)
  BY FirstByIdIs
<1> HIDE DEF firsts
<1>3. at \in SUBSET DOMAIN firsts
  OBVIOUS
<1>4. SomeOf(fresh, firsts, at)
  BY <1>2, <1>3, PickedSome
<1> HIDE DEF fresh
<1>5. PICK order \in [1 .. Cardinality(at) -> at] :
        /\ \A k, l \in 1 .. Cardinality(at) : order[k] = order[l] => k = l
        /\ \A i \in at : \E k \in 1 .. Cardinality(at) : order[k] = i
        /\ fresh = [k \in 1 .. Cardinality(at) |-> firsts[order[k]]]
  BY <1>4 DEF SomeOf
<1>6. fresh \in Seq(T) /\ Len(fresh) = Cardinality(at) /\ Len(fresh) \in Nat
  BY <1>2, <1>3, <1>4, SomeOfIs
<1>7. EachOnce(fresh) /\ \A k \in 1 .. Len(fresh) : fresh[k].id \notin Ids(merged)
  <2>1. \A k \in 1 .. Cardinality(at) :
           /\ order[k] \in DOMAIN firsts /\ firsts[order[k]].id \notin Ids(merged)
           /\ fresh[k] = firsts[order[k]]
    BY <1>5
  <2>2. DOMAIN fresh = 1 .. Cardinality(at)
    BY <1>5
  <2> HIDE DEF at
  <2>3. EachOnce(fresh)
    BY <1>2, <1>5, <2>1, <2>2 DEF EachOnce
  <2> QED BY <1>6, <2>1, <2>3
<1>8. /\ taken \in Seq(T) /\ Len(taken) \in Nat
      /\ Len(taken) = IF limit < Len(fresh) THEN limit ELSE Len(fresh)
      /\ \A i \in 1 .. Len(taken) : taken[i] = fresh[i] /\ i \in 1 .. Len(fresh)
  <2> DEFINE n == Len(fresh)
  <2>1. n \in Nat
    BY <1>6
  <2>2. taken \in Seq(T)
    BY <1>6, TakeIs
  <2>3. Len(taken) = IF limit < n THEN limit ELSE n
    BY <1>6, TakeIs
  <2>4. \A i \in 1 .. Len(taken) : taken[i] = fresh[i]
    BY <1>6, TakeIs
  <2> HIDE DEF n, taken
  <2>5. Len(taken) \in Nat /\ Len(taken) <= n
    BY <2>1, <2>3
  <2>6. \A i \in 1 .. Len(taken) : i \in 1 .. n
    BY <2>1, <2>5
  <2> QED BY <2>2, <2>3, <2>4, <2>5, <2>6 DEF n
<1> DEFINE m == Len(merged)
<1>9. m \in Nat /\ DOMAIN merged = 1 .. m
  OBVIOUS
<1> HIDE DEF taken, result, m
<1>10. /\ result \in Seq(T) /\ Len(result) = m + Len(taken)
       /\ \A k \in 1 .. m : result[k] = merged[k]
       /\ \A k \in 1 .. Len(taken) : result[m + k] = taken[k]
       /\ \A k \in m + 1 .. Len(result) : result[k] = taken[k - m] /\ k - m \in 1 .. Len(taken)
  <2>1. result \in Seq(T) /\ Len(result) = m + Len(taken)
    BY <1>1, <1>8, ConcatIs DEF m
  <2>2. \A k \in 1 .. m : result[k] = merged[k]
    BY <1>1, <1>8, ConcatIs DEF m
  <2>3. \A k \in 1 .. Len(taken) : result[m + k] = taken[k]
    BY <1>1, <1>8, ConcatIs DEF m
  <2>4. \A k \in m + 1 .. Len(result) : result[k] = taken[k - m] /\ k - m \in 1 .. Len(taken)
    BY <1>1, <1>8, ConcatIs DEF m
  <2> QED BY <2>1, <2>2, <2>3, <2>4
<1>11. DOMAIN result = 1 .. Len(result) /\ DOMAIN fresh = 1 .. Len(fresh)
  BY <1>6, <1>10
<1>12. ASSUME NEW k \in 1 .. Len(result), k \notin 1 .. m
       PROVE  /\ k - m \in 1 .. Len(fresh) /\ result[k] = fresh[k - m]
              /\ result[k].id \notin Ids(merged)
  <2>1. k \in m + 1 .. Len(result)
    BY <1>8, <1>9, <1>10, <1>12
  <2> DEFINE l == k - m
  <2>2. result[k] = taken[l] /\ l \in 1 .. Len(taken)
    BY <1>10, <2>1
  <2> HIDE DEF l
  <2>3. taken[l] = fresh[l] /\ l \in 1 .. Len(fresh)
    BY <1>8, <2>2
  <2>4. fresh[l].id \notin Ids(merged)
    BY <1>7, <2>3
  <2> QED BY <2>2, <2>3, <2>4 DEF l
<1>13. ASSUME NEW k \in 1 .. m PROVE result[k] = merged[k] /\ result[k].id \in Ids(merged)
  BY <1>10 DEF Ids, m
<1>14. EachOnce(result)
  <2>1. SUFFICES ASSUME NEW k \in 1 .. Len(result), NEW l \in 1 .. Len(result),
                        result[k].id = result[l].id
                 PROVE  k = l
    BY <1>11 DEF EachOnce
  <2>2. CASE k \in 1 .. m /\ l \in 1 .. m
    BY <1>9, <1>13, <2>1, <2>2 DEF EachOnce
  <2>3. CASE k \notin 1 .. m /\ l \notin 1 .. m
    <3>1. k - m = l - m
      BY <1>7, <1>11, <1>12, <2>1, <2>3 DEF EachOnce
    <3> QED BY <1>8, <1>9, <1>10, <3>1
  <2> QED BY <1>12, <1>13, <2>1, <2>2, <2>3
<1>15. Ids(merged) \subseteq Ids(result)
  <2>1. \A k \in 1 .. m : k \in 1 .. Len(result)
    BY <1>8, <1>9, <1>10
  <2> QED BY <1>10, <2>1 DEF Ids, m
<1>16. ASSUME Len(result) < m + limit, NEW x \in Ids(source) PROVE x \in Ids(result)
  <2>1. Len(taken) = Len(fresh)
    BY <1>6, <1>8, <1>9, <1>10, <1>16
  <2>2. PICK i \in 1 .. Len(firsts) : firsts[i].id = x
    BY <1>2, <1>16 DEF Ids
  <2>3. CASE x \in Ids(merged)
    BY <1>15, <2>3
  <2>4. CASE x \notin Ids(merged)
    <3>1. i \in at
      BY <1>2, <2>2, <2>4
    <3>2. PICK k \in 1 .. Len(fresh) : fresh[k] = firsts[i]
      BY <1>5, <1>6, <3>1
    <3>3. m + k \in 1 .. Len(result)
      BY <1>6, <1>9, <1>10, <2>1, <3>2
    <3>4. k \in 1 .. Len(taken)
      BY <2>1, <3>2
    <3>5. result[m + k] = firsts[i]
      BY <1>8, <1>10, <3>2, <3>4
    <3> QED BY <2>2, <3>3, <3>5 DEF Ids
  <2> QED BY <2>3, <2>4
<1>17. m <= Len(result)
  BY <1>8, <1>9, <1>10
<1> QED BY <1>10, <1>14, <1>15, <1>16, <1>17 DEF result, m

(* The late fusion returns every chunk once, as many as were asked for or all there are,    *)
(* whatever the quotas of the sources and however their rows overlap: no place is left      *)
(* empty because a source had less than its quota, or because two returned the same row.    *)
THEOREM FusionFills ==
    ASSUME NEW T, NEW chunks \in Seq(T), NEW graph \in Seq(T), NEW raptor \in Seq(T),
           NEW k \in Nat, NEW quota,
           quota.chunks \in Nat, quota.graph \in Nat, quota.raptor \in Nat
    PROVE  LET fused == FuseLate(chunks, graph, raptor, k, quota)
           IN  /\ fused \in Seq(T) /\ EachOnce(fused) /\ Len(fused) <= k
               /\ Len(fused) < k => Ids(chunks) \cup Ids(graph) \cup Ids(raptor) \subseteq Ids(fused)
<1> DEFINE room(m) == IF k > Len(m) THEN k - Len(m) ELSE 0
           a == Added(<<>>, chunks, quota.chunks)
           b == Added(a, graph, quota.graph)
           c == Added(b, raptor, quota.raptor)
           d == Added(c, chunks, room(c))
           e == Added(d, graph, room(d))
           f == Added(e, raptor, room(e))
           fused == FuseLate(chunks, graph, raptor, k, quota)
<1>1. fused = Take(f, k)
  BY DEF FuseLate
<1>2. ASSUME NEW m \in Seq(T)
      PROVE  room(m) \in Nat /\ Len(m) + room(m) >= k /\ Len(m) \in Nat
  <2> DEFINE n == Len(m)
  <2>1. n \in Nat
    OBVIOUS
  <2> HIDE DEF n
  <2>2. (IF k > n THEN k - n ELSE 0) \in Nat /\ n + (IF k > n THEN k - n ELSE 0) >= k
    BY <2>1
  <2> QED BY <2>1, <2>2 DEF n
<1> HIDE DEF a, b, c, d, e, f, fused, room
<1>3. <<>> \in Seq(T) /\ EachOnce(<<>>)
  BY DEF EachOnce
<1>4. a \in Seq(T) /\ EachOnce(a)
  BY <1>3, AddedIs DEF a
<1>5. b \in Seq(T) /\ EachOnce(b)
  BY <1>4, AddedIs DEF b
<1>6. c \in Seq(T) /\ EachOnce(c)
  BY <1>5, AddedIs DEF c
<1>7. /\ d \in Seq(T) /\ EachOnce(d)
      /\ Len(d) < Len(c) + room(c) => Ids(chunks) \subseteq Ids(d)
  BY <1>2, <1>6, AddedIs DEF d
<1>8. /\ e \in Seq(T) /\ EachOnce(e) /\ Ids(d) \subseteq Ids(e)
      /\ Len(e) < Len(d) + room(d) => Ids(graph) \subseteq Ids(e)
  BY <1>2, <1>7, AddedIs DEF e
<1>9. /\ f \in Seq(T) /\ EachOnce(f) /\ Ids(e) \subseteq Ids(f)
      /\ Len(f) < Len(e) + room(e) => Ids(raptor) \subseteq Ids(f)
  BY <1>2, <1>8, AddedIs DEF f
<1>10. Len(d) <= Len(e) /\ Len(e) <= Len(f)
  BY <1>2, <1>7, <1>8, AddedIs DEF e, f
<1>11. Len(f) < k => Ids(chunks) \cup Ids(graph) \cup Ids(raptor) \subseteq Ids(f)
  <2>1. SUFFICES ASSUME Len(f) < k PROVE Ids(chunks) \cup Ids(graph) \cup Ids(raptor) \subseteq Ids(f)
    OBVIOUS
  <2>2. Len(e) < k /\ Len(d) < k
    <3>1. Len(d) \in Nat /\ Len(e) \in Nat /\ Len(f) \in Nat
      BY <1>7, <1>8, <1>9
    <3> QED BY <1>10, <2>1, <3>1
  <2>3. Ids(chunks) \subseteq Ids(d)
    <3>1. Len(d) < Len(c) + room(c)
      <4>1. room(c) \in Nat /\ Len(c) + room(c) >= k /\ Len(c) \in Nat /\ Len(d) \in Nat
        BY <1>2, <1>6, <1>7
      <4> QED BY <2>2, <4>1
    <3> QED BY <1>7, <3>1
  <2>4. Ids(graph) \subseteq Ids(e)
    <3>1. Len(e) < Len(d) + room(d)
      <4>1. room(d) \in Nat /\ Len(d) + room(d) >= k /\ Len(d) \in Nat /\ Len(e) \in Nat
        BY <1>2, <1>7, <1>8
      <4> QED BY <2>2, <4>1
    <3> QED BY <1>8, <3>1
  <2>5. Ids(raptor) \subseteq Ids(f)
    <3>1. Len(f) < Len(e) + room(e)
      BY <1>2, <1>8, <2>1
    <3> QED BY <1>9, <3>1
  <2>6. Ids(d) \subseteq Ids(e) /\ Ids(e) \subseteq Ids(f)
    BY <1>8, <1>9
  <2> QED BY <2>3, <2>4, <2>5, <2>6
<1>12. /\ fused \in Seq(T) /\ Len(fused) = (IF k < Len(f) THEN k ELSE Len(f))
       /\ \A i \in 1 .. Len(fused) : fused[i] = f[i]
       /\ Len(f) <= k => fused = f
  BY <1>1, <1>9, TakeIs
<1>13. Len(fused) <= k /\ Len(fused) <= Len(f) /\ Len(f) \in Nat /\ Len(fused) \in Nat
  <2> DEFINE m == Len(f)
             n == Len(fused)
  <2>1. m \in Nat /\ n = (IF k < m THEN k ELSE m)
    BY <1>9, <1>12
  <2> HIDE DEF m, n
  <2>2. n <= k /\ n <= m /\ n \in Nat
    BY <2>1
  <2> QED BY <2>1, <2>2 DEF m, n
<1>14. EachOnce(fused)
  <2>1. DOMAIN fused = 1 .. Len(fused) /\ DOMAIN f = 1 .. Len(f)
    BY <1>9, <1>12
  <2>2. \A i \in 1 .. Len(fused) : i \in 1 .. Len(f)
    BY <1>13
  <2> QED BY <1>9, <1>12, <2>1, <2>2 DEF EachOnce
<1>15. Len(fused) < k => fused = f
  BY <1>12, <1>13
<1> QED BY <1>11, <1>12, <1>13, <1>14, <1>15 DEF fused

-----------------------------------------------------------------------------
(* Concatenating sequences of rows.                                        *)

LEMMA LeastOf ==
    ASSUME NEW n \in Nat, NEW S \in SUBSET (1 .. n), S # {}
    PROVE  \E k \in S : \A l \in S : k <= l
<1>1. IsFiniteSet(1 .. n)
  BY UpTo
<1>2. IsFiniteSet(S)
  BY <1>1, FS_Subset
<1>3. S \in SUBSET Int
  OBVIOUS
<1> QED BY <1>2, <1>3, LeastAndGreatest

(* FlattenSeq is a recursive function: that there is one, and what its values are, is shown *)
(* by the least index at which either would fail.                                           *)
LEMMA FlattenIs ==
    ASSUME NEW T, NEW s \in Seq(Seq(T))
    PROVE  FlattenSeq(s) \in Seq(T)
<1> DEFINE n == Len(s)
           next(g, i) == IF i = 1 THEN s[i] ELSE g[i - 1] \o s[i]
           Upto(g, k) == g = [i \in 1 .. k |-> next(g, i)]
           Typed(g, k) == \A i \in 1 .. k : g[i] \in Seq(T)
<1>1. n \in Nat /\ \A i \in 1 .. n : s[i] \in Seq(T)
  OBVIOUS
<1>2. CASE n = 0
  <2>1. s = <<>> /\ FlattenSeq(s) = s
    BY <1>2 DEF FlattenSeq
  <2>2. <<>> \in Seq(T)
    OBVIOUS
  <2> QED BY <2>1, <2>2, Zenon
<1>3. CASE n # 0
  <2>1. ASSUME NEW k \in 1 .. n, NEW g, Upto(g, k) PROVE Typed(g, k)
    <3> DEFINE Bad == {i \in 1 .. k : g[i] \notin Seq(T)}
    <3>1. SUFFICES ASSUME Bad # {} PROVE FALSE
      OBVIOUS
    <3>2. k \in Nat /\ Bad \in SUBSET (1 .. k)
      BY <1>1
    <3>3. PICK i \in Bad : \A l \in Bad : i <= l
      BY <3>1, <3>2, LeastOf
    <3>4. i \in 1 .. k /\ g[i] \notin Seq(T) /\ s[i] \in Seq(T)
      BY <1>1
    <3>5. g[i] = next(g, i)
      BY <2>1, <3>4
    <3>6. CASE i = 1
      BY <3>4, <3>5, <3>6
    <3>7. CASE i # 1
      <4>1. i - 1 \in 1 .. k /\ ~(i <= i - 1)
        BY <3>2, <3>4, <3>7
      <4>2. g[i - 1] \in Seq(T)
        BY <3>3, <4>1
      <4>3. g[i - 1] \o s[i] \in Seq(T)
        BY <3>4, <4>2, ConcatIs
      <4> QED BY <3>4, <3>5, <3>7, <4>3
    <3> QED BY <3>6, <3>7
  <2>2. \A k \in 1 .. n : \E g : Upto(g, k)
    <3> DEFINE Bad == {k \in 1 .. n : ~\E g : Upto(g, k)}
    <3>1. SUFFICES ASSUME Bad # {} PROVE FALSE
      OBVIOUS
    <3>2. PICK k \in Bad : \A l \in Bad : k <= l
      BY <1>1, <3>1, LeastOf
    <3>3. k \in 1 .. n /\ ~\E g : Upto(g, k)
      OBVIOUS
    <3>4. CASE k = 1
      <4> DEFINE g == [i \in 1 .. 1 |-> s[1]]
      <4>1. Upto(g, 1)
        OBVIOUS
      <4> QED BY <3>3, <3>4, <4>1
    <3>5. CASE k # 1
      <4>1. k - 1 \in 1 .. n /\ ~(k <= k - 1)
        BY <1>1, <3>3, <3>5
      <4>2. PICK g : Upto(g, k - 1)
        BY <3>2, <4>1
      <4> DEFINE h == [i \in 1 .. k |-> next(g, i)]
      <4>3. ASSUME NEW i \in 1 .. k PROVE next(h, i) = next(g, i)
        <5>1. CASE i = 1
          BY <5>1
        <5>2. CASE i # 1
          <6>1. i - 1 \in 1 .. k /\ i - 1 \in 1 .. (k - 1)
            BY <1>1, <3>3, <5>2
          <6>2. h[i - 1] = next(g, i - 1) /\ g[i - 1] = next(g, i - 1)
            <7>1. g[i - 1] = next(g, i - 1)
              BY <4>2, <6>1
            <7>2. h[i - 1] = next(g, i - 1)
              BY <6>1
            <7> QED BY <7>1, <7>2
          <6> HIDE DEF h
          <6> QED BY <5>2, <6>2
        <5> QED BY <5>1, <5>2
      <4>4. Upto(h, k)
        <5> HIDE DEF next
        <5> QED BY <4>3
      <4> QED BY <3>3, <4>4
    <3> QED BY <3>4, <3>5
  <2>3. n \in 1 .. n
    BY <1>1, <1>3
  <2> DEFINE f == CHOOSE g : Upto(g, n)
  <2>4. Upto(f, n)
    <3> HIDE DEF Upto
    <3>1. \E g : Upto(g, n)
      BY <2>2, <2>3
    <3> QED BY <3>1
  <2>5. FlattenSeq(s) = f[n]
    BY <1>3 DEF FlattenSeq
  <2> HIDE DEF f
  <2>6. f[n] \in Seq(T)
    BY <2>1, <2>3, <2>4
  <2> QED BY <2>5, <2>6
<1> QED BY <1>2, <1>3

-----------------------------------------------------------------------------
(* Rows, and what the weighing of the broker makes of them.                *)

RowSet(I, X, V) ==
    [id : I, scope : Labels, score : Int, boost : Int, weight : Int, text : X,
     penalized : BOOLEAN, space : {"similarity", "rrf", "mixed"}, owned : BOOLEAN, via : V]

(* No row of t has an id that s has not, and there are not more of them. *)
NoMore(t, s) == Len(t) <= Len(s) /\ Ids(t) \subseteq Ids(s)

LEMMA NoMoreOf ==
    ASSUME NEW T, NEW s \in Seq(T), NEW t \in Seq(T), Len(t) <= Len(s),
           \A k \in 1 .. Len(t) : \E i \in 1 .. Len(s) : t[k].id = s[i].id
    PROVE  NoMore(t, s)
<1>1. ASSUME NEW x \in Ids(t) PROVE x \in Ids(s)
  <2>1. PICK k \in 1 .. Len(t) : t[k].id = x
    BY <1>1 DEF Ids
  <2>2. PICK i \in 1 .. Len(s) : s[i].id = x
    BY <2>1
  <2> QED BY <2>2 DEF Ids
<1> QED BY <1>1 DEF NoMore

LEMMA KeptNoMore ==
    ASSUME NEW T, NEW s \in Seq(T), NEW at \in SUBSET DOMAIN s, NEW t, SomeOf(t, s, at)
    PROVE  t \in Seq(T) /\ NoMore(t, s)
<1>1. t \in Seq(T) /\ Len(t) <= Len(s) /\ Len(t) = Cardinality(at)
  BY SomeOfIs
<1>2. ASSUME NEW k \in 1 .. Len(t) PROVE \E i \in 1 .. Len(s) : t[k].id = s[i].id
  <2>1. DOMAIN s = 1 .. Len(s)
    OBVIOUS
  <2>2. PICK i \in at : t[k] = s[i]
    BY <1>1 DEF SomeOf
  <2> QED BY <2>1, <2>2
<1> QED BY <1>1, <1>2, NoMoreOf

LEMMA StrictNoMore ==
    ASSUME NEW T, NEW rows \in Seq(T)
    PROVE  Strict(rows) \in Seq(T) /\ NoMore(Strict(rows), rows)
<1> DEFINE at == {i \in DOMAIN rows : ~rows[i].penalized}
           clean == Picked(rows, at)
<1>1. at \in SUBSET DOMAIN rows
  OBVIOUS
<1>2. clean \in Seq(T) /\ NoMore(clean, rows)
  BY <1>1, PickedSome, KeptNoMore
<1>3. Strict(rows) = IF clean = <<>> THEN rows ELSE clean
  BY DEF Strict, Kept, With
<1>4. NoMore(rows, rows)
  <2>1. Len(rows) \in Nat
    OBVIOUS
  <2> QED BY <2>1 DEF NoMore
<1> HIDE DEF clean
<1> QED BY <1>2, <1>3, <1>4

LEMMA MappedIds ==
    ASSUME NEW T, NEW U, NEW s \in Seq(T), NEW t, t = [i \in 1 .. Len(s) |-> t[i]],
           \A i \in 1 .. Len(s) : t[i] \in U /\ t[i].id = s[i].id
    PROVE  t \in Seq(U) /\ Len(t) = Len(s) /\ NoMore(t, s)
<1>1. Len(s) \in Nat
  OBVIOUS
<1>2. t \in [1 .. Len(s) -> U]
  OBVIOUS
<1>3. t \in Seq(U) /\ Len(t) = Len(s)
  BY <1>1, <1>2
<1>4. Ids(t) = Ids(s)
  BY <1>3 DEF Ids
<1>5. Len(t) <= Len(s) /\ Ids(t) \subseteq Ids(s)
  <2>1. Len(t) <= Len(s)
    BY <1>1, <1>3
  <2> QED BY <1>4, <2>1
<1> QED BY <1>3, <1>5 DEF NoMore

LEMMA PenalizeNoMore ==
    ASSUME NEW I, NEW X, NEW V, NEW rows \in Seq(RowSet(I, X, V)), NEW scopes
    PROVE  /\ Penalize(rows, scopes) \in Seq(RowSet(I, X, V))
           /\ NoMore(Penalize(rows, scopes), rows)
<1> DEFINE T == RowSet(I, X, V)
           weighed(r) == IF OutOfScope(r.scope, scopes)
                         THEN [r EXCEPT !.penalized = TRUE, !.score = (@ * 3) \div 4] ELSE r
           result == Penalize(rows, scopes)
           list == [i \in 1 .. Len(rows) |-> weighed(rows[i])]
<1>1. Len(rows) \in Nat /\ \A i \in 1 .. Len(rows) : rows[i] \in T
  OBVIOUS
<1>2. result = Listed(list)
  BY DEF Penalize, Mapped, With
<1>3. result = list
  <2>1. list = [i \in 1 .. Len(rows) |-> list[i]]
    OBVIOUS
  <2> HIDE DEF list, result
  <2> QED BY <1>1, <1>2, <2>1, ListedIs
<1>4. ASSUME NEW r \in T PROVE weighed(r) \in T /\ weighed(r).id = r.id
  <2>1. r.score \in Int
    BY DEF RowSet
  <2>2. (r.score * 3) \div 4 \in Int
    BY <2>1
  <2> DEFINE x == (r.score * 3) \div 4
             q == [r EXCEPT !.penalized = TRUE, !.score = x]
  <2>3. weighed(r) = IF OutOfScope(r.scope, scopes) THEN q ELSE r
    OBVIOUS
  <2> HIDE DEF x, weighed
  <2>4. x \in Int
    BY <2>2 DEF x
  <2>5. q \in T /\ q.id = r.id
    BY <2>4 DEF RowSet
  <2> QED BY <2>3, <2>5
<1>5. \A i \in 1 .. Len(rows) : list[i] \in T /\ list[i].id = rows[i].id
  <2> HIDE DEF T, weighed
  <2> QED BY <1>1, <1>4
<1>6. list = [i \in 1 .. Len(rows) |-> list[i]]
  OBVIOUS
<1> HIDE DEF list, T, result
<1>7. list \in Seq(T) /\ NoMore(list, rows)
  <2>1. rows \in Seq(T)
    BY DEF T
  <2> QED BY <1>5, <1>6, <2>1, MappedIds
<1> QED BY <1>3, <1>7 DEF T, result

LEMMA NormalizedIs ==
    ASSUME NEW all \in SUBSET Int, IsFiniteSet(all), NEW w \in all
    PROVE  Normalized(w, all) \in Int
<1> DEFINE lo == Min(all)
           hi == Max(all)
<1>1. lo \in Int /\ hi \in Int /\ lo <= w /\ w <= hi
  BY LeastAndGreatest
<1>2. Normalized(w, all) = IF hi = lo THEN 100 ELSE ((w - lo) * 100) \div (hi - lo)
  BY DEF Normalized
<1> HIDE DEF lo, hi
<1>3. ASSUME hi # lo PROVE ((w - lo) * 100) \div (hi - lo) \in Int
  <2> DEFINE a == (w - lo) * 100
             b == hi - lo
  <2>1. a \in Int /\ b \in Int /\ b > 0
    BY <1>1, <1>3
  <2> HIDE DEF a, b
  <2>2. a \div b \in Int
    BY <2>1
  <2> QED BY <2>2 DEF a, b
<1> QED BY <1>2, <1>3

LEMMA LastWithId ==
    ASSUME NEW T, NEW rows \in Seq(T), NEW x \in Ids(rows)
    PROVE  LET i == SelectLastInSeq(rows, LAMBDA r : r.id = x)
           IN  i \in 1 .. Len(rows) /\ rows[i].id = x
<1> DEFINE I == {i \in 1 .. Len(rows) : rows[i].id = x}
<1>1. I # {} /\ I \in SUBSET Int
  BY DEF Ids
<1>2. IsFiniteSet(I)
  <2>1. IsFiniteSet(1 .. Len(rows)) /\ I \in SUBSET (1 .. Len(rows))
    BY UpTo
  <2> QED BY <2>1, FS_Subset
<1>3. SelectLastInSeq(rows, LAMBDA r : r.id = x) = Max(I)
  BY <1>1 DEF SelectLastInSeq
<1>4. Max(I) \in I
  <2> HIDE DEF I
  <2> QED BY <1>1, <1>2, LeastAndGreatest
<1> QED BY <1>3, <1>4

(* Rows that may be given another score, whatever else is known of them.   *)
Scorable(T) ==
    \A r \in T : /\ r.score \in Int /\ r.boost \in Int /\ r.weight \in Int
                 /\ \A x \in Int : [r EXCEPT !.score = x] \in T /\ [r EXCEPT !.score = x].id = r.id

LEMMA GravityKeeps ==
    ASSUME NEW T, Scorable(T), NEW rows \in Seq(T),
           NEW minScore \in Int, NEW floor \in Int, NEW limit \in Nat
    PROVE  /\ Gravity(rows, minScore, floor, limit) \in Seq(T)
           /\ NoMore(Gravity(rows, minScore, floor, limit), rows)
<1> DEFINE at == {i \in DOMAIN rows : rows[i].score >= minScore \/ rows[i].boost > 1}
           survivors == Picked(rows, at)
           weights == {Weighted(survivors[i], floor) : i \in DOMAIN survivors}
           keys == [i \in 1 .. Len(survivors) |-> Weighted(survivors[i], floor)]
           sorted == Sorted(survivors, keys)
           ranked == Take(sorted, limit)
           last(x) == SelectLastInSeq(rows, LAMBDA r : r.id = x)
           weighed(r) == [rows[last(r.id)] EXCEPT !.score = Normalized(Weighted(r, floor), weights)]
           list == [i \in 1 .. Len(ranked) |-> weighed(ranked[i])]
           result == Gravity(rows, minScore, floor, limit)
<1>1. rows \in Seq(T) /\ DOMAIN rows = 1 .. Len(rows) /\ Len(rows) \in Nat
  OBVIOUS
<1>2. at \in SUBSET DOMAIN rows
  OBVIOUS
<1>3. SomeOf(survivors, rows, at)
  <2> HIDE DEF at
  <2> QED BY <1>1, <1>2, PickedSome
<1>4. result = Listed(list)
  <2>1. Survivors(rows, minScore) = survivors
    BY DEF Survivors, Kept, With
  <2>2. Mapped(survivors, LAMBDA r : Weighted(r, floor)) = Listed(keys)
    <3> HIDE DEF survivors
    <3> QED BY DEF Mapped, With
  <2>3. survivors \in Seq(T) /\ Len(survivors) \in Nat
    <3> HIDE DEF at, survivors
    <3> QED BY <1>1, <1>2, <1>3, SomeOfIs
  <2>4. Listed(keys) = keys
    <3>1. keys = [i \in 1 .. Len(survivors) |-> keys[i]]
      OBVIOUS
    <3> HIDE DEF keys, survivors
    <3> QED BY <2>3, <3>1, ListedIs
  <2>5. ByWeight(survivors, floor) = sorted
    <3> HIDE DEF survivors, keys
    <3> QED BY <2>2, <2>4 DEF ByWeight, StableSort, With
  <2> HIDE DEF survivors, sorted
  <2> QED BY <2>1, <2>5 DEF Gravity, Mapped, With
<1> HIDE DEF at, survivors
<1>5. /\ survivors \in Seq(T) /\ Len(survivors) \in Nat /\ Len(survivors) <= Len(rows)
      /\ DOMAIN survivors = 1 .. Len(survivors)
      /\ \A i \in 1 .. Len(survivors) : survivors[i].id \in Ids(rows)
  <2>1. survivors \in Seq(T) /\ NoMore(survivors, rows)
    BY <1>1, <1>2, <1>3, KeptNoMore
  <2>2. \A i \in 1 .. Len(survivors) : survivors[i].id \in Ids(survivors)
    BY DEF Ids
  <2>3. Ids(survivors) \subseteq Ids(rows) /\ Len(survivors) <= Len(rows)
    BY <2>1 DEF NoMore
  <2>4. Len(survivors) \in Nat /\ DOMAIN survivors = 1 .. Len(survivors)
    BY <2>1
  <2> QED BY <2>1, <2>2, <2>3, <2>4
<1>6. ASSUME NEW r \in T PROVE Weighted(r, floor) \in Int
  <2>1. r.score \in Int /\ r.boost \in Int /\ r.weight \in Int
    BY DEF Scorable
  <2> QED BY <2>1 DEF Weighted
<1>7. \A i \in 1 .. Len(survivors) : survivors[i] \in T /\ keys[i] \in Int
  BY <1>5, <1>6
<1>8. weights \in SUBSET Int /\ IsFiniteSet(weights)
  <2>1. weights \in SUBSET Int
    BY <1>5, <1>6
  <2>2. keys \in Surjection(1 .. Len(survivors), weights)
    BY <1>5 DEF Surjection
  <2> HIDE DEF keys, weights
  <2>3. IsFiniteSet(1 .. Len(survivors))
    BY <1>5, UpTo
  <2> QED BY <2>1, <2>2, <2>3, FS_Surjection
<1> HIDE DEF keys
<1>9. SomeOf(sorted, survivors, DOMAIN survivors)
  BY <1>5, <1>7, SortedSome
<1> HIDE DEF sorted
<1>10. /\ sorted \in Seq(T) /\ Len(sorted) <= Len(survivors) /\ Len(sorted) \in Nat
       /\ Len(sorted) = Cardinality(DOMAIN survivors)
  <2>1. DOMAIN survivors \in SUBSET DOMAIN survivors
    OBVIOUS
  <2> QED BY <1>5, <1>9, <2>1, SomeOfIs
<1>11. ASSUME NEW k \in 1 .. Len(sorted) PROVE \E i \in 1 .. Len(survivors) : sorted[k] = survivors[i]
  <2>1. \E i \in DOMAIN survivors : sorted[k] = survivors[i]
    BY <1>9, <1>10, TakenFrom
  <2> QED BY <1>5, <2>1
<1>12. /\ ranked \in Seq(T) /\ Len(ranked) \in Nat /\ Len(ranked) <= Len(sorted)
       /\ \A k \in 1 .. Len(ranked) : ranked[k] = sorted[k] /\ k \in 1 .. Len(sorted)
  <2>1. ranked \in Seq(T)
    BY <1>10, TakeIs
  <2>2. Len(ranked) = IF limit < Len(sorted) THEN limit ELSE Len(sorted)
    BY <1>10, TakeIs
  <2>3. \A k \in 1 .. Len(ranked) : ranked[k] = sorted[k]
    BY <1>10, TakeIs
  <2> HIDE DEF ranked
  <2>4. Len(ranked) \in Nat /\ Len(ranked) <= Len(sorted)
    BY <1>10, <2>2
  <2>5. \A k \in 1 .. Len(ranked) : k \in 1 .. Len(sorted)
    BY <1>10, <2>4
  <2> QED BY <2>1, <2>3, <2>4, <2>5
<1> HIDE DEF ranked, weights, last
<1>13. ASSUME NEW k \in 1 .. Len(ranked)
       PROVE  weighed(ranked[k]) \in T /\ weighed(ranked[k]).id = ranked[k].id
  <2>1. PICK i \in 1 .. Len(survivors) : ranked[k] = survivors[i]
    BY <1>11, <1>12
  <2>2. Weighted(ranked[k], floor) \in weights
    BY <1>5, <2>1 DEF weights
  <2>3. Normalized(Weighted(ranked[k], floor), weights) \in Int
    BY <1>8, <2>2, NormalizedIs
  <2>4. ranked[k].id \in Ids(rows)
    BY <1>5, <2>1
  <2>5. last(ranked[k].id) \in 1 .. Len(rows) /\ rows[last(ranked[k].id)].id = ranked[k].id
    BY <1>1, <2>4, LastWithId DEF last
  <2>6. rows[last(ranked[k].id)] \in T
    BY <1>1, <2>5
  <2> DEFINE o == rows[last(ranked[k].id)]
             x == Normalized(Weighted(ranked[k], floor), weights)
  <2>7. o \in T /\ x \in Int /\ o.id = ranked[k].id
    BY <2>3, <2>5, <2>6
  <2>8. weighed(ranked[k]) = [o EXCEPT !.score = x]
    OBVIOUS
  <2> HIDE DEF o, x, weighed
  <2>9. [o EXCEPT !.score = x] \in T /\ [o EXCEPT !.score = x].id = o.id
    BY <2>7 DEF Scorable
  <2> QED BY <2>7, <2>8, <2>9
<1>14. list = [i \in 1 .. Len(ranked) |-> list[i]]
  OBVIOUS
<1>15. \A i \in 1 .. Len(ranked) : list[i] \in T /\ list[i].id = ranked[i].id
  <2> HIDE DEF weighed
  <2> QED BY <1>13
<1> HIDE DEF list, result
<1>16. result = list
  BY <1>4, <1>12, <1>14, ListedIs
<1>17. list \in Seq(T) /\ Len(list) = Len(ranked) /\ NoMore(list, ranked)
  BY <1>12, <1>14, <1>15, MappedIds
<1>18. Ids(ranked) \subseteq Ids(rows)
  <2>1. ASSUME NEW k \in 1 .. Len(ranked) PROVE ranked[k].id \in Ids(rows)
    <3>1. PICK i \in 1 .. Len(survivors) : ranked[k] = survivors[i]
      BY <1>11, <1>12
    <3> QED BY <1>5, <3>1
  <2> QED BY <2>1 DEF Ids
<1>19. Len(list) <= Len(rows)
  BY <1>1, <1>5, <1>10, <1>12, <1>17
<1>20. Ids(list) \subseteq Ids(rows)
  BY <1>17, <1>18 DEF NoMore
<1>21. NoMore(list, rows)
  BY <1>19, <1>20 DEF NoMore
<1> QED BY <1>16, <1>17, <1>21 DEF result

LEMMA GravityNoMore ==
    ASSUME NEW I, NEW X, NEW V, NEW rows \in Seq(RowSet(I, X, V)),
           NEW minScore \in Int, NEW floor \in Int, NEW limit \in Nat
    PROVE  /\ Gravity(rows, minScore, floor, limit) \in Seq(RowSet(I, X, V))
           /\ NoMore(Gravity(rows, minScore, floor, limit), rows)
<1>1. Scorable(RowSet(I, X, V))
  BY DEF Scorable, RowSet
<1> QED BY <1>1, GravityKeeps

-----------------------------------------------------------------------------
(* An external ranking: whatever it leaves out is put back behind it.      *)

LEMMA ExternalRerankIs ==
    ASSUME NEW T, NEW rows \in Seq(T), NEW n \in Nat, NEW ranking \in [1 .. n -> 1 .. Len(rows)],
           \A k, l \in 1 .. n : k # l => ranking[k] # ranking[l]
    PROVE  /\ ExternalRerank(rows, ranking) \in Seq(T)
           /\ Len(ExternalRerank(rows, ranking)) = Len(rows)
           /\ \A i \in 1 .. Len(rows) :
                 \E k \in 1 .. Len(rows) : ExternalRerank(rows, ranking)[k] = rows[i]
<1> DEFINE chosen == {ranking[k] : k \in 1 .. n}
           at == DOMAIN rows \ chosen
           first == [k \in 1 .. n |-> rows[ranking[k]]]
           rest == Picked(rows, at)
           result == ExternalRerank(rows, ranking)
<1>1. DOMAIN rows = 1 .. Len(rows) /\ Len(rows) \in Nat /\ Len(ranking) = n
  OBVIOUS
<1>2. CASE ranking = <<>>
  <2>1. result = rows
    BY <1>2 DEF ExternalRerank
  <2> HIDE DEF result
  <2> QED BY <2>1 DEF result
<1>3. CASE ranking # <<>>
  <2>1. first \in Seq(T) /\ Len(first) = n
    <3>1. first \in [1 .. n -> T]
      BY <1>1
    <3> QED BY <3>1
  <2>2. result = first \o rest
    <3>1. ToSet(ranking) = chosen
      BY <1>1 DEF ToSet
    <3>2. Mapped(ranking, LAMBDA i : rows[i]) = Listed(first)
      BY <1>1 DEF Mapped, With
    <3>3. Listed(first) = first
      <4>1. first = [k \in 1 .. n |-> first[k]]
        OBVIOUS
      <4> HIDE DEF first
      <4> QED BY <4>1, ListedIs
    <3> HIDE DEF first
    <3> QED BY <1>3, <3>1, <3>2, <3>3 DEF ExternalRerank
  <2>3. at \in SUBSET DOMAIN rows
    OBVIOUS
  <2>4. SomeOf(rest, rows, at)
    <3> HIDE DEF at
    <3> QED BY <2>3, PickedSome
  <2> HIDE DEF rest, first, result, at
  <2>5. rest \in Seq(T) /\ Len(rest) = Cardinality(at) /\ Len(rest) \in Nat
    BY <2>3, <2>4, SomeOfIs
  <2>6. ASSUME NEW i \in at PROVE \E k \in 1 .. Len(rest) : rest[k] = rows[i]
    <3>1. PICK order \in [1 .. Cardinality(at) -> at] :
            /\ \A j \in at : \E k \in 1 .. Cardinality(at) : order[k] = j
            /\ rest = [k \in 1 .. Cardinality(at) |-> rows[order[k]]]
      BY <2>4 DEF SomeOf
    <3>2. PICK k \in 1 .. Cardinality(at) : order[k] = i
      BY <3>1
    <3> QED BY <2>5, <3>1, <3>2
  <2>7. result \in Seq(T) /\ Len(result) = n + Len(rest)
    <3>1. first \in Seq(T) /\ rest \in Seq(T)
      BY <2>1, <2>5
    <3>2. first \o rest \in Seq(T) /\ Len(first \o rest) = Len(first) + Len(rest)
      BY ONLY <3>1, ConcatIs
    <3> QED BY <2>1, <2>2, <3>2
  <2>8. \A k \in 1 .. n : result[k] = first[k]
    BY <2>1, <2>2, <2>5, ConcatIs
  <2>9. \A k \in 1 .. Len(rest) : result[n + k] = rest[k]
    <3>0. first \in Seq(T) /\ rest \in Seq(T)
      BY <2>1, <2>5
    <3>1. \A k \in 1 .. Len(rest) : (first \o rest)[Len(first) + k] = rest[k]
      BY <3>0, ConcatIs
    <3> QED BY <2>1, <2>2, <3>1
  <2>10. Len(result) = Len(rows)
    <3>1. chosen \cup at = 1 .. Len(rows) /\ chosen \cap at = {}
      BY <1>1 DEF at
    <3>2. ranking \in Surjection(1 .. n, chosen)
      BY DEF Surjection
    <3>3. ranking \in Injection(1 .. n, chosen)
      BY <3>2 DEF Surjection, Injection, IsInjective
    <3>4. IsFiniteSet(1 .. n) /\ Cardinality(1 .. n) = n
      BY UpTo
    <3> HIDE DEF chosen
    <3>5. IsFiniteSet(chosen) /\ Cardinality(chosen) = n
      BY <3>2, <3>3, <3>4, FS_Surjection
    <3>6. IsFiniteSet(at)
      <4>1. IsFiniteSet(DOMAIN rows)
        BY <1>1, UpTo
      <4> QED BY <2>3, <4>1, FS_Subset
    <3>7. Cardinality(1 .. Len(rows)) = Len(rows)
      BY <1>1, UpTo
    <3>8. Cardinality(chosen \cap at) = 0
      BY <3>1, FS_EmptySet
    <3>9. Cardinality(chosen \cup at) = Cardinality(chosen) + Cardinality(at) - 0
      BY <3>5, <3>6, <3>8, FS_Union
    <3>10. Len(rows) = n + Len(rest) - 0
      BY <2>5, <3>1, <3>5, <3>7, <3>9
    <3> QED BY <2>5, <2>7, <3>10
  <2>11. ASSUME NEW i \in 1 .. Len(rows) PROVE \E k \in 1 .. Len(rows) : result[k] = rows[i]
    <3>1. CASE i \in at
      <4>1. PICK k \in 1 .. Len(rest) : rest[k] = rows[i]
        BY <2>6, <3>1
      <4>2. n + k \in 1 .. Len(rows)
        BY <2>5, <2>7, <2>10
      <4> QED BY <2>9, <4>1, <4>2
    <3>2. CASE i \notin at
      <4>1. PICK k \in 1 .. n : ranking[k] = i
        BY <1>1, <3>2 DEF at
      <4>2. k \in 1 .. Len(rows)
        BY <2>5, <2>7, <2>10
      <4> QED BY <2>8, <4>1, <4>2 DEF first
    <3> QED BY <3>1, <3>2
  <2> QED BY <2>7, <2>10, <2>11 DEF result
<1> QED BY <1>2, <1>3

-----------------------------------------------------------------------------
(* Sequences of the elements of a set, and mapped ones.                    *)

LEMMA SeqsOf ==
    ASSUME NEW S, IsFiniteSet(S), NEW s \in SetToSeqs(S)
    PROVE  /\ s \in Seq(S)
           /\ \A x \in S : \E i \in 1 .. Len(s) : s[i] = x
           /\ \A i, j \in 1 .. Len(s) : i # j => s[i] # s[j]
<1> DEFINE n == Cardinality(S)
<1>1. n \in Nat
  BY FS_CardinalityType
<1>2. s \in [1 .. n -> S] /\ \A i, j \in 1 .. n : i # j => s[i] # s[j]
  BY DEF SetToSeqs
<1> HIDE DEF n
<1>3. s \in Seq(S) /\ Len(s) = n
  BY <1>1, <1>2
<1>4. s \in Injection(1 .. n, S)
  BY <1>2 DEF Injection, IsInjective
<1>5. IsFiniteSet(1 .. n) /\ Cardinality(1 .. n) = Cardinality(S)
  BY <1>1, UpTo DEF n
<1>6. s \in Surjection(1 .. n, S)
  BY <1>4, <1>5, FS_Injection
<1> QED BY <1>2, <1>3, <1>6 DEF Surjection

(* What Mapped makes of a sequence, given what the mapping makes of each element. *)
LEMMA ListIs ==
    ASSUME NEW T, NEW U, NEW s \in Seq(T), NEW f, f = [i \in 1 .. Len(s) |-> f[i]],
           \A i \in 1 .. Len(s) : f[i] \in U
    PROVE  Listed(f) = f /\ f \in Seq(U) /\ Len(f) = Len(s)
<1>1. Len(s) \in Nat
  OBVIOUS
<1>2. Listed(f) = f
  BY <1>1, ListedIs
<1>3. f \in [1 .. Len(s) -> U]
  OBVIOUS
<1> QED BY <1>1, <1>2, <1>3
=============================================================================
