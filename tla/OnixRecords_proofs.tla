-------------------------- MODULE OnixRecords_proofs --------------------------
(***************************************************************************)
(* What the operators of the ONIX 3 serializer return, for messages of any *)
(* size: lists in order, everybody of a list of people, the group of a     *)
(* product and the links between its records.                              *)
(***************************************************************************)
EXTENDS OnixRecords, FiniteSetTheorems, TLAPS

-----------------------------------------------------------------------------
(* Lists.                                                                  *)

(* The pairs of R are a strict and total order of S. *)
Orders(R, S) ==
    /\ \A x \in S : << x, x >> \notin R
    /\ \A x, y, z \in S : << x, y >> \in R /\ << y, z >> \in R => << x, z >> \in R
    /\ \A x, y \in S : x = y \/ << x, y >> \in R \/ << y, x >> \in R

Below(x, R, S) == { y \in S : << y, x >> \in R }

(* What comes later has more below it. *)
LEMMA RankRises ==
    ASSUME NEW S, NEW R, IsFiniteSet(S), Orders(R, S),
           NEW x \in S, NEW y \in S, << x, y >> \in R
    PROVE  Cardinality(Below(x, R, S)) < Cardinality(Below(y, R, S))
<1>1. /\ Below(x, R, S) \cup { x } \subseteq Below(y, R, S)
      /\ x \notin Below(x, R, S)
      /\ Below(x, R, S) \subseteq S /\ Below(y, R, S) \subseteq S
  BY DEF Below, Orders
<1>2. IsFiniteSet(Below(x, R, S)) /\ IsFiniteSet(Below(y, R, S))
  BY <1>1, FS_Subset
<1>3. Cardinality(Below(x, R, S) \cup { x }) = Cardinality(Below(x, R, S)) + 1
  BY <1>1, <1>2, FS_AddElement
<1>4. Cardinality(Below(x, R, S) \cup { x }) <= Cardinality(Below(y, R, S))
  BY <1>1, <1>2, FS_Subset
<1>5. Cardinality(Below(x, R, S)) \in Nat /\ Cardinality(Below(y, R, S)) \in Nat
  BY <1>2, FS_CardinalityType
<1>6. QED
  BY <1>3, <1>4, <1>5

(* So every place is taken, by one element. *)
LEMMA RankIsPlace ==
    ASSUME NEW S, NEW R, IsFiniteSet(S), Orders(R, S)
    PROVE  LET rank == [x \in S |-> Cardinality(Below(x, R, S)) + 1]
           IN  /\ \A x \in S : rank[x] \in 1..Cardinality(S)
               /\ \A x, y \in S : rank[x] = rank[y] => x = y
               /\ \A n \in 1..Cardinality(S) : \E x \in S : rank[x] = n
<1> DEFINE N == Cardinality(S)
           rank == [x \in S |-> Cardinality(Below(x, R, S)) + 1]
<1>1. N \in Nat
  BY FS_CardinalityType
<1>2. \A x \in S : rank[x] \in 1..N
  <2> SUFFICES ASSUME NEW x \in S PROVE rank[x] \in 1..N
    OBVIOUS
  <2>1. Below(x, R, S) \subseteq S \ { x }
    BY DEF Below, Orders
  <2>2. IsFiniteSet(S \ { x }) /\ Cardinality(S \ { x }) = N - 1
    BY FS_RemoveElement
  <2>3. IsFiniteSet(Below(x, R, S)) /\ Cardinality(Below(x, R, S)) <= N - 1
    BY <2>1, <2>2, FS_Subset
  <2>4. Cardinality(Below(x, R, S)) \in Nat
    BY <2>3, FS_CardinalityType
  <2>5. QED
    BY <1>1, <2>3, <2>4
<1>3. \A x, y \in S : rank[x] = rank[y] => x = y
  <2> SUFFICES ASSUME NEW x \in S, NEW y \in S, x # y PROVE rank[x] # rank[y]
    OBVIOUS
  <2>1. << x, y >> \in R \/ << y, x >> \in R
    BY DEF Orders
  <2>2. rank[x] \in Int /\ rank[y] \in Int
    BY <1>1, <1>2
  <2>3. Cardinality(Below(x, R, S)) < Cardinality(Below(y, R, S))
          \/ Cardinality(Below(y, R, S)) < Cardinality(Below(x, R, S))
    BY <2>1, RankRises
  <2>4. \A z \in S : Cardinality(Below(z, R, S)) \in Nat
    <3>1. \A z \in S : Below(z, R, S) \subseteq S
      BY DEF Below
    <3>2. QED
      BY <3>1, FS_Subset, FS_CardinalityType
  <2>5. QED
    BY <2>3, <2>4
<1>4. DOMAIN rank = S
  OBVIOUS
<1> HIDE DEF rank
<1>5. rank \in Injection(S, 1..N)
  <2>1. rank \in [S -> 1..N]
    BY <1>2, <1>4 DEF rank
  <2>2. QED
    BY <1>3, <2>1 DEF Injection, IsInjective
<1>6. IsFiniteSet(1..N) /\ Cardinality(1..N) = Cardinality(S)
  BY <1>1, FS_Interval
<1>7. rank \in Surjection(S, 1..N)
  BY <1>5, <1>6, FS_Injection
<1>8. QED
  BY <1>2, <1>3, <1>7 DEF Surjection, rank

(* Sorting lists everything once, in order. *)
LEMMA InOrderSorts ==
    ASSUME NEW S, NEW R, IsFiniteSet(S), Orders(R, S)
    PROVE  LET order == InOrder(S, R)
           IN  /\ Cardinality(S) \in Nat
               /\ order \in [1..Cardinality(S) -> S]
               /\ \A x \in S : \E n \in 1..Cardinality(S) : order[n] = x
               /\ \A m, n \in 1..Cardinality(S) : << order[m], order[n] >> \in R <=> m < n
<1> DEFINE N == Cardinality(S)
           order == InOrder(S, R)
           rank == [x \in S |-> Cardinality(Below(x, R, S)) + 1]
<1>1. N \in Nat
  BY FS_CardinalityType
<1>2. /\ \A x \in S : rank[x] \in 1..N
      /\ \A x, y \in S : rank[x] = rank[y] => x = y
      /\ \A n \in 1..N : \E x \in S : rank[x] = n
  BY RankIsPlace
<1>3. \A x \in S : Cardinality(Below(x, R, S)) \in Nat /\ rank[x] = Cardinality(Below(x, R, S)) + 1
  <2>1. \A x \in S : Below(x, R, S) \subseteq S
    BY DEF Below
  <2>2. QED
    BY <2>1, FS_Subset, FS_CardinalityType
<1> HIDE DEF rank
<1>4. \A n \in 1..N : order[n] \in S /\ rank[order[n]] = n
  <2> SUFFICES ASSUME NEW n \in 1..N PROVE order[n] \in S /\ rank[order[n]] = n
    OBVIOUS
  <2>1. order[n] = CHOOSE x \in S : Cardinality(Below(x, R, S)) = n - 1
    BY DEF InOrder, Below
  <2>2. \E x \in S : Cardinality(Below(x, R, S)) = n - 1
    BY <1>1, <1>2, <1>3
  <2>3. order[n] \in S /\ Cardinality(Below(order[n], R, S)) = n - 1
    BY <2>1, <2>2
  <2>4. QED
    BY <1>1, <1>3, <2>3
<1>5. order \in [1..N -> S]
  BY <1>4 DEF InOrder
<1>6. \A x \in S : \E n \in 1..N : order[n] = x
  BY <1>2, <1>4
<1>7. \A m, n \in 1..N : << order[m], order[n] >> \in R <=> m < n
  <2> SUFFICES ASSUME NEW m \in 1..N, NEW n \in 1..N
               PROVE  << order[m], order[n] >> \in R <=> m < n
    OBVIOUS
  <2>1. order[m] \in S /\ order[n] \in S /\ rank[order[m]] = m /\ rank[order[n]] = n
    BY <1>4
  <2>2. << order[m], order[n] >> \in R => m < n
    BY <1>1, <1>3, <2>1, RankRises
  <2>3. << order[n], order[m] >> \in R => n < m
    BY <1>1, <1>3, <2>1, RankRises
  <2>4. order[m] = order[n] => m = n
    BY <2>1
  <2>5. order[m] = order[n] \/ << order[m], order[n] >> \in R \/ << order[n], order[m] >> \in R
    BY <2>1 DEF Orders
  <2>6. m = n => << order[m], order[n] >> \notin R
    BY <2>1 DEF Orders
  <2>7. QED
    BY <1>1, <2>2, <2>3, <2>4, <2>5, <2>6
<1>8. QED
  BY <1>1, <1>5, <1>6, <1>7

LEMMA ListIs ==
    ASSUME NEW s, IsList(s)
    PROVE  Len(s) \in Nat /\ DOMAIN s = 1..Len(s) /\ s = [i \in 1..Len(s) |-> s[i]]
  BY DEF IsList

LEMMA MadeList ==
    ASSUME NEW n \in Nat, NEW s, s = [i \in 1..n |-> s[i]]
    PROVE  IsList(s) /\ Len(s) = n
<1> DEFINE T == { s[i] : i \in DOMAIN s }
<1>1. DOMAIN s = 1..n
  OBVIOUS
<1>2. s \in [1..n -> T]
  BY <1>1
<1>3. s \in Seq(T)
  BY <1>2
<1>4. Len(s) = n
  BY <1>1, <1>3
<1>5. QED
  BY <1>3, <1>4 DEF IsList

LEMMA TailIs ==
    ASSUME NEW s, IsList(s), s # << >>
    PROVE  /\ IsList(Tail(s)) /\ Len(Tail(s)) = Len(s) - 1 /\ 1 \in DOMAIN s /\ Head(s) = s[1]
           /\ \A k \in DOMAIN Tail(s) : k + 1 \in DOMAIN s /\ Tail(s)[k] = s[k + 1]
<1> DEFINE T == { s[i] : i \in DOMAIN s }
<1>1. s \in Seq(T)
  BY DEF IsList
<1> HIDE DEF T
<1>2. Tail(s) \in Seq(T) /\ Len(Tail(s)) = Len(s) - 1 /\ Len(s) \in Nat \ { 0 }
  BY <1>1
<1>3. /\ 1 \in DOMAIN s /\ Head(s) = s[1]
      /\ \A k \in DOMAIN Tail(s) : k + 1 \in DOMAIN s /\ Tail(s)[k] = s[k + 1]
  BY <1>1, <1>2
<1>4. ASSUME NEW u \in Seq(T) PROVE u = [i \in 1..Len(u) |-> u[i]] /\ Len(u) \in Nat
  OBVIOUS
<1>5. IsList(Tail(s))
  BY <1>2, <1>4, MadeList
<1>6. QED
  BY <1>2, <1>3, <1>5

LEMMA JoinedList ==
    ASSUME NEW s, NEW t, IsList(s), IsList(t)
    PROVE  /\ IsList(s \o t) /\ Len(s \o t) = Len(s) + Len(t)
           /\ \A i \in 1..Len(s) : (s \o t)[i] = s[i]
           /\ \A i \in 1..Len(t) : (s \o t)[Len(s) + i] = t[i]
<1> DEFINE T == { s[i] : i \in DOMAIN s } \cup { t[i] : i \in DOMAIN t }
<1>1. s \in Seq(T) /\ t \in Seq(T)
  BY ListIs
<1>2. Len(s) \in Nat /\ Len(t) \in Nat
  BY <1>1
<1>3. Len(s \o t) = Len(s) + Len(t) /\ DOMAIN (s \o t) = 1..(Len(s) + Len(t))
  BY <1>1
<1>4. IsList(s \o t)
  <2>1. s \o t \in Seq(T)
    BY <1>1
  <2>2. ASSUME NEW u \in Seq(T) PROVE u = [i \in 1..Len(u) |-> u[i]] /\ Len(u) \in Nat
    OBVIOUS
  <2>3. QED
    BY <2>1, <2>2, MadeList
<1>5. /\ \A i \in 1..Len(s) : (s \o t)[i] = s[i]
      /\ \A i \in 1..Len(t) : (s \o t)[Len(s) + i] = t[i]
  BY <1>1, <1>2
<1>6. QED
  BY <1>3, <1>4, <1>5

(* What is numbered as the order says is what sorting makes of it.         *)
LEMMA InOrderIs ==
    ASSUME NEW e, IsList(e), NEW k, k = Len(e), NEW S, NEW R,
           \A i \in 1..k : e[i] \in S,
           \A x \in S : \E i \in 1..k : x = e[i],
           \A i, j \in 1..k : << e[i], e[j] >> \in R <=> i < j
    PROVE  InOrder(S, R) = e
<1> DEFINE First(n) == { e[i] : i \in 1..n }
<1>0. k \in Nat
  BY ListIs
<1>1. \A i, j \in 1..k : e[i] = e[j] => i = j
  <2> SUFFICES ASSUME NEW i \in 1..k, NEW j \in 1..k, i < j PROVE e[i] # e[j]
    BY <1>0
  <2>1. << e[i], e[j] >> \in R /\ << e[i], e[i] >> \notin R
    BY <1>0
  <2>2. QED
    BY <2>1
<1>3. ASSUME NEW n \in 0..k
      PROVE  Cardinality(First(n)) = n
  <2> DEFINE T == First(n)
             f == [i \in 1..n |-> e[i]]
  <2>1. f \in Bijection(1..n, T)
    BY <1>0, <1>1 DEF Bijection, Injection, Surjection, IsInjective
  <2>2. ExistsBijection(1..n, T)
    BY <2>1 DEF ExistsBijection
  <2>3. QED
    BY <2>2, FS_CountingElements
<1>4. Cardinality(S) = k
  <2>1. S = First(k)
    OBVIOUS
  <2> HIDE DEF First
  <2>2. QED
    BY <1>0, <1>3, <2>1
<1>5. ASSUME NEW i \in 1..k
      PROVE  Cardinality({ y \in S : << y, e[i] >> \in R }) = i - 1
  <2>1. i - 1 \in 0..k /\ \A j \in 1..k : j < i <=> j \in 1..(i - 1)
    BY <1>0
  <2>2. { y \in S : << y, e[i] >> \in R } = First(i - 1)
    BY <1>0, <2>1
  <2> HIDE DEF First
  <2>3. QED
    BY <1>3, <2>1, <2>2
<1>6. ASSUME NEW n \in 1..k
      PROVE  InOrder(S, R)[n] = e[n]
  <2>1. InOrder(S, R)[n] = CHOOSE x \in S : Cardinality({ y \in S : << y, x >> \in R }) = n - 1
    BY <1>4 DEF InOrder
  <2>2. e[n] \in S /\ Cardinality({ y \in S : << y, e[n] >> \in R }) = n - 1
    BY <1>5
  <2>3. \A x \in S : Cardinality({ y \in S : << y, x >> \in R }) = n - 1 => x = e[n]
    <3> SUFFICES ASSUME NEW i \in 1..k, Cardinality({ y \in S : << y, e[i] >> \in R }) = n - 1
                 PROVE  e[i] = e[n]
      OBVIOUS
    <3>1. i - 1 = n - 1
      BY <1>5
    <3>2. QED
      BY <1>0, <3>1
  <2>4. QED
    BY <2>1, <2>2, <2>3
<1>7. InOrder(S, R) = [i \in 1..k |-> e[i]]
  BY <1>4, <1>6 DEF InOrder
<1>8. QED
  BY <1>7, ListIs

(* What is kept of a list is all of those places, each once. *)
LEMMA KeptIs ==
    ASSUME NEW list, NEW n \in Nat, NEW places \in SUBSET (1..n)
    PROVE  LET kept == Kept(list, places)
           IN  /\ IsFiniteSet(places)
               /\ IsList(kept)
               /\ Len(kept) = Cardinality(places)
               /\ { kept[i] : i \in DOMAIN kept } = { list[i] : i \in places }
<1> DEFINE before == { p \in places \X places : p[1] < p[2] }
           order == InOrder(places, before)
           kept == Kept(list, places)
<1>0. IsFiniteSet(1..n)
  BY FS_Interval
<1>1. IsFiniteSet(places)
  BY <1>0, FS_Subset
<1>2. Orders(before, places)
  BY DEF Orders
<1>a. order = InOrder(places, before) /\ kept = [i \in DOMAIN order |-> list[order[i]]]
  BY DEF Kept
<1> HIDE DEF before, order, kept
<1>3. /\ Cardinality(places) \in Nat
      /\ order \in [1..Cardinality(places) -> places]
      /\ \A x \in places : \E i \in 1..Cardinality(places) : order[i] = x
  BY <1>1, <1>2, <1>a, InOrderSorts
<1>4. kept = [i \in 1..Cardinality(places) |-> list[order[i]]]
  BY <1>3, <1>a
<1>5. IsList(kept) /\ Len(kept) = Cardinality(places)
  BY <1>3, <1>4, MadeList
<1>6. { kept[i] : i \in DOMAIN kept } = { list[i] : i \in places }
  BY <1>3, <1>4
<1>7. QED
  BY <1>1, <1>5, <1>6 DEF kept

(* Sorting by sequence keeps the length, and sorts. *)
LEMMA InSequenceSorts ==
    ASSUME NEW items, IsList(items), \A i \in DOMAIN items : items[i].sequence \in Int
    PROVE  LET sorted == InSequence(items)
           IN  /\ IsList(sorted) /\ Len(sorted) = Len(items)
               /\ \A n \in DOMAIN sorted : \E i \in DOMAIN items : sorted[n] = items[i]
               /\ \A m, n \in DOMAIN sorted : m < n => sorted[m].sequence <= sorted[n].sequence
<1> DEFINE before == { p \in (DOMAIN items) \X (DOMAIN items) :
                           \/ items[p[1]].sequence < items[p[2]].sequence
                           \/ items[p[1]].sequence = items[p[2]].sequence /\ p[1] < p[2] }
           order == InOrder(DOMAIN items, before)
           sorted == InSequence(items)
<1>1. Len(items) \in Nat /\ DOMAIN items = 1..Len(items)
  BY ListIs
<1>2. IsFiniteSet(DOMAIN items) /\ Cardinality(DOMAIN items) = Len(items)
  BY <1>1, FS_Interval
<1>3. Orders(before, DOMAIN items)
  <2>1. \A i \in DOMAIN items : i \in Int
    BY <1>1
  <2>2. \A i, j \in DOMAIN items :
            << i, j >> \in before <=>
                \/ items[i].sequence < items[j].sequence
                \/ items[i].sequence = items[j].sequence /\ i < j
    OBVIOUS
  <2> HIDE DEF before
  <2>3. QED
    BY <2>1, <2>2 DEF Orders
<1>a. /\ order = InOrder(DOMAIN items, before)
      /\ sorted = [n \in DOMAIN items |-> items[order[n]]]
  BY DEF InSequence
<1>b. \A i, j \in DOMAIN items :
          << i, j >> \in before => items[i].sequence <= items[j].sequence
  OBVIOUS
<1> HIDE DEF before, order, sorted
<1>4. /\ order \in [1..Len(items) -> DOMAIN items]
      /\ \A m, n \in 1..Len(items) : << order[m], order[n] >> \in before <=> m < n
  BY <1>2, <1>3, <1>a, InOrderSorts
<1>5. sorted = [n \in 1..Len(items) |-> items[order[n]]]
  BY <1>1, <1>a
<1>6. IsList(sorted) /\ Len(sorted) = Len(items) /\ DOMAIN sorted = 1..Len(items)
  BY <1>1, <1>5, MadeList
<1>7. \A n \in DOMAIN sorted : \E i \in DOMAIN items : sorted[n] = items[i]
  BY <1>4, <1>5
<1>8. ASSUME NEW m \in 1..Len(items), NEW n \in 1..Len(items), m < n
      PROVE  sorted[m].sequence <= sorted[n].sequence
  <2>1. << order[m], order[n] >> \in before
    BY <1>4, <1>8
  <2>2. order[m] \in DOMAIN items /\ order[n] \in DOMAIN items
    BY <1>4
  <2>3. items[order[m]].sequence <= items[order[n]].sequence
    BY <1>b, <2>1, <2>2
  <2>4. QED
    BY <1>5, <2>3
<1>9. QED
  BY <1>6, <1>7, <1>8 DEF sorted

-----------------------------------------------------------------------------
(* What is read of a product.                                              *)

(* What has its lists is transformed without an error.                     *)
IsSource(src) ==
    /\ src.type \in { "book", "chapter" }
    /\ IsList(src.contributors) /\ IsList(BookOf(src).contributors)
    /\ IsList(src.files)
    /\ \A i \in DOMAIN src.files :
           IsList(src.files[i].uri.path) /\ src.files[i].uri.path # << >>

LEMMA ContributorsAreListed ==
    ASSUME NEW parent, IsList(parent.contributors)
    PROVE  IsList(Contributors(parent))
<1> DEFINE n == Len(parent.contributors)
           s == Contributors(parent)
<1>1. n \in Nat /\ DOMAIN parent.contributors = 1..n
  BY ListIs
<1>2. DOMAIN Numbered(parent.contributors) = 1..n
  BY <1>1 DEF Numbered
<1>3. s = [i \in 1..n |-> s[i]]
  BY <1>2 DEF Contributors, InSequence
<1>4. QED
  BY <1>1, <1>3, MadeList

LEMMA FilesAreListed ==
    ASSUME NEW parent, IsElement(parent)
    PROVE  LET files == SupportingResources(parent)
           IN  /\ IsList(files)
               /\ \A i \in DOMAIN files : IsList(files[i].uri.path) /\ files[i].uri.path # << >>
<1> DEFINE n == Len(parent.resources)
           places == { i \in DOMAIN parent.resources : parent.resources[i].link # None }
           linked == Kept(parent.resources, places)
           files == SupportingResources(parent)
<1>1. n \in Nat /\ DOMAIN parent.resources = 1..n
  BY ListIs DEF IsElement
<1>2. places \in SUBSET (1..n)
  BY <1>1
<1>3. files = [i \in DOMAIN linked |->
                  [ role |-> FileRole(linked[i]), uri |-> linked[i].link,
                    filename |-> linked[i].filename ]]
  BY DEF SupportingResources
<1>4. \A i \in places :
          IsList(parent.resources[i].link.path) /\ parent.resources[i].link.path # << >>
  BY DEF IsElement
<1> HIDE DEF n, places, linked, files
<1>5. /\ IsList(linked)
      /\ { linked[i] : i \in DOMAIN linked } = { parent.resources[i] : i \in places }
  BY <1>1, <1>2, KeptIs DEF linked
<1>6. \A i \in DOMAIN linked : \E j \in places : linked[i] = parent.resources[j]
  BY <1>5
<1>7. \A i \in DOMAIN files : files[i].uri = linked[i].link /\ i \in DOMAIN linked
  BY <1>3
<1>8. \A i \in DOMAIN files : IsList(files[i].uri.path) /\ files[i].uri.path # << >>
  BY <1>4, <1>6, <1>7
<1>9. IsList(files)
  <2>1. Len(linked) \in Nat /\ DOMAIN linked = 1..Len(linked)
    BY <1>5, ListIs
  <2>2. files = [i \in 1..Len(linked) |-> files[i]]
    BY <1>3, <2>1
  <2>3. QED
    BY <2>1, <2>2, MadeList
<1>10. QED
  BY <1>8, <1>9 DEF files

(* The chapters are sorted by their numbers, given or counted. *)
LEMMA ItemsAreSorted ==
    ASSUME NEW product, IsProduct(product)
    PROVE  LET items == Items(product)
           IN  /\ IsList(items)
               /\ \A n \in DOMAIN items : IsElement(items[n]) /\ items[n].sequence \in Int
               /\ \A m, n \in DOMAIN items : m < n => items[m].sequence <= items[n].sequence
<1> DEFINE given == product.items
           numbered == Numbered(given)
           items == Items(product)
<1>1. Len(given) \in Nat /\ DOMAIN given = 1..Len(given)
  BY ListIs DEF IsProduct
<1>2. IsList(numbered) /\ DOMAIN numbered = 1..Len(given)
  <2>1. numbered = [i \in 1..Len(given) |-> numbered[i]]
    BY <1>1 DEF Numbered
  <2>2. QED
    BY <1>1, <2>1, MadeList
<1>3. \A i \in 1..Len(given) : IsElement(numbered[i]) /\ numbered[i].sequence \in Int
  <2> SUFFICES ASSUME NEW i \in 1..Len(given)
               PROVE  IsElement(numbered[i]) /\ numbered[i].sequence \in Int
    OBVIOUS
  <2>1. /\ IsElement(given[i])
        /\ { "sequence", "contributors", "resources" } \subseteq DOMAIN given[i]
        /\ given[i].sequence = None \/ given[i].sequence \in Int
    BY <1>1 DEF IsProduct
  <2>2. numbered[i] = IF given[i].sequence = None THEN [given[i] EXCEPT !.sequence = i - 1]
                      ELSE given[i]
    BY <1>1 DEF Numbered
  <2>3. /\ numbered[i].contributors = given[i].contributors
        /\ numbered[i].resources = given[i].resources
        /\ numbered[i].sequence \in Int
    BY <2>1, <2>2
  <2>4. QED
    BY <2>1, <2>3 DEF IsElement
<1>4. items = InSequence(numbered)
  BY DEF Items
<1> HIDE DEF given, numbered, items
<1>5. /\ IsList(items)
      /\ \A n \in DOMAIN items : \E i \in DOMAIN numbered : items[n] = numbered[i]
      /\ \A m, n \in DOMAIN items : m < n => items[m].sequence <= items[n].sequence
  BY <1>2, <1>3, <1>4, InSequenceSorts
<1>6. \A n \in DOMAIN items : IsElement(items[n]) /\ items[n].sequence \in Int
  BY <1>2, <1>3, <1>5
<1>7. QED
  BY <1>5, <1>6 DEF items

LEMMA BookIsSource ==
    ASSUME NEW product, IsProduct(product)
    PROVE  IsSource(ReadBook(product))
<1> DEFINE book == ReadBook(product)
<1>1. /\ book.type = "book" /\ book.contributors = Contributors(product)
      /\ book.files = SupportingResources(product)
  BY DEF ReadBook
<1>2. IsList(Contributors(product))
  BY ContributorsAreListed DEF IsProduct, IsElement
<1>3. /\ IsList(book.files)
      /\ \A i \in DOMAIN book.files :
             IsList(book.files[i].uri.path) /\ book.files[i].uri.path # << >>
  BY <1>1, FilesAreListed DEF IsProduct
<1>4. BookOf(book) = book
  BY <1>1 DEF BookOf
<1>5. QED
  BY <1>1, <1>2, <1>3, <1>4 DEF IsSource

LEMMA ChapterIsSource ==
    ASSUME NEW product, IsProduct(product), NEW item, IsElement(item)
    PROVE  LET chapter == ReadChapter(item, ReadBook(product))
           IN  /\ IsSource(chapter)
               /\ BookOf(chapter) = BookContext(ReadBook(product))
<1> DEFINE book == ReadBook(product)
           chapter == ReadChapter(item, book)
<1>1. /\ chapter.type = "chapter" /\ chapter.contributors = Contributors(item)
      /\ chapter.files = SupportingResources(item) /\ chapter.book = BookContext(book)
  BY DEF ReadChapter
<1>2. IsList(Contributors(item))
  BY ContributorsAreListed DEF IsElement
<1>3. /\ IsList(chapter.files)
      /\ \A i \in DOMAIN chapter.files :
             IsList(chapter.files[i].uri.path) /\ chapter.files[i].uri.path # << >>
  BY <1>1, FilesAreListed
<1>4. BookOf(chapter) = BookContext(book)
  BY <1>1 DEF BookOf
<1>5. IsList(BookContext(book).contributors)
  BY BookIsSource DEF IsSource, BookOf, BookContext, ReadBook
<1>6. QED
  BY <1>1, <1>2, <1>3, <1>4, <1>5 DEF IsSource

-----------------------------------------------------------------------------
(* The group of a product.                                                 *)

Chapter(product, i) == ReadChapter(Items(product)[i], ReadBook(product))

(* A book and its chapters, at the places that their positions say. *)
LEMMA GroupIs ==
    ASSUME NEW product, IsProduct(product)
    PROVE  LET group == LoadGroup(product)
               n == Len(Items(product))
           IN  /\ n \in Nat /\ IsList(group) /\ Len(group) = n + 1
               /\ group[1].data = ReadBook(product) /\ group[1].position = 0
               /\ n > 0 => /\ group[1].key = BookKey /\ group[1].role = "parent"
                           /\ group[1].relations = Intents(ReadBook(product))
               /\ \A i \in 1..n :
                      /\ group[i + 1].data = Chapter(product, i)
                      /\ group[i + 1].key = Key(Items(product)[i])
                      /\ group[i + 1].role = "child"
                      /\ group[i + 1].position = i
                      /\ group[i + 1].relations = Intents(Chapter(product, i))
<1> DEFINE group == LoadGroup(product)
           items == Items(product)
           n == Len(items)
           book == ReadBook(product)
           chapters == [i \in DOMAIN items |-> Chapter(product, i)]
           Member(src, key, role, position) ==
               [ data |-> src, key |-> key, role |-> role, position |-> position,
                 relations |-> Intents(src) ]
           parent == Member(book, BookKey, "parent", 0)
           children == [i \in DOMAIN items |-> Member(Chapter(product, i), Key(items[i]), "child", i)]
<1>1. n \in Nat /\ DOMAIN items = 1..n
  BY ItemsAreSorted, ListIs
<1>2. ParseProduct(product) = << book, chapters >>
  BY DEF ParseProduct, Chapter
<1>3. \A i \in DOMAIN items : chapters[i].key = Key(items[i])
  BY DEF Chapter, ReadChapter
<1>4. group = IF chapters = << >> THEN << GroupEntry(book) >> ELSE << parent >> \o children
  BY <1>2, <1>3 DEF LoadGroup, Position
<1>5. chapters = << >> <=> n = 0
  <2>1. DOMAIN chapters = 1..n
    BY <1>1
  <2>2. n = 0 => chapters = << >>
    BY <1>1
  <2>3. chapters = << >> => n = 0
    BY <1>1, <2>1
  <2>4. QED
    BY <2>2, <2>3
<1>6. CASE n = 0
  <2>1. group = << GroupEntry(book) >>
    BY <1>4, <1>5, <1>6
  <2>2. group = [i \in 1..1 |-> group[i]] /\ group[1] = GroupEntry(book)
    BY <2>1
  <2>3. IsList(group) /\ Len(group) = 1
    BY <2>2, MadeList
  <2>4. group[1].data = book /\ group[1].position = 0
    BY <2>2 DEF GroupEntry
  <2>5. QED
    BY <1>1, <1>6, <2>3, <2>4
<1>7. CASE n > 0
  <2>1. group = << parent >> \o children
    BY <1>1, <1>4, <1>5, <1>7
  <2>2. IsList(<< parent >>) /\ Len(<< parent >>) = 1
    <3>1. << parent >> = [i \in 1..1 |-> << parent >>[i]]
      OBVIOUS
    <3>2. QED
      BY <3>1, MadeList
  <2>3. IsList(children) /\ Len(children) = n
    <3>1. children = [i \in 1..n |-> children[i]]
      BY <1>1
    <3>2. QED
      BY <1>1, <3>1, MadeList
  <2> HIDE DEF group, parent, children
  <2>4. /\ IsList(group) /\ Len(group) = 1 + n
        /\ group[1] = parent
        /\ \A i \in 1..n : group[1 + i] = children[i]
    <3>1. /\ \A i \in 1..1 : group[i] = << parent >>[i]
          /\ \A i \in 1..n : group[1 + i] = children[i]
          /\ IsList(group) /\ Len(group) = 1 + n
      BY <2>1, <2>2, <2>3, JoinedList
    <3>2. QED
      BY <3>1
  <2>5. \A i \in 1..n :
            children[i] = Member(Chapter(product, i), Key(items[i]), "child", i)
    BY <1>1 DEF children
  <2>6. \A i \in 1..n : group[i + 1] = Member(Chapter(product, i), Key(items[i]), "child", i)
    BY <1>1, <2>4, <2>5
  <2> HIDE DEF items, book, n
  <2>7. \A i \in 1..n :
            /\ group[i + 1].data = Chapter(product, i)
            /\ group[i + 1].key = Key(items[i])
            /\ group[i + 1].role = "child"
            /\ group[i + 1].position = i
            /\ group[i + 1].relations = Intents(Chapter(product, i))
    <3> SUFFICES ASSUME NEW i \in 1..n
                 PROVE  /\ group[i + 1].data = Chapter(product, i)
                        /\ group[i + 1].key = Key(items[i])
                        /\ group[i + 1].role = "child"
                        /\ group[i + 1].position = i
                        /\ group[i + 1].relations = Intents(Chapter(product, i))
      OBVIOUS
    <3>1. group[i + 1] = Member(Chapter(product, i), Key(items[i]), "child", i)
      BY <2>6
    <3>2. QED
      BY <3>1
  <2>8. /\ group[1].data = book /\ group[1].position = 0
        /\ group[1].key = BookKey /\ group[1].role = "parent"
        /\ group[1].relations = Intents(book)
    BY <2>4 DEF parent
  <2>9. QED
    BY <1>1, <2>4, <2>7, <2>8 DEF items, book, n, group
<1>8. QED
  BY <1>1, <1>6, <1>7

(* Every record of a group can be transformed, and has its place. *)
LEMMA GroupHasSources ==
    ASSUME NEW product, IsProduct(product), NEW i \in DOMAIN LoadGroup(product)
    PROVE  /\ IsSource(LoadGroup(product)[i].data)
           /\ BookOf(LoadGroup(product)[i].data).status = product.status
           /\ LoadGroup(product)[i].position = i - 1
<1> DEFINE group == LoadGroup(product)
           items == Items(product)
           n == Len(items)
           book == ReadBook(product)
<1>1. n \in Nat /\ DOMAIN items = 1..n /\ DOMAIN group = 1..(n + 1)
  BY GroupIs, ItemsAreSorted, ListIs
<1>2. CASE i = 1
  <2>1. group[i].data = book /\ group[i].position = 0
    BY <1>2, GroupIs
  <2>2. IsSource(book)
    BY BookIsSource
  <2>3. BookOf(book).status = product.status
    BY DEF BookOf, ReadBook
  <2>4. QED
    BY <1>2, <2>1, <2>2, <2>3
<1>3. CASE i # 1
  <2> DEFINE k == i - 1
  <2>1. k \in 1..n /\ i = k + 1
    BY <1>1, <1>3
  <2>2. group[k + 1].data = Chapter(product, k) /\ group[k + 1].position = k
    BY <2>1, GroupIs
  <2>3. IsElement(items[k])
    BY <1>1, <2>1, ItemsAreSorted
  <2>4. IsSource(Chapter(product, k)) /\ BookOf(Chapter(product, k)) = BookContext(book)
    BY <2>3, ChapterIsSource DEF Chapter
  <2>5. BookContext(book).status = product.status
    BY DEF BookContext, ReadBook
  <2>6. QED
    BY <2>1, <2>2, <2>4, <2>5
<1>4. QED
  BY <1>2, <1>3

(* A withdrawn title takes its chapters with it. *)
LEMMA WithdrawnIsRefused ==
    ASSUME NEW src, BookOf(src).status = "withdrawn"
    PROVE  OnixErrors(src, "import") # {}
<1>1. "retracted_title" \in Precheck(src)
  BY DEF Precheck
<1>2. QED
  BY <1>1 DEF OnixErrors

(* Unless two keys clash, chapters come in the strict order of their keys. *)
LEMMA GroupIsOrdered ==
    ASSUME NEW product, IsProduct(product), ~ KeysClash(product),
           NEW i \in DOMAIN LoadGroup(product), NEW j \in DOMAIN LoadGroup(product), i < j
    PROVE  LET group == LoadGroup(product)
           IN  /\ group[i].role = IF i = 1 THEN "parent" ELSE "child"
               /\ i > 1 => group[i].key[2] < group[j].key[2]
<1> DEFINE group == LoadGroup(product)
           items == Items(product)
           n == Len(items)
<1>1. n \in Nat /\ DOMAIN items = 1..n /\ DOMAIN group = 1..(n + 1)
  BY GroupIs, ItemsAreSorted, ListIs
<1>2. n > 0
  BY <1>1
<1>3. i = 1 => group[i].role = "parent"
  BY <1>2, GroupIs
<1>4. ASSUME i > 1
      PROVE  group[i].role = "child" /\ group[i].key[2] < group[j].key[2]
  <2> DEFINE k == i - 1
             m == j - 1
  <2>1. k \in 1..n /\ m \in 1..n /\ k < m /\ i = k + 1 /\ j = m + 1
    BY <1>1, <1>4
  <2> HIDE DEF k, m
  <2>2. /\ group[k + 1].role = "child" /\ group[k + 1].key = Key(items[k])
        /\ group[m + 1].key = Key(items[m])
    BY <2>1, GroupIs
  <2>3. /\ items[k].sequence \in Int /\ items[m].sequence \in Int
        /\ items[k].sequence <= items[m].sequence
    BY <1>1, <2>1, ItemsAreSorted
  <2>4. Key(items[k]) # Key(items[m])
    BY <1>1, <2>1 DEF KeysClash
  <2>5. Key(items[k])[2] = items[k].sequence /\ Key(items[m])[2] = items[m].sequence
    BY DEF Key
  <2>6. items[k].sequence # items[m].sequence
    BY <2>4 DEF Key
  <2>7. QED
    BY <2>1, <2>2, <2>3, <2>5, <2>6
<1>5. QED
  BY <1>1, <1>3, <1>4

(* The links of a record lead to the others, by DOI or as intents. *)
LEMMA LinksLead ==
    ASSUME NEW src, NEW s \in Siblings(src)
    PROVE  /\ s.doi # None => s.doi \in { r.doi : r \in OnixPayload(src).related }
           /\ s.doi = None => s.target \in { r.target : r \in Intents(src) }
<1>1. OnixPayload(src).related = RelatedIdentifiers(src)
  BY DEF OnixPayload
<1>2. ASSUME s.doi # None
      PROVE  s.doi \in { r.doi : r \in RelatedIdentifiers(src) }
  <2>1. [ doi |-> s.doi, relation |-> s.relation ] \in RelatedIdentifiers(src)
    BY <1>2 DEF RelatedIdentifiers
  <2>2. [ doi |-> s.doi, relation |-> s.relation ].doi = s.doi
    OBVIOUS
  <2>3. QED
    BY <2>1, <2>2
<1>3. ASSUME s.doi = None
      PROVE  s.target \in { r.target : r \in Intents(src) }
  <2>1. [ target |-> s.target, relation |-> s.relation ] \in Intents(src)
    BY <1>3 DEF Intents
  <2>2. [ target |-> s.target, relation |-> s.relation ].target = s.target
    OBVIOUS
  <2>3. QED
    BY <2>1, <2>2
<1>4. QED
  BY <1>1, <1>2, <1>3

(* What LinksMeet says of two records of a group. *)
Linked(group, i, j) ==
    \/ /\ group[j].data.doi # None
       /\ group[j].data.doi \in { r.doi : r \in OnixPayload(group[i].data).related }
    \/ /\ group[j].data.doi = None
       /\ group[j].key \in { r.target : r \in group[i].relations }
       /\ \A k \in DOMAIN group : group[k].key = group[j].key => k = j

LEMMA GroupIsLinked ==
    ASSUME NEW product, IsProduct(product), ~ KeysClash(product),
           NEW i \in DOMAIN LoadGroup(product), NEW j \in DOMAIN LoadGroup(product),
           (i = 1 /\ j > 1) \/ (i > 1 /\ j = 1)
    PROVE  Linked(LoadGroup(product), i, j)
<1> DEFINE group == LoadGroup(product)
           items == Items(product)
           n == Len(items)
           book == ReadBook(product)
<1>1. n \in Nat /\ n > 0 /\ DOMAIN items = 1..n /\ DOMAIN group = 1..(n + 1)
  <2>1. n \in Nat /\ DOMAIN items = 1..n /\ DOMAIN group = 1..(n + 1)
    BY GroupIs, ItemsAreSorted, ListIs
  <2>2. QED
    BY <2>1
<1>2. /\ group[1].data = book /\ group[1].key = BookKey
      /\ group[1].relations = Intents(book)
  BY <1>1, GroupIs
<1>3. \A k \in 1..n : /\ group[k + 1].data = Chapter(product, k)
                     /\ group[k + 1].key = Key(items[k])
                     /\ group[k + 1].relations = Intents(Chapter(product, k))
  BY GroupIs
<1>4. \A k \in 1..n : Key(items[k]) # BookKey
  BY DEF Key, BookKey
<1>5. \A k \in DOMAIN group : group[k].key = group[j].key => k = j
  <2> SUFFICES ASSUME NEW k \in DOMAIN group, k # j PROVE group[k].key # group[j].key
    OBVIOUS
  <2>0. \A l \in DOMAIN group : l = 1 \/ (l - 1 \in 1..n /\ l = (l - 1) + 1)
    BY <1>1
  <2>1. CASE j = 1
    <3>1. k - 1 \in 1..n /\ k = (k - 1) + 1
      BY <2>0, <2>1
    <3>2. QED
      BY <1>2, <1>3, <1>4, <2>1, <3>1
  <2>2. CASE j # 1 /\ k = 1
    <3>1. j - 1 \in 1..n /\ j = (j - 1) + 1
      BY <2>0, <2>2
    <3>2. QED
      BY <1>2, <1>3, <1>4, <2>2, <3>1
  <2>3. CASE j # 1 /\ k # 1
    <3>1. /\ j - 1 \in 1..n /\ j = (j - 1) + 1
          /\ k - 1 \in 1..n /\ k = (k - 1) + 1
      BY <2>0, <2>3
    <3>2. j - 1 # k - 1
      BY <3>1
    <3>3. Key(items[j - 1]) # Key(items[k - 1])
      BY <1>1, <3>1, <3>2 DEF KeysClash
    <3>4. QED
      BY <1>3, <3>1, <3>3
  <2>4. QED
    BY <2>1, <2>2, <2>3
<1>6. CASE i = 1 /\ j > 1
  <2> DEFINE k == j - 1
             s == [ target |-> book.chapters[k].key, doi |-> book.chapters[k].doi,
                    relation |-> "haspart" ]
  <2>1. k \in 1..n /\ j = k + 1
    BY <1>1, <1>6
  <2>2. /\ book.type = "book"
        /\ book.chapters = [l \in DOMAIN items |-> [ key |-> Key(items[l]), doi |-> items[l].doi ]]
    BY DEF ReadBook
  <2>3. s \in Siblings(book)
    BY <1>1, <2>1, <2>2 DEF Siblings
  <2>4. s.target = Key(items[k]) /\ s.doi = items[k].doi
    BY <1>1, <2>1, <2>2
  <2>5. group[j].data.doi = items[k].doi /\ group[j].key = Key(items[k])
    <3>1. group[k + 1].data = Chapter(product, k) /\ group[k + 1].key = Key(items[k])
      BY <1>3, <2>1
    <3>2. Chapter(product, k).doi = items[k].doi
      BY DEF Chapter, ReadChapter
    <3>3. QED
      BY <2>1, <3>1, <3>2
  <2> HIDE DEF s, k
  <2>6. /\ s.doi # None => s.doi \in { r.doi : r \in OnixPayload(book).related }
        /\ s.doi = None => s.target \in { r.target : r \in Intents(book) }
    BY <2>3, LinksLead
  <2>7. QED
    BY <1>2, <1>5, <1>6, <2>4, <2>5, <2>6 DEF Linked
<1>7. CASE i > 1 /\ j = 1
  <2> DEFINE k == i - 1
             src == Chapter(product, k)
             s == [ target |-> BookKey, doi |-> src.book.doi, relation |-> "ispartof" ]
  <2>1. k \in 1..n /\ i = k + 1
    BY <1>1, <1>7
  <2>2. src.type = "chapter" /\ src.book.doi = book.doi
    BY DEF Chapter, ReadChapter, BookContext
  <2>3. s \in Siblings(src)
    BY <2>2 DEF Siblings
  <2>4. s.target = BookKey /\ s.doi = book.doi
    BY <2>2
  <2>5. group[i].data = src /\ group[i].relations = Intents(src)
    BY <1>3, <2>1
  <2> HIDE DEF s, src
  <2>6. /\ s.doi # None => s.doi \in { r.doi : r \in OnixPayload(src).related }
        /\ s.doi = None => s.target \in { r.target : r \in Intents(src) }
    BY <2>3, LinksLead
  <2>7. QED
    BY <1>2, <1>5, <1>7, <2>4, <2>5, <2>6 DEF Linked
<1>8. QED
  BY <1>6, <1>7

-----------------------------------------------------------------------------
(* People.                                                                 *)

Who(credits) == { credits[i].who : i \in DOMAIN credits }

WhoOf(contributors, places) == { PersonOrOrg(contributors[i]) : i \in places }

Named(contributors) == { i \in DOMAIN contributors : PersonOrOrg(contributors[i]) # None }

Places(contributors, list) ==
    { i \in DOMAIN contributors : /\ PersonOrOrg(contributors[i]) # None
                                  /\ RoleOf(contributors[i].role)[1] = list }

(* Who is in a list of credits, and how often. *)
LEMMA CreditedIs ==
    ASSUME NEW contributors, IsList(contributors), NEW list
    PROVE  LET credits == Credited(contributors, list)
               places == Places(contributors, list)
           IN  /\ IsFiniteSet(places)
               /\ IsList(credits) /\ Len(credits) = Cardinality(places)
               /\ Who(credits) = WhoOf(contributors, places)
<1> DEFINE n == Len(contributors)
           places == Places(contributors, list)
           listed == Kept(contributors, places)
           credits == Credited(contributors, list)
<1>1. n \in Nat /\ DOMAIN contributors = 1..n
  BY ListIs
<1>2. places \in SUBSET (1..n)
  BY <1>1 DEF Places
<1>3. credits = [i \in DOMAIN listed |->
                    [ who |-> PersonOrOrg(listed[i]), role |-> RoleOf(listed[i].role)[2] ]]
  BY DEF Credited, Places
<1> HIDE DEF n, places, listed, credits
<1>5. /\ IsFiniteSet(places) /\ IsList(listed) /\ Len(listed) = Cardinality(places)
      /\ { listed[i] : i \in DOMAIN listed } = { contributors[i] : i \in places }
  BY <1>1, <1>2, KeptIs DEF listed
<1>6. Len(listed) \in Nat /\ DOMAIN listed = 1..Len(listed)
  BY <1>5, ListIs
<1>7. IsList(credits) /\ Len(credits) = Len(listed)
  <2>1. credits = [i \in 1..Len(listed) |-> credits[i]]
    BY <1>3, <1>6
  <2>2. QED
    BY <1>6, <2>1, MadeList
<1>8. Who(credits) = WhoOf(contributors, places)
  <2>1. DOMAIN credits = DOMAIN listed /\ \A i \in DOMAIN listed : credits[i].who = PersonOrOrg(listed[i])
    BY <1>3
  <2>2. \A i \in DOMAIN listed : \E j \in places : listed[i] = contributors[j]
    BY <1>5
  <2>3. \A j \in places : \E i \in DOMAIN listed : listed[i] = contributors[j]
    BY <1>5
  <2>4. QED
    BY <2>1, <2>2, <2>3 DEF Who, WhoOf
<1>9. QED
  BY <1>5, <1>7, <1>8 DEF places, credits

(* The two lists have everybody with a name, once.                         *)
LEMMA CreditsAreAll ==
    ASSUME NEW contributors, IsList(contributors), NEW all,
           all = Credited(contributors, "creators") \o Credited(contributors, "contributors")
    PROVE  LET named == Named(contributors)
           IN  /\ IsList(Credited(contributors, "creators"))
               /\ IsList(Credited(contributors, "contributors"))
               /\ WhoOf(contributors, named) = Who(all)
               /\ Cardinality(named) = Len(all)
<1> DEFINE cs == Places(contributors, "creators")
           os == Places(contributors, "contributors")
           creators == Credited(contributors, "creators")
           others == Credited(contributors, "contributors")
           named == Named(contributors)
<1>1. \A code : RoleOf(code)[1] \in { "creators", "contributors" }
  BY RolesAssumption DEF RoleOf
<1>2. named = cs \cup os /\ cs \cap os = {}
  BY <1>1 DEF Named, Places
<1>3. /\ IsFiniteSet(cs) /\ IsList(creators) /\ Len(creators) = Cardinality(cs)
      /\ Who(creators) = WhoOf(contributors, cs)
  BY CreditedIs
<1>4. /\ IsFiniteSet(os) /\ IsList(others) /\ Len(others) = Cardinality(os)
      /\ Who(others) = WhoOf(contributors, os)
  BY CreditedIs
<1>a. all = creators \o others
  OBVIOUS
<1> HIDE DEF cs, os, named, creators, others
<1>5. /\ IsList(all) /\ Len(all) = Len(creators) + Len(others)
      /\ \A i \in 1..Len(creators) : all[i] = creators[i]
      /\ \A i \in 1..Len(others) : all[Len(creators) + i] = others[i]
  <2>1. /\ IsList(creators \o others)
        /\ Len(creators \o others) = Len(creators) + Len(others)
        /\ \A i \in 1..Len(creators) : (creators \o others)[i] = creators[i]
        /\ \A i \in 1..Len(others) : (creators \o others)[Len(creators) + i] = others[i]
    <3>1. IsList(creators) /\ IsList(others)
      BY <1>3, <1>4
    <3>2. QED
      BY ONLY <3>1, JoinedList
  <2>2. QED
    BY <1>a, <2>1
<1>6. /\ Len(creators) \in Nat /\ DOMAIN creators = 1..Len(creators)
      /\ Len(others) \in Nat /\ DOMAIN others = 1..Len(others)
      /\ DOMAIN all = 1..Len(all)
  BY <1>3, <1>4, <1>5, ListIs
<1>7. Cardinality(named) = Len(all)
  <2>1. Cardinality(named) = Cardinality(cs) + Cardinality(os) - Cardinality(cs \cap os)
    BY <1>2, <1>3, <1>4, FS_Union
  <2>2. Cardinality(cs \cap os) = 0
    BY <1>2, FS_EmptySet
  <2>3. QED
    BY <1>3, <1>4, <1>5, <1>6, <2>1, <2>2
<1>8. \A i \in DOMAIN all : \/ \E j \in DOMAIN creators : all[i] = creators[j]
                          \/ \E j \in DOMAIN others : all[i] = others[j]
  <2> SUFFICES ASSUME NEW i \in DOMAIN all
               PROVE  \/ \E j \in DOMAIN creators : all[i] = creators[j]
                      \/ \E j \in DOMAIN others : all[i] = others[j]
    OBVIOUS
  <2>1. CASE i <= Len(creators)
    BY <1>5, <1>6, <2>1
  <2>2. CASE i > Len(creators)
    <3>1. i - Len(creators) \in 1..Len(others) /\ i = Len(creators) + (i - Len(creators))
      BY <1>5, <1>6, <2>2
    <3>2. all[i] = others[i - Len(creators)]
      BY <1>5, <3>1
    <3>3. QED
      BY <1>6, <3>1, <3>2
  <2>3. QED
    BY <1>5, <1>6, <2>1, <2>2
<1>9. /\ \A j \in DOMAIN creators : \E i \in DOMAIN all : all[i] = creators[j]
      /\ \A j \in DOMAIN others : \E i \in DOMAIN all : all[i] = others[j]
  <2>1. \A j \in DOMAIN creators : j \in DOMAIN all
    BY <1>5, <1>6
  <2>2. \A j \in DOMAIN others : Len(creators) + j \in DOMAIN all
    BY <1>5, <1>6
  <2>3. QED
    BY <1>5, <1>6, <2>1, <2>2
<1>10. WhoOf(contributors, named) = Who(all)
  <2>1. Who(all) = Who(creators) \cup Who(others)
    BY <1>8, <1>9 DEF Who
  <2>2. WhoOf(contributors, named) = WhoOf(contributors, cs) \cup WhoOf(contributors, os)
    BY <1>2 DEF WhoOf
  <2>3. QED
    BY <1>3, <1>4, <2>1, <2>2
<1>11. QED
  BY <1>3, <1>4, <1>7, <1>10 DEF creators, others, named

(* What NobodyIsLost says of a record. *)
Everybody(src) ==
    LET credited == IF src.contributors = << >> THEN BookOf(src).contributors
                    ELSE src.contributors
        onRecord == OnixPayload(src).creators \o OnixPayload(src).contributors
    IN  /\ WhoOf(credited, Named(credited)) = Who(onRecord)
        /\ Cardinality(Named(credited)) = Len(onRecord)

LEMMA EverybodyIsCredited ==
    ASSUME NEW src, IsSource(src)
    PROVE  Everybody(src)
<1> DEFINE credited == IF src.contributors = << >> THEN BookOf(src).contributors
                       ELSE src.contributors
           creators == Credited(credited, "creators")
           others == Credited(credited, "contributors")
           onRecord == OnixPayload(src).creators \o OnixPayload(src).contributors
<1>1. onRecord = Credits(src)[1] \o Credits(src)[2]
  BY DEF OnixPayload
<1>2. IsList(credited)
  BY DEF IsSource
<1>3. IsList(creators) /\ IsList(others)
  BY <1>2, CreditsAreAll
<1>a. src.type = "chapter" /\ src.contributors # << >> => credited = src.contributors
  OBVIOUS
<1>b. ~ (src.type = "chapter" /\ src.contributors # << >>) => credited = BookOf(src).contributors
  BY DEF IsSource, BookOf
<1> HIDE DEF credited, onRecord
<1>4. ASSUME NEW s, IsList(s)
      PROVE  s \o << >> = s /\ << >> \o s = s
  BY <1>4 DEF IsList
<1>7. onRecord = creators \o others
  <2>1. CASE src.type = "chapter" /\ src.contributors # << >>
    <3>1. Credits(src) = << creators \o others, << >> >>
      BY <2>1, <1>a DEF Credits
    <3> HIDE DEF creators, others
    <3>2. IsList(creators \o others)
      BY <1>3, JoinedList
    <3>3. onRecord = (creators \o others) \o << >>
      BY <1>1, <3>1
    <3>4. QED
      BY <1>4, <3>2, <3>3
  <2>2. CASE ~ (src.type = "chapter" /\ src.contributors # << >>)
    <3>1. Credits(src) = BookCredits(credited)
      BY <2>2, <1>b DEF Credits
    <3>2. BookCredits(credited) = IF creators = << >> THEN << others, << >> >> ELSE << creators, others >>
      BY DEF BookCredits
    <3> HIDE DEF creators, others
    <3>3. CASE creators = << >>
      <4>1. onRecord = others \o << >>
        BY <1>1, <3>1, <3>2, <3>3
      <4>2. QED
        BY <1>3, <1>4, <3>3, <4>1
    <3>4. CASE creators # << >>
      BY <1>1, <3>1, <3>2, <3>4
    <3>5. QED
      BY <3>3, <3>4
  <2>3. QED
    BY <2>1, <2>2
<1>8. QED
  <2>1. /\ WhoOf(credited, Named(credited)) = Who(onRecord)
        /\ Cardinality(Named(credited)) = Len(onRecord)
    BY <1>2, <1>7, CreditsAreAll
  <2>2. QED
    BY <2>1 DEF Everybody, credited, onRecord

-----------------------------------------------------------------------------
(* Files.                                                                  *)

(* What is listed for a record is attached to it.                          *)
LEMMA FilesAreAttached ==
    ASSUME NEW src, IsSource(src), NEW i \in DOMAIN OnixPayload(src).files
    PROVE  \E f \in Attached(src) : OnixPayload(src).files[i] = f.uri
<1> DEFINE n == Len(src.files)
           PlacesOf(role) == { j \in DOMAIN src.files : src.files[j].role = role }
           OfRole(role) == Kept(src.files, PlacesOf(role))
           files == Files(src)
<1>1. n \in Nat /\ DOMAIN src.files = 1..n
  BY ListIs DEF IsSource
<1>2. ASSUME NEW role
      PROVE  /\ IsList(OfRole(role))
             /\ \A j \in DOMAIN OfRole(role) :
                    OfRole(role)[j] \in { src.files[k] : k \in PlacesOf(role) }
  <2> DEFINE places == PlacesOf(role)
             kept == Kept(src.files, places)
  <2>1. places \in SUBSET (1..n)
    BY <1>1
  <2> HIDE DEF places, n
  <2>2. /\ IsList(kept)
        /\ { kept[k] : k \in DOMAIN kept } = { src.files[k] : k \in places }
    BY <1>1, <2>1, KeptIs
  <2>3. \A j \in DOMAIN kept : kept[j] \in { src.files[k] : k \in places }
    BY <2>2
  <2>4. QED
    BY <2>2, <2>3 DEF places
<1>3. /\ "content" \in AttachedRoles(src)
      /\ src.type = "book" => "cover" \in AttachedRoles(src)
  BY DEF AttachedRoles
<1>4. \A role \in AttachedRoles(src) : { src.files[k] : k \in PlacesOf(role) } \subseteq Attached(src)
  BY DEF Attached
<1>5. \A role \in AttachedRoles(src) : \A j \in DOMAIN OfRole(role) : OfRole(role)[j] \in Attached(src)
  BY <1>2, <1>4
<1>6. files = IF src.type = "book" THEN OfRole("content") \o OfRole("cover") ELSE OfRole("content")
  BY DEF Files
<1> HIDE DEF OfRole, files, n
<1>7. \A j \in DOMAIN files : files[j] \in Attached(src)
  <2>1. CASE src.type = "book"
    <3> DEFINE s == OfRole("content")
               t == OfRole("cover")
    <3>1. IsList(s) /\ IsList(t) /\ files = s \o t
      BY <1>2, <1>6, <2>1
    <3>2. /\ \A j \in DOMAIN s : s[j] \in Attached(src)
          /\ \A j \in DOMAIN t : t[j] \in Attached(src)
      BY <1>3, <1>5, <2>1
    <3> HIDE DEF s, t
    <3>3. /\ Len(s) \in Nat /\ DOMAIN s = 1..Len(s)
          /\ Len(t) \in Nat /\ DOMAIN t = 1..Len(t)
      BY <3>1, ListIs
    <3>4. /\ IsList(s \o t) /\ Len(s \o t) = Len(s) + Len(t)
          /\ \A j \in 1..Len(s) : (s \o t)[j] = s[j]
          /\ \A j \in 1..Len(t) : (s \o t)[Len(s) + j] = t[j]
      BY ONLY <3>1, JoinedList
    <3>5. DOMAIN files = 1..(Len(s) + Len(t))
      BY <3>1, <3>4, ListIs
    <3>6. SUFFICES ASSUME NEW j \in 1..(Len(s) + Len(t)) PROVE files[j] \in Attached(src)
      BY <3>5
    <3>7. CASE j <= Len(s)
      BY <3>1, <3>2, <3>3, <3>4, <3>7
    <3>8. CASE j > Len(s)
      <4>1. j - Len(s) \in 1..Len(t) /\ j = Len(s) + (j - Len(s))
        BY <3>3, <3>8
      <4>2. files[j] = t[j - Len(s)]
        BY <3>1, <3>4, <4>1
      <4>3. QED
        BY <3>2, <3>3, <4>1, <4>2
    <3>9. QED
      BY <3>3, <3>7, <3>8
  <2>2. CASE src.type # "book"
    BY <1>3, <1>5, <1>6, <2>2
  <2>3. QED
    BY <2>1, <2>2
<1>8. OnixPayload(src).files = [j \in DOMAIN files |-> files[j].uri]
  BY DEF OnixPayload, files
<1>9. QED
  BY <1>7, <1>8

(* Where no slash ends a link, the name that is checked is its last one.   *)
LEMMA LastNameIsLast ==
    ASSUME NEW path, IsList(path), path # << >>, path[Len(path)] # None
    PROVE  LastName(path) = path[Len(path)]
<1> DEFINE n == Len(path)
           named == { i \in DOMAIN path : path[i] # None }
           last == CHOOSE i \in named : \A j \in named : j <= i
<1>1. n \in Nat /\ DOMAIN path = 1..n
  BY ListIs
<1>2. n > 0
  BY DEF IsList
<1>3. n \in named /\ \A j \in named : j <= n
  BY <1>1, <1>2
<1>4. last \in named /\ \A j \in named : j <= last
  BY <1>3
<1>5. last = n
  <2>1. last <= n /\ n <= last /\ last \in 1..n
    BY <1>1, <1>3, <1>4
  <2>2. QED
    BY <1>1, <2>1
<1>6. LastName(path) = path[last]
  BY <1>3 DEF LastName
<1>7. QED
  BY <1>5, <1>6

(* What FilesKeepTheirNames says of a file of a record. *)
KeepsItsName(src, i) ==
    LET uri == OnixPayload(src).files[i]
        key == uri.path[Len(uri.path)]
    IN  /\ uri.scheme = "gs"
        /\ \A f \in Attached(src) :
               f.uri = uri /\ f.filename # None /\ key # None => key = f.filename

LEMMA FilesAreNamed ==
    ASSUME NEW src, IsSource(src), OnixErrors(src, "import") = {},
           NEW i \in DOMAIN OnixPayload(src).files
    PROVE  KeepsItsName(src, i)
<1> DEFINE uri == OnixPayload(src).files[i]
           key == uri.path[Len(uri.path)]
           Found(f) == (IF f.uri.scheme = "gs" THEN {} ELSE { "invalid_file_uri" }) \cup
                       (IF NameMismatch(f) THEN { "file_name_mismatch" } ELSE {})
<1>1. Precheck(src) = {}
  BY DEF OnixErrors
<1>2. \A f \in Attached(src) : Found(f) = {}
  <2>1. UNION { Found(f) : f \in Attached(src) } = {}
    BY <1>1 DEF Precheck
  <2> HIDE DEF Found
  <2>2. QED
    BY <2>1
<1>3. \A f \in Attached(src) : f.uri.scheme = "gs" /\ ~ NameMismatch(f)
  BY <1>2
<1>4. PICK g \in Attached(src) : uri = g.uri
  BY FilesAreAttached
<1>5. IsList(uri.path) /\ uri.path # << >>
  BY <1>4 DEF Attached, IsSource
<1> HIDE DEF uri, key
<1>6. ASSUME NEW f \in Attached(src), f.uri = uri, f.filename # None, key # None
      PROVE  key = f.filename
  <2>1. LastName(uri.path) = f.filename
    BY <1>3, <1>6 DEF NameMismatch
  <2>2. LastName(uri.path) = key
    BY <1>5, <1>6, LastNameIsLast DEF key
  <2>3. QED
    BY <2>1, <2>2
<1>7. uri.scheme = "gs"
  BY <1>3, <1>4
<1>8. QED
  BY <1>6, <1>7 DEF KeepsItsName, uri, key

=============================================================================
