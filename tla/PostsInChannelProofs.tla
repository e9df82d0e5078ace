------------------------ MODULE PostsInChannelProofs ------------------------
EXTENDS PostsInChannel, TLAPS, WellFoundedInduction, FiniteSetTheorems

----------------------------------------------------------------------------
(* Induction: a set of numbers has a least one. *)

LEMMA LeastNumber ==
  ASSUME NEW S \in SUBSET Nat, S # {}
  PROVE  \E m \in S : \A n \in S : m <= n
<1>1. PICK m \in S : \A n \in S : <<n, m>> \notin OpToRel(<, Nat)
  BY NatLessThanWellFounded, WFMin
<1>2. \A n \in S : ~(n < m)
  BY <1>1 DEF OpToRel
<1> QED BY <1>2

LEMMA InductionOverNat ==
  ASSUME NEW S, 0 \in S, \A n \in Nat : n \in S => n + 1 \in S
  PROVE  \A n \in Nat : n \in S
<1> DEFINE T == Nat \ S
<1> SUFFICES ASSUME T # {} PROVE FALSE
  OBVIOUS
<1>1. PICK m \in T : \A n \in T : m <= n
  BY LeastNumber
<1>2. m # 0 /\ m - 1 \in Nat
  BY <1>1
<1>3. m - 1 \in S
  BY <1>1, <1>2
<1> QED BY <1>1, <1>2, <1>3

LEMMA MinIsLeast ==
  ASSUME NEW S \in SUBSET Nat, S # {}
  PROVE  Min(S) \in S /\ \A n \in S : Min(S) <= n
<1>1. \E m \in S : \A n \in S : m <= n
  BY LeastNumber
<1> QED BY <1>1 DEF Min

LEMMA MaxIsGreatest ==
  ASSUME NEW S \in SUBSET Nat, S # {}, NEW b \in Nat, \A n \in S : n <= b
  PROVE  Max(S) \in S /\ \A n \in S : n <= Max(S)
<1> DEFINE T == {b - n : n \in S}
<1>1. T \in SUBSET Nat /\ T # {}
  <2>1. \A n \in S : b - n \in Nat
    OBVIOUS
  <2> QED BY <2>1
<1>2. PICK m \in T : \A n \in T : m <= n
  BY <1>1, LeastNumber
<1>3. PICK x \in S : m = b - x
  BY <1>2
<1>4. \A n \in S : n <= x
  BY <1>2, <1>3
<1>5. \E y \in S : \A n \in S : y >= n
  BY <1>4
<1> QED BY <1>5 DEF Max

----------------------------------------------------------------------------
(* Sequences by rank. *)

\* R is a strict total order of D.
OrderedBy(D, R) ==
  /\ \A x \in D : <<x, x>> \notin R
  /\ \A x, y, z \in D : <<x, y>> \in R /\ <<y, z>> \in R => <<x, z>> \in R
  /\ \A x, y \in D : x = y \/ <<x, y>> \in R \/ <<y, x>> \in R

LEMMA InOrderSorts ==
  ASSUME NEW D, IsFiniteSet(D), NEW R, OrderedBy(D, R)
  PROVE  /\ Cardinality(D) \in Nat
         /\ InOrder(D, R) \in [1 .. Cardinality(D) -> D]
         /\ \A x \in D : \E k \in 1 .. Cardinality(D) : InOrder(D, R)[k] = x
         /\ \A i, j \in 1 .. Cardinality(D) :
              i < j => <<InOrder(D, R)[i], InOrder(D, R)[j]>> \in R
<1> DEFINE n == Cardinality(D)
           Before(x) == {y \in D : <<y, x>> \in R}
           o == InOrder(D, R)
<1>0. o = [k \in 1 .. n |-> CHOOSE x \in D : Cardinality(Before(x)) = k - 1]
  BY Zenon DEF InOrder
<1> HIDE DEF o
<1> DEFINE rank == [x \in D |-> Cardinality(Before(x))]
<1>1. n \in Nat
  BY FS_CardinalityType
<1>2. \A x \in D : IsFiniteSet(Before(x)) /\ x \notin Before(x)
  <2> SUFFICES ASSUME NEW x \in D
               PROVE  IsFiniteSet(Before(x)) /\ x \notin Before(x)
    OBVIOUS
  <2>1. Before(x) \in SUBSET D
    OBVIOUS
  <2>2. x \notin Before(x)
    BY DEF OrderedBy
  <2> QED BY <2>1, <2>2, FS_Subset
<1>3. \A x \in D : rank[x] \in Nat /\ rank[x] < n
  <2> SUFFICES ASSUME NEW x \in D
               PROVE  rank[x] \in Nat /\ rank[x] < n
    OBVIOUS
  <2>1. rank[x] \in Nat
    BY <1>2, FS_CardinalityType
  <2>2. Before(x) \in SUBSET D /\ Before(x) # D
    BY <1>2
  <2>3. rank[x] <= n /\ rank[x] # n
    BY <2>2, FS_Subset
  <2> HIDE DEF rank
  <2> QED BY <1>1, <2>1, <2>3
<1>4. \A x, y \in D : <<x, y>> \in R => rank[x] < rank[y]
  <2> SUFFICES ASSUME NEW x \in D, NEW y \in D, <<x, y>> \in R
               PROVE  rank[x] < rank[y]
    OBVIOUS
  <2>1. Before(x) \in SUBSET Before(y) /\ Before(x) # Before(y)
    BY <1>2 DEF OrderedBy
  <2>2. rank[x] <= rank[y] /\ rank[x] # rank[y]
    BY <2>1, <1>2, FS_Subset
  <2>3. rank[x] \in Nat /\ rank[y] \in Nat
    BY <1>3
  <2> HIDE DEF rank
  <2> QED BY <2>2, <2>3
<1> HIDE DEF rank
<1> DEFINE f == [x \in D |-> rank[x] + 1]
<1>5. f \in [D -> 1 .. n]
  BY <1>1, <1>3
<1>6. \A x, y \in D : rank[x] = rank[y] => x = y
  <2> SUFFICES ASSUME NEW x \in D, NEW y \in D, rank[x] = rank[y], x # y
               PROVE  FALSE
    OBVIOUS
  <2>1. <<x, y>> \in R \/ <<y, x>> \in R
    BY DEF OrderedBy
  <2>2. rank[x] < rank[x]
    BY <2>1, <1>4
  <2> QED BY <1>3, <2>2
<1>7. f \in Injection(D, 1 .. n)
  <2>1. \A x, y \in DOMAIN f : f[x] = f[y] => x = y
    BY <1>3, <1>6
  <2> QED BY <1>5, <2>1, Zenon DEF Injection, IsInjective
<1>8. IsFiniteSet(1 .. n) /\ Cardinality(1 .. n) = n
  BY <1>1, FS_Interval
<1>9. f \in Surjection(D, 1 .. n)
  BY <1>7, <1>8, FS_Injection
<1>10. \A k \in 1 .. n : \E x \in D : rank[x] = k - 1
  <2>1. \A k \in 1 .. n : \E x \in D : f[x] = k
    BY <1>9, Zenon DEF Surjection
  <2> QED BY <2>1, <1>1, <1>3
<1>11. \A k \in 1 .. n : o[k] \in D /\ rank[o[k]] = k - 1
  <2> SUFFICES ASSUME NEW k \in 1 .. n
               PROVE  o[k] \in D /\ rank[o[k]] = k - 1
    OBVIOUS
  <2>1. \E x \in D : Cardinality(Before(x)) = k - 1
    BY <1>10 DEF rank
  <2>2. o[k] \in D /\ Cardinality(Before(o[k])) = k - 1
    BY <2>1, <1>0
  <2> QED BY <2>2 DEF rank
<1>12. o \in [1 .. n -> D]
  BY <1>0, <1>11
<1>13. \A x \in D : rank[x] + 1 \in 1 .. n /\ o[rank[x] + 1] = x
  <2> SUFFICES ASSUME NEW x \in D
               PROVE  rank[x] + 1 \in 1 .. n /\ o[rank[x] + 1] = x
    OBVIOUS
  <2>1. rank[x] + 1 \in 1 .. n /\ (rank[x] + 1) - 1 = rank[x]
    BY <1>1, <1>3
  <2> QED BY <2>1, <1>6, <1>11
<1>14. ASSUME NEW i \in 1 .. n, NEW j \in 1 .. n, i < j
       PROVE  <<o[i], o[j]>> \in R
  <2>1. rank[o[i]] < rank[o[j]]
    BY <1>1, <1>11, <1>14
  <2>2. o[i] # o[j] /\ ~(rank[o[j]] < rank[o[i]])
    BY <2>1, <1>3, <1>11
  <2> QED BY <1>4, <1>11, <2>2 DEF OrderedBy
<1> QED BY <1>1, <1>12, <1>13, <1>14 DEF o

LEMMA SequenceOfFunction ==
  ASSUME NEW S, NEW n \in Nat, NEW f \in [1 .. n -> S]
  PROVE  f \in Seq(S) /\ Len(f) = n /\ DOMAIN f = 1 .. n
  OBVIOUS

LEMMA PostIsNat == \A p \in Post : p \in Nat
  BY PostsAssumption DEF Post

LEMMA UpToIsFinite ==
  ASSUME NEW n \in Nat
  PROVE  IsFiniteSet(1 .. n) /\ Cardinality(1 .. n) = n
<1>1. IsFiniteSet(1 .. n) /\ Cardinality(1 .. n) = IF 1 > n THEN 0 ELSE n - 1 + 1
  BY FS_Interval
<1> QED BY <1>1

LEMMA PostsAreFinite ==
  ASSUME NEW S \in SUBSET Post
  PROVE  IsFiniteSet(S) /\ S \subseteq Nat /\ \A p \in S : p <= MaxPosts
<1>1. MaxPosts \in Nat
  BY PostsAssumption
<1>2. IsFiniteSet(Post)
  BY <1>1, FS_Interval DEF Post
<1>3. S \subseteq Nat /\ \A p \in S : p <= MaxPosts
  BY <1>1 DEF Post
<1>4. IsFiniteSet(S)
  BY <1>2, FS_Subset
<1> QED BY <1>3, <1>4

LEMMA DescSorts ==
  ASSUME NEW S \in SUBSET Post
  PROVE  /\ Desc(S) \in Seq(Post)
         /\ Len(Desc(S)) = Cardinality(S)
         /\ ToSet(Desc(S)) = S
         /\ \A i, j \in 1 .. Len(Desc(S)) : i < j => Desc(S)[i] > Desc(S)[j]
<1> DEFINE R == {x \in S \X S : x[1] > x[2]}
           o == InOrder(S, R)
<1>1. IsFiniteSet(S) /\ S \subseteq Nat
  BY PostsAreFinite
<1>2. OrderedBy(S, R)
  BY <1>1 DEF OrderedBy
<1>3. /\ Cardinality(S) \in Nat
      /\ o \in [1 .. Cardinality(S) -> S]
      /\ \A x \in S : \E k \in 1 .. Cardinality(S) : o[k] = x
      /\ \A i, j \in 1 .. Cardinality(S) : i < j => <<o[i], o[j]>> \in R
  BY <1>1, <1>2, InOrderSorts
<1>4. Desc(S) = o
  BY DEF Desc
<1> HIDE DEF o
<1>5. o \in Seq(S) /\ Len(o) = Cardinality(S) /\ DOMAIN o = 1 .. Cardinality(S)
  BY <1>3, SequenceOfFunction
<1>6. o \in Seq(Post)
  BY <1>5
<1>7. ToSet(o) = S
  BY <1>3, <1>5 DEF ToSet
<1>8. \A i, j \in 1 .. Cardinality(S) : i < j => o[i] > o[j]
  BY <1>3
<1> QED BY <1>4, <1>5, <1>6, <1>7, <1>8

\* u is s without some of its elements.
Thinned(u, s) ==
  \E at \in [1 .. Len(u) -> 1 .. Len(s)] :
    /\ \A i, j \in 1 .. Len(u) : i < j => at[i] < at[j]
    /\ \A k \in 1 .. Len(u) : u[k] = s[at[k]]

LEMMA KeepFilters ==
  ASSUME NEW T, NEW s \in Seq(T), NEW X
  PROVE  /\ Keep(s, X) \in Seq(T)
         /\ ToSet(Keep(s, X)) = ToSet(s) \cap X
         /\ Thinned(Keep(s, X), s)
<1> DEFINE D == {i \in DOMAIN s : s[i] \in X}
           R == {x \in D \X D : x[1] < x[2]}
           n == Cardinality(D)
           at == InOrder(D, R)
           u == Keep(s, X)
<1>1. IsFiniteSet(D) /\ D \subseteq 1 .. Len(s)
  <2>1. D \in SUBSET (1 .. Len(s)) /\ Len(s) \in Nat
    OBVIOUS
  <2>2. IsFiniteSet(1 .. Len(s))
    BY <2>1, FS_Interval
  <2> QED BY <2>1, <2>2, FS_Subset
<1>2. OrderedBy(D, R)
  <2>1. D \subseteq Nat
    OBVIOUS
  <2> HIDE DEF D
  <2> QED BY <2>1 DEF OrderedBy
<1>3. /\ n \in Nat
      /\ at \in [1 .. n -> D]
      /\ \A x \in D : \E k \in 1 .. n : at[k] = x
      /\ \A i, j \in 1 .. n : i < j => <<at[i], at[j]>> \in R
  BY <1>1, <1>2, InOrderSorts
<1>4. u = [k \in DOMAIN at |-> s[at[k]]]
  BY DEF Keep
<1>5. \A i \in D : i \in 1 .. Len(s) /\ s[i] \in T /\ s[i] \in X
  OBVIOUS
<1>6. ToSet(s) \cap X = {s[i] : i \in D}
  BY DEF ToSet
<1> HIDE DEF D, n, at, u
<1>7. u \in [1 .. n -> T] /\ \A k \in 1 .. n : u[k] = s[at[k]]
  BY <1>3, <1>4, <1>5
<1>8. u \in Seq(T) /\ Len(u) = n /\ DOMAIN u = 1 .. n
  BY <1>3, <1>7, SequenceOfFunction
<1>9. ToSet(u) = {s[i] : i \in D}
  <2>1. ToSet(u) = {u[k] : k \in 1 .. n}
    BY <1>8 DEF ToSet
  <2>2. \A k \in 1 .. n : u[k] \in {s[i] : i \in D}
    BY <1>3, <1>7
  <2>3. \A i \in D : \E k \in 1 .. n : u[k] = s[i]
    BY <1>3, <1>7
  <2> QED BY <2>1, <2>2, <2>3
<1>10. at \in [1 .. Len(u) -> 1 .. Len(s)] /\ \A i, j \in 1 .. Len(u) : i < j => at[i] < at[j]
  BY <1>3, <1>5, <1>8
<1>11. Thinned(u, s)
  BY <1>7, <1>8, <1>10 DEF Thinned
<1> QED BY <1>6, <1>8, <1>9, <1>11 DEF u

LEMMA NewestFirstSorts ==
  ASSUME NEW bs \in Seq(Blocks), \A i \in DOMAIN bs : bs[i].order # <<>>
  PROVE  /\ NewestFirst(bs) \in Seq(Blocks)
         /\ Len(NewestFirst(bs)) = Len(bs)
         /\ ToSet(NewestFirst(bs)) = ToSet(bs)
         /\ \A i, j \in 1 .. Len(bs) : i < j =>
              Head(NewestFirst(bs)[i].order) >= Head(NewestFirst(bs)[j].order)
<1> DEFINE D == DOMAIN bs
           head(i) == Head(bs[i].order)
           R == {x \in D \X D : \/ head(x[1]) > head(x[2])
                                \/ /\ head(x[1]) = head(x[2])
                                   /\ x[1] < x[2]}
           n == Cardinality(D)
           at == InOrder(D, R)
           u == NewestFirst(bs)
<1>1. D = 1 .. Len(bs) /\ Len(bs) \in Nat
  OBVIOUS
<1>2. IsFiniteSet(D) /\ n = Len(bs)
  BY <1>1, UpToIsFinite
<1>3. \A i \in D : head(i) \in Nat
  <2> SUFFICES ASSUME NEW i \in D
               PROVE  head(i) \in Nat
    OBVIOUS
  <2>1. bs[i] \in Blocks /\ bs[i].order # <<>>
    OBVIOUS
  <2>2. bs[i].order \in Seq(Post)
    BY <2>1 DEF Blocks
  <2>3. head(i) \in Post
    BY <2>1, <2>2
  <2> QED BY <2>3, PostsAreFinite
<1>4. OrderedBy(D, R)
  <2>1. \A i \in D : i \in Nat
    BY <1>1
  <2> HIDE DEF head, D
  <2>2. ASSUME NEW i \in D, NEW j \in D
        PROVE  <<i, j>> \in R <=> (head(i) > head(j) \/ (head(i) = head(j) /\ i < j))
    <3>1. <<i, j>> \in D \X D
      OBVIOUS
    <3>2. <<i, j>>[1] = i /\ <<i, j>>[2] = j
      OBVIOUS
    <3> QED BY <3>1, <3>2
  <2> HIDE DEF R
  <2>3. \A x \in D : <<x, x>> \notin R
    BY <1>3, <2>1, <2>2
  <2>4. \A x, y, z \in D : <<x, y>> \in R /\ <<y, z>> \in R => <<x, z>> \in R
    BY <1>3, <2>1, <2>2
  <2>5. ASSUME NEW x \in D, NEW y \in D, x # y
        PROVE  <<x, y>> \in R \/ <<y, x>> \in R
    <3>1. x \in Nat /\ y \in Nat /\ head(x) \in Nat /\ head(y) \in Nat
      BY <1>3, <2>1
    <3>2. \/ head(x) > head(y)
          \/ head(y) > head(x)
          \/ head(x) = head(y) /\ (x < y \/ y < x)
      BY <2>5, <3>1
    <3>3. <<x, y>> \in R <=> (head(x) > head(y) \/ (head(x) = head(y) /\ x < y))
      BY <2>2
    <3>4. <<y, x>> \in R <=> (head(y) > head(x) \/ (head(y) = head(x) /\ y < x))
      BY <2>2
    <3> QED BY <3>2, <3>3, <3>4
  <2> QED BY <2>3, <2>4, <2>5 DEF OrderedBy
<1>5. \A i, j \in D : <<i, j>> \in R => head(i) >= head(j)
  BY <1>3
<1>6. u = [k \in DOMAIN at |-> bs[at[k]]]
  BY DEF NewestFirst
<1> HIDE DEF R, D, head
<1>7. /\ at \in [1 .. n -> D]
      /\ \A x \in D : \E k \in 1 .. n : at[k] = x
      /\ \A i, j \in 1 .. n : i < j => <<at[i], at[j]>> \in R
  BY <1>2, <1>4, InOrderSorts
<1> HIDE DEF at, n, u
<1>8. u \in [1 .. Len(bs) -> Blocks] /\ \A k \in 1 .. Len(bs) : u[k] = bs[at[k]]
  BY <1>1, <1>2, <1>6, <1>7
<1>9. u \in Seq(Blocks) /\ Len(u) = Len(bs) /\ DOMAIN u = 1 .. Len(bs)
  BY <1>1, <1>8, SequenceOfFunction
<1>10. ToSet(u) = ToSet(bs)
  <2>1. ToSet(u) = {u[k] : k \in 1 .. Len(bs)} /\ ToSet(bs) = {bs[k] : k \in D}
    BY <1>9 DEF ToSet, D
  <2>2. \A k \in 1 .. Len(bs) : u[k] \in {bs[i] : i \in D}
    BY <1>2, <1>7, <1>8
  <2>3. \A i \in D : \E k \in 1 .. Len(bs) : u[k] = bs[i]
    BY <1>2, <1>7, <1>8
  <2> QED BY <2>1, <2>2, <2>3
<1>11. ASSUME NEW i \in 1 .. Len(bs), NEW j \in 1 .. Len(bs), i < j
       PROVE  Head(u[i].order) >= Head(u[j].order)
  <2>1. head(at[i]) >= head(at[j])
    BY <1>2, <1>5, <1>7, <1>11
  <2> QED BY <2>1, <1>8 DEF head
<1> QED BY <1>9, <1>10, <1>11 DEF u

----------------------------------------------------------------------------
(* The fold of mergePostBlocks, step by step. *)

MergeStart == [ok |-> TRUE, blocks |-> <<>>]
Merged(s, kn) == FoldLeft(LAMBDA acc, b : MergeInto(acc, b, kn), MergeStart, s)

LEMMA MergedBySteps ==
  ASSUME NEW s \in Seq(Blocks), NEW kn
  PROVE  \E g : /\ g[0] = MergeStart
                /\ \A k \in 1 .. Len(s) : g[k] = MergeInto(g[k - 1], s[k], kn)
                /\ Merged(s, kn) = g[Len(s)]
<1> DEFINE D == DOMAIN s
           Body(f, t) == IF t = {} THEN MergeStart
                         ELSE MergeInto(f[t \ {Max(t)}], s[Max(t)], kn)
           Few(k) == {t \in SUBSET D : Cardinality(t) <= k}
           Exists == {k \in Nat : \E f : f = [t \in Few(k) |-> Body(f, t)]}
           iter == CHOOSE f : f = [t \in SUBSET D |-> Body(f, t)]
<1>1. Merged(s, kn) = iter[D]
  BY DEF Merged, FoldLeft, MapThenFoldSet
<1>2. D = 1 .. Len(s) /\ Len(s) \in Nat /\ IsFiniteSet(D) /\ Cardinality(D) = Len(s)
  <2>1. D = 1 .. Len(s) /\ Len(s) \in Nat
    OBVIOUS
  <2> QED BY <2>1, UpToIsFinite
<1>3. \A t \in SUBSET D : /\ IsFiniteSet(t) /\ Cardinality(t) \in Nat /\ Cardinality(t) <= Len(s)
                          /\ Cardinality(t) = 0 <=> t = {}
  BY <1>2, FS_Subset, FS_CardinalityType, FS_EmptySet
<1>4. \A t \in SUBSET D : t # {} => /\ Max(t) \in t
                                    /\ t \ {Max(t)} \in SUBSET D
                                    /\ Cardinality(t \ {Max(t)}) = Cardinality(t) - 1
  <2> SUFFICES ASSUME NEW t \in SUBSET D, t # {}
               PROVE  /\ Max(t) \in t
                      /\ t \ {Max(t)} \in SUBSET D
                      /\ Cardinality(t \ {Max(t)}) = Cardinality(t) - 1
    OBVIOUS
  <2>1. t \in SUBSET Nat /\ \A x \in t : x <= Len(s)
    BY <1>2
  <2>2. Max(t) \in t
    BY <2>1, <1>2, MaxIsGreatest
  <2> QED BY <2>2, <1>3, FS_RemoveElement
<1> HIDE DEF D, iter
<1>5. 0 \in Exists
  <2> DEFINE f == [t \in Few(0) |-> MergeStart]
  <2>1. \A t \in Few(0) : t = {}
    BY <1>3
  <2>2. f = [t \in Few(0) |-> Body(f, t)]
    BY <2>1
  <2> QED BY <2>2
<1>6. ASSUME NEW k \in Nat, k \in Exists
      PROVE  k + 1 \in Exists
  <2>1. PICK f : f = [t \in Few(k) |-> Body(f, t)]
    BY <1>6
  <2> DEFINE h == [t \in Few(k + 1) |-> Body(f, t)]
  <2>2. Few(k) \subseteq Few(k + 1)
    BY <1>3
  <2>3. \A t \in Few(k) : h[t] = f[t]
    <3>1. \A t \in Few(k) : f[t] = Body(f, t)
      BY <2>1, Zenon
    <3>2. \A t \in Few(k) : h[t] = Body(f, t)
      BY <2>2, Zenon
    <3> QED BY <3>1, <3>2
  <2>4. \A t \in Few(k + 1) : t # {} => t \ {Max(t)} \in Few(k)
    BY <1>3, <1>4
  <2>5. \A t \in Few(k + 1) : Body(f, t) = Body(h, t)
    <3> HIDE DEF h, Few
    <3> QED BY <2>3, <2>4
  <2>6. h = [t \in Few(k + 1) |-> Body(h, t)]
    <3>1. h = [t \in Few(k + 1) |-> Body(f, t)]
      OBVIOUS
    <3> HIDE DEF h, Few, Body
    <3> QED BY <3>1, <2>5
  <2> HIDE DEF h, Few, Body
  <2>7. \E e : e = [t \in Few(k + 1) |-> Body(e, t)]
    BY <2>6, Zenon
  <2> QED BY <2>7
<1>7. Len(s) \in Exists
  <2> HIDE DEF Exists
  <2> QED BY <1>2, <1>5, <1>6, InductionOverNat
<1>8. Few(Len(s)) = SUBSET D
  BY <1>3
<1>9. \E f : f = [t \in SUBSET D |-> Body(f, t)]
  <2>1. \E f : f = [t \in Few(Len(s)) |-> Body(f, t)]
    BY <1>7
  <2> HIDE DEF Few, Body
  <2> QED BY <2>1, <1>8
<1>10. iter = [t \in SUBSET D |-> Body(iter, t)]
  BY <1>9, Zenon DEF iter
<1>11. iter[{}] = MergeStart
  BY <1>10, Zenon
<1>12. \A k \in 1 .. Len(s) : iter[1 .. k] = MergeInto(iter[1 .. k - 1], s[k], kn)
  <2> SUFFICES ASSUME NEW k \in 1 .. Len(s)
               PROVE  iter[1 .. k] = MergeInto(iter[1 .. k - 1], s[k], kn)
    OBVIOUS
  <2>1. 1 .. k \in SUBSET D /\ 1 .. k # {}
    BY <1>2
  <2>2. iter[1 .. k] = MergeInto(iter[(1 .. k) \ {Max(1 .. k)}], s[Max(1 .. k)], kn)
    BY <2>1, <1>10, Zenon
  <2>3. Max(1 .. k) = k
    <3>1. Max(1 .. k) \in 1 .. k /\ \A x \in 1 .. k : x <= Max(1 .. k)
      <4>1. 1 .. k \in SUBSET Nat /\ k \in Nat /\ \A x \in 1 .. k : x <= k
        OBVIOUS
      <4> QED BY <2>1, <4>1, MaxIsGreatest
    <3>2. k \in 1 .. k
      OBVIOUS
    <3> QED BY <3>1, <3>2
  <2>4. (1 .. k) \ {k} = 1 .. k - 1
    OBVIOUS
  <2> QED BY <2>2, <2>3, <2>4
<1> DEFINE g == [k \in 0 .. Len(s) |-> iter[1 .. k]]
<1>13. g[0] = MergeStart
  <2>1. 1 .. 0 = {} /\ 0 \in 0 .. Len(s)
    BY <1>2
  <2> QED BY <1>11, <2>1
<1>14. \A k \in 1 .. Len(s) : g[k] = MergeInto(g[k - 1], s[k], kn)
  <2> SUFFICES ASSUME NEW k \in 1 .. Len(s)
               PROVE  g[k] = MergeInto(g[k - 1], s[k], kn)
    OBVIOUS
  <2>1. k \in 0 .. Len(s) /\ k - 1 \in 0 .. Len(s)
    BY <1>2
  <2> QED BY <1>12, <2>1
<1>15. Merged(s, kn) = g[Len(s)]
  BY <1>1, <1>2
<1> QED BY <1>13, <1>14, <1>15

----------------------------------------------------------------------------
(* What the reducers do to a set of blocks. *)

\* Post p is in the run of b or would be, were b not empty.
Covers(b, p) ==
  /\ b.recent \/ \E q \in ToSet(b.order) : p < q
  /\ b.oldest \/ \E q \in ToSet(b.order) : p > q

\* Post p is older than a post of b.
Inside(b, p) ==
  /\ \E q \in ToSet(b.order) : p < q
  /\ b.oldest \/ \E q \in ToSet(b.order) : p > q

PostsOf(B) == UNION {ToSet(b.order) : b \in B}
Covered(B, p) == \E b \in B : Covers(b, p)
Enclosed(B, p) == \E b \in B : Inside(b, p)
HasTop(B) == \E b \in B : b.recent /\ b.order # <<>>
Descending(s) == \A i, j \in DOMAIN s : i < j => s[i] > s[j]

\* The blocks C hold what the blocks B do and stand for nothing more.
Gathers(C, B) ==
  /\ PostsOf(C) = PostsOf(B)
  /\ \A p \in Post : Covered(C, p) => Covered(B, p) \/ p \in PostsOf(B)
  /\ (\E b \in B : b.recent) => \E b \in C : b.recent
  /\ (\A b \in B : IsInjective(b.order)) => \A b \in C : IsInjective(b.order)
  /\ (\A b \in B : Descending(b.order)) => \A b \in C : Descending(b.order)
  /\ \A p \in Post : Enclosed(C, p) => Enclosed(B, p) \/ p \in PostsOf(B)
  /\ HasTop(B) => HasTop(C)

LEMMA GathersItself == ASSUME NEW B PROVE Gathers(B, B)
  BY DEF Gathers

LEMMA GathersTransitive ==
  ASSUME NEW B, NEW C, NEW D, Gathers(C, B), Gathers(D, C)
  PROVE  Gathers(D, B)
  BY DEF Gathers

LEMMA ToSetOfSequence ==
  ASSUME NEW S, NEW s \in Seq(S)
  PROVE  /\ ToSet(s) \subseteq S
         /\ \A i \in 1 .. Len(s) : s[i] \in ToSet(s)
         /\ \A x \in ToSet(s) : \E i \in 1 .. Len(s) : s[i] = x
         /\ \A x \in S : ToSet(Append(s, x)) = ToSet(s) \cup {x}
         /\ \A x \in S : ToSet(<<x>> \o s) = ToSet(s) \cup {x}
         /\ s = <<>> <=> ToSet(s) = {}
<1>1. DOMAIN s = 1 .. Len(s) /\ Len(s) \in Nat
  OBVIOUS
<1>2. ASSUME NEW x \in S
      PROVE  ToSet(Append(s, x)) = ToSet(s) \cup {x}
  <2>1. /\ Append(s, x) \in Seq(S)
        /\ Len(Append(s, x)) = Len(s) + 1
        /\ Append(s, x)[Len(s) + 1] = x
        /\ \A i \in 1 .. Len(s) : Append(s, x)[i] = s[i]
    OBVIOUS
  <2> DEFINE u == Append(s, x)
  <2>2. DOMAIN u = 1 .. Len(s) + 1
    BY <2>1
  <2> HIDE DEF u
  <2>3. u[Len(s) + 1] = x /\ \A i \in 1 .. Len(s) : u[i] = s[i]
    BY <2>1 DEF u
  <2>4. ToSet(u) \subseteq ToSet(s) \cup {x}
    <3> SUFFICES ASSUME NEW k \in DOMAIN u
                 PROVE  u[k] \in ToSet(s) \cup {x}
      BY DEF ToSet
    <3>1. k \in 1 .. Len(s) \/ k = Len(s) + 1
      BY <1>1, <2>2
    <3>2. \A i \in 1 .. Len(s) : s[i] \in ToSet(s)
      BY <1>1 DEF ToSet
    <3> QED BY <2>3, <3>1, <3>2
  <2>5. ToSet(s) \cup {x} \subseteq ToSet(u)
    <3>1. Len(s) + 1 \in DOMAIN u /\ \A i \in 1 .. Len(s) : i \in DOMAIN u
      BY <1>1, <2>2
    <3> QED BY <1>1, <2>3, <3>1 DEF ToSet
  <2> QED BY <2>4, <2>5 DEF u
<1>3. ASSUME NEW x \in S
      PROVE  ToSet(<<x>> \o s) = ToSet(s) \cup {x}
  <2> DEFINE u == <<x>> \o s
  <2>1. /\ Len(u) = Len(s) + 1 /\ DOMAIN u = 1 .. Len(s) + 1
        /\ u[1] = x
        /\ \A i \in 1 .. Len(s) : u[i + 1] = s[i]
    BY <1>1
  <2> HIDE DEF u
  <2>2. \A k \in 1 .. Len(s) + 1 : k = 1 \/ \E i \in 1 .. Len(s) : k = i + 1
    <3> SUFFICES ASSUME NEW k \in 1 .. Len(s) + 1, k # 1
                 PROVE  \E i \in 1 .. Len(s) : k = i + 1
      OBVIOUS
    <3>1. k - 1 \in 1 .. Len(s) /\ k = (k - 1) + 1
      BY <1>1
    <3> QED BY <3>1
  <2>3. ToSet(u) \subseteq ToSet(s) \cup {x}
    <3> SUFFICES ASSUME NEW k \in DOMAIN u
                 PROVE  u[k] \in ToSet(s) \cup {x}
      BY DEF ToSet
    <3>1. k = 1 \/ \E i \in 1 .. Len(s) : k = i + 1
      BY <2>1, <2>2
    <3>2. \A i \in 1 .. Len(s) : s[i] \in ToSet(s)
      BY <1>1 DEF ToSet
    <3> QED BY <2>1, <3>1, <3>2
  <2>4. ToSet(s) \cup {x} \subseteq ToSet(u)
    <3>1. x \in ToSet(u)
      BY <1>1, <2>1 DEF ToSet
    <3>2. \A i \in 1 .. Len(s) : i + 1 \in DOMAIN u
      BY <1>1, <2>1
    <3> QED BY <1>1, <2>1, <3>1, <3>2 DEF ToSet
  <2> QED BY <2>3, <2>4 DEF u
<1>4. s = <<>> <=> ToSet(s) = {}
  <2>1. CASE s = <<>>
    <3>1. DOMAIN s = {}
      BY <1>1, <2>1
    <3> QED BY <2>1, <3>1 DEF ToSet
  <2>2. CASE s # <<>>
    <3>1. 1 \in DOMAIN s
      BY <1>1, <2>2
    <3> QED BY <2>2, <3>1 DEF ToSet
  <2> QED BY <2>1, <2>2
<1>5. ToSet(s) \subseteq S
  <2>1. \A i \in DOMAIN s : s[i] \in S
    OBVIOUS
  <2> QED BY <2>1 DEF ToSet
<1>6. /\ \A i \in 1 .. Len(s) : s[i] \in ToSet(s)
      /\ \A x \in ToSet(s) : \E i \in 1 .. Len(s) : s[i] = x
  BY <1>1 DEF ToSet
<1> QED BY <1>2, <1>3, <1>4, <1>5, <1>6

LEMMA DescIsDescending ==
  ASSUME NEW S \in SUBSET Post
  PROVE  Desc(S) \in Seq(Post) /\ ToSet(Desc(S)) = S /\ Descending(Desc(S))
  BY DescSorts DEF Descending

LEMMA DescendingIsInjective ==
  ASSUME NEW s \in Seq(Post), Descending(s)
  PROVE  IsInjective(s)
<1> SUFFICES ASSUME NEW i \in DOMAIN s, NEW j \in DOMAIN s, s[i] = s[j]
             PROVE  i = j
  BY DEF IsInjective
<1>1. i \in Nat /\ j \in Nat /\ s[i] \in Nat /\ s[j] \in Nat
  <2>1. i \in Nat /\ j \in Nat /\ s[i] \in Post /\ s[j] \in Post
    OBVIOUS
  <2> QED BY <2>1, PostsAssumption DEF Post
<1>2. ~(i < j) /\ ~(j < i)
  BY <1>1 DEF Descending
<1> QED BY <1>1, <1>2

LEMMA ThinnedKeeps ==
  ASSUME NEW S, NEW s \in Seq(S), NEW u \in Seq(S), Thinned(u, s)
  PROVE  /\ IsInjective(s) => IsInjective(u)
         /\ Descending(s) => Descending(u)
<1>1. PICK at \in [1 .. Len(u) -> 1 .. Len(s)] :
        /\ \A i, j \in 1 .. Len(u) : i < j => at[i] < at[j]
        /\ \A k \in 1 .. Len(u) : u[k] = s[at[k]]
  BY DEF Thinned
<1>2. DOMAIN u = 1 .. Len(u) /\ DOMAIN s = 1 .. Len(s) /\ Len(u) \in Nat
  OBVIOUS
<1>3. \A i, j \in 1 .. Len(u) : at[i] = at[j] => i = j
  <2> SUFFICES ASSUME NEW i \in 1 .. Len(u), NEW j \in 1 .. Len(u), at[i] = at[j], i # j
               PROVE  FALSE
    OBVIOUS
  <2>1. i < j \/ j < i
    BY <1>2
  <2>2. at[i] \in Nat /\ at[j] \in Nat
    BY <1>1
  <2> QED BY <1>1, <2>1, <2>2
<1>4. IsInjective(s) => IsInjective(u)
  BY <1>1, <1>2, <1>3 DEF IsInjective
<1>5. Descending(s) => Descending(u)
  BY <1>1, <1>2 DEF Descending
<1> QED BY <1>4, <1>5

LEMMA RemoveGathers ==
  ASSUME NEW bs \in Seq(Blocks)
  PROVE  /\ removeNonRecentEmptyPostBlocks(bs) \in Seq(Blocks)
         /\ ToSet(removeNonRecentEmptyPostBlocks(bs))
              = {b \in ToSet(bs) : b.order # <<>> \/ b.recent}
         /\ Gathers(ToSet(removeNonRecentEmptyPostBlocks(bs)), ToSet(bs))
<1> DEFINE B == ToSet(bs)
           C == {b \in ToSet(bs) : b.order # <<>> \/ b.recent}
<1>1. /\ removeNonRecentEmptyPostBlocks(bs) \in Seq(Blocks)
      /\ ToSet(removeNonRecentEmptyPostBlocks(bs)) = C
  BY KeepFilters DEF removeNonRecentEmptyPostBlocks
<1>2. \A b \in B : b \notin C => ToSet(b.order) = {}
  BY DEF ToSet
<1>3. PostsOf(C) = PostsOf(B)
  BY <1>2 DEF PostsOf
<1> QED BY <1>1, <1>3 DEF Gathers, Covered, Enclosed, HasTop

LEMMA OrderMerges ==
  ASSUME NEW l \in Seq(Post), NEW r \in Seq(Post)
  PROVE  /\ mergePostOrder(l, r) \in Seq(Post)
         /\ ToSet(mergePostOrder(l, r)) = ToSet(l) \cup ToSet(r)
         /\ IsInjective(l) => IsInjective(mergePostOrder(l, r))
         /\ Descending(l) => Descending(mergePostOrder(l, r))
<1> DEFINE S == ToSet(l) \cup ToSet(r)
<1>1. S \in SUBSET Post
  BY ToSetOfSequence
<1>2. Desc(S) \in Seq(Post) /\ ToSet(Desc(S)) = S /\ Descending(Desc(S))
  BY <1>1, DescIsDescending
<1>3. IsInjective(Desc(S))
  BY <1>2, DescendingIsInjective
<1>4. ToSet(r) \subseteq ToSet(l) => S = ToSet(l)
  OBVIOUS
<1> HIDE DEF S
<1>5. mergePostOrder(l, r) = IF ToSet(r) \subseteq ToSet(l) THEN l ELSE Desc(S)
  BY DEF mergePostOrder, S
<1>6. CASE ToSet(r) \subseteq ToSet(l)
  BY <1>4, <1>5, <1>6 DEF S
<1>7. CASE ~(ToSet(r) \subseteq ToSet(l))
  BY <1>2, <1>3, <1>5, <1>7 DEF S
<1> QED BY <1>6, <1>7

Joined(a, b) ==
  Block(mergePostOrder(a.order, b.order), a.recent \/ b.recent, a.oldest \/ b.oldest)

LEMMA EndsOfSequence ==
  ASSUME NEW S, NEW s \in Seq(S), s # <<>>
  PROVE  Head(s) \in ToSet(s) /\ Last(s) \in ToSet(s) /\ Head(s) \in S /\ Last(s) \in S
<1>1. 1 \in 1 .. Len(s) /\ Len(s) \in 1 .. Len(s) /\ Head(s) = s[1]
  OBVIOUS
<1> QED BY <1>1, ToSetOfSequence DEF Last

\* Two blocks that meet stand for nothing new together.
LEMMA JoinCovers ==
  ASSUME NEW a \in Blocks, NEW b \in Blocks, a.order # <<>>, b.order # <<>>,
         Last(a.order) <= Head(b.order),
         NEW q \in ToSet(a.order), q >= Head(b.order),
         NEW p \in Post, Covers(Joined(a, b), p)
  PROVE  Covers(a, p) \/ Covers(b, p) \/ p \in ToSet(a.order) \cup ToSet(b.order)
<1>1. a.order \in Seq(Post) /\ b.order \in Seq(Post)
  BY DEF Blocks
<1> DEFINE A == ToSet(a.order)
           B == ToSet(b.order)
           l == Last(a.order)
           h == Head(b.order)
<1>2. l \in A /\ h \in B
  BY <1>1, EndsOfSequence
<1>3. A \subseteq Post /\ B \subseteq Post
  BY <1>1, ToSetOfSequence
<1>4. \A x \in Post : x \in Nat
  BY PostsAssumption DEF Post
<1>5. ToSet(mergePostOrder(a.order, b.order)) = A \cup B
  BY <1>1, OrderMerges
<1>6. /\ Joined(a, b).recent = (a.recent \/ b.recent)
      /\ Joined(a, b).oldest = (a.oldest \/ b.oldest)
      /\ ToSet(Joined(a, b).order) = A \cup B
  BY <1>5, Zenon DEF Joined, Block
<1>7. /\ (a.recent \/ b.recent) \/ \E x \in A \cup B : p < x
      /\ (a.oldest \/ b.oldest) \/ \E x \in A \cup B : p > x
  BY <1>6 DEF Covers
<1>8. l <= h /\ q \in A /\ q >= h
  OBVIOUS
<1>9. SUFFICES (\/ /\ a.recent \/ \E x \in A : p < x
                   /\ a.oldest \/ \E x \in A : p > x
                \/ /\ b.recent \/ \E x \in B : p < x
                   /\ b.oldest \/ \E x \in B : p > x
                \/ p \in A \cup B)
  BY DEF Covers
<1> HIDE DEF A, B, l, h
<1>10. l \in Nat /\ h \in Nat /\ q \in Nat /\ p \in Nat
  BY <1>2, <1>3, <1>4, <1>8
<1>11. p = h \/ p < h \/ p > l
  BY <1>8, <1>10
<1>12. p = q \/ p < q \/ p > h
  BY <1>8, <1>10
<1>13. \/ p \in A \cup B
       \/ /\ (\E x \in B : p < x) \/ \E x \in A : p > x
          /\ (\E x \in A : p < x) \/ \E x \in B : p > x
  BY <1>2, <1>8, <1>11, <1>12
<1> QED BY <1>7, <1>13

LEMMA JoinInside ==
  ASSUME NEW a \in Blocks, NEW b \in Blocks, a.order # <<>>, b.order # <<>>,
         Last(a.order) <= Head(b.order),
         NEW q \in ToSet(a.order), q >= Head(b.order),
         NEW p \in Post, Inside(Joined(a, b), p)
  PROVE  Inside(a, p) \/ Inside(b, p) \/ p \in ToSet(a.order) \cup ToSet(b.order)
<1>1. a.order \in Seq(Post) /\ b.order \in Seq(Post)
  BY DEF Blocks
<1> DEFINE A == ToSet(a.order)
           B == ToSet(b.order)
           l == Last(a.order)
           h == Head(b.order)
<1>2. l \in A /\ h \in B
  BY <1>1, EndsOfSequence
<1>3. A \subseteq Post /\ B \subseteq Post
  BY <1>1, ToSetOfSequence
<1>4. ToSet(mergePostOrder(a.order, b.order)) = A \cup B
  BY <1>1, OrderMerges
<1>5. /\ Joined(a, b).oldest = (a.oldest \/ b.oldest)
      /\ ToSet(Joined(a, b).order) = A \cup B
  BY <1>4, Zenon DEF Joined, Block
<1>6. /\ \E x \in A \cup B : p < x
      /\ (a.oldest \/ b.oldest) \/ \E x \in A \cup B : p > x
  BY <1>5 DEF Inside
<1>7. l <= h /\ q \in A /\ q >= h
  OBVIOUS
<1>8. SUFFICES (\/ /\ \E x \in A : p < x
                   /\ a.oldest \/ \E x \in A : p > x
                \/ /\ \E x \in B : p < x
                   /\ b.oldest \/ \E x \in B : p > x
                \/ p \in A \cup B)
  BY DEF Inside
<1> HIDE DEF A, B, l, h
<1>9. l \in Nat /\ h \in Nat /\ q \in Nat /\ p \in Nat
  BY <1>2, <1>3, <1>7, PostIsNat
<1>10. p = h \/ p < h \/ p > l
  BY <1>7, <1>9
<1>11. p = q \/ p < q \/ p > h
  BY <1>7, <1>9
<1>12. \/ p \in A \cup B
       \/ /\ (\E x \in B : p < x) \/ \E x \in A : p > x
          /\ (\E x \in A : p < x) \/ \E x \in B : p > x
  BY <1>2, <1>7, <1>10, <1>11
<1> QED BY <1>6, <1>12

LEMMA JoinGathers ==
  ASSUME NEW F \in SUBSET Blocks, NEW a \in Blocks, NEW b \in Blocks,
         a.order # <<>>, b.order # <<>>,
         Last(a.order) <= Head(b.order),
         NEW q \in ToSet(a.order), q >= Head(b.order)
  PROVE  /\ Joined(a, b) \in Blocks
         /\ ToSet(Joined(a, b).order) = ToSet(a.order) \cup ToSet(b.order)
         /\ Gathers(F \cup {Joined(a, b)}, F \cup {a, b})
<1> DEFINE j == Joined(a, b)
<1>1. a.order \in Seq(Post) /\ b.order \in Seq(Post) /\ a.recent \in BOOLEAN
      /\ b.recent \in BOOLEAN /\ a.oldest \in BOOLEAN /\ b.oldest \in BOOLEAN
  BY DEF Blocks
<1>2. /\ mergePostOrder(a.order, b.order) \in Seq(Post)
      /\ ToSet(mergePostOrder(a.order, b.order)) = ToSet(a.order) \cup ToSet(b.order)
      /\ IsInjective(a.order) => IsInjective(mergePostOrder(a.order, b.order))
      /\ Descending(a.order) => Descending(mergePostOrder(a.order, b.order))
  BY <1>1, OrderMerges
<1>3. /\ j.order = mergePostOrder(a.order, b.order)
      /\ j.recent = (a.recent \/ b.recent)
  BY DEF Joined, Block
<1>4. j \in Blocks
  BY <1>1, <1>2 DEF Joined, Block, Blocks
<1>5. ToSet(j.order) = ToSet(a.order) \cup ToSet(b.order)
  BY <1>2, <1>3
<1>6. \A p \in Post : Covers(j, p) =>
        Covers(a, p) \/ Covers(b, p) \/ p \in ToSet(a.order) \cup ToSet(b.order)
  BY JoinCovers
<1> HIDE DEF j
<1>7. PostsOf(F \cup {j}) = PostsOf(F \cup {a, b})
  BY <1>5 DEF PostsOf
<1>8. ToSet(a.order) \cup ToSet(b.order) \subseteq PostsOf(F \cup {a, b})
  BY DEF PostsOf
<1>9. ASSUME NEW p \in Post, Covered(F \cup {j}, p)
      PROVE  Covered(F \cup {a, b}, p) \/ p \in PostsOf(F \cup {a, b})
  BY <1>6, <1>8, <1>9 DEF Covered
<1>10. (\E x \in F \cup {a, b} : x.recent) => \E x \in F \cup {j} : x.recent
  BY <1>3
<1>11. (\A x \in F \cup {a, b} : IsInjective(x.order))
         => \A x \in F \cup {j} : IsInjective(x.order)
  BY <1>2, <1>3
<1>12. (\A x \in F \cup {a, b} : Descending(x.order))
         => \A x \in F \cup {j} : Descending(x.order)
  BY <1>2, <1>3
<1>13. ASSUME NEW p \in Post, Enclosed(F \cup {j}, p)
       PROVE  Enclosed(F \cup {a, b}, p) \/ p \in PostsOf(F \cup {a, b})
  <2>1. Inside(j, p) => Inside(a, p) \/ Inside(b, p) \/ p \in ToSet(a.order) \cup ToSet(b.order)
    BY JoinInside DEF j
  <2> QED BY <1>8, <1>13, <2>1 DEF Enclosed
<1>14. HasTop(F \cup {a, b}) => HasTop(F \cup {j})
  <2>1. j.order # <<>>
    <3>1. Last(a.order) \in ToSet(j.order)
      BY <1>1, <1>5, EndsOfSequence
    <3>2. j.order \in Seq(Post)
      BY <1>4 DEF Blocks
    <3> QED BY <3>1, <3>2, ToSetOfSequence
  <2> QED BY <1>3, <2>1 DEF HasTop
<1>15. Gathers(F \cup {j}, F \cup {a, b})
  BY <1>7, <1>9, <1>10, <1>11, <1>12, <1>13, <1>14 DEF Gathers
<1> QED BY <1>4, <1>5, <1>15 DEF j

LEMMA GathersMore ==
  ASSUME NEW B, NEW C, NEW D, Gathers(C, B)
  PROVE  Gathers(C \cup D, B \cup D)
<1>1. PostsOf(C) = PostsOf(B)
  BY DEF Gathers
<1>2. PostsOf(C \cup D) = PostsOf(C) \cup PostsOf(D)
  BY DEF PostsOf
<1>3. PostsOf(B \cup D) = PostsOf(B) \cup PostsOf(D)
  BY DEF PostsOf
<1>4. \A p \in Post : Covered(C, p) => Covered(B, p) \/ p \in PostsOf(B)
  BY DEF Gathers
<1>5. \A p \in Post : Covered(C \cup D, p)
                        => Covered(B \cup D, p) \/ p \in PostsOf(B \cup D)
  BY <1>3, <1>4 DEF Covered
<1>6. (\E b \in B \cup D : b.recent) => \E b \in C \cup D : b.recent
  BY DEF Gathers
<1>7. (\A b \in B \cup D : IsInjective(b.order)) => \A b \in C \cup D : IsInjective(b.order)
  BY DEF Gathers
<1>8. (\A b \in B \cup D : Descending(b.order)) => \A b \in C \cup D : Descending(b.order)
  BY DEF Gathers
<1>9. PostsOf(C \cup D) = PostsOf(B \cup D)
  BY <1>1, <1>2, <1>3
<1>10. \A p \in Post : Enclosed(C \cup D, p)
                         => Enclosed(B \cup D, p) \/ p \in PostsOf(B \cup D)
  BY <1>3 DEF Gathers, Enclosed
<1>11. HasTop(B \cup D) => HasTop(C \cup D)
  BY DEF Gathers, HasTop
<1> QED BY <1>5, <1>6, <1>7, <1>8, <1>9, <1>10, <1>11 DEF Gathers

----------------------------------------------------------------------------
(* The loop of mergePostBlocks gathers the blocks it has gone through. *)

Filled(b) == b.order # <<>>
Accs == [ok : BOOLEAN, blocks : Seq(Blocks)]

\* acc is what the loop has after the blocks B, the last of which is b.
MergedUpTo(acc, B, b) ==
  /\ acc \in Accs
  /\ \A x \in ToSet(acc.blocks) : Filled(x)
  /\ acc.ok => /\ acc.blocks # <<>>
               /\ \E q \in ToSet(Last(acc.blocks).order) : q >= Head(b.order)
               /\ Gathers(ToSet(acc.blocks), B)

LEMMA FrontAndLast ==
  ASSUME NEW S, NEW s \in Seq(S), s # <<>>
  PROVE  /\ Front(s) \in Seq(S) /\ Last(s) \in S
         /\ ToSet(s) = ToSet(Front(s)) \cup {Last(s)}
         /\ \A x \in S : /\ Append(Front(s), x) \in Seq(S)
                         /\ ToSet(Append(Front(s), x)) = ToSet(Front(s)) \cup {x}
                         /\ Append(Front(s), x) # <<>>
                         /\ Last(Append(Front(s), x)) = x
<1> DEFINE n == Len(s)
<1>1. n \in Nat /\ n >= 1 /\ s[n] \in S /\ DOMAIN s = 1 .. n
  OBVIOUS
<1>2. Front(s) = [i \in 1 .. n - 1 |-> s[i]]
  <2>1. Front(s) = SubSeq(s, 1, n - 1)
    BY DEF Front
  <2> QED BY <1>1, <2>1
<1>3. Front(s) \in Seq(S) /\ Len(Front(s)) = n - 1 /\ DOMAIN Front(s) = 1 .. n - 1
  <2>1. n - 1 \in Nat /\ \A i \in 1 .. n - 1 : s[i] \in S
    BY <1>1
  <2> HIDE DEF n
  <2>2. Front(s) \in [1 .. n - 1 -> S]
    BY <1>2, <2>1
  <2> QED BY <2>1, <2>2, SequenceOfFunction
<1>4. 1 .. n = (1 .. n - 1) \cup {n}
  BY <1>1
<1>5. ToSet(s) = ToSet(Front(s)) \cup {s[n]}
  <2>1. \A i \in 1 .. n - 1 : Front(s)[i] = s[i]
    BY <1>2
  <2>2. ToSet(s) = {s[i] : i \in 1 .. n}
    BY <1>1 DEF ToSet
  <2>3. ToSet(Front(s)) = {Front(s)[i] : i \in 1 .. n - 1}
    BY <1>3 DEF ToSet
  <2> QED BY <1>4, <2>1, <2>2, <2>3
<1>6. ASSUME NEW x \in S
      PROVE  /\ Append(Front(s), x) \in Seq(S)
             /\ Append(Front(s), x) # <<>>
             /\ Last(Append(Front(s), x)) = x
  BY <1>3 DEF Last
<1> QED BY <1>3, <1>5, <1>6, ToSetOfSequence DEF Last

LEMMA MergeFirst ==
  ASSUME NEW b \in Blocks, Filled(b), NEW kn
  PROVE  MergedUpTo(MergeInto(MergeStart, b, kn), {b}, b)
<1>1. MergeInto(MergeStart, b, kn) = [ok |-> TRUE, blocks |-> <<b>>]
  BY DEF MergeInto, MergeStart
<1>2. <<b>> \in Seq(Blocks) /\ <<b>> # <<>> /\ Last(<<b>>) = b
  BY DEF Last
<1>3. ToSet(<<b>>) = {b}
  BY DEF ToSet
<1>4. b.order \in Seq(Post)
  BY DEF Blocks
<1>5. Head(b.order) \in ToSet(b.order) /\ Head(b.order) \in Nat
  BY <1>4, EndsOfSequence, PostsAssumption DEF Filled, Post
<1>6. Head(b.order) >= Head(b.order)
  BY <1>5
<1>7. [ok |-> TRUE, blocks |-> <<b>>] \in Accs
  BY <1>2 DEF Accs
<1> QED BY <1>1, <1>2, <1>3, <1>5, <1>6, <1>7, GathersItself DEF MergedUpTo

LEMMA MergeNext ==
  ASSUME NEW acc, NEW B \in SUBSET Blocks, NEW c \in Blocks, NEW b \in Blocks, NEW kn,
         MergedUpTo(acc, B, c), Filled(b), Filled(c), Head(c.order) >= Head(b.order)
  PROVE  MergedUpTo(MergeInto(acc, b, kn), B \cup {b}, b)
<1> DEFINE bs == acc.blocks
           a == Last(bs)
           next == MergeInto(acc, b, kn)
<1>0. bs \in Seq(Blocks) /\ acc.ok \in BOOLEAN /\ acc = [ok |-> acc.ok, blocks |-> bs]
  BY DEF MergedUpTo, Accs
<1>1. \A x \in ToSet(bs) : Filled(x)
  BY DEF MergedUpTo
<1>2. b.order \in Seq(Post) /\ c.order \in Seq(Post)
  BY DEF Blocks
<1>3. /\ Head(b.order) \in ToSet(b.order) /\ Head(b.order) \in Nat /\ Head(c.order) \in Nat
  BY <1>2, EndsOfSequence, PostIsNat DEF Filled
<1>4. Head(b.order) >= Head(b.order)
  BY <1>3
<1>5. CASE bs = <<>>
  <2>1. next = [ok |-> acc.ok, blocks |-> <<b>>]
    BY <1>0, <1>5 DEF MergeInto
  <2>2. <<b>> \in Seq(Blocks) /\ ToSet(<<b>>) = {b}
    BY DEF ToSet
  <2>3. ~acc.ok
    BY <1>5 DEF MergedUpTo
  <2> QED BY <1>0, <2>1, <2>2, <2>3 DEF MergedUpTo, Accs
<1>6. CASE bs # <<>>
  <2>1. /\ Front(bs) \in Seq(Blocks) /\ a \in Blocks
        /\ ToSet(bs) = ToSet(Front(bs)) \cup {a}
    BY <1>0, <1>6, FrontAndLast
  <2>2. \A x \in Blocks : /\ Append(Front(bs), x) \in Seq(Blocks)
                          /\ ToSet(Append(Front(bs), x)) = ToSet(Front(bs)) \cup {x}
                          /\ Append(Front(bs), x) # <<>>
                          /\ Last(Append(Front(bs), x)) = x
    BY <1>0, <1>6, FrontAndLast
  <2>3. Filled(a) /\ a.order \in Seq(Post)
    BY <1>1, <2>1 DEF Blocks
  <2>4. /\ Append(bs, b) \in Seq(Blocks) /\ Append(bs, b) # <<>>
        /\ Last(Append(bs, b)) = b
    BY <1>0 DEF Last
  <2>5. ToSet(Append(bs, b)) = ToSet(bs) \cup {b}
    BY <1>0, ToSetOfSequence
  <2>6. CASE Last(a.order) \notin kn
    <3>1. next = [ok |-> FALSE, blocks |-> bs]
      BY <1>0, <1>6, <2>6 DEF MergeInto
    <3> QED BY <1>0, <1>1, <3>1 DEF MergedUpTo, Accs
  <2>7. CASE Last(a.order) \in kn /\ Last(a.order) > Head(b.order)
    <3>1. next = [ok |-> acc.ok, blocks |-> Append(bs, b)]
      BY <1>0, <1>6, <2>7 DEF MergeInto
    <3>2. acc.ok => Gathers(ToSet(bs) \cup {b}, B \cup {b})
      BY GathersMore DEF MergedUpTo
    <3>3. next \in Accs
      BY <1>0, <2>4, <3>1 DEF Accs
    <3>4. \A x \in ToSet(next.blocks) : Filled(x)
      BY <1>1, <2>5, <3>1
    <3>5. \E q \in ToSet(Last(next.blocks).order) : q >= Head(b.order)
      BY <1>3, <1>4, <2>4, <3>1
    <3>6. next.ok = acc.ok /\ next.blocks # <<>> /\ ToSet(next.blocks) = ToSet(bs) \cup {b}
      BY <2>4, <2>5, <3>1
    <3> QED BY <3>2, <3>3, <3>4, <3>5, <3>6 DEF MergedUpTo
  <2>8. CASE Last(a.order) \in kn /\ ~(Last(a.order) > Head(b.order))
    <3> DEFINE all == mergePostOrder(a.order, b.order)
               j == Joined(a, b)
               good == acc.ok /\ (all = a.order \/ ToSet(all) \subseteq kn)
    <3>1. next = [ok |-> good, blocks |-> Append(Front(bs), j)]
      BY <1>0, <1>6, <2>8 DEF MergeInto, Joined
    <3>2. j \in Blocks /\ ToSet(j.order) = ToSet(a.order) \cup ToSet(b.order)
      <4>1. all \in Seq(Post) /\ ToSet(all) = ToSet(a.order) \cup ToSet(b.order)
        BY <1>2, <2>3, OrderMerges
      <4> HIDE DEF all
      <4>2. /\ a.recent \in BOOLEAN /\ b.recent \in BOOLEAN
            /\ a.oldest \in BOOLEAN /\ b.oldest \in BOOLEAN
        BY <2>1 DEF Blocks
      <4>3. j = Block(all, a.recent \/ b.recent, a.oldest \/ b.oldest)
        BY DEF Joined, all
      <4> HIDE DEF j
      <4>4. j.order = all
        BY <4>3 DEF Block
      <4>5. j \in Blocks
        BY <4>1, <4>2, <4>3 DEF Block, Blocks
      <4> QED BY <4>1, <4>4, <4>5
    <3>3. Filled(j)
      <4>1. j.order \in Seq(Post)
        BY <3>2 DEF Blocks
      <4>2. j.order # <<>>
        BY <1>3, <3>2, <4>1, ToSetOfSequence
      <4> QED BY <4>2 DEF Filled
    <3> HIDE DEF j, good
    <3>4. /\ next.blocks \in Seq(Blocks) /\ next.blocks # <<>> /\ Last(next.blocks) = j
          /\ ToSet(next.blocks) = ToSet(Front(bs)) \cup {j}
          /\ next.ok = good
      BY <2>2, <3>1, <3>2
    <3>5. good \in BOOLEAN /\ (good => acc.ok)
      BY <1>0 DEF good
    <3>6. next \in Accs
      BY <2>2, <3>1, <3>2, <3>5 DEF Accs
    <3>7. \A x \in ToSet(next.blocks) : Filled(x)
      BY <1>1, <2>1, <3>3, <3>4
    <3>8. \E q \in ToSet(j.order) : q >= Head(b.order)
      BY <1>3, <1>4, <3>2
    <3>9. ASSUME acc.ok
          PROVE  Gathers(ToSet(next.blocks), B \cup {b})
      <4>1. Gathers(ToSet(bs), B)
        BY <3>9 DEF MergedUpTo
      <4>2. PICK q \in ToSet(a.order) : q >= Head(c.order)
        BY <3>9 DEF MergedUpTo
      <4>3. ToSet(a.order) \subseteq Nat
        BY <2>3, ToSetOfSequence, PostIsNat
      <4>4. q >= Head(b.order)
        BY <1>3, <4>2, <4>3
      <4>5. Last(a.order) \in Nat
        BY <2>3, <4>3, EndsOfSequence DEF Filled
      <4>6. Last(a.order) <= Head(b.order)
        BY <1>3, <2>8, <4>5
      <4>7. ToSet(Front(bs)) \in SUBSET Blocks
        BY <2>1, ToSetOfSequence
      <4>8. Gathers(ToSet(Front(bs)) \cup {j}, ToSet(Front(bs)) \cup {a, b})
        BY <2>1, <2>3, <4>4, <4>6, <4>7, JoinGathers DEF Filled, j
      <4>9. Gathers(ToSet(bs) \cup {b}, B \cup {b})
        BY <4>1, GathersMore
      <4>10. ToSet(Front(bs)) \cup {a, b} = ToSet(bs) \cup {b}
        BY <2>1
      <4> QED BY <3>4, <4>8, <4>9, <4>10, GathersTransitive
    <3> QED BY <3>4, <3>5, <3>6, <3>7, <3>8, <3>9 DEF MergedUpTo
  <2> QED BY <2>6, <2>7, <2>8
<1> QED BY <1>5, <1>6

LEMMA MergedGathers ==
  ASSUME NEW s \in Seq(Blocks), s # <<>>, \A i \in 1 .. Len(s) : Filled(s[i]),
         \A i, j \in 1 .. Len(s) : i < j => Head(s[i].order) >= Head(s[j].order),
         NEW kn
  PROVE  MergedUpTo(Merged(s, kn), ToSet(s), s[Len(s)])
<1>1. Len(s) \in Nat /\ Len(s) >= 1 /\ \A i \in 1 .. Len(s) : s[i] \in Blocks
  OBVIOUS
<1>2. PICK g : /\ g[0] = MergeStart
               /\ \A k \in 1 .. Len(s) : g[k] = MergeInto(g[k - 1], s[k], kn)
               /\ Merged(s, kn) = g[Len(s)]
  BY MergedBySteps
<1> DEFINE upTo == [k \in Nat |-> {s[i] : i \in 1 .. k}]
           S == {k \in Nat : k + 1 <= Len(s) => MergedUpTo(g[k + 1], upTo[k + 1], s[k + 1])}
<1>3. 0 \in S
  <2>1. upTo[1] = {s[1]}
    OBVIOUS
  <2>2. g[1] = MergeInto(MergeStart, s[1], kn)
    BY <1>1, <1>2
  <2>3. MergedUpTo(MergeInto(MergeStart, s[1], kn), {s[1]}, s[1])
    BY <1>1, MergeFirst
  <2> HIDE DEF upTo
  <2>4. 0 + 1 = 1 /\ 0 \in Nat
    OBVIOUS
  <2> QED BY <2>1, <2>2, <2>3, <2>4
<1>4. ASSUME NEW k \in Nat, k \in S
      PROVE  k + 1 \in S
  <2> SUFFICES ASSUME k + 2 <= Len(s)
               PROVE  MergedUpTo(g[k + 2], upTo[k + 2], s[k + 2])
    <3> HIDE DEF upTo
    <3>1. (k + 1) + 1 = k + 2 /\ k + 1 \in Nat
      OBVIOUS
    <3> QED BY <3>1
  <2>1. k + 1 \in 1 .. Len(s) /\ k + 2 \in 1 .. Len(s) /\ k + 1 < k + 2 /\ (k + 2) - 1 = k + 1
    BY <1>1
  <2>2. MergedUpTo(g[k + 1], upTo[k + 1], s[k + 1])
    BY <1>4, <2>1
  <2>3. upTo[k + 2] = upTo[k + 1] \cup {s[k + 2]}
    <3>1. 1 .. k + 2 = (1 .. k + 1) \cup {k + 2}
      OBVIOUS
    <3> QED BY <3>1
  <2>4. upTo[k + 1] \in SUBSET Blocks
    <3>1. upTo[k + 1] = {s[i] : i \in 1 .. k + 1}
      OBVIOUS
    <3>2. \A i \in 1 .. k + 1 : i \in 1 .. Len(s)
      BY <1>1, <2>1
    <3> QED BY <1>1, <3>1, <3>2
  <2>5. g[k + 2] = MergeInto(g[k + 1], s[k + 2], kn)
    BY <1>2, <2>1
  <2> HIDE DEF upTo
  <2>6. /\ s[k + 1] \in Blocks /\ s[k + 2] \in Blocks /\ Filled(s[k + 1]) /\ Filled(s[k + 2])
        /\ Head(s[k + 1].order) >= Head(s[k + 2].order)
    BY <1>1, <2>1
  <2> QED BY <2>2, <2>3, <2>4, <2>5, <2>6, MergeNext
<1>5. \A k \in Nat : k \in S
  <2> HIDE DEF S
  <2> QED BY <1>3, <1>4, InductionOverNat
<1>6. Len(s) - 1 \in S /\ (Len(s) - 1) + 1 = Len(s)
  <2> HIDE DEF S
  <2>1. Len(s) - 1 \in Nat /\ (Len(s) - 1) + 1 = Len(s)
    BY <1>1
  <2> QED BY <1>5, <2>1
<1>7. upTo[Len(s)] = ToSet(s)
  BY <1>1 DEF ToSet
<1> HIDE DEF upTo
<1> QED BY <1>1, <1>2, <1>6, <1>7

\* mergePostBlocks, when it does not fail, gathers the blocks it is given.
LEMMA MergePostBlocksGathers ==
  ASSUME NEW bs \in Seq(Blocks), NEW kn, mergePostBlocks(bs, kn).ok
  PROVE  /\ mergePostBlocks(bs, kn).blocks \in Seq(Blocks)
         /\ Gathers(ToSet(mergePostBlocks(bs, kn).blocks), ToSet(bs))
<1> DEFINE kept == removeNonRecentEmptyPostBlocks(bs)
           readable == \A i \in DOMAIN kept :
                          kept[i].order # <<>> /\ Head(kept[i].order) \in kn
           s == NewestFirst(kept)
           result == IF Len(kept) <= 1 THEN [ok |-> TRUE, blocks |-> kept]
                     ELSE IF ~readable THEN [ok |-> FALSE, blocks |-> bs]
                     ELSE Merged(s, kn)
           final == IF kept = <<>> \/ Len(result.blocks) = Len(bs)
                    THEN [result EXCEPT !.blocks = bs] ELSE result
<1>1. mergePostBlocks(bs, kn) = final
  BY DEF mergePostBlocks, Merged, MergeStart
<1>2. kept \in Seq(Blocks) /\ Gathers(ToSet(kept), ToSet(bs))
  BY RemoveGathers
<1>3. ASSUME ~(Len(kept) <= 1), readable
      PROVE  MergedUpTo(Merged(s, kn), ToSet(kept), s[Len(s)])
  <2>1. /\ s \in Seq(Blocks) /\ Len(s) = Len(kept) /\ ToSet(s) = ToSet(kept)
        /\ \A i, j \in 1 .. Len(kept) : i < j => Head(s[i].order) >= Head(s[j].order)
    BY <1>2, <1>3, NewestFirstSorts
  <2> HIDE DEF s
  <2>2. \A x \in ToSet(kept) : Filled(x)
    BY <1>3 DEF ToSet, Filled
  <2> HIDE DEF kept
  <2>3. Len(kept) \in Nat
    BY <1>2
  <2>4. s # <<>>
    BY <1>3, <2>1, <2>3
  <2>5. \A i \in 1 .. Len(s) : s[i] \in ToSet(s)
    BY <2>1, ToSetOfSequence
  <2>6. \A i \in 1 .. Len(s) : Filled(s[i])
    BY <2>1, <2>2, <2>5
  <2> QED BY <2>1, <2>4, <2>6, MergedGathers
<1>4. \/ result = [ok |-> TRUE, blocks |-> kept]
      \/ result = [ok |-> FALSE, blocks |-> bs]
      \/ MergedUpTo(result, ToSet(kept), s[Len(s)])
  <2> HIDE DEF kept, readable, s
  <2> QED BY <1>3
<1>5. result \in Accs
  <2>1. [ok |-> TRUE, blocks |-> kept] \in Accs /\ [ok |-> FALSE, blocks |-> bs] \in Accs
    BY <1>2 DEF Accs
  <2> HIDE DEF result, kept, s
  <2> QED BY <1>4, <2>1 DEF MergedUpTo
<1>6. result.ok => Gathers(ToSet(result.blocks), ToSet(bs))
  <2> HIDE DEF result, kept, s
  <2>1. result.ok => Gathers(ToSet(result.blocks), ToSet(kept))
    BY <1>4, GathersItself DEF MergedUpTo
  <2> QED BY <1>2, <2>1, GathersTransitive
<1>7. CASE kept = <<>> \/ Len(result.blocks) = Len(bs)
  <2> HIDE DEF result, kept
  <2>1. final = [result EXCEPT !.blocks = bs]
    BY <1>7
  <2>2. final.blocks = bs
    BY <1>5, <2>1 DEF Accs
  <2> HIDE DEF final
  <2> QED BY <1>1, <2>2, GathersItself
<1>8. CASE ~(kept = <<>> \/ Len(result.blocks) = Len(bs))
  <2> HIDE DEF result, kept
  <2>1. final = result
    BY <1>8
  <2> QED BY <1>1, <1>5, <1>6, <2>1 DEF Accs
<1> QED BY <1>7, <1>8

----------------------------------------------------------------------------
(* The reducers. *)

LEMMA RecentIndexFinds ==
  ASSUME NEW bs \in Seq(Blocks)
  PROVE  /\ RecentIndex(bs) = 0 => \A b \in ToSet(bs) : ~b.recent
         /\ RecentIndex(bs) # 0 => /\ RecentIndex(bs) \in DOMAIN bs
                                   /\ bs[RecentIndex(bs)].recent
                                   /\ bs[RecentIndex(bs)] \in Blocks
         /\ (\E b \in ToSet(bs) : b.recent) => RecentIndex(bs) # 0
<1> DEFINE R == {i \in DOMAIN bs : bs[i].recent}
<1>1. DOMAIN bs = 1 .. Len(bs) /\ Len(bs) \in Nat /\ \A i \in DOMAIN bs : bs[i] \in Blocks
  OBVIOUS
<1>2. R \in SUBSET Nat /\ 0 \notin R
  BY <1>1
<1>3. R # {} => Min(R) \in R
  BY <1>2, MinIsLeast
<1>4. \A b \in ToSet(bs) : b.recent => R # {}
  BY DEF ToSet
<1>5. RecentIndex(bs) = IF R = {} THEN 0 ELSE Min(R)
  BY DEF RecentIndex
<1>6. \A i \in R : i \in DOMAIN bs /\ bs[i].recent /\ bs[i] \in Blocks
  BY <1>1
<1> HIDE DEF R
<1> QED BY <1>2, <1>3, <1>4, <1>5, <1>6

\* The blocks C are the blocks B with those of F taken in, as far as they are new.
Takes(C, B, F) ==
  /\ PostsOf(B) \subseteq PostsOf(C)
  /\ \A p \in Post : Covered(C, p) =>
       \/ Covered(B, p) \/ p \in PostsOf(C)
       \/ \E f \in F : Covers(f, p) /\ ToSet(f.order) \subseteq PostsOf(C)
  /\ (\E b \in B : b.recent) => \E b \in C : b.recent
  /\ (\A b \in B \cup F : IsInjective(b.order)) => \A b \in C : IsInjective(b.order)

LEMMA TakesNothing == ASSUME NEW B, NEW F PROVE Takes(B, B, F)
  BY DEF Takes

LEMMA ReplaceOne ==
  ASSUME NEW S, NEW s \in Seq(S), NEW i \in DOMAIN s, NEW x \in S
  PROVE  /\ [s EXCEPT ![i] = x] \in Seq(S)
         /\ ToSet([s EXCEPT ![i] = x]) \subseteq ToSet(s) \cup {x}
         /\ x \in ToSet([s EXCEPT ![i] = x])
         /\ ToSet(s) \subseteq ToSet([s EXCEPT ![i] = x]) \cup {s[i]}
<1> DEFINE u == [s EXCEPT ![i] = x]
<1>1. u \in Seq(S) /\ DOMAIN u = DOMAIN s
  OBVIOUS
<1>2. u[i] = x /\ \A k \in DOMAIN s : k # i => u[k] = s[k]
  OBVIOUS
<1> HIDE DEF u
<1>3. ToSet(u) \subseteq ToSet(s) \cup {x} /\ x \in ToSet(u)
  BY <1>1, <1>2 DEF ToSet
<1>4. ToSet(s) \subseteq ToSet(u) \cup {s[i]}
  BY <1>1, <1>2 DEF ToSet
<1> QED BY <1>1, <1>3, <1>4 DEF u

LEMMA AppendTakes ==
  ASSUME NEW bs \in Seq(Blocks), NEW us \in Seq(Blocks), NEW f \in Blocks, NEW kn,
         PostsOf(ToSet(us)) = PostsOf(ToSet(bs)),
         \A p \in Post : Covered(ToSet(us), p) => Covered(ToSet(bs), p),
         (\E b \in ToSet(bs) : b.recent) => f.recent \/ \E b \in ToSet(us) : b.recent,
         (\A b \in ToSet(bs) : IsInjective(b.order)) => \A b \in ToSet(us) : IsInjective(b.order),
         mergePostBlocks(Append(us, f), kn).ok
  PROVE  /\ mergePostBlocks(Append(us, f), kn).blocks \in Seq(Blocks)
         /\ Takes(ToSet(mergePostBlocks(Append(us, f), kn).blocks), ToSet(bs), {f})
<1> DEFINE ws == Append(us, f)
           next == mergePostBlocks(ws, kn)
           B == ToSet(bs)
           U == ToSet(us)
           C == ToSet(next.blocks)
<1>1. ws \in Seq(Blocks) /\ ToSet(ws) = U \cup {f}
  BY ToSetOfSequence
<1>2. next.blocks \in Seq(Blocks) /\ Gathers(C, U \cup {f})
  <2> HIDE DEF ws, U
  <2>1. next.ok
    BY DEF ws
  <2> QED BY <1>1, <2>1, MergePostBlocksGathers
<1>3. /\ PostsOf(U) = PostsOf(B)
      /\ \A p \in Post : Covered(U, p) => Covered(B, p)
      /\ (\E b \in B : b.recent) => f.recent \/ \E b \in U : b.recent
      /\ (\A b \in B : IsInjective(b.order)) => \A b \in U : IsInjective(b.order)
  OBVIOUS
<1> HIDE DEF ws, next, B, U, C
<1>4. PostsOf(U \cup {f}) = PostsOf(U) \cup ToSet(f.order)
  BY DEF PostsOf
<1>5. PostsOf(C) = PostsOf(B) \cup ToSet(f.order)
  BY <1>2, <1>3, <1>4 DEF Gathers
<1>6. ASSUME NEW p \in Post, Covered(C, p)
      PROVE  \/ Covered(B, p) \/ p \in PostsOf(C)
             \/ Covers(f, p) /\ ToSet(f.order) \subseteq PostsOf(C)
  <2>1. Covered(U \cup {f}, p) \/ p \in PostsOf(U \cup {f})
    BY <1>2, <1>6 DEF Gathers
  <2>2. Covered(U \cup {f}, p) => Covered(U, p) \/ Covers(f, p)
    BY DEF Covered
  <2> QED BY <1>3, <1>4, <1>5, <2>1, <2>2
<1>7. (\E b \in B : b.recent) => \E b \in C : b.recent
  BY <1>2, <1>3 DEF Gathers
<1>8. (\A b \in B \cup {f} : IsInjective(b.order)) => \A b \in C : IsInjective(b.order)
  BY <1>2, <1>3 DEF Gathers
<1>9. Takes(C, B, {f})
  BY <1>5, <1>6, <1>7, <1>8 DEF Takes
<1> QED BY <1>2, <1>9 DEF ws, next, B, C

LEMMA ReceivedInChannel ==
  ASSUME NEW bs \in Seq(Blocks), NEW a \in Replies, NEW recent \in BOOLEAN, NEW kn,
         receivedPostsInChannel(bs, a, recent, kn).ok
  PROVE  /\ receivedPostsInChannel(bs, a, recent, kn).blocks \in Seq(Blocks)
         /\ Takes(ToSet(receivedPostsInChannel(bs, a, recent, kn).blocks), ToSet(bs),
                  {Block(a.order, recent, a.oldest)})
<1> DEFINE i == RecentIndex(bs)
           f == Block(a.order, recent, a.oldest)
           us == IF recent /\ i # 0 THEN [bs EXCEPT ![i].recent = FALSE] ELSE bs
           next == receivedPostsInChannel(bs, a, recent, kn)
           merged == mergePostBlocks(Append(us, f), kn)
<1>1. next = [ok |-> TRUE, blocks |-> bs] \/ next = merged
  BY DEF receivedPostsInChannel, Unchanged
<1>2. f \in Blocks /\ f.recent = recent
  BY DEF Replies, Blocks, Block
<1>3. CASE next = [ok |-> TRUE, blocks |-> bs]
  BY <1>3, TakesNothing
<1>4. CASE next = merged
  <2>1. /\ us \in Seq(Blocks)
        /\ PostsOf(ToSet(us)) = PostsOf(ToSet(bs))
        /\ \A p \in Post : Covered(ToSet(us), p) => Covered(ToSet(bs), p)
        /\ (\A b \in ToSet(bs) : IsInjective(b.order))
             => \A b \in ToSet(us) : IsInjective(b.order)
        /\ recent \/ us = bs
    <3>1. CASE us = bs
      BY <3>1
    <3>2. CASE recent /\ i # 0
      <4> DEFINE o == bs[i]
                 b == [o EXCEPT !.recent = FALSE]
      <4>1. i \in DOMAIN bs /\ o \in Blocks /\ o.recent
        BY <3>2, RecentIndexFinds
      <4>2. b \in Blocks /\ b.order = o.order /\ b.oldest = o.oldest /\ b.recent = FALSE
        BY <4>1 DEF Blocks
      <4>3. us = [bs EXCEPT ![i] = b]
        BY <3>2
      <4>4. o \in ToSet(bs)
        BY <4>1 DEF ToSet
      <4> HIDE DEF i, o, b, us
      <4>5. /\ us \in Seq(Blocks) /\ ToSet(us) \subseteq ToSet(bs) \cup {b}
            /\ b \in ToSet(us) /\ ToSet(bs) \subseteq ToSet(us) \cup {bs[i]}
        BY <4>1, <4>2, <4>3, ReplaceOne
      <4>6. bs[i] = o
        BY DEF o
      <4>7. PostsOf(ToSet(us)) = PostsOf(ToSet(bs))
        <5>1. PostsOf(ToSet(us)) \subseteq PostsOf(ToSet(bs))
          BY <4>2, <4>4, <4>5 DEF PostsOf
        <5>2. PostsOf(ToSet(bs)) \subseteq PostsOf(ToSet(us))
          BY <4>2, <4>5, <4>6 DEF PostsOf
        <5> QED BY <5>1, <5>2
      <4>8. \A p \in Post : Covers(b, p) => Covers(o, p)
        BY <4>2 DEF Covers
      <4>9. \A p \in Post : Covered(ToSet(us), p) => Covered(ToSet(bs), p)
        BY <4>4, <4>5, <4>8 DEF Covered
      <4>10. (\A c \in ToSet(bs) : IsInjective(c.order))
               => \A c \in ToSet(us) : IsInjective(c.order)
        BY <4>2, <4>4, <4>5
      <4> QED BY <3>2, <4>5, <4>7, <4>9, <4>10
    <3> QED BY <3>1, <3>2
  <2>2. (\E b \in ToSet(bs) : b.recent) => f.recent \/ \E b \in ToSet(us) : b.recent
    BY <1>2, <2>1
  <2>3. merged.ok
    BY <1>4
  <2> HIDE DEF us, f, next
  <2>4. merged.blocks \in Seq(Blocks) /\ Takes(ToSet(merged.blocks), ToSet(bs), {f})
    BY <1>2, <2>1, <2>2, <2>3, AppendTakes
  <2> QED BY <1>4, <2>4 DEF next, f
<1> QED BY <1>1, <1>3, <1>4

LEMMA ReceivedAfter ==
  ASSUME NEW bs \in Seq(Blocks), NEW a \in Replies, NEW anchor \in Post, NEW kn,
         receivedPostsAfter(bs, a, anchor, kn).ok
  PROVE  /\ receivedPostsAfter(bs, a, anchor, kn).blocks \in Seq(Blocks)
         /\ Takes(ToSet(receivedPostsAfter(bs, a, anchor, kn).blocks), ToSet(bs),
                  {Block(Append(a.order, anchor), a.recent, FALSE)})
<1> DEFINE f == Block(Append(a.order, anchor), a.recent, FALSE)
<1>1. f \in Blocks
  BY DEF Replies, Blocks, Block
<1>2. CASE a.order = <<>>
  BY <1>2, TakesNothing DEF receivedPostsAfter, Unchanged
<1>3. CASE a.order # <<>>
  <2>1. receivedPostsAfter(bs, a, anchor, kn) = mergePostBlocks(Append(bs, f), kn)
    BY <1>3 DEF receivedPostsAfter
  <2> HIDE DEF f
  <2>2. /\ mergePostBlocks(Append(bs, f), kn).blocks \in Seq(Blocks)
        /\ Takes(ToSet(mergePostBlocks(Append(bs, f), kn).blocks), ToSet(bs), {f})
    BY <1>1, <2>1, AppendTakes
  <2> QED BY <2>1, <2>2 DEF f
<1> QED BY <1>2, <1>3

LEMMA ReceivedBefore ==
  ASSUME NEW bs \in Seq(Blocks), NEW a \in Replies, NEW anchor \in Post, NEW kn,
         receivedPostsBefore(bs, a, anchor, kn).ok
  PROVE  /\ receivedPostsBefore(bs, a, anchor, kn).blocks \in Seq(Blocks)
         /\ Takes(ToSet(receivedPostsBefore(bs, a, anchor, kn).blocks), ToSet(bs),
                  {Block(<<anchor>> \o a.order, FALSE, a.oldest)})
<1> DEFINE f == Block(<<anchor>> \o a.order, FALSE, a.oldest)
<1>1. f \in Blocks
  BY DEF Replies, Blocks, Block
<1>2. CASE a.order = <<>>
  BY <1>2, TakesNothing DEF receivedPostsBefore, Unchanged
<1>3. CASE a.order # <<>>
  <2>1. receivedPostsBefore(bs, a, anchor, kn) = mergePostBlocks(Append(bs, f), kn)
    BY <1>3 DEF receivedPostsBefore
  <2> HIDE DEF f
  <2>2. /\ mergePostBlocks(Append(bs, f), kn).blocks \in Seq(Blocks)
        /\ Takes(ToSet(mergePostBlocks(Append(bs, f), kn).blocks), ToSet(bs), {f})
    BY <1>1, <2>1, AppendTakes
  <2> QED BY <2>1, <2>2 DEF f
<1> QED BY <1>2, <1>3

LEMMA PutInFront ==
  ASSUME NEW s \in Seq(Post), NEW p \in Post, p \notin ToSet(s), IsInjective(s)
  PROVE  IsInjective(<<p>> \o s)
<1> DEFINE u == <<p>> \o s
<1>1. /\ DOMAIN u = 1 .. Len(s) + 1 /\ u[1] = p
      /\ \A k \in 1 .. Len(s) : u[k + 1] = s[k]
      /\ DOMAIN s = 1 .. Len(s) /\ Len(s) \in Nat
  OBVIOUS
<1>2. \A k \in 1 .. Len(s) : s[k] \in ToSet(s)
  BY <1>1 DEF ToSet
<1> HIDE DEF u
<1>3. \A m \in DOMAIN u : m # 1 => m - 1 \in 1 .. Len(s) /\ u[m] = s[m - 1]
  <2> SUFFICES ASSUME NEW m \in DOMAIN u, m # 1
               PROVE  m - 1 \in 1 .. Len(s) /\ u[m] = s[m - 1]
    OBVIOUS
  <2>1. m - 1 \in 1 .. Len(s) /\ (m - 1) + 1 = m
    BY <1>1
  <2> QED BY <1>1, <2>1
<1> SUFFICES ASSUME NEW k \in DOMAIN u, NEW l \in DOMAIN u, u[k] = u[l]
             PROVE  k = l
  BY DEF IsInjective, u
<1>4. k = 1 <=> l = 1
  BY <1>1, <1>2, <1>3
<1>5. k # 1 => k - 1 = l - 1
  BY <1>1, <1>3, <1>4 DEF IsInjective
<1> QED BY <1>1, <1>4, <1>5

LEMMA PutAtTheEnd ==
  ASSUME NEW s \in Seq(Post), NEW p \in Post, p \notin ToSet(s), IsInjective(s)
  PROVE  IsInjective(Append(s, p))
<1> DEFINE u == Append(s, p)
<1>1. /\ DOMAIN u = 1 .. Len(s) + 1 /\ u[Len(s) + 1] = p
      /\ \A k \in 1 .. Len(s) : u[k] = s[k]
      /\ DOMAIN s = 1 .. Len(s) /\ Len(s) \in Nat
  OBVIOUS
<1>2. \A k \in 1 .. Len(s) : s[k] \in ToSet(s)
  BY <1>1 DEF ToSet
<1> HIDE DEF u
<1> SUFFICES ASSUME NEW k \in DOMAIN u, NEW l \in DOMAIN u, u[k] = u[l]
             PROVE  k = l
  BY DEF IsInjective, u
<1>3. \A m \in DOMAIN u : m = Len(s) + 1 \/ m \in 1 .. Len(s)
  BY <1>1
<1>4. CASE k \in 1 .. Len(s) /\ l \in 1 .. Len(s)
  BY <1>1, <1>4 DEF IsInjective
<1> QED BY <1>1, <1>2, <1>3, <1>4

LEMMA TailOfSequence ==
  ASSUME NEW S, NEW s \in Seq(S), s # <<>>
  PROVE  /\ DOMAIN s = 1 .. Len(s) /\ Len(s) \in Nat /\ 1 \in 1 .. Len(s)
         /\ Head(s) = s[1] /\ Head(s) \in S
         /\ Tail(s) \in Seq(S) /\ Len(Tail(s)) = Len(s) - 1
         /\ \A i \in 1 .. Len(s) - 1 : Tail(s)[i] = s[i + 1]
  OBVIOUS

\* The recent block of bs with the posts of `order' instead of its own
LEMMA Reordered ==
  ASSUME NEW bs \in Seq(Blocks), NEW i \in DOMAIN bs, NEW order \in Seq(Post),
         ToSet(bs[i].order) \subseteq ToSet(order)
  PROVE  LET b == Block(order, bs[i].recent, bs[i].oldest)
             C == ToSet([bs EXCEPT ![i].order = order])
         IN  /\ [bs EXCEPT ![i].order = order] \in Seq(Blocks)
             /\ b \in C /\ C \subseteq ToSet(bs) \cup {b}
             /\ PostsOf(C) = PostsOf(ToSet(bs)) \cup ToSet(order)
             /\ (\E x \in ToSet(bs) : x.recent) => \E x \in C : x.recent
<1> DEFINE o == bs[i]
           b == Block(order, o.recent, o.oldest)
           us == [bs EXCEPT ![i].order = order]
           C == ToSet(us)
<1>1. o \in Blocks /\ o \in ToSet(bs)
  BY DEF ToSet
<1>2. b = [o EXCEPT !.order = order]
  BY <1>1 DEF Blocks, Block
<1>3. us = [bs EXCEPT ![i] = b]
  BY <1>2
<1>4. b \in Blocks /\ b.order = order /\ b.recent = o.recent
  BY <1>1 DEF Blocks, Block
<1>5. ToSet(o.order) \subseteq ToSet(order) /\ o = bs[i]
  OBVIOUS
<1> HIDE DEF o, b, us
<1>6. us \in Seq(Blocks) /\ C \subseteq ToSet(bs) \cup {b} /\ b \in C /\ ToSet(bs) \subseteq C \cup {o}
  BY <1>1, <1>3, <1>4, <1>5, ReplaceOne
<1>7. PostsOf(C) \subseteq PostsOf(ToSet(bs)) \cup ToSet(order)
  BY <1>4, <1>6 DEF PostsOf
<1>8. PostsOf(ToSet(bs)) \cup ToSet(order) \subseteq PostsOf(C)
  BY <1>4, <1>5, <1>6 DEF PostsOf
<1>9. (\E x \in ToSet(bs) : x.recent) => \E x \in C : x.recent
  BY <1>4, <1>6
<1> QED BY <1>6, <1>7, <1>8, <1>9 DEF o, b, us

\* Post p is newer than a post of b, or b starts with the channel.
Follows(b, p) == b.oldest \/ \E q \in ToSet(b.order) : p > q

\* The blocks C are the blocks B with posts of Q, that are in kn, in the recent one.
TakesNewer(C, B, Q, kn) ==
  /\ PostsOf(C) \subseteq PostsOf(B) \cup kn
  /\ HasTop(B) => HasTop(C)
  /\ \A p \in Post : Enclosed(C, p) =>
       \/ Enclosed(B, p)
       \/ /\ \E q \in Q : p < q
          /\ \E o \in B : o.recent /\ o.order # <<>> /\ Follows(o, p)

LEMMA TakesNewerNothing == ASSUME NEW B, NEW Q, NEW kn PROVE TakesNewer(B, B, Q, kn)
  BY DEF TakesNewer

\* receivedPostsSince adds the posts that it can compare to the end of the block.
LEMMA ReceivedSince ==
  ASSUME NEW bs \in Seq(Blocks), NEW a \in Replies, NEW kn
  PROVE  LET next == receivedPostsSince(bs, a, kn)
             i == RecentIndex(bs)
             old == bs[i].order
         IN  /\ next.ok => /\ next.blocks \in Seq(Blocks)
                           /\ Takes(ToSet(next.blocks), ToSet(bs), {})
                           /\ TakesNewer(ToSet(next.blocks), ToSet(bs), ToSet(a.order), kn)
             /\ i # 0 /\ old # <<>> /\ ToSet(old) \subseteq kn =>
                  /\ next.ok
                  /\ \A p \in ToSet(a.order) \cap kn :
                       p > Last(old) => p \in PostsOf(ToSet(next.blocks))
<1> DEFINE next == receivedPostsSince(bs, a, kn)
           i == RecentIndex(bs)
           o == bs[i]
           old == o.order
           added == {p \in ToSet(a.order) \cap kn : p > Last(old)} \ ToSet(old)
           order == Desc(ToSet(old) \cup added)
           us == [bs EXCEPT ![i].order = order]
<1>1. a.order \in Seq(Post)
  BY DEF Replies
<1>2. i # 0 => i \in DOMAIN bs /\ o \in Blocks /\ o.recent /\ old \in Seq(Post)
  <2>1. i # 0 => i \in DOMAIN bs /\ o \in Blocks /\ o.recent
    BY RecentIndexFinds
  <2> HIDE DEF o
  <2> QED BY <2>1 DEF Blocks
<1>3. i # 0 => o \in ToSet(bs)
  BY <1>2 DEF ToSet
<1>4. i # 0 => ToSet(old) \subseteq PostsOf(ToSet(bs))
  BY <1>3 DEF PostsOf
<1>5. \/ /\ (a.order = <<>> /\ loaded) \/ i = 0
         /\ next = [ok |-> TRUE, blocks |-> bs]
      \/ /\ i # 0 /\ (old = <<>> \/ Last(old) \notin kn)
         /\ next = [ok |-> FALSE, blocks |-> bs]
      \/ i # 0 /\ added = {} /\ next = [ok |-> TRUE, blocks |-> bs]
      \/ /\ i # 0 /\ old # <<>>
         /\ next = [ok |-> ToSet(old) \subseteq kn, blocks |-> us]
  BY DEF receivedPostsSince, Unchanged
<1>6. ASSUME i # 0, old # <<>>
      PROVE  /\ us \in Seq(Blocks) /\ Takes(ToSet(us), ToSet(bs), {})
             /\ TakesNewer(ToSet(us), ToSet(bs), ToSet(a.order), kn)
             /\ added \subseteq PostsOf(ToSet(us))
             /\ ToSet(old) \subseteq PostsOf(ToSet(us))
  <2> DEFINE b == Block(order, o.recent, o.oldest)
             C == ToSet(us)
  <2>1. ToSet(old) \cup added \in SUBSET Post
    <3>1. ToSet(old) \in SUBSET Post /\ ToSet(a.order) \in SUBSET Post
      BY <1>1, <1>2, <1>6, ToSetOfSequence
    <3> QED BY <3>1
  <2>2. /\ order \in Seq(Post) /\ ToSet(order) = ToSet(old) \cup added
        /\ IsInjective(order)
    <3>1. /\ order \in Seq(Post) /\ ToSet(order) = ToSet(old) \cup added
          /\ Descending(order)
      BY <2>1, DescIsDescending
    <3> HIDE DEF order
    <3> QED BY <3>1, DescendingIsInjective
  <2>3. \A p \in added : p > Last(old)
    OBVIOUS
  <2>4. ToSet(old) \subseteq ToSet(order) /\ added \subseteq ToSet(a.order) \cap kn
    BY <2>2
  <2> HIDE DEF order, added
  <2>5. /\ us \in Seq(Blocks)
        /\ b \in C /\ C \subseteq ToSet(bs) \cup {b}
        /\ PostsOf(C) = PostsOf(ToSet(bs)) \cup ToSet(order)
        /\ (\E x \in ToSet(bs) : x.recent) => \E x \in C : x.recent
    <3> HIDE DEF i, next
    <3>1. i \in DOMAIN bs /\ ToSet(bs[i].order) \subseteq ToSet(order)
      BY <1>2, <1>6, <2>4
    <3> QED BY <2>2, <3>1, Reordered
  <2>6. b.order = order /\ b.recent = o.recent /\ b.oldest = o.oldest
    BY DEF Block
  <2>7. Last(old) \in ToSet(old) /\ Last(old) \in Nat /\ old \in Seq(Post) /\ o.recent
    <3> HIDE DEF old
    <3> QED BY <1>2, <1>6, EndsOfSequence, PostIsNat
  <2> HIDE DEF b, C, i, us
  <2>8. ASSUME NEW p \in Post, Covers(b, p)
        PROVE  Covers(o, p)
    <3>1. o.oldest \/ \E q \in ToSet(old) \cup added : p > q
      BY <2>2, <2>6, <2>8 DEF Covers
    <3>2. ASSUME NEW q \in added, p > q
          PROVE  \E y \in ToSet(old) : p > y
      <4>1. q > Last(old) /\ q \in Nat /\ p \in Nat
        BY <2>1, <2>3, <3>2, PostIsNat
      <4>2. p > Last(old)
        BY <2>7, <3>2, <4>1
      <4> QED BY <2>7, <4>2
    <3>3. o.oldest \/ \E q \in ToSet(old) : p > q
      BY <3>1, <3>2
    <3> HIDE DEF o
    <3> QED BY <2>7, <3>3 DEF Covers
  <2>12. ASSUME NEW p \in Post, Inside(b, p)
         PROVE  Inside(o, p) \/ ((\E q \in ToSet(a.order) : p < q) /\ Follows(o, p))
    <3>1. b.oldest \/ \E q \in ToSet(b.order) : p > q
      BY <2>12 DEF Inside
    <3>2. Covers(b, p)
      BY <2>6, <2>7, <3>1 DEF Covers
    <3>3. Follows(o, p)
      BY <2>8, <3>2 DEF Covers, Follows
    <3>4. \E q \in ToSet(old) \cup added : p < q
      BY <2>2, <2>6, <2>12 DEF Inside
    <3> HIDE DEF o
    <3> QED BY <2>4, <3>3, <3>4 DEF Inside, Follows
  <2>9. \A p \in Post : Covered(C, p) => Covered(ToSet(bs), p)
    BY <1>3, <1>6, <2>5, <2>8 DEF Covered
  <2>10. (\A x \in ToSet(bs) \cup {} : IsInjective(x.order)) => \A x \in C : IsInjective(x.order)
    BY <2>2, <2>5, <2>6
  <2>11. Takes(C, ToSet(bs), {})
    BY <2>5, <2>9, <2>10 DEF Takes
  <2>13. PostsOf(C) \subseteq PostsOf(ToSet(bs)) \cup kn
    <3>1. ToSet(old) \subseteq PostsOf(ToSet(bs))
      BY <1>4, <1>6
    <3> HIDE DEF old
    <3> QED BY <2>2, <2>4, <2>5, <3>1
  <2>14. HasTop(C)
    <3>1. order # <<>>
      <4> HIDE DEF old
      <4> QED BY <2>2, <2>7, ToSetOfSequence
    <3> QED BY <2>5, <2>6, <2>7, <3>1 DEF HasTop
  <2>15. TakesNewer(C, ToSet(bs), ToSet(a.order), kn)
    <3>1. o \in ToSet(bs) /\ o.recent /\ o.order # <<>>
      BY <1>3, <1>6, <2>7
    <3> HIDE DEF o, old
    <3> QED BY <2>5, <2>12, <2>13, <2>14, <3>1 DEF TakesNewer, Enclosed
  <2> QED BY <2>2, <2>5, <2>11, <2>15 DEF C
<1>7. next.ok => /\ next.blocks \in Seq(Blocks) /\ Takes(ToSet(next.blocks), ToSet(bs), {})
                 /\ TakesNewer(ToSet(next.blocks), ToSet(bs), ToSet(a.order), kn)
  <2> HIDE DEF next, us, old, i, added
  <2> QED BY <1>5, <1>6, TakesNothing, TakesNewerNothing
<1>8. ASSUME i # 0, old # <<>>, ToSet(old) \subseteq kn
      PROVE  /\ next.ok
             /\ \A p \in ToSet(a.order) \cap kn :
                  p > Last(old) => p \in PostsOf(ToSet(next.blocks))
  <2>1. Last(old) \in kn
    <3> HIDE DEF old
    <3> QED BY <1>2, <1>8, EndsOfSequence
  <2>2. \A p \in ToSet(a.order) \cap kn : p > Last(old) => p \in added \/ p \in ToSet(old)
    OBVIOUS
  <2>3. a.order = <<>> => ToSet(a.order) = {}
    BY <1>1, ToSetOfSequence
  <2>4. ToSet(old) \subseteq PostsOf(ToSet(bs))
    BY <1>4, <1>8
  <2>5. added \cup ToSet(old) \subseteq PostsOf(ToSet(us))
    BY <1>6, <1>8
  <2> HIDE DEF next, us, old, i, added
  <2>6. next.ok
    <3>1. (ToSet(old) \subseteq kn) = TRUE
      BY <1>8
    <3>2. \/ next = [ok |-> TRUE, blocks |-> bs]
          \/ next = [ok |-> TRUE, blocks |-> us]
      BY <1>5, <1>8, <2>1, <3>1, Zenon
    <3> QED BY <3>2
  <2>7. \/ a.order = <<>>
        \/ added = {} /\ next.blocks = bs
        \/ next.blocks = us
    BY <1>5, <1>8, <2>1
  <2> QED BY <2>2, <2>3, <2>4, <2>5, <2>6, <2>7
<1> QED BY <1>7, <1>8

\* receivedNewPost adds the post to the recent block.
LEMMA ReceivedNew ==
  ASSUME NEW bs \in Seq(Blocks), NEW p \in Post
  PROVE  LET next == receivedNewPost(bs, p)
             B == ToSet(bs)
             C == ToSet(next)
         IN  /\ next \in Seq(Blocks)
             /\ PostsOf(C) = PostsOf(B) \cup {p}
             /\ \A x \in Post : Covered(C, x) => Covered(B, x) \/ x > p
             /\ (\E b \in B : b.recent) => \E b \in C : b.recent
             /\ (\A b \in B : IsInjective(b.order)) => \A b \in C : IsInjective(b.order)
             /\ HasTop(B) => HasTop(C)
             /\ \A x \in Post : Enclosed(C, x) =>
                  \/ Enclosed(B, x) \/ x > p
                  \/ x < p /\ \E o \in B : o.recent /\ Follows(o, x)
<1> DEFINE next == receivedNewPost(bs, p)
           i == RecentIndex(bs)
           o == bs[i]
           B == ToSet(bs)
           C == ToSet(next)
           new == Block(<<p>>, TRUE, FALSE)
           order == <<p>> \o o.order
           b == Block(order, o.recent, o.oldest)
<1>1. CASE i = 0
  <2>1. next = Append(bs, new)
    BY <1>1 DEF receivedNewPost
  <2>2. new \in Blocks /\ ToSet(new.order) = {p} /\ IsInjective(new.order)
        /\ new.recent = TRUE /\ new.oldest = FALSE
    BY DEF Block, Blocks, ToSet, IsInjective
  <2> HIDE DEF new, next, i, B, C
  <2>3. next \in Seq(Blocks) /\ C = B \cup {new}
    BY <2>1, <2>2, ToSetOfSequence DEF B, C
  <2>4. PostsOf(C) = PostsOf(B) \cup {p}
    BY <2>2, <2>3 DEF PostsOf
  <2>5. \A x \in Post : Covers(new, x) => x > p
    BY <2>2 DEF Covers
  <2>6. \A x \in Post : Covered(C, x) => Covered(B, x) \/ x > p
    BY <2>3, <2>5 DEF Covered
  <2>7. /\ (\E x \in B : x.recent) => \E x \in C : x.recent
        /\ (\A x \in B : IsInjective(x.order)) => \A x \in C : IsInjective(x.order)
    BY <2>2, <2>3
  <2>8. new.order # <<>>
    <3>1. new.order \in Seq(Post)
      BY <2>2 DEF Blocks
    <3>2. ToSet(new.order) # {}
      BY <2>2
    <3> QED BY <3>1, <3>2, ToSetOfSequence
  <2>9. HasTop(B) => HasTop(C)
    BY <2>2, <2>3, <2>8 DEF HasTop
  <2>10. \A x \in Post : Inside(new, x) => x > p
    BY <2>2 DEF Inside
  <2>11. \A x \in Post : Enclosed(C, x) => Enclosed(B, x) \/ x > p
    BY <2>3, <2>10 DEF Enclosed
  <2> QED BY <2>3, <2>4, <2>6, <2>7, <2>9, <2>11 DEF next, B, C
<1>2. CASE i # 0
  <2>1. i \in DOMAIN bs /\ o \in Blocks /\ o.recent
    BY <1>2, RecentIndexFinds
  <2>2. o \in B /\ o.order \in Seq(Post)
    <3>1. o \in B
      BY <2>1 DEF ToSet
    <3> HIDE DEF o
    <3> QED BY <2>1, <3>1 DEF Blocks
  <2>3. CASE p \in ToSet(o.order)
    <3>1. next = bs
      BY <1>2, <2>3 DEF receivedNewPost, Has
    <3>2. p \in PostsOf(B)
      BY <2>2, <2>3 DEF PostsOf
    <3> QED BY <3>1, <3>2
  <2>4. CASE p \notin ToSet(o.order)
    <3>1. next = [bs EXCEPT ![i].order = order]
      BY <1>2, <2>4 DEF receivedNewPost, Has
    <3>2. order \in Seq(Post) /\ ToSet(order) = ToSet(o.order) \cup {p}
      <4> HIDE DEF o
      <4> QED BY <2>2, ToSetOfSequence
    <3>3. IsInjective(o.order) => IsInjective(order)
      <4> HIDE DEF o
      <4> QED BY <2>2, <2>4, PutInFront
    <3>4. ToSet(bs[i].order) \subseteq ToSet(order)
      BY <3>2
    <3> HIDE DEF order, next, i, C
    <3>5. /\ next \in Seq(Blocks)
          /\ b \in C /\ C \subseteq B \cup {b}
          /\ PostsOf(C) = PostsOf(B) \cup ToSet(order)
          /\ (\E x \in B : x.recent) => \E x \in C : x.recent
      BY <2>1, <3>1, <3>2, <3>4, Reordered DEF C
    <3>6. b.order = order /\ b.recent = o.recent /\ b.oldest = o.oldest
      BY DEF Block
    <3> HIDE DEF b, o, B
    <3>7. PostsOf(C) = PostsOf(B) \cup {p}
      <4>1. ToSet(o.order) \subseteq PostsOf(B)
        BY <2>2 DEF PostsOf
      <4> QED BY <3>2, <3>5, <4>1
    <3>8. \A x \in Post : Covers(b, x) => Covers(o, x) \/ x > p
      BY <2>1, <3>2, <3>6 DEF Covers
    <3>9. \A x \in Post : Covered(C, x) => Covered(B, x) \/ x > p
      BY <2>2, <3>5, <3>8 DEF Covered
    <3>10. (\A x \in B : IsInjective(x.order)) => \A x \in C : IsInjective(x.order)
      BY <2>2, <3>3, <3>5, <3>6
    <3>11. HasTop(B) => HasTop(C)
      <4>1. order # <<>>
        BY <3>2, ToSetOfSequence
      <4> QED BY <2>1, <3>5, <3>6, <4>1 DEF HasTop
    <3>12. ASSUME NEW x \in Post, Inside(b, x)
           PROVE  Inside(o, x) \/ x > p \/ (x < p /\ Follows(o, x))
      <4>1. \E q \in ToSet(o.order) \cup {p} : x < q
        BY <3>2, <3>6, <3>12 DEF Inside
      <4>2. o.oldest \/ \E q \in ToSet(o.order) \cup {p} : x > q
        BY <3>2, <3>6, <3>12 DEF Inside
      <4>3. x > p \/ Follows(o, x)
        BY <4>2 DEF Follows
      <4>4. x < p \/ \E q \in ToSet(o.order) : x < q
        BY <4>1
      <4> QED BY <4>3, <4>4 DEF Inside, Follows
    <3>13. \A x \in Post : Enclosed(C, x) =>
             \/ Enclosed(B, x) \/ x > p
             \/ x < p /\ \E c \in B : c.recent /\ Follows(c, x)
      BY <2>1, <2>2, <3>5, <3>12 DEF Enclosed
    <3> QED BY <3>5, <3>7, <3>9, <3>10, <3>11, <3>13 DEF next, B, C
  <2> QED BY <2>3, <2>4
<1> QED BY <1>1, <1>2

\* postDeleted takes only the replies S out of the blocks.
LEMMA PostDeletedKeeps ==
  ASSUME NEW bs \in Seq(Blocks), NEW S \in SUBSET Post
  PROVE  LET next == postDeleted(bs, S)
             B == ToSet(bs)
             C == ToSet(next)
         IN  /\ next \in Seq(Blocks) /\ (bs = <<>> => next = <<>>)
             /\ PostsOf(B) \ S \subseteq PostsOf(C)
             /\ \A x \in Post : Covered(C, x) => Covered(B, x) \/ x \in PostsOf(C)
             /\ (\E b \in B : b.recent) => \E b \in C : b.recent
             /\ (\A b \in B : IsInjective(b.order)) => \A b \in C : IsInjective(b.order)
<1> DEFINE f == [i \in DOMAIN bs |-> [bs[i] EXCEPT !.order = Keep(@, Post \ S)]]
           rest == removeNonRecentEmptyPostBlocks(f)
           next == postDeleted(bs, S)
           B == ToSet(bs)
           F == ToSet(f)
           C == ToSet(next)
<1>1. next = IF f = bs THEN bs ELSE rest
  BY DEF postDeleted
<1>2. DOMAIN bs = 1 .. Len(bs) /\ Len(bs) \in Nat /\ \A i \in DOMAIN bs : bs[i] \in Blocks
  OBVIOUS
<1>3. ASSUME NEW i \in DOMAIN bs
      PROVE  /\ f[i] \in Blocks
             /\ f[i].recent = bs[i].recent /\ f[i].oldest = bs[i].oldest
             /\ ToSet(f[i].order) = ToSet(bs[i].order) \cap (Post \ S)
             /\ IsInjective(bs[i].order) => IsInjective(f[i].order)
  <2> DEFINE b == bs[i]
             u == Keep(b.order, Post \ S)
  <2>1. b \in Blocks
    BY <1>2
  <2>2. f[i] = [b EXCEPT !.order = u]
    OBVIOUS
  <2> HIDE DEF b, f
  <2>3. b.order \in Seq(Post)
    BY <2>1 DEF Blocks
  <2>4. /\ u \in Seq(Post) /\ ToSet(u) = ToSet(b.order) \cap (Post \ S)
        /\ Thinned(u, b.order)
    BY <2>3, KeepFilters
  <2>5. IsInjective(b.order) => IsInjective(u)
    BY <2>3, <2>4, ThinnedKeeps
  <2> HIDE DEF u
  <2>6. /\ f[i] \in Blocks /\ f[i].order = u
        /\ f[i].recent = b.recent /\ f[i].oldest = b.oldest
    BY <2>1, <2>2, <2>4 DEF Blocks
  <2> QED BY <2>4, <2>5, <2>6 DEF b
<1>4. f \in Seq(Blocks) /\ DOMAIN f = DOMAIN bs
  <2>1. DOMAIN f = DOMAIN bs
    OBVIOUS
  <2>2. f = [i \in 1 .. Len(bs) |-> f[i]]
    BY <1>2
  <2> HIDE DEF f
  <2>3. f \in [1 .. Len(bs) -> Blocks]
    BY <1>2, <1>3, <2>2
  <2> QED BY <1>2, <2>1, <2>3, SequenceOfFunction
<1> HIDE DEF f
<1>5. /\ \A c \in F : \E i \in DOMAIN bs : c = f[i]
      /\ \A b \in B : \E i \in DOMAIN bs : b = bs[i]
      /\ \A i \in DOMAIN bs : f[i] \in F /\ bs[i] \in B
  BY <1>4 DEF ToSet
<1> HIDE DEF F, B
<1>6. PostsOf(B) \ S \subseteq PostsOf(F)
  <2>1. \A i \in DOMAIN bs : ToSet(bs[i].order) \subseteq Post
    <3> SUFFICES ASSUME NEW i \in DOMAIN bs
                 PROVE  ToSet(bs[i].order) \subseteq Post
      OBVIOUS
    <3>1. bs[i].order \in Seq(Post)
      BY <1>2 DEF Blocks
    <3> QED BY <3>1, ToSetOfSequence
  <2> QED BY <1>3, <1>5, <2>1 DEF PostsOf
<1>7. \A x \in Post : Covered(F, x) => Covered(B, x)
  <2>1. \A i \in DOMAIN bs : \A x \in Post : Covers(f[i], x) => Covers(bs[i], x)
    BY <1>3 DEF Covers
  <2> QED BY <1>5, <2>1 DEF Covered
<1>8. /\ (\E b \in B : b.recent) => \E b \in F : b.recent
      /\ (\A b \in B : IsInjective(b.order)) => \A b \in F : IsInjective(b.order)
  BY <1>3, <1>5
<1>9. rest \in Seq(Blocks) /\ Gathers(ToSet(rest), F)
  BY <1>4, RemoveGathers DEF F
<1> HIDE DEF rest
<1>10. PostsOf(ToSet(rest)) = PostsOf(F)
  BY <1>9 DEF Gathers
<1>11. \A x \in Post : Covered(ToSet(rest), x) => Covered(B, x) \/ x \in PostsOf(ToSet(rest))
  BY <1>7, <1>9, <1>10 DEF Gathers
<1>12. /\ (\E b \in B : b.recent) => \E b \in ToSet(rest) : b.recent
       /\ (\A b \in B : IsInjective(b.order)) => \A b \in ToSet(rest) : IsInjective(b.order)
  BY <1>8, <1>9 DEF Gathers
<1>13. bs = <<>> => next = <<>>
  <2>1. bs = <<>> => DOMAIN bs = {}
    BY <1>2
  <2>2. bs = <<>> => f = bs
    BY <1>4, <2>1
  <2> QED BY <1>1, <2>2
<1>14. CASE f = bs
  BY <1>1, <1>13, <1>14 DEF B
<1>15. CASE f # bs
  <2>1. next = rest
    BY <1>1, <1>15
  <2> QED BY <1>6, <1>9, <1>10, <1>11, <1>12, <1>13, <2>1 DEF B
<1> QED BY <1>14, <1>15

----------------------------------------------------------------------------
(* The answers of the server. *)

LEMMA DescOfLive ==
  ASSUME NEW S \in SUBSET Post
  PROVE  IsInjective(Desc(S)) /\ Desc(S) \in Seq(Post) /\ ToSet(Desc(S)) = S
  BY DescIsDescending, DescendingIsInjective

----------------------------------------------------------------------------
(* The inductive invariant. *)

\* The block that the reducer makes of an answer before it merges it: none for
\* a synchronisation, whose posts go into the recent block.
Fresh(r) ==
  CASE r.kind = "since" -> {}
    [] r.kind = "before" -> {Block(<<r.arg>> \o r.reply.order, FALSE, r.reply.oldest)}
    [] r.kind = "after" -> {Block(Append(r.reply.order, r.arg), r.reply.recent, FALSE)}
    [] r.kind \in {"latest", "page0"} -> {Block(r.reply.order, TRUE, r.reply.oldest)}
    [] OTHER -> {Block(r.reply.order, r.reply.recent, r.reply.oldest)}

Excused(p) == Coming(p) \/ p \in lost \/ p \in dropped \/ p \in leftOut
Accounted(p) == InSomeBlock(p) \/ Excused(p)

\* An event of a post comes before those of all later posts.
EventsInOrder ==
  \A i \in DOMAIN events :
    /\ events[i].post <= posted
    /\ events[i].del => events[i].post \in deleted
    /\ ~events[i].del => \A p \in 1 .. posted : events[i].post < p =>
         \E j \in DOMAIN events : i < j /\ events[j] = [del |-> FALSE, post |-> p]

\* The replies of a deleted root are deleted.
RootsClosed == \A q \in 1 .. posted : RootOf[q] \in deleted => q \in deleted

\* Nothing newer than a reply that waits for its thread is missing.
AwaitedInOrder == \A p \in awaiting : \A x \in Live : x > p => Accounted(x)

\* An answer on its way shows no post twice and lacks no post of the run it
\* stands for, but for those created since and those that the server did not see.
RepliesWhole ==
  \A r \in requests :
    /\ r.kind \in {"before", "after"} => r.arg \in Post
    /\ r.answered =>
         /\ r.reply.posts \subseteq 1 .. posted
         /\ r.kind = "since" => /\ ToSet(r.reply.order) \subseteq 1 .. posted
                               /\ Live \cap ToSet(r.reply.order) \subseteq r.reply.posts
         /\ \A f \in Fresh(r) :
              /\ IsInjective(f.order)
              /\ \A p \in Live : Covers(f, p) => p \in ToSet(f.order) \/ Accounted(p)

BlocksWhole == \A p \in Live : Covered(ToSet(blocks), p) => Accounted(p)

IInv ==
  /\ TypeOK /\ drops <= acts /\ EventsInOrder /\ RootsClosed
  /\ AwaitedInOrder /\ RepliesWhole /\ BlocksWhole /\ NoDuplicates

----------------------------------------------------------------------------
(* What the server answers. *)

\* No post of V outside S lies between two posts of S.
Convex(V, S) == \A p \in V \ S : (\A q \in S : q > p) \/ (\A q \in S : q < p)

LEMMA NewestAreNewer ==
  ASSUME NEW T \in SUBSET Post, NEW q \in Newest(T), NEW p \in T \ Newest(T)
  PROVE  q > p
<1> DEFINE Over(x) == {y \in T : y > x}
<1>1. p \in Nat /\ q \in Nat /\ p \in T /\ q \in T
  BY PostIsNat DEF Newest
<1>2. Cardinality(Over(q)) < PageSize /\ ~(Cardinality(Over(p)) < PageSize)
  BY DEF Newest
<1>3. SUFFICES ASSUME ~(q > p) PROVE FALSE
  OBVIOUS
<1>4. \A y \in T : y \in Nat
  BY PostIsNat
<1>5. Over(p) \subseteq Over(q)
  <2>1. ASSUME NEW y \in Nat, y > p
        PROVE  y > q
    BY <1>1, <1>3, <2>1
  <2> QED BY <1>4, <2>1
<1>6. IsFiniteSet(Over(q))
  BY PostsAreFinite
<1>7. Cardinality(Over(p)) <= Cardinality(Over(q)) /\ Cardinality(Over(q)) \in Nat
      /\ Cardinality(Over(p)) \in Nat
  BY <1>5, <1>6, FS_Subset, FS_CardinalityType
<1>8. PageSize \in Nat
  BY PostsAssumption
<1> HIDE DEF Over
<1> QED BY <1>2, <1>7, <1>8

LEMMA OldestAreOlder ==
  ASSUME NEW T \in SUBSET Post, NEW n \in Nat, NEW q \in Oldest(T, n), NEW p \in T \ Oldest(T, n)
  PROVE  q < p
<1> DEFINE Under(x) == {y \in T : y < x}
<1>1. p \in Nat /\ q \in Nat /\ p \in T /\ q \in T
  BY PostIsNat DEF Oldest
<1>2. Cardinality(Under(q)) < n /\ ~(Cardinality(Under(p)) < n)
  BY DEF Oldest
<1>3. SUFFICES ASSUME ~(q < p) PROVE FALSE
  OBVIOUS
<1>4. \A y \in T : y \in Nat
  BY PostIsNat
<1>5. Under(p) \subseteq Under(q)
  <2>1. ASSUME NEW y \in Nat, y < p
        PROVE  y < q
    BY <1>1, <1>3, <2>1
  <2> QED BY <1>4, <2>1
<1>6. IsFiniteSet(Under(q))
  BY PostsAreFinite
<1>7. Cardinality(Under(p)) <= Cardinality(Under(q)) /\ Cardinality(Under(q)) \in Nat
      /\ Cardinality(Under(p)) \in Nat
  BY <1>5, <1>6, FS_Subset, FS_CardinalityType
<1> HIDE DEF Under
<1> QED BY <1>2, <1>7

LEMMA ViewsAreOfPosts ==
  ASSUME TypeOK
  PROVE  /\ Live \in SUBSET Post /\ Live \in SUBSET (1 .. posted)
         /\ 1 .. posted \subseteq Post
         /\ \A V \in Views : V \in SUBSET Post /\ V \in SUBSET (1 .. posted)
<1>1. posted \in 0 .. MaxPosts
  BY DEF TypeOK
<1>2. 1 .. posted \subseteq Post
  BY <1>1, PostsAssumption DEF Post
<1> QED BY <1>2 DEF Live, Views

LEMMA PagesAreConvex ==
  ASSUME NEW V \in SUBSET Post
  PROVE  /\ Newest(V) \in SUBSET V /\ Convex(V, Newest(V))
         /\ \A p \in V \ Newest(V) : \A q \in Newest(V) : q > p
         /\ \A p \in Post : /\ Newest(Below(V, p)) \in SUBSET Below(V, p)
                            /\ \A x \in Below(V, p) \ Newest(Below(V, p)) :
                                 \A q \in Newest(Below(V, p)) : q > x
                            /\ \A n \in Nat :
                                 /\ Oldest(Above(V, p), n) \in SUBSET Above(V, p)
                                 /\ \A x \in Above(V, p) \ Oldest(Above(V, p), n) :
                                      \A q \in Oldest(Above(V, p), n) : q < x
         /\ \A p \in V : \A n \in Nat :
              Window(V, p, n) \in SUBSET V /\ Convex(V, Window(V, p, n))
<1>1. V \in SUBSET Post
  OBVIOUS
<1>2. \A T \in SUBSET Post : Newest(T) \in SUBSET T
  BY DEF Newest
<1>3. \A T \in SUBSET Post : \A n \in Nat : Oldest(T, n) \in SUBSET T
  BY DEF Oldest
<1>4. \A p \in Post : Below(V, p) \in SUBSET Post /\ Above(V, p) \in SUBSET Post
                      /\ Below(V, p) \in SUBSET V /\ Above(V, p) \in SUBSET V
  BY <1>1 DEF Below, Above
<1>5. \A p \in V \ Newest(V) : \A q \in Newest(V) : q > p
  BY <1>1, NewestAreNewer
<1>6. Newest(V) \in SUBSET V /\ Convex(V, Newest(V))
  BY <1>1, <1>2, <1>5 DEF Convex
<1>7. ASSUME NEW p \in Post
      PROVE  /\ Newest(Below(V, p)) \in SUBSET Below(V, p)
             /\ \A x \in Below(V, p) \ Newest(Below(V, p)) : \A q \in Newest(Below(V, p)) : q > x
  BY <1>2, <1>4, NewestAreNewer
<1>8. ASSUME NEW p \in Post, NEW n \in Nat
      PROVE  /\ Oldest(Above(V, p), n) \in SUBSET Above(V, p)
             /\ \A x \in Above(V, p) \ Oldest(Above(V, p), n) :
                  \A q \in Oldest(Above(V, p), n) : q < x
  BY <1>3, <1>4, OldestAreOlder
<1>9. ASSUME NEW p \in V, NEW n \in Nat
      PROVE  Window(V, p, n) \in SUBSET V /\ Convex(V, Window(V, p, n))
  <2> DEFINE N == Newest(Below(V, p))
             O == Oldest(Above(V, p), n)
  <2>1. p \in Post /\ p \in Nat
    BY <1>1, PostIsNat
  <2>2. N \subseteq Below(V, p) /\ O \subseteq Above(V, p) /\ N \subseteq V /\ O \subseteq V
    BY <1>4, <1>7, <1>8, <2>1
  <2>3. Window(V, p, n) = N \cup {p} \cup O
    BY DEF Window
  <2>4. \A x \in Below(V, p) \ N : \A q \in N : q > x
    BY <1>7, <2>1
  <2>5. \A x \in Above(V, p) \ O : \A q \in O : q < x
    BY <1>8, <2>1
  <2>6. (\A q \in N : q < p) /\ (\A q \in O : q > p)
    BY <2>2 DEF Below, Above
  <2>7. \A x \in V : x \in Nat
    BY <1>1, PostIsNat
  <2>8. ASSUME NEW x \in V, x \notin N \cup {p} \cup O
        PROVE  (\A q \in N \cup {p} \cup O : q > x) \/ (\A q \in N \cup {p} \cup O : q < x)
    <3>1. (x < p /\ x \in Below(V, p)) \/ (x > p /\ x \in Above(V, p))
      BY <2>1, <2>7, <2>8 DEF Below, Above
    <3> HIDE DEF N, O
    <3>2. CASE x < p /\ x \in Below(V, p)
      <4>1. \A q \in O : q > x
        BY <2>1, <2>2, <2>6, <2>7, <3>2
      <4> QED BY <2>1, <2>4, <2>8, <3>2, <4>1
    <3>3. CASE x > p /\ x \in Above(V, p)
      <4>1. \A q \in N : q < x
        BY <2>1, <2>2, <2>6, <2>7, <3>3
      <4> QED BY <2>1, <2>5, <2>8, <3>3, <4>1
    <3> QED BY <3>1, <3>2, <3>3
  <2> HIDE DEF N, O
  <2> QED BY <2>2, <2>3, <2>8 DEF Convex
<1> QED BY <1>1, <1>5, <1>6, <1>7, <1>8, <1>9

\* A page in the middle of the channel or at an end of it lacks no live post of
\* the run that it stands for.
LEMMA PageIsWhole ==
  ASSUME Live \in SUBSET Post, NEW V \in SUBSET Post, NEW M \in {V, Live},
         NEW S \in SUBSET V, Convex(V, S),
         NEW f \in Blocks, f.order = Desc(S),
         f.recent => Page(V, M, S).recent, f.oldest => Page(V, M, S).oldest,
         NEW p \in Live \cap V, Covers(f, p)
  PROVE  p \in S
<1>1. ToSet(f.order) = S
  <2>1. S \in SUBSET Post
    OBVIOUS
  <2> QED BY <2>1, DescIsDescending
<1> SUFFICES ASSUME p \notin S PROVE FALSE
  OBVIOUS
<1>2. p \in M \ S /\ p \in Nat /\ \A x \in S : x \in Nat
  BY PostIsNat
<1>3. (\A q \in S : q > p) \/ (\A q \in S : q < p)
  BY DEF Convex
<1>4. Page(V, M, S).recent => \E q \in S : q > p
  BY <1>2 DEF Page
<1>5. Page(V, M, S).oldest => \E q \in S : q < p
  BY <1>2 DEF Page
<1>6. (\E q \in S : p < q) /\ (\E q \in S : p > q)
  BY <1>1, <1>2, <1>4, <1>5 DEF Covers
<1>7. p \in Nat /\ \A x \in S : x \in Nat
  BY <1>2
<1>8. CASE \A q \in S : q > p
  <2>1. PICK q \in S : p > q
    BY <1>6
  <2>2. q > p /\ q \in Nat /\ p \in Nat
    BY <1>7, <1>8
  <2> QED BY <2>1, <2>2
<1>9. CASE \A q \in S : q < p
  BY <1>6, <1>7, <1>9
<1> QED BY <1>3, <1>8, <1>9

LEMMA UpdatedAreSeen ==
  ASSUME NEW V, NEW n, NEW a \in UpdatedSince(V, n)
  PROVE  \E S \in SUBSET (V \cup deleted) :
           a = [NoReply EXCEPT !.order = Desc(S), !.posts = Threads(V, S)]
<1> DEFINE updated == {p \in V \cup deleted :
                         p > n \/ \E q \in V \cup deleted : q > n /\ RootOf[q] = p}
           rooted(U) == {C \cup {p \in U : \E q \in C : RootOf[q] = p} :
                           C \in {C \in SUBSET U :
                                    Cardinality(C) = Min({Cardinality(U), SinceLimit})}}
<1>1. \A U \in SUBSET (V \cup deleted) : \A S \in rooted(U) : S \in SUBSET (V \cup deleted)
  OBVIOUS
<1>2. updated \in SUBSET (V \cup deleted) /\ updated \cup deleted \in SUBSET (V \cup deleted)
  OBVIOUS
<1>3. PICK S \in rooted(updated) \cup rooted(updated \cup deleted) :
        a = [NoReply EXCEPT !.order = Desc(S), !.posts = Threads(V, S)]
  BY DEF UpdatedSince
<1> HIDE DEF updated, rooted
<1> QED BY <1>1, <1>2, <1>3

LEMMA UpdatedInOrder ==
  ASSUME NEW V, NEW n, NEW a \in UpdatedSince(V, n)
  PROVE  \E S \in SUBSET (V \cup deleted) : a.order = Desc(S) /\ a.posts = Threads(V, S)
<1>1. PICK S \in SUBSET (V \cup deleted) :
        a = [NoReply EXCEPT !.order = Desc(S), !.posts = Threads(V, S)]
  BY UpdatedAreSeen
<1> QED BY <1>1 DEF NoReply

\* What Answers(r, V) holds: the types, and what RepliesWhole says of the reply.
LEMMA AnswersAreWhole ==
  ASSUME TypeOK, NEW r \in requests, NEW V \in Views, NEW a \in Answers(r, V),
         r.kind \in {"before", "after"} => r.arg \in Post
  PROVE  LET s == [r EXCEPT !.answered = TRUE, !.reply = a]
         IN  /\ a \in Replies /\ a.posts \subseteq 1 .. posted
             /\ r.kind = "since" => /\ ToSet(a.order) \subseteq 1 .. posted
                                   /\ Live \cap ToSet(a.order) \subseteq a.posts
             /\ \A f \in Fresh(s) :
                  /\ IsInjective(f.order)
                  /\ \A p \in Live : Covers(f, p) =>
                       p \in ToSet(f.order) \/ p \in Omitted(r, V, a)
<1> DEFINE s == [r EXCEPT !.answered = TRUE, !.reply = a]
<1>1. /\ r.kind \in Kinds /\ r.arg \in 0 .. MaxPosts
      /\ s.kind = r.kind /\ s.arg = r.arg /\ s.reply = a
  BY DEF TypeOK
<1>2. posted \in 0 .. MaxPosts /\ deleted \subseteq 1 .. posted
  BY DEF TypeOK
<1>3. Live \in SUBSET Post /\ Live \subseteq 1 .. posted /\ V \in SUBSET Post
      /\ V \subseteq 1 .. posted
  BY ViewsAreOfPosts
<1>4. \A S : Threads(V, S) \subseteq V \cup Live
  BY DEF Threads
<1>5. ASSUME NEW S \in SUBSET Post, NEW M
      PROVE  Page(V, M, S) \in Replies /\ Page(V, M, S).posts \subseteq 1 .. posted
             /\ Page(V, M, S).order = Desc(S) /\ Page(V, M, S).recent \in BOOLEAN
             /\ Page(V, M, S).oldest \in BOOLEAN
  <2>1. Desc(S) \in Seq(Post) /\ Threads(V, S) \subseteq 1 .. posted
        /\ Threads(V, S) \in SUBSET Post
    BY <1>3, <1>4, DescSorts
  <2> QED BY <2>1 DEF Page, Replies
\* A post that the server saw and the block made of the page spans is in the page.
<1> DEFINE Whole(f) == \A p \in Live \cap V : Covers(f, p) => p \in ToSet(f.order)
<1> SUFFICES /\ a \in Replies /\ a.posts \subseteq 1 .. posted
             /\ r.kind = "since" => /\ ToSet(a.order) \subseteq 1 .. posted
                                   /\ Live \cap ToSet(a.order) \subseteq a.posts
                                   /\ Fresh(s) = {}
             /\ r.kind # "since" => ToSet(a.order) \subseteq V
             /\ \A f \in Fresh(s) : IsInjective(f.order) /\ Whole(f)
  <2>1. ASSUME NEW f \in Fresh(s), NEW p \in Live, Covers(f, p), p \notin ToSet(f.order),
               r.kind = "since" => Fresh(s) = {}, Whole(f),
               r.kind # "since" => ToSet(a.order) \subseteq V
        PROVE  p \in Omitted(r, V, a)
    BY <2>1 DEF Omitted
  <2>2. ASSUME NEW f \in Fresh(s)
        PROVE  /\ IsInjective(f.order)
               /\ \A p \in Live : Covers(f, p) => p \in ToSet(f.order) \/ p \in Omitted(r, V, a)
    <3> HIDE DEF s, Whole
    <3> QED BY <2>1, <2>2
  <2> QED BY Zenon, <2>2
<1>6. PageSize \in Nat /\ PageSize - 1 \in Nat
  BY PostsAssumption
<1>7. CASE r.kind = "since"
  <2>1. PICK S \in SUBSET (V \cup deleted) :
          a = [NoReply EXCEPT !.order = Desc(S), !.posts = Threads(V, S)]
    <3>1. a \in UpdatedSince(V, r.arg)
      BY <1>7 DEF Answers
    <3> QED BY <3>1, UpdatedAreSeen
  <2>2. S \in SUBSET Post
    <3>1. 1 .. posted \subseteq Post
      BY ViewsAreOfPosts
    <3> QED BY <1>2, <1>3, <3>1
  <2>3. Desc(S) \in Seq(Post) /\ ToSet(Desc(S)) = S
    BY <2>2, DescSorts
  <2>4. a = [order |-> Desc(S), posts |-> Threads(V, S), recent |-> FALSE, oldest |-> FALSE]
    BY <2>1 DEF NoReply
  <2>5. Threads(V, S) \subseteq 1 .. posted /\ Threads(V, S) \subseteq Post
    BY <1>3, <1>4
  <2>6. a \in Replies
    BY <2>3, <2>4, <2>5 DEF Replies
  <2>7. Live \cap S \subseteq Threads(V, S) /\ S \subseteq 1 .. posted
    BY <1>2, <1>3 DEF Threads, Live
  <2>8. Fresh(s) = {}
    BY <1>1, <1>7 DEF Fresh
  <2>9. a.order = Desc(S) /\ a.posts = Threads(V, S)
    BY <2>4
  <2> QED BY <1>7, <2>3, <2>5, <2>6, <2>7, <2>8, <2>9
<1>8. ASSUME NEW S \in SUBSET V, Convex(V, S), NEW M \in {V, Live}, a = Page(V, M, S),
             r.kind \notin {"since", "before", "after"},
             r.kind \in {"latest", "page0"} => \A p \in V \ S : \A q \in S : q > p
      PROVE  /\ a \in Replies /\ a.posts \subseteq 1 .. posted /\ ToSet(a.order) \subseteq V
             /\ \A f \in Fresh(s) : IsInjective(f.order) /\ Whole(f)
  <2>1. S \in SUBSET Post
    BY <1>3
  <2>2. /\ a \in Replies /\ a.posts \subseteq 1 .. posted /\ a.order = Desc(S)
        /\ a.recent \in BOOLEAN /\ a.oldest \in BOOLEAN
    BY <1>5, <1>8, <2>1
  <2>3. Desc(S) \in Seq(Post) /\ ToSet(Desc(S)) = S /\ IsInjective(Desc(S))
    BY <2>1, DescOfLive
  <2>4. CASE r.kind \in {"latest", "page0"}
    <3> DEFINE f == Block(a.order, TRUE, a.oldest)
    <3>1. Fresh(s) = {f}
      BY <1>1, <2>4 DEF Fresh
    <3>2. f.order = Desc(S) /\ f.oldest = a.oldest
      BY <2>2 DEF Block
    <3> HIDE DEF f
    <3>3. ASSUME NEW p \in Live \cap V, Covers(f, p), p \notin S
          PROVE  FALSE
      <4>1. \A q \in S : q > p
        BY <1>8, <2>4, <3>3
      <4>2. a.oldest => \E q \in S : q < p
        BY <1>8, <3>3 DEF Page
      <4>3. \E q \in S : p > q
        BY <2>3, <3>2, <3>3, <4>2 DEF Covers
      <4>4. \A q \in V : q \in Nat
        BY <1>3, PostIsNat
      <4> QED BY <4>1, <4>3, <4>4
    <3> QED BY <2>2, <2>3, <3>1, <3>2, <3>3
  <2>5. CASE r.kind \notin {"latest", "page0"}
    <3> DEFINE f == Block(a.order, a.recent, a.oldest)
    <3>1. Fresh(s) = {f}
      BY <1>1, <1>8, <2>5 DEF Fresh
    <3>2. f \in Blocks /\ f.order = Desc(S) /\ f.recent = a.recent /\ f.oldest = a.oldest
      BY <2>2, <2>3 DEF Block, Blocks
    <3> HIDE DEF f
    <3>3. \A p \in Live \cap V : Covers(f, p) => p \in S
      BY <1>3, <1>8, <3>2, PageIsWhole
    <3> QED BY <2>2, <2>3, <3>1, <3>2, <3>3
  <2> QED BY <2>4, <2>5
<1>9. CASE r.kind \in {"latest", "page0"}
  <2>1. PICK M \in {V, Live} : a = Page(V, M, Newest(V))
    BY <1>9 DEF Answers, Pages
  <2>2. Newest(V) \in SUBSET V /\ Convex(V, Newest(V))
        /\ \A p \in V \ Newest(V) : \A q \in Newest(V) : q > p
    BY <1>3, PagesAreConvex
  <2>3. r.kind \notin {"since", "before", "after"}
    BY <1>9
  <2>4. /\ a \in Replies /\ a.posts \subseteq 1 .. posted /\ ToSet(a.order) \subseteq V
        /\ \A f \in Fresh(s) : IsInjective(f.order) /\ Whole(f)
    <3> HIDE DEF s, Whole
    <3> QED BY <1>8, <2>1, <2>2, <2>3
  <2> QED BY <2>3, <2>4
<1>10. CASE r.kind \in {"unread", "prefetch", "around"}
  <2>1. \/ a \in Pages(V, Newest(V))
        \/ \E p \in V : a \in Pages(V, Window(V, p, PageSize - 1))
                        \/ a \in Pages(V, Window(V, p, PageSize))
    BY <1>10 DEF Answers
  <2>2. \E S \in SUBSET V : Convex(V, S) /\ a \in Pages(V, S)
    BY <1>3, <1>6, <2>1, PagesAreConvex
  <2>3. r.kind \notin {"since", "before", "after", "latest", "page0"}
    BY <1>10
  <2>4. /\ a \in Replies /\ a.posts \subseteq 1 .. posted /\ ToSet(a.order) \subseteq V
        /\ \A f \in Fresh(s) : IsInjective(f.order) /\ Whole(f)
    <3> HIDE DEF s, Whole
    <3>1. PICK S \in SUBSET V : Convex(V, S) /\ a \in Pages(V, S)
      BY <2>2
    <3>2. PICK M \in {V, Live} : a = Page(V, M, S)
      BY <3>1 DEF Pages
    <3> QED BY <1>8, <2>3, <3>1, <3>2
  <2> QED BY <2>3, <2>4
<1>11. CASE r.kind = "before"
  <2> DEFINE S == Newest(Below(V, r.arg))
             f == Block(<<r.arg>> \o a.order, FALSE, a.oldest)
  <2>1. r.arg \in Post /\ \E M \in {V, Live} : a = Page(V, M, S)
    BY <1>11 DEF Answers, Pages
  <2> PICK M \in {V, Live} : a = Page(V, M, S)
    BY <2>1
  <2>2. S \in SUBSET Below(V, r.arg) /\ \A x \in Below(V, r.arg) \ S : \A q \in S : q > x
    BY <1>3, <2>1, PagesAreConvex
  <2>3. S \in SUBSET Post /\ S \subseteq V /\ r.arg \notin S /\ \A q \in S : q < r.arg
    <3>1. r.arg \in Nat /\ S \subseteq V
      BY <2>1, <2>2, PostIsNat DEF Below
    <3>2. \A q \in S : q < r.arg
      BY <2>2 DEF Below
    <3> HIDE DEF S
    <3>3. r.arg \notin S
      BY <3>1, <3>2
    <3> QED BY <1>3, <3>1, <3>2, <3>3
  <2> HIDE DEF S
  <2>4. a \in Replies /\ a.posts \subseteq 1 .. posted /\ a.order = Desc(S)
    BY <1>5, <2>1, <2>3
  <2>5. Desc(S) \in Seq(Post) /\ ToSet(Desc(S)) = S /\ IsInjective(Desc(S))
    BY <2>3, DescOfLive
  <2>6. Fresh(s) = {f}
    BY <1>1, <1>11 DEF Fresh
  <2>7. f.order = <<r.arg>> \o Desc(S) /\ f.recent = FALSE /\ f.oldest = a.oldest
    BY <2>4 DEF Block
  <2>8. ToSet(f.order) = S \cup {r.arg} /\ IsInjective(f.order)
    <3> DEFINE d == Desc(S)
    <3>1. d \in Seq(Post) /\ ToSet(d) = S /\ IsInjective(d)
      BY <2>5
    <3> HIDE DEF d
    <3>2. f.order = <<r.arg>> \o d
      BY <2>7 DEF d
    <3> HIDE DEF f
    <3>3. ToSet(f.order) = S \cup {r.arg}
      BY <2>1, <3>1, <3>2, ToSetOfSequence
    <3>4. IsInjective(f.order)
      BY <2>1, <2>3, <3>1, <3>2, PutInFront
    <3> QED BY <3>3, <3>4
  <2> HIDE DEF f
  <2>9. ASSUME NEW p \in Live \cap V, Covers(f, p), p \notin S \cup {r.arg}
        PROVE  FALSE
    <3>1. p \in Nat /\ \A x \in V : x \in Nat
      BY <1>3, PostIsNat
    <3>2. r.arg \in Nat
      BY <2>1, PostIsNat
    <3>3. \E q \in S \cup {r.arg} : p < q
      BY <2>7, <2>8, <2>9 DEF Covers
    <3>4. p < r.arg
      BY <2>3, <3>1, <3>2, <3>3
    <3>5. p \in Below(V, r.arg) \ S
      BY <2>9, <3>4 DEF Below
    <3>6. \A q \in S : q > p
      BY <2>2, <3>5
    <3>7. a.oldest => \E q \in S : q < p
      BY <2>1, <2>9 DEF Page
    <3>8. \E q \in S \cup {r.arg} : p > q
      BY <2>7, <2>8, <2>9, <3>7 DEF Covers
    <3> QED BY <2>3, <3>1, <3>2, <3>4, <3>6, <3>8
  <2> QED BY <1>11, <2>3, <2>4, <2>5, <2>6, <2>8, <2>9
<1>12. CASE r.kind = "after"
  <2> DEFINE S == Oldest(Above(V, r.arg), PageSize)
             f == Block(Append(a.order, r.arg), a.recent, FALSE)
  <2>1. r.arg \in Post /\ \E M \in {V, Live} : a = Page(V, M, S)
    BY <1>12 DEF Answers, Pages
  <2> PICK M \in {V, Live} : a = Page(V, M, S)
    BY <2>1
  <2>2. S \in SUBSET Above(V, r.arg) /\ \A x \in Above(V, r.arg) \ S : \A q \in S : q < x
    BY <1>3, <1>6, <2>1, PagesAreConvex
  <2>3. S \in SUBSET Post /\ S \subseteq V /\ r.arg \notin S /\ \A q \in S : q > r.arg
    <3>1. r.arg \in Nat /\ S \subseteq V
      BY <2>1, <2>2, PostIsNat DEF Above
    <3>2. \A q \in S : q > r.arg
      BY <2>2 DEF Above
    <3> HIDE DEF S
    <3>3. r.arg \notin S
      BY <3>1, <3>2
    <3> QED BY <1>3, <3>1, <3>2, <3>3
  <2> HIDE DEF S
  <2>4. a \in Replies /\ a.posts \subseteq 1 .. posted /\ a.order = Desc(S)
    BY <1>5, <2>1, <2>3
  <2>5. Desc(S) \in Seq(Post) /\ ToSet(Desc(S)) = S /\ IsInjective(Desc(S))
    BY <2>3, DescOfLive
  <2>6. Fresh(s) = {f}
    BY <1>1, <1>12 DEF Fresh
  <2>7. f.order = Append(Desc(S), r.arg) /\ f.recent = a.recent /\ f.oldest = FALSE
    BY <2>4 DEF Block
  <2>8. ToSet(f.order) = S \cup {r.arg} /\ IsInjective(f.order)
    <3> DEFINE d == Desc(S)
    <3>1. d \in Seq(Post) /\ ToSet(d) = S /\ IsInjective(d)
      BY <2>5
    <3> HIDE DEF d
    <3>2. f.order = Append(d, r.arg)
      BY <2>7 DEF d
    <3> HIDE DEF f
    <3>3. ToSet(f.order) = S \cup {r.arg}
      BY <2>1, <3>1, <3>2, ToSetOfSequence
    <3>4. IsInjective(f.order)
      BY <2>1, <2>3, <3>1, <3>2, PutAtTheEnd
    <3> QED BY <3>3, <3>4
  <2> HIDE DEF f
  <2>9. ASSUME NEW p \in Live \cap V, Covers(f, p), p \notin S \cup {r.arg}
        PROVE  FALSE
    <3>1. p \in Nat /\ \A x \in V : x \in Nat
      BY <1>3, PostIsNat
    <3>2. r.arg \in Nat
      BY <2>1, PostIsNat
    <3>3. \E q \in S \cup {r.arg} : p > q
      BY <2>7, <2>8, <2>9 DEF Covers
    <3>4. p > r.arg
      BY <2>3, <3>1, <3>2, <3>3
    <3>5. p \in Above(V, r.arg) \ S
      BY <2>9, <3>4 DEF Above
    <3>6. \A q \in S : q < p
      BY <2>2, <3>5
    <3>7. a.recent => \E q \in S : q > p
      BY <2>1, <2>9 DEF Page
    <3>8. \E q \in S \cup {r.arg} : p < q
      BY <2>7, <2>8, <2>9, <3>7 DEF Covers
    <3> QED BY <2>3, <3>1, <3>2, <3>4, <3>6, <3>8
  <2> QED BY <1>12, <2>3, <2>4, <2>5, <2>6, <2>8, <2>9
<1> QED BY <1>1, <1>7, <1>9, <1>10, <1>11, <1>12 DEF Kinds

----------------------------------------------------------------------------
(* What the client asks for. *)

Requests ==
  [kind : Kinds, arg : 0 .. MaxPosts, at : Times, answered : BOOLEAN, reply : Replies]

\* R are requests that nobody has answered.
Asked(R) ==
  /\ R \subseteq Requests
  /\ \A r \in R : ~r.answered /\ (r.kind \in {"before", "after"} => r.arg \in Post)

LEMMA AskedRequest ==
  ASSUME TypeOK, NEW kind \in Kinds, NEW arg \in 0 .. MaxPosts,
         kind \in {"before", "after"} => arg \in Post
  PROVE  Asked({Request(kind, arg)})
<1>1. posted \in 0 .. MaxPosts /\ drops \in 0 .. MaxActions /\ 0 \in 0 .. MaxPosts /\ 0 \in 0 .. MaxActions
  BY PostsAssumption DEF TypeOK
<1>2. [n |-> posted, d |-> drops] \in Times /\ [n |-> 0, d |-> 0] \in Times
  BY <1>1 DEF Times
<1>3. NoReply \in Replies
  <2>1. <<>> \in Seq(Post)
    OBVIOUS
  <2> QED BY <2>1 DEF NoReply, Replies
<1>4. /\ Request(kind, arg) \in Requests /\ Request(kind, arg).answered = FALSE
      /\ Request(kind, arg).kind = kind /\ Request(kind, arg).arg = arg
  BY <1>2, <1>3 DEF Request, Requests, Now
<1> QED BY <1>4 DEF Asked

LEMMA AskedSync ==
  ASSUME TypeOK, NEW since \in 0 .. MaxPosts
  PROVE  Asked({SyncRequest(since)})
<1> DEFINE late == {t \in lastApi : t.d < drops}
           N == {t.n : t \in late}
           arg == IF late = {} THEN since ELSE Max(N)
<1>1. MaxPosts \in Nat
  BY PostsAssumption
<1>2. \A t \in late : t.n \in 0 .. MaxPosts
  BY DEF TypeOK, Times
<1> HIDE DEF late
<1>3. N \in SUBSET Nat /\ \A n \in N : n <= MaxPosts
  BY <1>1, <1>2
<1>4. late # {} => N # {}
  OBVIOUS
<1>5. late # {} => Max(N) \in N
  BY <1>1, <1>3, <1>4, MaxIsGreatest
<1>6. arg \in 0 .. MaxPosts
  BY <1>2, <1>5
<1>7. SyncRequest(since) = Request("since", arg)
  BY DEF SyncRequest, late
<1> HIDE DEF arg
<1>8. "since" \in Kinds /\ "since" \notin {"before", "after"}
  BY DEF Kinds
<1> QED BY <1>6, <1>7, <1>8, AskedRequest

LEMMA PostIsArg == \A p \in Post : p \in 0 .. MaxPosts
  BY PostsAssumption DEF Post

LEMMA MostRecentArePosts ==
  ASSUME TypeOK
  PROVE  MostRecent \subseteq Post
<1>1. blocks \in Seq(Blocks)
  BY DEF TypeOK
<1> DEFINE i == RecentIndex(blocks)
<1>2. CASE i = 0
  BY <1>2 DEF MostRecent
<1>3. CASE i # 0
  <2>1. blocks[i] \in Blocks
    BY <1>1, <1>3, RecentIndexFinds
  <2>2. blocks[i].order \in Seq(Post)
    BY <2>1 DEF Blocks
  <2>3. ToSet(blocks[i].order) \subseteq Post
    BY <2>2, ToSetOfSequence
  <2> QED BY <1>3, <2>3 DEF MostRecent
<1> QED BY <1>2, <1>3

LEMMA AskedSyncs ==
  ASSUME TypeOK
  PROVE  Asked({SyncRequest(p) : p \in MostRecent})
<1>1. \A p \in MostRecent : Asked({SyncRequest(p)})
  BY MostRecentArePosts, PostIsArg, AskedSync
<1> QED BY <1>1 DEF Asked

LEMMA AskedOnReconnect ==
  ASSUME TypeOK
  PROVE  Asked(OnReconnect)
<1>1. "page0" \in Kinds /\ "page0" \notin {"before", "after"} /\ 0 \in 0 .. MaxPosts
  BY PostsAssumption DEF Kinds
<1>2. Asked({Request("page0", 0)})
  BY <1>1, AskedRequest
<1>3. Asked({})
  BY DEF Asked
<1> QED BY <1>2, <1>3, AskedSyncs DEF OnReconnect

LEMMA UnreadChunkFinds ==
  ASSUME TypeOK, NEW ts
  PROVE  UnreadChunk(ts) = 0 \/ UnreadChunk(ts) \in DOMAIN blocks
<1> DEFINE k == UnreadChunk(ts)
           i == RecentIndex(blocks)
           O == {n \in DOMAIN blocks : blocks[n].oldest}
           j == IF O = {} THEN 0 ELSE Min(O)
           Around == {n \in DOMAIN blocks :
                        /\ blocks[n].order # <<>>
                        /\ Head(blocks[n].order) >= ts /\ Last(blocks[n].order) <= ts}
<1>1. blocks \in Seq(Blocks)
  BY DEF TypeOK
<1>2. i = 0 \/ i \in DOMAIN blocks
  BY <1>1, RecentIndexFinds
<1>3. O \in SUBSET Nat /\ Around \in SUBSET Nat
  BY <1>1
<1>4. (O # {} => Min(O) \in O) /\ (Around # {} => Min(Around) \in Around)
  BY <1>3, MinIsLeast
<1>5. O \subseteq DOMAIN blocks /\ Around \subseteq DOMAIN blocks
  OBVIOUS
<1>6. k = i \/ k = j \/ (Around # {} /\ k = Min(Around))
  BY DEF UnreadChunk
<1> HIDE DEF i, O, Around, k
<1>7. k = 0 \/ k \in DOMAIN blocks
  BY <1>2, <1>4, <1>5, <1>6
<1> QED BY <1>7 DEF k

LEMMA AskedOnLoad ==
  ASSUME TypeOK, NEW ts
  PROVE  Asked(OnLoad(ts))
<1>1. /\ {"unread", "latest"} \subseteq Kinds /\ 0 \in 0 .. MaxPosts
      /\ "unread" \notin {"before", "after"} /\ "latest" \notin {"before", "after"}
  BY PostsAssumption DEF Kinds
<1>2. Asked({Request("unread", 0)}) /\ Asked({Request("latest", 0)})
  BY <1>1, AskedRequest
<1>3. Asked({})
  BY DEF Asked
<1> DEFINE k == UnreadChunk(ts)
<1>4. k = 0 \/ k \in DOMAIN blocks
  BY UnreadChunkFinds
<1>5. ASSUME k # 0, blocks[k].order # <<>>
      PROVE  Asked({SyncRequest(Head(blocks[k].order))})
  <2>1. blocks[k] \in Blocks
    <3>1. blocks \in Seq(Blocks)
      BY DEF TypeOK
    <3> QED BY <1>4, <1>5, <3>1
  <2>2. blocks[k].order \in Seq(Post)
    BY <2>1 DEF Blocks
  <2>3. Head(blocks[k].order) \in 0 .. MaxPosts
    BY <1>5, <2>2, EndsOfSequence, PostIsArg
  <2> QED BY <2>3, AskedSync
<1> QED BY <1>2, <1>3, <1>5 DEF OnLoad

----------------------------------------------------------------------------
(* The steps. *)

\* What the invariant but for the types of the requests is about
Still == UNCHANGED <<posted, deleted, events, blocks, awaiting, lost, dropped, known, loaded>>

\* The steps of the user and of the connection, which send requests or lose them
Asks ==
  \/ Close \/ Open \/ HelloResumed \/ Visit \/ (\E p \in Post : VisitPermalink(p))
  \/ Leave \/ Prefetch \/ LoadMore("before") \/ LoadMore("after")
  \/ (\E r \in requests : Fail(r))

LEMMA AskingSteps ==
  ASSUME TypeOK, RepliesWhole, Asks
  PROVE  Still /\ \E R : Asked(R) /\ requests' \subseteq requests \cup R
<1>0. Asked({})
  BY DEF Asked
<1>1. CASE Close
  BY <1>0, <1>1 DEF Close, Still, client, server
<1>2. CASE Open
  BY <1>2, AskedOnReconnect DEF Open, Still, client, server
<1>3. CASE HelloResumed
  BY <1>0, <1>3 DEF HelloResumed, Still, client, server
<1>4. CASE Visit
  BY <1>4, AskedOnLoad DEF Visit, Still, client, server, link
<1>5. ASSUME NEW p \in Post, VisitPermalink(p)
      PROVE  Still /\ \E R : Asked(R) /\ requests' \subseteq requests \cup R
  <2>1. "around" \in Kinds /\ "around" \notin {"before", "after"}
    BY DEF Kinds
  <2>2. Asked({Request("around", p)})
    BY <2>1, PostIsArg, AskedRequest
  <2> QED BY <1>5, <2>2 DEF VisitPermalink, Still, client, server, link
<1>6. CASE Leave
  BY <1>0, <1>6 DEF Leave, Still, client, server, link
<1>7. CASE Prefetch
  <2>1. "prefetch" \in Kinds /\ "prefetch" \notin {"before", "after"} /\ 0 \in 0 .. MaxPosts
    BY PostsAssumption DEF Kinds
  <2>2. Asked({Request("prefetch", 0)})
    BY <2>1, AskedRequest
  <2> QED BY <1>7, <2>2, AskedSyncs DEF Prefetch, Still, client, server, link
<1>8. ASSUME NEW kind \in {"before", "after"}, LoadMore(kind)
      PROVE  Still /\ \E R : Asked(R) /\ requests' \subseteq requests \cup R
  <2>1. PICK b \in {x \in ToSet(blocks) : x.order # <<>>} :
          requests' = requests \cup
             {Request(kind, IF kind = "before" THEN Last(b.order) ELSE Head(b.order))}
    BY <1>8 DEF LoadMore
  <2>2. b \in Blocks /\ b.order # <<>>
    <3>1. blocks \in Seq(Blocks)
      BY DEF TypeOK
    <3> QED BY <3>1, ToSetOfSequence
  <2>3. b.order \in Seq(Post)
    BY <2>2 DEF Blocks
  <2> DEFINE arg == IF kind = "before" THEN Last(b.order) ELSE Head(b.order)
  <2>4. arg \in Post
    BY <2>2, <2>3, EndsOfSequence
  <2> HIDE DEF arg
  <2>5. kind \in Kinds
    BY DEF Kinds
  <2>6. Asked({Request(kind, arg)})
    BY <2>4, <2>5, PostIsArg, AskedRequest
  <2> QED BY <1>8, <2>1, <2>6 DEF LoadMore, Still, client, server, link, arg
<1>9. ASSUME NEW r \in requests, Fail(r)
      PROVE  Still /\ \E R : Asked(R) /\ requests' \subseteq requests \cup R
  <2>1. r.kind \in Kinds /\ r.arg \in 0 .. MaxPosts
    BY DEF TypeOK
  <2>2. r.kind \in {"before", "after"} => r.arg \in Post
    BY DEF RepliesWhole
  <2>3. Asked({Request(r.kind, r.arg)})
    BY <2>1, <2>2, AskedRequest
  <2>4. Still
    BY <1>9 DEF Fail, Still, client, server, link
  <2>5. requests' \subseteq requests \cup {Request(r.kind, r.arg)}
    BY <1>9 DEF Fail
  <2> QED BY <2>3, <2>4, <2>5
<1> QED BY <1>1, <1>2, <1>3, <1>4, <1>5, <1>6, <1>7, <1>8, <1>9 DEF Asks

\* The reducer for an answer, when it does not fail
LEMMA ReduceTakes ==
  ASSUME TypeOK, RepliesWhole, NEW r \in requests, NEW kn, Reduce(r, kn).ok
  PROVE  /\ Reduce(r, kn).blocks \in Seq(Blocks)
         /\ Takes(ToSet(Reduce(r, kn).blocks), ToSet(blocks), Fresh(r))
<1>1. blocks \in Seq(Blocks) /\ r.reply \in Replies /\ r.kind \in Kinds
  BY DEF TypeOK
<1>2. r.kind \in {"before", "after"} => r.arg \in Post
  BY DEF RepliesWhole
<1>3. CASE r.kind = "since"
  <2>1. Reduce(r, kn) = receivedPostsSince(blocks, r.reply, kn) /\ Fresh(r) = {}
    BY <1>3 DEF Reduce, Fresh
  <2> QED BY <1>1, <2>1, ReceivedSince
<1>4. CASE r.kind = "before"
  <2> DEFINE next == receivedPostsBefore(blocks, r.reply, r.arg, kn)
             f == Block(<<r.arg>> \o r.reply.order, FALSE, r.reply.oldest)
  <2>1. Reduce(r, kn) = next /\ Fresh(r) = {f} /\ r.arg \in Post
    BY <1>2, <1>4 DEF Reduce, Fresh
  <2>2. next.ok
    BY <2>1
  <2>3. next.blocks \in Seq(Blocks) /\ Takes(ToSet(next.blocks), ToSet(blocks), {f})
    BY Zenon, <1>1, <2>1, <2>2, ReceivedBefore
  <2> HIDE DEF next, f
  <2> QED BY <2>1, <2>3
<1>5. CASE r.kind = "after"
  <2> DEFINE next == receivedPostsAfter(blocks, r.reply, r.arg, kn)
             f == Block(Append(r.reply.order, r.arg), r.reply.recent, FALSE)
  <2>1. Reduce(r, kn) = next /\ Fresh(r) = {f} /\ r.arg \in Post
    BY <1>2, <1>5 DEF Reduce, Fresh
  <2>2. next.ok
    BY <2>1
  <2>3. next.blocks \in Seq(Blocks) /\ Takes(ToSet(next.blocks), ToSet(blocks), {f})
    BY Zenon, <1>1, <2>1, <2>2, ReceivedAfter
  <2> HIDE DEF next, f
  <2> QED BY <2>1, <2>3
<1>6. CASE r.kind \in {"latest", "page0"}
  <2>1. /\ Reduce(r, kn) = receivedPostsInChannel(blocks, r.reply, TRUE, kn)
        /\ Fresh(r) = {Block(r.reply.order, TRUE, r.reply.oldest)}
    BY <1>6 DEF Reduce, Fresh
  <2> QED BY <1>1, <2>1, ReceivedInChannel
<1>7. CASE r.kind \notin {"since", "before", "after", "latest", "page0"}
  <2>1. /\ Reduce(r, kn) = receivedPostsInChannel(blocks, r.reply, r.reply.recent, kn)
        /\ Fresh(r) = {Block(r.reply.order, r.reply.recent, r.reply.oldest)}
    BY <1>7 DEF Reduce, Fresh
  <2>2. r.reply.recent \in BOOLEAN
    BY <1>1 DEF Replies
  <2> QED BY <1>1, <2>1, <2>2, ReceivedInChannel
<1> QED BY <1>3, <1>4, <1>5, <1>6, <1>7

LEMMA ReceiveTakes ==
  ASSUME TypeOK, RepliesWhole, NEW r \in requests, Receive(r)
  PROVE  /\ blocks' \in Seq(Blocks) /\ Takes(ToSet(blocks'), ToSet(blocks), Fresh(r))
         /\ loaded' \in BOOLEAN /\ (~loaded' => blocks' = <<>>)
         /\ UNCHANGED <<posted, deleted, events, awaiting, lost, dropped>>
         /\ r.answered /\ requests' = requests \ {r}
<1> DEFINE kn == known \union r.reply.posts
           next == Reduce(r, kn)
<1>1. /\ r.answered /\ requests' = requests \ {r}
      /\ UNCHANGED <<posted, deleted, events, awaiting, lost, dropped>>
  BY DEF Receive, server, link
<1>2. blocks \in Seq(Blocks) /\ loaded \in BOOLEAN /\ (~loaded => blocks = <<>>)
  BY DEF TypeOK
<1>3. CASE next.ok
  <2>1. blocks' = next.blocks /\ loaded' = (loaded \/ next.blocks # <<>>)
    BY <1>3 DEF Receive
  <2>2. next.blocks \in Seq(Blocks) /\ Takes(ToSet(next.blocks), ToSet(blocks), Fresh(r))
    BY <1>3, ReduceTakes
  <2> QED BY <1>1, <2>1, <2>2
<1>4. CASE ~next.ok
  <2>1. blocks' = blocks /\ loaded' = loaded
    BY <1>4 DEF Receive
  <2> QED BY <1>1, <1>2, <2>1, TakesNothing
<1> QED BY <1>3, <1>4

\* An event is the next to come: the later posts of the channel are still to come.
LEMMA NextEvent ==
  ASSUME TypeOK, EventsInOrder, RootsClosed, HandleEvent
  PROVE  LET e == Head(events)
         IN  /\ e \in [del : BOOLEAN, post : Post] /\ e.post \in 1 .. posted
             /\ events' = Tail(events) /\ events' \in Seq([del : BOOLEAN, post : Post])
             /\ e.del => e.post \in deleted /\ Deleted(e.post)
             /\ ~e.del => /\ Posted(e.post) /\ e = [del |-> FALSE, post |-> e.post]
                          /\ \A x \in 1 .. posted : x > e.post =>
                               [del |-> FALSE, post |-> x] \in ToSet(events')
             /\ \A x \in ToSet(events) : x = e \/ x \in ToSet(events')
             /\ UNCHANGED <<posted, deleted, requests, loaded, lost>>
<1> DEFINE E == [del : BOOLEAN, post : Post]
           e == Head(events)
<1>1. events \in Seq(E) /\ events # <<>> /\ events' = Tail(events)
  BY DEF TypeOK, HandleEvent
<1>2. /\ DOMAIN events = 1 .. Len(events) /\ Len(events) \in Nat /\ 1 \in 1 .. Len(events)
      /\ e = events[1] /\ e \in E /\ events' \in Seq(E)
      /\ Len(events') = Len(events) - 1
      /\ \A i \in 1 .. Len(events') : events'[i] = events[i + 1]
  BY <1>1, TailOfSequence
<1>3. ASSUME NEW j \in 1 .. Len(events), j # 1
      PROVE  events[j] \in ToSet(events')
  <2>1. j - 1 \in 1 .. Len(events') /\ (j - 1) + 1 = j
    BY <1>2, <1>3
  <2>2. DOMAIN events' = 1 .. Len(events')
    BY <1>2
  <2> QED BY <1>2, <2>1, <2>2 DEF ToSet
<1>4. \A x \in ToSet(events) : x = e \/ x \in ToSet(events')
  BY <1>2, <1>3 DEF ToSet
<1>5. /\ e.post <= posted
      /\ e.del => e.post \in deleted
      /\ ~e.del => \A p \in 1 .. posted : e.post < p =>
           \E j \in 1 .. Len(events) : 1 < j /\ events[j] = [del |-> FALSE, post |-> p]
  BY <1>2 DEF EventsInOrder
<1>6. e.post \in 1 .. posted
  <2>1. posted \in Nat /\ e.post \in Nat /\ e.post >= 1
    BY <1>2, PostsAssumption DEF TypeOK, Post
  <2> QED BY <1>5, <2>1
<1>7. ASSUME ~e.del, NEW x \in 1 .. posted, x > e.post
      PROVE  [del |-> FALSE, post |-> x] \in ToSet(events')
  <2>1. PICK j \in 1 .. Len(events) : 1 < j /\ events[j] = [del |-> FALSE, post |-> x]
    <3>1. e.post < x
      BY <1>6, <1>7
    <3> QED BY <1>5, <1>7, <3>1
  <2> QED BY <1>3, <2>1
<1>8. e.del => Deleted(e.post)
  BY DEF HandleEvent
<1>9. ~e.del => Posted(e.post)
  BY DEF HandleEvent
<1>10. ~e.del => e = [del |-> FALSE, post |-> e.post]
  BY <1>2
<1>11. UNCHANGED <<posted, deleted, requests, loaded, lost>>
  BY DEF HandleEvent, server
<1> HIDE DEF e
<1>12. \A x \in 1 .. posted : ~e.del /\ x > e.post => [del |-> FALSE, post |-> x] \in ToSet(events')
  BY <1>7
<1> QED BY <1>1, <1>2, <1>4, <1>5, <1>6, <1>8, <1>9, <1>10, <1>11, <1>12 DEF e

\* The blocks when a post is received and the channel is loaded
LEMMA ReceiveNewAdds ==
  ASSUME TypeOK, NEW p \in Post, ReceiveNew(p)
  PROVE  /\ blocks' \in Seq(Blocks) /\ (~loaded => blocks' = <<>>)
         /\ loaded => PostsOf(ToSet(blocks')) = PostsOf(ToSet(blocks)) \cup {p}
         /\ loaded \/ ~Counts => dropped' = dropped
         /\ ~loaded /\ Counts => dropped' = dropped \cup {p}
         /\ PostsOf(ToSet(blocks)) \subseteq PostsOf(ToSet(blocks'))
         /\ \A x \in Post : Covered(ToSet(blocks'), x) => Covered(ToSet(blocks), x) \/ x > p
         /\ (\E b \in ToSet(blocks) : b.recent) => \E b \in ToSet(blocks') : b.recent
         /\ (\A b \in ToSet(blocks) : IsInjective(b.order))
              => \A b \in ToSet(blocks') : IsInjective(b.order)
<1>1. blocks \in Seq(Blocks) /\ loaded \in BOOLEAN /\ (~loaded => blocks = <<>>)
  BY DEF TypeOK
<1>2. /\ blocks' = IF loaded THEN receivedNewPost(blocks, p) ELSE blocks
      /\ dropped' = IF loaded \/ ~Counts THEN dropped ELSE dropped \union {p}
  BY DEF ReceiveNew
<1>3. CASE loaded
  <2>1. blocks' = receivedNewPost(blocks, p)
    BY <1>2, <1>3
  <2> QED BY <1>1, <1>2, <1>3, <2>1, ReceivedNew
<1>4. CASE ~loaded
  BY <1>1, <1>2, <1>4
<1> QED BY <1>3, <1>4

LEMMA AccountedIs ==
  ASSUME NEW p
  PROVE  /\ Accounted(p) <=> \/ p \in PostsOf(ToSet(blocks)) \/ p \in awaiting
                             \/ [del |-> FALSE, post |-> p] \in ToSet(events)
                             \/ p \in lost \/ p \in dropped \/ p \in leftOut
         /\ Accounted(p)' <=> \/ p \in PostsOf(ToSet(blocks')) \/ p \in awaiting'
                              \/ [del |-> FALSE, post |-> p] \in ToSet(events')
                              \/ p \in lost' \/ p \in dropped' \/ p \in leftOut'
<1>1. InSomeBlock(p) <=> p \in PostsOf(ToSet(blocks))
  BY DEF InSomeBlock, Has, PostsOf, ToSet
<1>2. InSomeBlock(p)' <=> p \in PostsOf(ToSet(blocks'))
  BY DEF InSomeBlock, Has, PostsOf, ToSet
<1> QED BY <1>1, <1>2 DEF Accounted, Excused, Coming

LEMMA EventsAppended ==
  ASSUME TypeOK, NEW e \in [del : BOOLEAN, post : Post], events' = Append(events, e)
  PROVE  events' \in Seq([del : BOOLEAN, post : Post]) /\ ToSet(events') = ToSet(events) \cup {e}
<1> DEFINE E == [del : BOOLEAN, post : Post]
<1>1. events \in Seq(E) /\ e \in E
  BY DEF TypeOK
<1> HIDE DEF E
<1>2. Append(events, e) \in Seq(E) /\ ToSet(Append(events, e)) = ToSet(events) \cup {e}
  BY <1>1, ToSetOfSequence
<1> QED BY <1>2 DEF E

LEMMA LiveSteps ==
  ASSUME TypeOK
  PROVE  /\ posted \in Nat /\ 1 .. posted \subseteq Post
         /\ CreatePost => /\ posted + 1 \in Post /\ Live' = Live \cup {posted + 1}
                          /\ events' = Append(events, [del |-> FALSE, post |-> posted + 1])
                          /\ UNCHANGED <<deleted, blocks, awaiting, lost, dropped, known, loaded, requests>>
         /\ \A q \in Post : DeletePost(q) =>
              /\ Live' \subseteq Live
              /\ events' = Append(events, [del |-> TRUE, post |-> q])
              /\ UNCHANGED <<posted, blocks, awaiting, lost, dropped, known, loaded, requests>>
         /\ posted' = posted /\ deleted' = deleted => Live' = Live
<1>1. /\ posted \in Nat /\ MaxPosts \in Nat /\ posted <= MaxPosts /\ deleted \subseteq 1 .. posted
      /\ 1 .. posted \subseteq Post
  BY PostsAssumption DEF TypeOK, Post
<1>2. ASSUME CreatePost
      PROVE  /\ posted + 1 \in Post /\ Live' = Live \cup {posted + 1}
             /\ events' = Append(events, [del |-> FALSE, post |-> posted + 1])
             /\ UNCHANGED <<deleted, blocks, awaiting, lost, dropped, known, loaded, requests>>
  <2>1. /\ posted < MaxPosts /\ posted' = posted + 1 /\ deleted' = deleted
        /\ events' = Append(events, [del |-> FALSE, post |-> posted + 1])
        /\ UNCHANGED <<deleted, blocks, awaiting, lost, dropped, known, loaded, requests>>
    BY <1>2 DEF CreatePost, client
  <2>2. posted + 1 \in Post /\ posted + 1 \notin deleted
    BY <1>1, <2>1 DEF Post
  <2>3. 1 .. posted' = (1 .. posted) \cup {posted + 1}
    BY <1>1, <2>1
  <2>4. Live' = (1 .. posted') \ deleted'
    BY DEF Live
  <2> QED BY <2>1, <2>2, <2>3, <2>4 DEF Live
<1>3. ASSUME NEW q \in Post, DeletePost(q)
      PROVE  /\ Live' \subseteq Live
             /\ events' = Append(events, [del |-> TRUE, post |-> q])
             /\ UNCHANGED <<posted, blocks, awaiting, lost, dropped, known, loaded, requests>>
  BY <1>3 DEF DeletePost, Live, client
<1>4. posted' = posted /\ deleted' = deleted => Live' = Live
  BY DEF Live
<1> QED BY <1>1, <1>2, <1>3, <1>4

LEMMA NextCases ==
  ASSUME Next
  PROVE  \/ CreatePost \/ (\E p \in Post : DeletePost(p)) \/ HelloNew \/ HandleEvent
         \/ (\E p \in awaiting : ThreadLoaded(p) \/ ThreadFails(p))
         \/ (\E r \in requests : Answer(r) \/ Receive(r)) \/ Asks
  BY Zenon DEF Next, Asks

LEMMA AnswerSteps ==
  ASSUME NEW r \in requests, Answer(r)
  PROVE  \E V \in Views : \E a \in Answers(r, V) :
           /\ requests' = (requests \ {r}) \cup {[r EXCEPT !.answered = TRUE, !.reply = a]}
           /\ leftOut' = leftOut \cup Omitted(r, V, a)
BY Zenon DEF Answer

\* Only an answer leaves posts out.
LEMMA LeftOutSteps ==
  ASSUME Next
  PROVE  /\ leftOut \subseteq leftOut'
         /\ leftOut' # leftOut => \E r \in requests : Answer(r)
<1>1. CreatePost \/ (\E p \in Post : DeletePost(p)) \/ HelloNew \/ HandleEvent
        => leftOut' = leftOut
  BY DEF CreatePost, DeletePost, HelloNew, HandleEvent, server
<1>2. (\E p \in awaiting : ThreadLoaded(p) \/ ThreadFails(p)) => leftOut' = leftOut
  BY DEF ThreadLoaded, ThreadFails, server
<1>3. \A r \in requests : Receive(r) => leftOut' = leftOut
  BY DEF Receive, server
<1>4. Asks => leftOut' = leftOut
  BY DEF Asks, Close, Open, HelloResumed, Visit, VisitPermalink, Leave, Prefetch, LoadMore,
         Fail, server
<1>5. ASSUME NEW r \in requests, Answer(r)
      PROVE  leftOut \subseteq leftOut'
  BY <1>5, AnswerSteps
<1> QED BY <1>1, <1>2, <1>3, <1>4, <1>5, NextCases

\* A post event is handled.
LEMMA PostedSteps ==
  ASSUME TypeOK, NEW p \in Post, Posted(p)
  PROVE  \/ /\ awaiting' = awaiting \cup {p}
            /\ UNCHANGED <<known, blocks, dropped, calm>>
         \/ /\ ReceiveNew(p) /\ known' = known \cup {p} /\ awaiting' = awaiting
  BY DEF Posted

LEMMA DeletedSteps ==
  ASSUME TypeOK, EventsInOrder, RootsClosed, NEW p \in Post, p \in deleted, Deleted(p)
  PROVE  /\ blocks' \in Seq(Blocks) /\ (~loaded => blocks' = <<>>)
         /\ PostsOf(ToSet(blocks)) \cap Live \subseteq PostsOf(ToSet(blocks'))
         /\ \A x \in Post : Covered(ToSet(blocks'), x)
              => Covered(ToSet(blocks), x) \/ x \in PostsOf(ToSet(blocks'))
         /\ (\E b \in ToSet(blocks) : b.recent) => \E b \in ToSet(blocks') : b.recent
         /\ (\A b \in ToSet(blocks) : IsInjective(b.order))
              => \A b \in ToSet(blocks') : IsInjective(b.order)
         /\ known' \subseteq known
         /\ UNCHANGED <<awaiting, dropped, calm>>
<1> DEFINE R == {q \in Post : RootOf[q] = p}
           S == R \cap known
<1>1. /\ blocks' = postDeleted(blocks, S) /\ UNCHANGED <<awaiting, dropped, calm>>
      /\ known' \subseteq known
  BY DEF Deleted
<1>2. blocks \in Seq(Blocks) /\ known \subseteq 1 .. posted /\ (~loaded => blocks = <<>>)
  BY DEF TypeOK
<1>3. S \subseteq deleted
  <2> SUFFICES ASSUME NEW q \in S
               PROVE  q \in deleted
    OBVIOUS
  <2>1. q \in 1 .. posted /\ RootOf[q] = p
    BY <1>2
  <2> QED BY <2>1 DEF RootsClosed
<1>4. S \cap Live = {}
  BY <1>3 DEF Live
<1>5. S \in SUBSET Post
  OBVIOUS
<1> HIDE DEF S
<1>6. /\ blocks' \in Seq(Blocks) /\ (blocks = <<>> => blocks' = <<>>)
      /\ PostsOf(ToSet(blocks)) \ S \subseteq PostsOf(ToSet(blocks'))
      /\ \A x \in Post : Covered(ToSet(blocks'), x)
           => Covered(ToSet(blocks), x) \/ x \in PostsOf(ToSet(blocks'))
      /\ (\E b \in ToSet(blocks) : b.recent) => \E b \in ToSet(blocks') : b.recent
      /\ (\A b \in ToSet(blocks) : IsInjective(b.order))
           => \A b \in ToSet(blocks') : IsInjective(b.order)
  BY <1>1, <1>2, <1>5, PostDeletedKeeps
<1>7. PostsOf(ToSet(blocks)) \cap Live \subseteq PostsOf(ToSet(blocks'))
  BY <1>4, <1>6
<1> QED BY <1>1, <1>2, <1>6, <1>7

\* A live post that the client does not lack, it does not lack after a step: as
\* long as a missed event counts, whatever takes the post's event off its way
\* puts the post in the blocks or on record as lost or dropped.
LEMMA StaysAccounted ==
  ASSUME IInv, Next, Counts, NEW p \in Live', p \in Live => Accounted(p)
  PROVE  Accounted(p)'
<1>1. TypeOK /\ EventsInOrder /\ RootsClosed /\ RepliesWhole
  BY DEF IInv
<1>2. Accounted(p)' <=> \/ p \in PostsOf(ToSet(blocks')) \/ p \in awaiting'
                        \/ [del |-> FALSE, post |-> p] \in ToSet(events')
                        \/ p \in lost' \/ p \in dropped' \/ p \in leftOut'
  BY AccountedIs
<1>3. /\ Accounted(p) <=> \/ p \in PostsOf(ToSet(blocks)) \/ p \in awaiting
                          \/ [del |-> FALSE, post |-> p] \in ToSet(events)
                          \/ p \in lost \/ p \in dropped \/ p \in leftOut
      /\ leftOut \subseteq leftOut'
  BY AccountedIs, LeftOutSteps
<1>4. posted \in Nat /\ 1 .. posted \subseteq Post /\ Live \subseteq 1 .. posted
  BY <1>1, LiveSteps DEF Live
<1>5. CASE CreatePost
  <2>1. /\ posted + 1 \in Post /\ Live' = Live \cup {posted + 1}
        /\ events' = Append(events, [del |-> FALSE, post |-> posted + 1])
        /\ UNCHANGED <<blocks, awaiting, lost, dropped>>
    BY <1>1, <1>5, LiveSteps
  <2>2. [del |-> FALSE, post |-> posted + 1] \in [del : BOOLEAN, post : Post]
    BY <2>1
  <2>3. ToSet(events') = ToSet(events) \cup {[del |-> FALSE, post |-> posted + 1]}
    BY <1>1, <2>1, <2>2, EventsAppended
  <2> QED BY <1>2, <1>3, <2>1, <2>3
<1>6. ASSUME NEW q \in Post, DeletePost(q)
      PROVE  Accounted(p)'
  <2>1. /\ Live' \subseteq Live /\ events' = Append(events, [del |-> TRUE, post |-> q])
        /\ UNCHANGED <<blocks, awaiting, lost, dropped>>
    BY <1>1, <1>6, LiveSteps
  <2>2. [del |-> TRUE, post |-> q] \in [del : BOOLEAN, post : Post]
    OBVIOUS
  <2>3. ToSet(events') = ToSet(events) \cup {[del |-> TRUE, post |-> q]}
    BY <1>1, <2>1, <2>2, EventsAppended
  <2> QED BY <1>2, <1>3, <2>1, <2>3
<1> DEFINE here == [del |-> FALSE, post |-> p]
<1>7. CASE HelloNew
  <2>1. /\ UNCHANGED <<posted, deleted, blocks, awaiting, dropped>>
        /\ lost' = lost \union {e.post : e \in {x \in ToSet(events) : ~x.del /\ Counts}}
    BY <1>7 DEF HelloNew, server, client
  <2>2. Live' = Live
    BY <1>1, <2>1, LiveSteps
  <2>3. here.del = FALSE /\ here.post = p
    OBVIOUS
  <2> HIDE DEF here
  <2>4. here \in ToSet(events) => p \in lost'
    BY <2>1, <2>3
  <2> QED BY <1>2, <1>3, <2>1, <2>2, <2>4 DEF here
<1>8. CASE HandleEvent
  <2> DEFINE e == Head(events)
  <2>1. /\ e \in [del : BOOLEAN, post : Post]
        /\ e.del => e.post \in deleted /\ Deleted(e.post)
        /\ ~e.del => Posted(e.post) /\ e = [del |-> FALSE, post |-> e.post]
        /\ \A x \in ToSet(events) : x = e \/ x \in ToSet(events')
        /\ UNCHANGED <<posted, deleted, requests, loaded, lost>>
    BY <1>1, <1>8, NextEvent
  <2> HIDE DEF e
  <2>2. e.post \in Post /\ e.del \in BOOLEAN
    BY <2>1
  <2>3. Live' = Live
    BY <1>1, <2>1, LiveSteps
  <2>4. CASE e.del
    <3>1. PostsOf(ToSet(blocks)) \cap Live \subseteq PostsOf(ToSet(blocks'))
          /\ UNCHANGED <<awaiting, dropped>>
      BY <1>1, <2>1, <2>2, <2>4, DeletedSteps
    <3>2. here # e
      BY <2>4
    <3>3. here \in ToSet(events) => here \in ToSet(events')
      BY <2>1, <3>2
    <3> QED BY <1>2, <1>3, <2>1, <2>3, <3>1, <3>3
  <2>5. CASE ~e.del
    <3>1. here # e => (here \in ToSet(events) => here \in ToSet(events'))
      BY <2>1
    <3>2. here = e => p = e.post
      BY <2>1, <2>5
    <3>3. CASE awaiting' = awaiting \cup {e.post} /\ UNCHANGED <<blocks, dropped>>
      BY <1>2, <1>3, <2>1, <2>3, <3>1, <3>2, <3>3
    <3>4. CASE ReceiveNew(e.post) /\ awaiting' = awaiting
      <4>1. /\ loaded => PostsOf(ToSet(blocks')) = PostsOf(ToSet(blocks)) \cup {e.post}
            /\ ~loaded => dropped' = dropped \cup {e.post}
            /\ loaded => dropped' = dropped
            /\ PostsOf(ToSet(blocks)) \subseteq PostsOf(ToSet(blocks'))
        BY <1>1, <2>2, <3>4, ReceiveNewAdds
      <4> HIDE DEF here
      <4> QED BY <1>2, <1>3, <2>1, <2>3, <3>1, <3>2, <3>4, <4>1 DEF here
    <3> QED BY <1>1, <2>1, <2>2, <2>5, <3>3, <3>4, PostedSteps
  <2> QED BY <2>2, <2>4, <2>5
<1>9. ASSUME NEW q \in awaiting, ThreadLoaded(q)
      PROVE  Accounted(p)'
  <2>1. /\ awaiting' = awaiting \ {q} /\ ReceiveNew(q)
        /\ UNCHANGED <<posted, deleted, events, lost, loaded>>
    BY <1>9 DEF ThreadLoaded, server, link
  <2>2. q \in Post
    BY <1>1, <1>4 DEF TypeOK
  <2>3. /\ loaded => PostsOf(ToSet(blocks')) = PostsOf(ToSet(blocks)) \cup {q}
        /\ ~loaded => dropped' = dropped \cup {q}
        /\ loaded => dropped' = dropped
        /\ PostsOf(ToSet(blocks)) \subseteq PostsOf(ToSet(blocks'))
    BY <1>1, <2>1, <2>2, ReceiveNewAdds
  <2>4. Live' = Live
    BY <1>1, <2>1, LiveSteps
  <2> QED BY <1>2, <1>3, <2>1, <2>3, <2>4
<1>10. ASSUME NEW q \in awaiting, ThreadFails(q)
       PROVE  Accounted(p)'
  <2>1. /\ awaiting' = awaiting \ {q} /\ dropped' = dropped \cup {q}
        /\ UNCHANGED <<posted, deleted, events, lost, blocks>>
    BY <1>10 DEF ThreadFails, server, link, client
  <2>2. Live' = Live
    BY <1>1, <2>1, LiveSteps
  <2> QED BY <1>2, <1>3, <2>1, <2>2
<1>11. ASSUME NEW r \in requests, Answer(r)
       PROVE  Accounted(p)'
  <2>1. UNCHANGED <<posted, deleted, events, blocks, awaiting, lost, dropped>>
    BY <1>11 DEF Answer, server, link, client
  <2>2. Live' = Live
    BY <1>1, <2>1, LiveSteps
  <2> QED BY <1>2, <1>3, <2>1, <2>2
<1>12. ASSUME NEW r \in requests, Receive(r)
       PROVE  Accounted(p)'
  <2>1. /\ Takes(ToSet(blocks'), ToSet(blocks), Fresh(r))
        /\ UNCHANGED <<posted, deleted, events, awaiting, lost, dropped>>
    BY <1>1, <1>12, ReceiveTakes
  <2>2. PostsOf(ToSet(blocks)) \subseteq PostsOf(ToSet(blocks'))
    BY <2>1 DEF Takes
  <2>3. Live' = Live
    BY <1>1, <2>1, LiveSteps
  <2> QED BY <1>2, <1>3, <2>1, <2>2, <2>3
<1>13. CASE Asks
  <2>1. UNCHANGED <<posted, deleted, events, blocks, awaiting, lost, dropped>>
    BY <1>1, <1>13, AskingSteps DEF Still
  <2>2. Live' = Live
    BY <1>1, <2>1, LiveSteps
  <2> QED BY <1>2, <1>3, <2>1, <2>2
<1> QED BY <1>5, <1>6, <1>7, <1>8, <1>9, <1>10, <1>11, <1>12, <1>13, NextCases

LEMMA EventsStayInOrder ==
  ASSUME IInv, Next
  PROVE  EventsInOrder'
<1> DEFINE E == [del : BOOLEAN, post : Post]
<1>1. TypeOK /\ EventsInOrder /\ RootsClosed /\ RepliesWhole
  BY DEF IInv
<1>2. /\ posted \in Nat /\ deleted \subseteq 1 .. posted
      /\ events \in Seq(E) /\ DOMAIN events = 1 .. Len(events) /\ Len(events) \in Nat
      /\ \A i \in DOMAIN events : events[i] \in E
  <2>1. events \in Seq(E) /\ deleted \subseteq 1 .. posted
    BY <1>1 DEF TypeOK
  <2>2. posted \in Nat
    BY <1>1, LiveSteps
  <2> HIDE DEF E
  <2> QED BY <2>1, <2>2
<1>3. \A i \in DOMAIN events :
        /\ events[i].post <= posted
        /\ events[i].del => events[i].post \in deleted
        /\ ~events[i].del => \A p \in 1 .. posted : events[i].post < p =>
             \E j \in DOMAIN events : i < j /\ events[j] = [del |-> FALSE, post |-> p]
  BY <1>1 DEF EventsInOrder
<1>4. CASE UNCHANGED <<events, posted, deleted>>
  BY <1>1, <1>4 DEF EventsInOrder
<1>5. ASSUME NEW e \in E, events' = Append(events, e), e.post <= posted', posted <= posted',
             e.del => e.post \in deleted', deleted \subseteq deleted',
             ~e.del => e = [del |-> FALSE, post |-> posted'] /\ posted' = posted + 1,
             e.del => posted' = posted
      PROVE  EventsInOrder'
  <2>1. /\ DOMAIN events' = 1 .. Len(events) + 1
        /\ \A i \in 1 .. Len(events) : events'[i] = events[i]
        /\ events'[Len(events) + 1] = e
    BY <1>2, <1>5
  <2> SUFFICES ASSUME NEW i \in DOMAIN events'
               PROVE  /\ events'[i].post <= posted'
                      /\ events'[i].del => events'[i].post \in deleted'
                      /\ ~events'[i].del => \A p \in 1 .. posted' : events'[i].post < p =>
                           \E j \in DOMAIN events' :
                             i < j /\ events'[j] = [del |-> FALSE, post |-> p]
    BY DEF EventsInOrder
  <2>2. CASE i = Len(events) + 1
    <3>1. events'[i] = e
      BY <2>1, <2>2
    <3>2. ~e.del => \A p \in 1 .. posted' : ~(e.post < p)
      BY <1>2, <1>5
    <3> QED BY <1>5, <3>1, <3>2
  <2>3. CASE i \in 1 .. Len(events)
    <3>1. events'[i] = events[i] /\ i \in DOMAIN events /\ events[i].post <= posted
      BY <1>2, <1>3, <2>1, <2>3
    <3>2. events[i].post \in Nat
      <4>1. events[i] \in E
        BY <1>2, <3>1
      <4> QED BY <4>1, PostIsNat
    <3>3. events[i].post <= posted'
      <4>1. posted' \in Nat
        BY <1>2, <1>5
      <4> QED BY <1>2, <1>5, <3>1, <3>2, <4>1
    <3>4. events[i].del => events[i].post \in deleted'
      BY <1>3, <1>5, <3>1
    <3>5. ASSUME ~events[i].del, NEW p \in 1 .. posted', events[i].post < p
          PROVE  \E j \in DOMAIN events' :
                   i < j /\ events'[j] = [del |-> FALSE, post |-> p]
      <4>1. CASE p \in 1 .. posted
        <5>1. PICK j \in DOMAIN events : i < j /\ events[j] = [del |-> FALSE, post |-> p]
          BY <1>3, <3>1, <3>5, <4>1
        <5>2. j \in DOMAIN events' /\ events'[j] = events[j]
          BY <1>2, <2>1
        <5> QED BY <5>1, <5>2
      <4>2. CASE p \notin 1 .. posted
        <5>1. ~e.del /\ p = posted'
          <6>1. ~e.del
            BY <1>5, <4>2
          <6>2. posted' = posted + 1
            BY <1>5, <6>1
          <6> QED BY <1>2, <4>2, <6>1, <6>2
        <5>2. e = [del |-> FALSE, post |-> p]
          BY <1>5, <5>1
        <5>3. Len(events) + 1 \in DOMAIN events' /\ i < Len(events) + 1
          BY <1>2, <2>1, <2>3
        <5> QED BY <2>1, <5>2, <5>3
      <4> QED BY <4>1, <4>2
    <3> QED BY <3>1, <3>3, <3>4, <3>5
  <2> QED BY <1>2, <2>1, <2>2, <2>3
<1>6. CASE CreatePost
  <2> DEFINE e == [del |-> FALSE, post |-> posted + 1]
  <2>1. /\ posted' = posted + 1 /\ deleted' = deleted /\ events' = Append(events, e)
        /\ posted + 1 \in Post
    BY <1>1, <1>6, LiveSteps DEF CreatePost
  <2>2. e \in E /\ e.post = posted + 1 /\ e.del = FALSE
    BY <2>1
  <2>3. posted + 1 <= posted' /\ posted <= posted'
    BY <1>2, <2>1
  <2> HIDE DEF E
  <2> QED BY <1>5, <2>1, <2>2, <2>3
<1>7. ASSUME NEW q \in Post, DeletePost(q)
      PROVE  EventsInOrder'
  <2> DEFINE e == [del |-> TRUE, post |-> q]
  <2>1. /\ posted' = posted /\ deleted \subseteq deleted' /\ q \in deleted'
        /\ events' = Append(events, e) /\ q \in Live
    BY <1>1, <1>7, LiveSteps DEF DeletePost
  <2>2. e \in E /\ e.post = q /\ e.del = TRUE
    OBVIOUS
  <2>3. q <= posted' /\ posted <= posted'
    BY <1>2, <2>1 DEF Live
  <2> HIDE DEF E
  <2> QED BY <1>5, <2>1, <2>2, <2>3
<1>8. CASE HelloNew
  <2>1. events' = <<>>
    BY <1>8 DEF HelloNew
  <2>2. DOMAIN events' = {}
    BY <2>1
  <2> QED BY <2>2 DEF EventsInOrder
<1>9. CASE HandleEvent
  <2>1. events' = Tail(events) /\ events # <<>> /\ UNCHANGED <<posted, deleted>>
    BY <1>9 DEF HandleEvent, server
  <2>2. /\ Tail(events) \in Seq(E) /\ Len(Tail(events)) = Len(events) - 1
        /\ \A i \in 1 .. Len(events) - 1 : Tail(events)[i] = events[i + 1]
    <3> HIDE DEF E
    <3> QED BY <1>2, <2>1, TailOfSequence
  <2>3. DOMAIN events' = 1 .. Len(events) - 1
    BY <2>1, <2>2
  <2>4. \A i \in DOMAIN events' : events'[i] = events[i + 1] /\ i + 1 \in DOMAIN events
    BY <1>2, <2>1, <2>2, <2>3
  <2> SUFFICES ASSUME NEW i \in DOMAIN events', ~events'[i].del,
                      NEW p \in 1 .. posted', events'[i].post < p
               PROVE  \E j \in DOMAIN events' :
                        i < j /\ events'[j] = [del |-> FALSE, post |-> p]
    BY <1>3, <2>1, <2>4 DEF EventsInOrder
  <2>5. PICK j \in DOMAIN events : i + 1 < j /\ events[j] = [del |-> FALSE, post |-> p]
    <3>1. i + 1 \in DOMAIN events /\ events'[i] = events[i + 1] /\ p \in 1 .. posted
      BY <2>1, <2>4
    <3>2. ~events[i + 1].del /\ events[i + 1].post < p
      BY <3>1
    <3> QED BY <1>3, <3>1, <3>2
  <2>6. j - 1 \in DOMAIN events' /\ (j - 1) + 1 = j /\ i < j - 1
    BY <1>2, <2>3, <2>5
  <2> QED BY <2>4, <2>5, <2>6
<1>10. ASSUME NEW q \in awaiting, ThreadLoaded(q) \/ ThreadFails(q)
       PROVE  EventsInOrder'
  BY <1>4, <1>10 DEF ThreadLoaded, ThreadFails, server, link
<1>11. ASSUME NEW r \in requests, Answer(r) \/ Receive(r)
       PROVE  EventsInOrder'
  BY <1>4, <1>11 DEF Answer, Receive, server, link
<1>12. CASE Asks
  BY <1>1, <1>4, <1>12, AskingSteps DEF Still
<1> QED BY <1>6, <1>7, <1>8, <1>9, <1>10, <1>11, <1>12, NextCases

LEMMA RootsStayClosed ==
  ASSUME IInv, Next
  PROVE  RootsClosed'
<1>1. TypeOK /\ RepliesWhole /\ RootsClosed
  BY DEF IInv
<1>2. posted \in Nat /\ deleted \subseteq 1 .. posted /\ 1 .. posted \subseteq Post
  BY <1>1, LiveSteps DEF TypeOK
<1>3. \A q \in 1 .. posted : RootOf[q] \in deleted => q \in deleted
  BY <1>1 DEF RootsClosed
<1>4. CASE UNCHANGED <<posted, deleted>>
  BY <1>1, <1>4 DEF RootsClosed
<1>5. CASE CreatePost
  <2>1. posted' = posted + 1 /\ deleted' = deleted /\ RootOf[posted + 1] \notin deleted
    BY <1>5 DEF CreatePost
  <2>2. 1 .. posted' = (1 .. posted) \cup {posted + 1}
    BY <1>2, <2>1
  <2> QED BY <1>3, <2>1, <2>2 DEF RootsClosed
<1>6. ASSUME NEW p \in Post, DeletePost(p)
      PROVE  RootsClosed'
  <2>1. /\ posted' = posted
        /\ deleted' = deleted \union {p} \union {q \in 1 .. posted : RootOf[q] = p}
    BY <1>1, <1>6, LiveSteps DEF DeletePost
  <2> SUFFICES ASSUME NEW q \in 1 .. posted, RootOf[q] \in deleted'
               PROVE  q \in deleted'
    BY <2>1 DEF RootsClosed
  <2>2. RootOf[q] \in deleted \/ RootOf[q] = p \/ (RootOf[q] \in Post /\ RootOf[RootOf[q]] = p)
    BY <1>2, <2>1
  <2>3. ~(RootOf[q] \in Post /\ RootOf[RootOf[q]] = p)
    <3>1. q \in Post /\ p # 0
      BY <1>2, PostIsNat DEF Post
    <3>2. RootOf[q] # 0 => RootOf[RootOf[q]] = 0
      BY <3>1, PostsAssumption
    <3>3. RootOf[q] \in Post => RootOf[q] # 0
      BY DEF Post
    <3> QED BY <3>1, <3>2, <3>3
  <2> QED BY <1>3, <2>1, <2>2, <2>3
<1>7. CASE HelloNew \/ HandleEvent
  BY <1>4, <1>7 DEF HelloNew, HandleEvent, server
<1>8. ASSUME NEW q \in awaiting, ThreadLoaded(q) \/ ThreadFails(q)
      PROVE  RootsClosed'
  BY <1>4, <1>8 DEF ThreadLoaded, ThreadFails, server
<1>9. ASSUME NEW r \in requests, Answer(r) \/ Receive(r)
      PROVE  RootsClosed'
  BY <1>4, <1>9 DEF Answer, Receive, server
<1>10. CASE Asks
  BY <1>1, <1>4, <1>10, AskingSteps DEF Still
<1> QED BY <1>5, <1>6, <1>7, <1>8, <1>9, <1>10, NextCases

LEMMA BlocksCount ==
  ASSUME TypeOK, NEW p, Covered(ToSet(blocks), p)
  PROVE  loaded /\ Counts
<1>1. blocks # <<>>
  <2>1. SUFFICES ASSUME blocks = <<>> PROVE FALSE
    OBVIOUS
  <2>2. ToSet(blocks) = {}
    <3>1. blocks \in Seq(Blocks)
      BY DEF TypeOK
    <3> QED BY <2>1, <3>1, ToSetOfSequence
  <2> QED BY <2>2 DEF Covered
<1> QED BY <1>1 DEF TypeOK, Counts

LEMMA AwaitedStayInOrder ==
  ASSUME IInv, Next
  PROVE  AwaitedInOrder'
<1>1. TypeOK /\ EventsInOrder /\ RootsClosed /\ RepliesWhole
  BY DEF IInv
<1>2. \A q \in awaiting : \A x \in Live : x > q => Accounted(x)
  BY DEF IInv, AwaitedInOrder
<1> SUFFICES ASSUME NEW q \in awaiting', NEW x \in Live', x > q
             PROVE  Accounted(x)'
  BY DEF AwaitedInOrder
<1>3. CASE q \in awaiting
  <2>1. Counts
    BY <1>3 DEF Counts
  <2>2. x \in Live => Accounted(x)
    BY <1>2, <1>3
  <2> QED BY <2>1, <2>2, StaysAccounted
<1>4. CASE q \notin awaiting
  <2>1. HandleEvent
    <3>1. CreatePost => awaiting' = awaiting
      BY DEF CreatePost
    <3>2. \A p \in Post : DeletePost(p) => awaiting' = awaiting
      BY DEF DeletePost
    <3>3. HelloNew => awaiting' = awaiting
      BY DEF HelloNew
    <3>4. \A p \in awaiting : ThreadLoaded(p) \/ ThreadFails(p) => awaiting' \subseteq awaiting
      BY DEF ThreadLoaded, ThreadFails
    <3>5. \A r \in requests : Answer(r) \/ Receive(r) => awaiting' = awaiting
      BY DEF Answer, Receive
    <3>6. Asks => awaiting' = awaiting
      BY <1>1, AskingSteps DEF Still
    <3> QED BY <1>4, <3>1, <3>2, <3>3, <3>4, <3>5, <3>6, NextCases
  <2> DEFINE e == Head(events)
  <2>2. /\ e \in [del : BOOLEAN, post : Post]
        /\ e.del => e.post \in deleted /\ Deleted(e.post)
        /\ ~e.del => /\ Posted(e.post)
                     /\ \A y \in 1 .. posted : y > e.post =>
                          [del |-> FALSE, post |-> y] \in ToSet(events')
        /\ UNCHANGED <<posted, deleted>>
    BY <1>1, <2>1, NextEvent
  <2> HIDE DEF e
  <2>3. e.post \in Post
    BY <2>2
  <2>4. ~e.del
    <3>1. e.del => awaiting' = awaiting
      BY <1>1, <2>2, <2>3, DeletedSteps
    <3> QED BY <1>4, <3>1
  <2>5. q = e.post
    BY <1>1, <1>4, <2>2, <2>3, <2>4, PostedSteps
  <2>6. x \in 1 .. posted
    BY <2>2 DEF Live
  <2>7. [del |-> FALSE, post |-> x] \in ToSet(events')
    BY <2>2, <2>4, <2>5, <2>6
  <2> QED BY <2>7, AccountedIs
<1> QED BY <1>3, <1>4

LEMMA BlocksStayWhole ==
  ASSUME IInv, Next
  PROVE  BlocksWhole'
<1>1. TypeOK /\ EventsInOrder /\ RootsClosed /\ RepliesWhole /\ BlocksWhole /\ AwaitedInOrder
  BY DEF IInv
<1> SUFFICES ASSUME NEW p \in Live', Covered(ToSet(blocks'), p)
             PROVE  Accounted(p)'
  BY DEF BlocksWhole
<1>2. posted \in Nat /\ 1 .. posted \subseteq Post /\ Live \subseteq 1 .. posted
  BY <1>1, LiveSteps DEF Live
<1>3. ASSUME Covered(ToSet(blocks), p)
      PROVE  Accounted(p)'
  <2>1. Counts
    BY <1>1, <1>3, BlocksCount
  <2>2. p \in Live => Accounted(p)
    BY <1>1, <1>3 DEF BlocksWhole
  <2> QED BY <2>1, <2>2, StaysAccounted
<1>4. p \in PostsOf(ToSet(blocks')) => Accounted(p)'
  BY AccountedIs
<1>5. CASE blocks' = blocks
  BY <1>3, <1>5
<1>6. CASE HandleEvent
  <2> DEFINE e == Head(events)
  <2>1. /\ e \in [del : BOOLEAN, post : Post]
        /\ e.del => e.post \in deleted /\ Deleted(e.post)
        /\ ~e.del => /\ Posted(e.post)
                     /\ \A y \in 1 .. posted : y > e.post =>
                          [del |-> FALSE, post |-> y] \in ToSet(events')
        /\ UNCHANGED <<posted, deleted>>
    BY <1>1, <1>6, NextEvent
  <2> HIDE DEF e
  <2>2. e.post \in Post
    BY <2>1
  <2>3. p \in Post /\ p \in 1 .. posted
    BY <1>2, <2>1 DEF Live
  <2>4. CASE e.del
    <3>1. Covered(ToSet(blocks), p) \/ p \in PostsOf(ToSet(blocks'))
      BY <1>1, <2>1, <2>2, <2>3, <2>4, DeletedSteps
    <3> QED BY <1>3, <1>4, <3>1
  <2>5. CASE ~e.del
    <3>1. CASE blocks' = blocks
      BY <1>5, <3>1
    <3>2. CASE ReceiveNew(e.post)
      <4>1. Covered(ToSet(blocks), p) \/ p > e.post
        BY <1>1, <2>2, <2>3, <3>2, ReceiveNewAdds
      <4>2. p > e.post => [del |-> FALSE, post |-> p] \in ToSet(events')
        BY <2>1, <2>3, <2>5
      <4>3. p > e.post => Accounted(p)'
        BY <4>2, AccountedIs
      <4> QED BY <1>3, <4>1, <4>3
    <3> QED BY <1>1, <2>1, <2>2, <2>5, <3>1, <3>2, PostedSteps
  <2> QED BY <2>1, <2>4, <2>5
<1>7. ASSUME NEW q \in awaiting, ThreadLoaded(q)
      PROVE  Accounted(p)'
  <2>1. /\ ReceiveNew(q) /\ UNCHANGED <<posted, deleted>>
    BY <1>7 DEF ThreadLoaded, server
  <2>2. q \in Post
    BY <1>1, <1>2 DEF TypeOK
  <2>3. Live' = Live
    BY <1>1, <2>1, LiveSteps
  <2>4. p \in Post
    BY <1>2, <2>3
  <2>5. Covered(ToSet(blocks), p) \/ p > q
    BY <1>1, <2>1, <2>2, <2>4, ReceiveNewAdds
  <2>6. p > q => Accounted(p)'
    <3>1. p > q => Accounted(p)
      BY <1>1, <2>3 DEF AwaitedInOrder
    <3>2. Counts
      BY <1>7 DEF Counts
    <3> QED BY <3>1, <3>2, StaysAccounted
  <2> QED BY <1>3, <2>5, <2>6
<1>8. ASSUME NEW r \in requests, Receive(r)
      PROVE  Accounted(p)'
  <2>1. /\ Takes(ToSet(blocks'), ToSet(blocks), Fresh(r)) /\ r.answered
        /\ UNCHANGED <<posted, deleted>>
    BY <1>1, <1>8, ReceiveTakes
  <2>2. Live' = Live
    BY <1>1, <2>1, LiveSteps
  <2>3. p \in Post /\ p \in Live
    BY <1>2, <2>2
  <2>4. \/ Covered(ToSet(blocks), p) \/ p \in PostsOf(ToSet(blocks'))
        \/ \E f \in Fresh(r) : Covers(f, p) /\ ToSet(f.order) \subseteq PostsOf(ToSet(blocks'))
    BY <2>1, <2>3 DEF Takes
  <2>5. \A f \in Fresh(r) : Covers(f, p) => p \in ToSet(f.order) \/ Accounted(p)
    BY <1>1, <2>1, <2>3 DEF RepliesWhole
  <2>6. Accounted(p) => Accounted(p)'
    <3>1. Counts
      BY <2>1 DEF Counts
    <3> QED BY <3>1, StaysAccounted
  <2> QED BY <1>3, <1>4, <2>4, <2>5, <2>6
<1>9. CASE CreatePost \/ \E q \in Post : DeletePost(q)
  BY <1>1, <1>5, <1>9, LiveSteps
<1>10. CASE HelloNew
  BY <1>5, <1>10 DEF HelloNew, client
<1>11. ASSUME NEW q \in awaiting, ThreadFails(q)
       PROVE  Accounted(p)'
  BY <1>5, <1>11 DEF ThreadFails, client
<1>12. ASSUME NEW r \in requests, Answer(r)
       PROVE  Accounted(p)'
  BY <1>5, <1>12 DEF Answer, client
<1>13. CASE Asks
  BY <1>1, <1>5, <1>13, AskingSteps DEF Still
<1> QED BY <1>6, <1>7, <1>8, <1>9, <1>10, <1>11, <1>12, <1>13, NextCases

\* What a step does to the blocks, as far as no block shows a post twice and a
\* recent one stays.
LEMMA BlocksSteps ==
  ASSUME IInv, Next
  PROVE  /\ blocks' \in Seq(Blocks) /\ loaded' \in BOOLEAN /\ (~loaded' => blocks' = <<>>)
         /\ (\E b \in ToSet(blocks) : b.recent) => \E b \in ToSet(blocks') : b.recent
         /\ (\A b \in ToSet(blocks) : IsInjective(b.order))
              => \A b \in ToSet(blocks') : IsInjective(b.order)
<1> DEFINE Goal ==
         /\ blocks' \in Seq(Blocks) /\ loaded' \in BOOLEAN /\ (~loaded' => blocks' = <<>>)
         /\ (\E b \in ToSet(blocks) : b.recent) => \E b \in ToSet(blocks') : b.recent
         /\ (\A b \in ToSet(blocks) : IsInjective(b.order))
              => \A b \in ToSet(blocks') : IsInjective(b.order)
<1>1. TypeOK /\ EventsInOrder /\ RootsClosed /\ RepliesWhole
  BY DEF IInv
<1>2. blocks \in Seq(Blocks) /\ loaded \in BOOLEAN /\ (~loaded => blocks = <<>>)
  BY <1>1 DEF TypeOK
<1>3. blocks' = blocks /\ loaded' = loaded => Goal
  BY <1>2
<1>4. ASSUME HandleEvent
      PROVE  Goal
  <2> DEFINE e == Head(events)
  <2>1. /\ e \in [del : BOOLEAN, post : Post] /\ loaded' = loaded
        /\ e.del => e.post \in deleted /\ Deleted(e.post)
        /\ ~e.del => Posted(e.post)
    BY <1>1, <1>4, NextEvent
  <2> HIDE DEF e
  <2>2. e.post \in Post /\ e.del \in BOOLEAN
    BY <2>1
  <2>3. CASE e.del
    BY <1>1, <1>2, <2>1, <2>2, <2>3, DeletedSteps
  <2>4. CASE ~e.del
    <3>1. CASE blocks' = blocks
      BY <1>3, <2>1, <3>1
    <3>2. CASE ReceiveNew(e.post)
      BY <1>1, <1>2, <2>1, <2>2, <3>2, ReceiveNewAdds
    <3> QED BY <1>1, <2>1, <2>2, <2>4, <3>1, <3>2, PostedSteps
  <2> QED BY <2>2, <2>3, <2>4
<1>5. ASSUME NEW q \in awaiting, ThreadLoaded(q)
      PROVE  Goal
  <2>1. ReceiveNew(q) /\ loaded' = loaded
    BY <1>5 DEF ThreadLoaded
  <2>2. q \in Post
    <3>1. awaiting \subseteq 1 .. posted /\ 1 .. posted \subseteq Post
      BY <1>1, LiveSteps DEF TypeOK
    <3> QED BY <3>1
  <2> QED BY <1>1, <1>2, <2>1, <2>2, ReceiveNewAdds
<1>6. ASSUME NEW r \in requests, Receive(r)
      PROVE  Goal
  <2>1. /\ Takes(ToSet(blocks'), ToSet(blocks), Fresh(r)) /\ r.answered
        /\ blocks' \in Seq(Blocks) /\ loaded' \in BOOLEAN /\ (~loaded' => blocks' = <<>>)
    BY <1>1, <1>6, ReceiveTakes
  <2>2. \A f \in Fresh(r) : IsInjective(f.order)
    BY <1>1, <2>1 DEF RepliesWhole
  <2> QED BY <2>1, <2>2 DEF Takes
<1> HIDE DEF Goal
<1>7. ASSUME CreatePost \/ \E q \in Post : DeletePost(q)
      PROVE  Goal
  BY <1>1, <1>3, <1>7, LiveSteps
<1>8. ASSUME HelloNew
      PROVE  Goal
  BY <1>3, <1>8 DEF HelloNew, client
<1>9. ASSUME NEW q \in awaiting, ThreadFails(q)
      PROVE  Goal
  BY <1>3, <1>9 DEF ThreadFails, client
<1>10. ASSUME NEW r \in requests, Answer(r)
       PROVE  Goal
  BY <1>3, <1>10 DEF Answer, client
<1>11. ASSUME Asks
       PROVE  Goal
  BY <1>1, <1>3, <1>11, AskingSteps DEF Still
<1> QED BY <1>4, <1>5, <1>6, <1>7, <1>8, <1>9, <1>10, <1>11, NextCases DEF Goal

LEMMA NoDuplicatesOfBlocks ==
  /\ NoDuplicates <=> \A b \in ToSet(blocks) : IsInjective(b.order)
  /\ NoDuplicates' <=> \A b \in ToSet(blocks') : IsInjective(b.order)
  BY DEF NoDuplicates, ToSet

\* The requests that a step adds nobody has answered, but for the one that the
\* server answers in the step.
LEMMA RequestSteps ==
  ASSUME IInv, Next
  PROVE  \/ \E R : Asked(R) /\ requests' \subseteq requests \cup R
         \/ \E r \in requests : \E V \in Views : \E a \in Answers(r, V) :
              /\ requests' = (requests \ {r})
                   \union {[r EXCEPT !.answered = TRUE, !.reply = a]}
              /\ leftOut' = leftOut \cup Omitted(r, V, a)
              /\ Still
<1>1. TypeOK /\ RepliesWhole
  BY DEF IInv
<1>2. Asked({})
  BY DEF Asked
<1>3. CASE requests' = requests
  BY <1>2, <1>3
<1>4. CASE Asks
  BY <1>1, <1>4, AskingSteps
<1>5. ASSUME NEW r \in requests, Answer(r)
      PROVE  \E V \in Views : \E a \in Answers(r, V) :
               /\ requests' = (requests \ {r})
                    \union {[r EXCEPT !.answered = TRUE, !.reply = a]}
               /\ leftOut' = leftOut \cup Omitted(r, V, a)
               /\ Still
  <2>1. Still
    BY <1>5 DEF Answer, Still, link, client
  <2> QED BY Zenon, <1>5, <2>1, AnswerSteps
<1>6. ASSUME NEW r \in requests, Receive(r)
      PROVE  \E R : Asked(R) /\ requests' \subseteq requests \cup R
  BY <1>2, <1>6 DEF Receive
<1>7. CASE CreatePost \/ \E q \in Post : DeletePost(q)
  BY <1>1, <1>3, <1>7, LiveSteps
<1>8. CASE HelloNew
  BY <1>1, <1>8, AskedOnReconnect DEF HelloNew
<1>9. CASE HandleEvent
  BY <1>3, <1>9 DEF HandleEvent
<1>10. CASE \E q \in awaiting : ThreadLoaded(q) \/ ThreadFails(q)
  BY <1>3, <1>10 DEF ThreadLoaded, ThreadFails
<1> QED BY <1>4, <1>5, <1>6, <1>7, <1>8, <1>9, <1>10, NextCases

LEMMA KnownSteps ==
  ASSUME IInv, Next
  PROVE  posted <= posted' /\ posted' \in 0 .. MaxPosts /\ deleted' \subseteq 1 .. posted'
         /\ 1 .. posted \subseteq 1 .. posted' /\ (Live' \cap (1 .. posted) \subseteq Live)
<1>1. TypeOK /\ RepliesWhole
  BY DEF IInv
<1>2. /\ posted \in 0 .. MaxPosts /\ deleted \subseteq 1 .. posted
      /\ posted \in Nat /\ MaxPosts \in Nat
  BY <1>1, PostsAssumption DEF TypeOK
<1>3. CASE UNCHANGED <<posted, deleted>>
  BY <1>2, <1>3 DEF Live
<1>4. CASE CreatePost
  <2>1. posted < MaxPosts /\ posted' = posted + 1 /\ deleted' = deleted
    BY <1>4 DEF CreatePost
  <2>2. Live' = (1 .. posted') \ deleted
    BY <2>1 DEF Live
  <2> QED BY <1>2, <2>1, <2>2 DEF Live
<1>5. ASSUME NEW q \in Post, DeletePost(q)
      PROVE  /\ posted' = posted /\ deleted' \subseteq 1 .. posted
             /\ Live' \subseteq Live
  BY <1>1, <1>2, <1>5, LiveSteps DEF DeletePost, Live
<1>6. CASE HandleEvent \/ HelloNew
  BY <1>3, <1>6 DEF HandleEvent, HelloNew, server
<1>7. CASE \E q \in awaiting : ThreadLoaded(q) \/ ThreadFails(q)
  BY <1>3, <1>7 DEF ThreadLoaded, ThreadFails, server
<1>8. CASE \E r \in requests : Answer(r) \/ Receive(r)
  BY <1>3, <1>8 DEF Answer, Receive, server
<1>9. CASE Asks
  BY <1>1, <1>3, <1>9, AskingSteps DEF Still
<1> QED BY <1>2, <1>4, <1>5, <1>6, <1>7, <1>8, <1>9, NextCases

LEMMA RepliesStayWhole ==
  ASSUME IInv, Next
  PROVE  RepliesWhole' /\ requests' \subseteq Requests
<1>1. TypeOK /\ RepliesWhole
  BY DEF IInv
<1>2. requests \subseteq Requests
  BY <1>1 DEF TypeOK, Requests
<1> DEFINE Whole(r) ==
         /\ r.kind \in {"before", "after"} => r.arg \in Post
         /\ r.answered =>
              /\ r.reply.posts \subseteq 1 .. posted'
              /\ r.kind = "since" => /\ ToSet(r.reply.order) \subseteq 1 .. posted'
                                    /\ Live' \cap ToSet(r.reply.order) \subseteq r.reply.posts
              /\ \A f \in Fresh(r) :
                   /\ IsInjective(f.order)
                   /\ \A p \in Live' : Covers(f, p) => p \in ToSet(f.order) \/ Accounted(p)'
<1>3. RepliesWhole' <=> \A r \in requests' : Whole(r)
  <2>1. \A r \in requests' : Fresh(r)' = Fresh(r)
    BY DEF Fresh
  <2> QED BY DEF RepliesWhole, Fresh
<1>4. ASSUME NEW r \in requests
      PROVE  Whole(r)
  <2>1. /\ r.kind \in {"before", "after"} => r.arg \in Post
        /\ r.answered =>
             /\ r.reply.posts \subseteq 1 .. posted
             /\ r.kind = "since" => /\ ToSet(r.reply.order) \subseteq 1 .. posted
                                   /\ Live \cap ToSet(r.reply.order) \subseteq r.reply.posts
             /\ \A f \in Fresh(r) :
                  /\ IsInjective(f.order)
                  /\ \A p \in Live : Covers(f, p) => p \in ToSet(f.order) \/ Accounted(p)
    BY <1>1 DEF RepliesWhole
  <2> SUFFICES ASSUME r.answered
               PROVE  /\ r.reply.posts \subseteq 1 .. posted'
                      /\ r.kind = "since" => /\ ToSet(r.reply.order) \subseteq 1 .. posted'
                                    /\ Live' \cap ToSet(r.reply.order) \subseteq r.reply.posts
                      /\ \A f \in Fresh(r) :
                           /\ IsInjective(f.order)
                           /\ \A p \in Live' : Covers(f, p) => p \in ToSet(f.order) \/ Accounted(p)'
    BY <2>1
  <2>2. r.reply.posts \subseteq 1 .. posted'
    BY <2>1, KnownSteps
  <2>3. ASSUME NEW f \in Fresh(r), NEW p \in Live', Covers(f, p), p \notin ToSet(f.order)
        PROVE  Accounted(p)'
    <3>1. Counts
      BY DEF Counts
    <3>2. p \in Live => Accounted(p)
      BY <2>1, <2>3
    <3> QED BY <3>1, <3>2, StaysAccounted
  <2>4. r.kind = "since" => /\ ToSet(r.reply.order) \subseteq 1 .. posted'
                            /\ Live' \cap ToSet(r.reply.order) \subseteq r.reply.posts
    BY <2>1, KnownSteps
  <2> QED BY <2>1, <2>2, <2>3, <2>4
<1>5. ASSUME NEW R, Asked(R), NEW r \in R
      PROVE  Whole(r) /\ r \in Requests
  BY <1>5 DEF Asked
<1>6. ASSUME NEW r \in requests, NEW V \in Views, NEW a \in Answers(r, V), Still,
             leftOut' = leftOut \cup Omitted(r, V, a)
      PROVE  LET s == [r EXCEPT !.answered = TRUE, !.reply = a]
             IN  Whole(s) /\ s \in Requests
  <2> DEFINE s == [r EXCEPT !.answered = TRUE, !.reply = a]
  <2>1. r.kind \in {"before", "after"} => r.arg \in Post
    BY <1>1 DEF RepliesWhole
  <2>2. /\ a \in Replies /\ a.posts \subseteq 1 .. posted
        /\ r.kind = "since" => /\ ToSet(a.order) \subseteq 1 .. posted
                              /\ Live \cap ToSet(a.order) \subseteq a.posts
        /\ \A f \in Fresh(s) : /\ IsInjective(f.order)
                               /\ \A p \in Live : Covers(f, p) =>
                                    p \in ToSet(f.order) \/ p \in Omitted(r, V, a)
    BY <1>1, <2>1, AnswersAreWhole
  <2>3. s \in Requests /\ s.kind = r.kind /\ s.arg = r.arg /\ s.reply = a
    BY <1>2, <2>2 DEF Requests
  <2>4. Live' = Live /\ posted' = posted
    BY <1>1, <1>6, LiveSteps DEF Still
  <2> HIDE DEF s
  <2>5. \A p \in Omitted(r, V, a) : Accounted(p)'
    BY <1>6, AccountedIs
  <2>6. Whole(s)
    BY <2>1, <2>2, <2>3, <2>4, <2>5
  <2> QED BY <2>3, <2>6 DEF s
<1> HIDE DEF Whole
<1>7. \A r \in requests' : Whole(r) /\ r \in Requests
  <2>1. ASSUME NEW R, Asked(R), requests' \subseteq requests \cup R
        PROVE  \A r \in requests' : Whole(r) /\ r \in Requests
    BY <1>2, <1>4, <1>5, <2>1
  <2>2. ASSUME NEW r \in requests, NEW V \in Views, NEW a \in Answers(r, V), Still,
               requests' = (requests \ {r}) \cup {[r EXCEPT !.answered = TRUE, !.reply = a]},
               leftOut' = leftOut \cup Omitted(r, V, a)
        PROVE  \A q \in requests' : Whole(q) /\ q \in Requests
    <3> DEFINE s == [r EXCEPT !.answered = TRUE, !.reply = a]
    <3>1. Whole(s) /\ s \in Requests
      BY Zenon, <1>6, <2>2
    <3>2. requests' = (requests \ {r}) \cup {s}
      BY <2>2
    <3> HIDE DEF s
    <3> QED BY <1>2, <1>4, <3>1, <3>2
  <2> QED BY Zenon, <2>1, <2>2, RequestSteps
<1> QED BY <1>3, <1>7

----------------------------------------------------------------------------
(* The types of what is left. *)

LEMMA LinkSteps ==
  ASSUME IInv, Next
  PROVE  /\ socket' \in {"ready", "closed", "open"}
         /\ drops' \in 0 .. MaxActions /\ acts' \in 0 .. MaxActions /\ drops' <= acts'
         /\ calm' \in BOOLEAN
         /\ prefetch' \in {"none", "started", "done"} /\ viewing' \in BOOLEAN
<1> DEFINE Goal ==
         /\ socket' \in {"ready", "closed", "open"}
         /\ drops' \in 0 .. MaxActions /\ acts' \in 0 .. MaxActions /\ drops' <= acts'
         /\ calm' \in BOOLEAN
         /\ prefetch' \in {"none", "started", "done"} /\ viewing' \in BOOLEAN
<1>1. /\ socket \in {"ready", "closed", "open"}
      /\ drops \in 0 .. MaxActions /\ acts \in 0 .. MaxActions /\ drops <= acts
      /\ calm \in BOOLEAN
      /\ prefetch \in {"none", "started", "done"} /\ viewing \in BOOLEAN
      /\ MaxActions \in Nat
  BY PostsAssumption DEF IInv, TypeOK
<1>2. Act => acts' \in 0 .. MaxActions /\ drops <= acts' /\ drops + 1 \in 0 .. MaxActions
             /\ drops + 1 <= acts'
  BY <1>1 DEF Act
<1>3. CreatePost => Goal
  BY <1>1 DEF CreatePost, history
<1>4. ASSUME NEW p \in Post, DeletePost(p)
      PROVE  Goal
  BY <1>1, <1>2, <1>4 DEF DeletePost, Disturb
<1>5. Close => Goal
  BY <1>1, <1>2 DEF Close
<1>6. Open => Goal
  BY <1>1 DEF Open, history
<1>7. HelloResumed => Goal
  BY <1>1 DEF HelloResumed, history
<1>8. HelloNew => Goal
  BY <1>1 DEF HelloNew, history
<1>9. ASSUME HandleEvent
      PROVE  Goal
  <2> DEFINE e == Head(events)
  <2>1. /\ UNCHANGED <<socket, drops, acts, prefetch, viewing>>
        /\ IF e.del THEN Deleted(e.post) ELSE Posted(e.post)
    BY <1>9 DEF HandleEvent
  <2> HIDE DEF e
  <2>2. calm' \in BOOLEAN
    BY <1>1, <2>1 DEF Deleted, Posted, ReceiveNew
  <2> QED BY <1>1, <2>1, <2>2
<1>10. ASSUME NEW p \in awaiting, ThreadLoaded(p)
       PROVE  Goal
  <2>1. calm' \in BOOLEAN
    BY <1>1, <1>10 DEF ThreadLoaded, ReceiveNew
  <2> QED BY <1>1, <1>10, <2>1 DEF ThreadLoaded, link
<1>11. ASSUME NEW p \in awaiting, ThreadFails(p)
       PROVE  Goal
  BY <1>1, <1>2, <1>11 DEF ThreadFails, link, history, Disturb
<1>12. Visit => Goal
  BY <1>1, <1>2 DEF Visit, Quietly, link
<1>13. ASSUME NEW p \in Post, VisitPermalink(p)
       PROVE  Goal
  BY <1>1, <1>2, <1>13 DEF VisitPermalink, Quietly, link
<1>14. Leave => Goal
  BY <1>1 DEF Leave, link
<1>15. Prefetch => Goal
  BY <1>1, <1>2 DEF Prefetch, Quietly, link
<1>16. ASSUME NEW kind, LoadMore(kind)
       PROVE  Goal
  BY <1>1, <1>2, <1>16 DEF LoadMore, Quietly, link
<1>17. ASSUME NEW r \in requests, Answer(r)
       PROVE  Goal
  <2>1. UNCHANGED <<socket, drops, prefetch, viewing, calm>>
    BY <1>17 DEF Answer, link
  <2>2. acts' = acts \/ (acts < MaxActions /\ acts' = acts + 1)
    BY <1>17 DEF Answer
  <2> QED BY <1>1, <2>1, <2>2
<1>18. ASSUME NEW r \in requests, Receive(r)
       PROVE  Goal
  <2>1. UNCHANGED <<socket, drops, viewing>>
    BY <1>18 DEF Receive, link
  <2>2. prefetch' = prefetch \/ prefetch' = "done"
    BY <1>18 DEF Receive
  <2>3. calm' \in BOOLEAN
    BY <1>1, <1>18 DEF Receive
  <2>4. acts' = acts \/ (acts < MaxActions /\ acts' = acts + 1)
    BY <1>18 DEF Receive, Clock
  <2> QED BY <1>1, <2>1, <2>2, <2>3, <2>4
<1>19. ASSUME NEW r \in requests, Fail(r)
       PROVE  Goal
  BY <1>1, <1>2, <1>19 DEF Fail, link, history, Disturb
<1> HIDE DEF Goal
<1>20. Goal
  BY <1>3, <1>4, <1>5, <1>6, <1>7, <1>8, <1>9, <1>10, <1>11, <1>12, <1>13, <1>14,
     <1>15, <1>16, <1>17, <1>18, <1>19 DEF Next
<1> QED BY <1>20 DEF Goal

LEMMA SetsSteps ==
  ASSUME IInv, Next
  PROVE  /\ known' \subseteq 1 .. posted' /\ awaiting' \subseteq 1 .. posted'
         /\ lost' \subseteq 1 .. posted' /\ dropped' \subseteq 1 .. posted'
         /\ leftOut' \subseteq 1 .. posted'
         /\ events' \in Seq([del : BOOLEAN, post : Post])
<1> DEFINE P == 1 .. posted
           P1 == 1 .. posted'
           E == [del : BOOLEAN, post : Post]
           Goal == /\ known' \subseteq P1 /\ awaiting' \subseteq P1
                   /\ lost' \subseteq P1 /\ dropped' \subseteq P1
                   /\ events' \in Seq(E)
<1>1. /\ known \subseteq P /\ awaiting \subseteq P /\ lost \subseteq P /\ dropped \subseteq P
      /\ events \in Seq(E)
  BY DEF IInv, TypeOK
<1>2. P \subseteq P1
  BY KnownSteps
<1>3. TypeOK /\ EventsInOrder /\ RootsClosed /\ RepliesWhole
  BY DEF IInv
<1>4. Live \subseteq P
  BY DEF Live
<1> HIDE DEF P, P1, E
<1>5. ASSUME UNCHANGED <<events, known, awaiting, lost, dropped>>
      PROVE  Goal
  BY <1>1, <1>2, <1>5
<1>6. ASSUME CreatePost
      PROVE  Goal
  <2>1. /\ [del |-> FALSE, post |-> posted + 1] \in E
        /\ events' = Append(events, [del |-> FALSE, post |-> posted + 1])
        /\ UNCHANGED <<known, awaiting, lost, dropped>>
    BY <1>3, <1>6, LiveSteps DEF E
  <2>2. events' \in Seq(E)
    BY <1>3, <2>1, EventsAppended DEF E
  <2> QED BY <1>1, <1>2, <2>1, <2>2
<1>7. ASSUME NEW p \in Post, DeletePost(p)
      PROVE  Goal
  <2>1. /\ [del |-> TRUE, post |-> p] \in E
        /\ events' = Append(events, [del |-> TRUE, post |-> p])
        /\ UNCHANGED <<known, awaiting, lost, dropped>>
    BY <1>3, <1>7, LiveSteps DEF E
  <2>2. events' \in Seq(E)
    BY <1>3, <2>1, EventsAppended DEF E
  <2> QED BY <1>1, <1>2, <2>1, <2>2
<1>8. ASSUME HelloNew
      PROVE  Goal
  <2>1. /\ events' = <<>> /\ UNCHANGED <<known, awaiting, dropped>>
        /\ lost' = lost \union {e.post : e \in {x \in ToSet(events) : ~x.del /\ Counts}}
    BY <1>8 DEF HelloNew, client
  <2>2. \A x \in ToSet(events) : x.post \in P
    <3>1. \A i \in DOMAIN events : events[i].post \in P
      <4> SUFFICES ASSUME NEW i \in DOMAIN events
                   PROVE  events[i].post \in P
        OBVIOUS
      <4>1. events[i] \in E
        BY <1>1
      <4>2. events[i].post \in Post /\ events[i].post <= posted
        BY <1>3, <4>1 DEF EventsInOrder, E
      <4>3. posted \in Nat
        BY <1>3, LiveSteps
      <4> QED BY <4>2, <4>3, PostsAssumption DEF P, Post
    <3> QED BY <3>1 DEF ToSet
  <2>3. <<>> \in Seq(E)
    OBVIOUS
  <2> QED BY <1>1, <1>2, <2>1, <2>2, <2>3
<1>9. ASSUME HandleEvent
      PROVE  Goal
  <2> DEFINE e == Head(events)
  <2>1. /\ e \in E /\ e.post \in P
        /\ events' \in Seq(E)
        /\ e.del => e.post \in deleted /\ Deleted(e.post)
        /\ ~e.del => Posted(e.post)
        /\ UNCHANGED <<posted, lost>>
    BY <1>3, <1>9, NextEvent DEF E, P
  <2> HIDE DEF e
  <2>2. e.post \in Post /\ e.del \in BOOLEAN
    BY <2>1 DEF E
  <2>3. e.del => known' \subseteq known /\ UNCHANGED <<awaiting, dropped>>
    BY <1>3, <2>1, <2>2, DeletedSteps
  <2>4. ~e.del => \/ awaiting' = awaiting \cup {e.post} /\ UNCHANGED <<known, dropped>>
                  \/ ReceiveNew(e.post) /\ known' = known \cup {e.post} /\ awaiting' = awaiting
    BY <1>3, <2>1, <2>2, PostedSteps
  <2>5. ReceiveNew(e.post) => dropped' \subseteq dropped \cup {e.post}
    BY DEF ReceiveNew
  <2> QED BY <1>1, <1>2, <2>1, <2>2, <2>3, <2>4, <2>5
<1>10. ASSUME NEW p \in awaiting, ThreadLoaded(p)
       PROVE  Goal
  <2>1. /\ awaiting' = awaiting \ {p} /\ known' = known \union Threads(Live, {p}) \union {p}
        /\ ReceiveNew(p) /\ UNCHANGED <<events, lost>>
    BY <1>10 DEF ThreadLoaded, link
  <2>2. dropped' \subseteq dropped \cup {p}
    BY <2>1 DEF ReceiveNew
  <2>3. Threads(Live, {p}) \subseteq P
    BY <1>4 DEF Threads
  <2> QED BY <1>1, <1>2, <2>1, <2>2, <2>3
<1>11. ASSUME NEW p \in awaiting, ThreadFails(p)
       PROVE  Goal
  <2>1. /\ awaiting' = awaiting \ {p} /\ dropped' \subseteq dropped \cup {p}
        /\ UNCHANGED <<events, lost, known>>
    BY <1>11 DEF ThreadFails, link, client
  <2> QED BY <1>1, <1>2, <2>1
<1>12. ASSUME NEW r \in requests, Receive(r)
       PROVE  Goal
  <2>1. /\ UNCHANGED <<events, lost, awaiting, dropped>> /\ r.answered
        /\ known' = known \/ known' = known \union r.reply.posts
    BY <1>12 DEF Receive, link
  <2>2. r.reply.posts \subseteq P
    BY <1>3, <2>1 DEF RepliesWhole, P
  <2> QED BY <1>1, <1>2, <2>1, <2>2
<1>13. ASSUME NEW r \in requests, Answer(r)
       PROVE  Goal
  BY <1>5, <1>13 DEF Answer, link, client
<1>14. ASSUME Asks
       PROVE  Goal
  BY <1>3, <1>5, <1>14, AskingSteps DEF Still
<1> HIDE DEF Goal
<1>15. Goal
  BY <1>6, <1>7, <1>8, <1>9, <1>10, <1>11, <1>12, <1>13, <1>14, NextCases
<1>16. leftOut' \subseteq P1
  <2>1. leftOut \subseteq P1
    BY <1>2, <1>3 DEF TypeOK, P
  <2>2. ASSUME NEW r \in requests, Answer(r)
        PROVE  leftOut' \subseteq P1
    <3>1. \A V, a : Omitted(r, V, a) \subseteq P
      BY <1>4 DEF Omitted
    <3> QED BY <1>2, <2>1, <2>2, <3>1, AnswerSteps
  <2> QED BY <2>1, <2>2, LeftOutSteps
<1> QED BY <1>15, <1>16 DEF Goal, P1, E

LEMMA ReceiveStamps ==
  ASSUME NEW r \in requests, Receive(r)
  PROVE  \E n \in Clock(r) : lastApi' = lastApi \/ lastApi' = {[r.at EXCEPT !.n = n]}
BY Zenon DEF Receive

LEMMA LastApiSteps ==
  ASSUME IInv, Next
  PROVE  lastApi' \subseteq Times /\ Cardinality(lastApi') <= 1
<1>1. TypeOK /\ RepliesWhole
  BY DEF IInv
<1>2. lastApi \subseteq Times /\ Cardinality(lastApi) <= 1
  BY <1>1 DEF TypeOK
<1>3. \A t \in Times : Cardinality({t}) <= 1 /\ {t} \subseteq Times
  <2>1. \A t \in Times : Cardinality({t}) = 1
    BY FS_Singleton
  <2> QED BY <2>1
<1>4. lastApi' = lastApi \/ \E t \in Times : lastApi' = {t}
  <2>1. ASSUME NEW r \in requests, Receive(r)
        PROVE  lastApi' = lastApi \/ \E t \in Times : lastApi' = {t}
    <3>1. PICK n \in Clock(r) : lastApi' = lastApi \/ lastApi' = {[r.at EXCEPT !.n = n]}
      BY <2>1, ReceiveStamps
    <3>2. r.at \in Times
      BY <1>1 DEF TypeOK
    <3>3. n \in 0 .. MaxPosts
      BY <3>2 DEF Clock, Times
    <3>4. [r.at EXCEPT !.n = n] \in Times
      BY <3>2, <3>3 DEF Times
    <3> QED BY <3>1, <3>4
  <2>2. CreatePost \/ (\E p \in Post : DeletePost(p)) \/ HelloNew => lastApi' = lastApi
    BY DEF CreatePost, DeletePost, HelloNew, client
  <2>3. HandleEvent \/ (\E p \in awaiting : ThreadLoaded(p) \/ ThreadFails(p))
          => lastApi' = lastApi
    BY DEF HandleEvent, ThreadLoaded, ThreadFails, client
  <2>4. \A r \in requests : Answer(r) => lastApi' = lastApi
    BY DEF Answer, client
  <2>5. Asks => lastApi' = lastApi
    BY DEF Asks, Close, Open, HelloResumed, Visit, VisitPermalink, Leave, Prefetch,
           LoadMore, Fail, client
  <2> QED BY <2>1, <2>2, <2>3, <2>4, <2>5, NextCases
<1> QED BY <1>2, <1>3, <1>4

----------------------------------------------------------------------------
(* The invariant and the theorems. *)

LEMMA InitialInvariant == Init => IInv
<1> SUFFICES ASSUME Init PROVE IInv
  OBVIOUS
<1>1. /\ posted = InitialPosts /\ deleted = {} /\ events = <<>> /\ socket = "ready"
      /\ drops = 0 /\ known = {} /\ loaded = FALSE /\ blocks = <<>> /\ lastApi = {}
      /\ prefetch = "none" /\ viewing = FALSE /\ requests = {} /\ awaiting = {}
      /\ lost = {} /\ dropped = {} /\ leftOut = {} /\ acts = 0 /\ calm = TRUE
  BY DEF Init
<1>2. /\ posted \in 0 .. MaxPosts /\ drops \in 0 .. MaxActions /\ acts \in 0 .. MaxActions
      /\ drops <= acts
  BY <1>1, PostsAssumption
<1>3. DOMAIN events = {} /\ DOMAIN blocks = {} /\ ToSet(blocks) = {}
      /\ events \in Seq([del : BOOLEAN, post : Post]) /\ blocks \in Seq(Blocks)
  BY <1>1 DEF ToSet
<1>4. Cardinality(lastApi) <= 1
  BY <1>1, FS_EmptySet
<1>5. TypeOK
  BY <1>1, <1>2, <1>3, <1>4 DEF TypeOK
<1>6. EventsInOrder /\ NoDuplicates
  BY <1>3 DEF EventsInOrder, NoDuplicates
<1>7. RootsClosed /\ AwaitedInOrder /\ RepliesWhole
  BY <1>1 DEF RootsClosed, AwaitedInOrder, RepliesWhole
<1>8. BlocksWhole
  BY <1>3 DEF BlocksWhole, Covered
<1> QED BY <1>2, <1>5, <1>6, <1>7, <1>8 DEF IInv

LEMMA InvariantStays == IInv /\ [Next]_vars => IInv'
<1> SUFFICES ASSUME IInv, [Next]_vars PROVE IInv'
  OBVIOUS
<1>1. CASE Next
  <2>1. TypeOK'
    <3>1. /\ posted' \in 0 .. MaxPosts /\ deleted' \subseteq 1 .. posted'
      BY <1>1, KnownSteps
    <3>2. loaded' \in BOOLEAN /\ blocks' \in Seq(Blocks) /\ (~loaded' => blocks' = <<>>)
      BY <1>1, BlocksSteps
    <3>3. requests' \subseteq [kind : Kinds, arg : 0 .. MaxPosts, at : Times,
                               answered : BOOLEAN, reply : Replies]
      BY <1>1, RepliesStayWhole DEF Requests
    <3>4. /\ socket' \in {"ready", "closed", "open"} /\ drops' \in 0 .. MaxActions
          /\ acts' \in 0 .. MaxActions /\ calm' \in BOOLEAN
          /\ prefetch' \in {"none", "started", "done"} /\ viewing' \in BOOLEAN
      BY <1>1, LinkSteps
    <3>5. /\ known' \subseteq 1 .. posted' /\ awaiting' \subseteq 1 .. posted'
          /\ lost' \subseteq 1 .. posted' /\ dropped' \subseteq 1 .. posted'
          /\ leftOut' \subseteq 1 .. posted'
          /\ events' \in Seq([del : BOOLEAN, post : Post])
      BY <1>1, SetsSteps
    <3>6. lastApi' \subseteq Times /\ Cardinality(lastApi') <= 1
      BY <1>1, LastApiSteps
    <3> QED BY <3>1, <3>2, <3>3, <3>4, <3>5, <3>6, Zenon DEF TypeOK
  <2>2. (drops <= acts)'
    BY <1>1, LinkSteps
  <2>3. EventsInOrder' /\ RootsClosed'
    BY <1>1, EventsStayInOrder, RootsStayClosed
  <2>4. AwaitedInOrder' /\ RepliesWhole' /\ BlocksWhole'
    BY <1>1, AwaitedStayInOrder, RepliesStayWhole, BlocksStayWhole
  <2>5. NoDuplicates'
    <3>1. NoDuplicates
      BY DEF IInv
    <3> QED BY <1>1, <3>1, BlocksSteps, NoDuplicatesOfBlocks
  <2> QED BY <2>1, <2>2, <2>3, <2>4, <2>5 DEF IInv
<1>2. CASE UNCHANGED vars
  <2>1. /\ UNCHANGED <<posted, deleted, events, socket, drops, known, loaded, blocks, lastApi>>
        /\ UNCHANGED <<prefetch, viewing, requests, awaiting, lost, dropped, acts, calm>>
        /\ leftOut' = leftOut
    BY <1>2 DEF vars
  <2>2. TypeOK'
    BY <2>1, Zenon DEF IInv, TypeOK
  <2>3. (drops <= acts)' /\ EventsInOrder' /\ RootsClosed'
    BY <2>1 DEF IInv, EventsInOrder, RootsClosed
  <2>4. \A p : Accounted(p)' <=> Accounted(p)
    BY <2>1, AccountedIs
  <2>5. Live' = Live
    BY <2>1 DEF Live
  <2>6. AwaitedInOrder' /\ BlocksWhole'
    BY <2>1, <2>4, <2>5 DEF IInv, AwaitedInOrder, BlocksWhole
  <2>7. RepliesWhole'
    <3>1. \A r \in requests : Fresh(r)' = Fresh(r)
      BY DEF Fresh
    <3> QED BY <2>1, <2>4, <2>5, <3>1 DEF IInv, RepliesWhole
  <2>8. NoDuplicates'
    BY <2>1 DEF IInv, NoDuplicates
  <2> QED BY <2>2, <2>3, <2>6, <2>7, <2>8 DEF IInv
<1> QED BY <1>1, <1>2

LEMMA InvariantHolds == Spec => []IInv
  BY InitialInvariant, InvariantStays, PTL DEF Spec

\* The variables have their types, and an unloaded channel has no blocks: the
\* reducers of posts.ts make blocks of posts from blocks of posts, whatever the
\* answers and the events.
THEOREM TypesHold == Spec => []TypeOK
<1>1. IInv => TypeOK
  BY DEF IInv
<1> QED BY <1>1, InvariantHolds, PTL

\* No block shows a post twice, however events and answers interleave and however
\* many posts and pages there are.
THEOREM NoDuplicatesHolds == Spec => []NoDuplicates
<1>1. IInv => NoDuplicates
  BY DEF IInv
<1> QED BY <1>1, InvariantHolds, PTL

LEMMA SpansCovers ==
  ASSUME TypeOK, NEW i \in DOMAIN blocks, NEW p \in Post, Spans(blocks[i], p)
  PROVE  Covered(ToSet(blocks), p)
<1> DEFINE b == blocks[i]
           S == ToSet(b.order)
<1>1. b \in Blocks /\ b \in ToSet(blocks)
  BY DEF TypeOK, ToSet
<1>2. b.order # <<>> /\ (b.recent \/ p < Max(S)) /\ (b.oldest \/ p > Min(S))
  BY DEF Spans
<1> HIDE DEF b
<1>3. b.order \in Seq(Post)
  BY <1>1 DEF Blocks
<1>4. S \in SUBSET Post /\ S # {}
  BY <1>2, <1>3, ToSetOfSequence
<1>5. S \in SUBSET Nat /\ (\A n \in S : n <= MaxPosts) /\ MaxPosts \in Nat
  BY <1>4, PostsAreFinite, PostsAssumption
<1> HIDE DEF S
<1>6. Max(S) \in S /\ Min(S) \in S
  BY <1>4, <1>5, MaxIsGreatest, MinIsLeast
<1> QED BY <1>1, <1>2, <1>6 DEF Covered, Covers, S

\* Every gap in what the client takes for a complete run of the channel is a post
\* whose event is on its way, was lost with a connection, or came before the
\* channel was loaded, or one that an answer left out: a page computed without it
\* by a replica that lags, from an old cache or between equal create_at, or a
\* synchronisation that the limit cut.  The client makes no gap of its own.
THEOREM NothingSkippedHolds == Spec => []NothingSkipped
<1>1. ASSUME IInv PROVE NothingSkipped
  <2> SUFFICES ASSUME NEW p \in Post, Gap(p)
               PROVE  Coming(p) \/ p \in lost \/ p \in dropped \/ p \in leftOut
    BY DEF NothingSkipped
  <2>1. p \in Live /\ ~InSomeBlock(p) /\ \E i \in DOMAIN blocks : Spans(blocks[i], p)
    BY DEF Gap
  <2>2. TypeOK /\ BlocksWhole
    BY <1>1 DEF IInv
  <2>3. Covered(ToSet(blocks), p)
    BY <2>1, <2>2, SpansCovers
  <2>4. Accounted(p)
    BY <2>1, <2>2, <2>3 DEF BlocksWhole
  <2> QED BY <2>1, <2>4 DEF Accounted, Excused
<1> QED BY <1>1, InvariantHolds, PTL

\* Once the client has a recent block it keeps one: a new recent block takes the
\* mark from the old one and is merged with it or stays.
THEOREM RecentStaysHolds == Spec => RecentStays
<1>1. ASSUME IInv, [Next]_vars PROVE HasRecent => HasRecent'
  <2> SUFFICES ASSUME HasRecent PROVE HasRecent'
    OBVIOUS
  <2>1. CASE Next
    <3>1. blocks \in Seq(Blocks)
      BY <1>1 DEF IInv, TypeOK
    <3>2. \E b \in ToSet(blocks) : b.recent
      <4> DEFINE i == RecentIndex(blocks)
      <4>1. i \in DOMAIN blocks /\ blocks[i].recent
        BY <3>1, RecentIndexFinds DEF HasRecent
      <4> QED BY <4>1 DEF ToSet
    <3>3. blocks' \in Seq(Blocks) /\ \E b \in ToSet(blocks') : b.recent
      BY <1>1, <2>1, <3>2, BlocksSteps
    <3>4. RecentIndex(blocks') # 0
      BY <3>3, RecentIndexFinds
    <3> QED BY <3>4 DEF HasRecent
  <2>2. CASE UNCHANGED vars
    BY <2>2 DEF vars, HasRecent
  <2> QED BY <1>1, <2>1, <2>2
<1>2. IInv /\ [Next]_vars => [HasRecent => HasRecent']_vars
  BY <1>1
<1> QED BY <1>2, InvariantHolds, PTL DEF Spec, RecentStays

\* The answer to a synchronisation leaves none of its posts out of the recent block
\* that is newer than the oldest of the block.
THEOREM SyncClosesGapsHolds == Spec => SyncClosesGaps
<1> DEFINE Closes ==
         \A r \in requests \ requests' :
            LET old == blocks[RecentIndex(blocks)].order
            IN  (/\ r.kind = "since" /\ r.answered
                 /\ LastIsOldest(blocks) /\ ToSet(old) \subseteq known) =>
                   \A p \in ToSet(r.reply.order) : p > Last(old) => ~Gap(p)'
<1>1. ASSUME IInv, [Next]_vars PROVE Closes
  <2> SUFFICES ASSUME NEW r \in requests \ requests',
                      r.kind = "since", r.answered, LastIsOldest(blocks),
                      ToSet(blocks[RecentIndex(blocks)].order) \subseteq known,
                      NEW p \in ToSet(r.reply.order),
                      p > Last(blocks[RecentIndex(blocks)].order)
               PROVE  ~Gap(p)'
    OBVIOUS
  <2> DEFINE i == RecentIndex(blocks)
             old == blocks[i].order
             kn == known \union r.reply.posts
             next == receivedPostsSince(blocks, r.reply, kn)
  <2>1. TypeOK /\ RepliesWhole
    BY <1>1 DEF IInv
  <2>2. Next
    BY <1>1 DEF vars
  <2>3. Receive(r)
    <3>1. CreatePost \/ (\E q \in Post : DeletePost(q)) => requests' = requests
      BY <2>1, LiveSteps
    <3>2. HelloNew => requests \subseteq requests'
      BY DEF HelloNew
    <3>3. HandleEvent => requests' = requests
      BY DEF HandleEvent
    <3>4. (\E q \in awaiting : ThreadLoaded(q) \/ ThreadFails(q)) => requests' = requests
      BY DEF ThreadLoaded, ThreadFails
    <3>5. \A s \in requests : Answer(s) => ~s.answered /\ requests \ {s} \subseteq requests'
      BY DEF Answer
    <3>6. \A s \in requests : Receive(s) => requests' = requests \ {s}
      BY DEF Receive
    <3>7. Asks => requests \subseteq requests'
                  \/ \E s \in requests : ~s.answered /\ requests \ {s} \subseteq requests'
      <4>1. \A s \in requests : Fail(s) => ~s.answered /\ requests \ {s} \subseteq requests'
        BY DEF Fail
      <4>2. Close \/ Open \/ HelloResumed \/ Visit \/ (\E q \in Post : VisitPermalink(q))
              \/ Leave \/ Prefetch \/ LoadMore("before") \/ LoadMore("after")
              => requests \subseteq requests'
        BY DEF Close, Open, HelloResumed, Visit, VisitPermalink, Leave, Prefetch, LoadMore
      <4> QED BY <4>1, <4>2 DEF Asks
    <3> QED BY <2>2, <3>1, <3>2, <3>3, <3>4, <3>5, <3>6, <3>7, NextCases
  <2>4. i # 0 /\ old # <<>> /\ ToSet(old) \subseteq kn
    BY DEF LastIsOldest
  <2>5. blocks \in Seq(Blocks) /\ r.reply \in Replies
    BY <2>1 DEF TypeOK
  <2>6. /\ next.ok
        /\ \A q \in ToSet(r.reply.order) \cap kn :
             q > Last(old) => q \in PostsOf(ToSet(next.blocks))
    BY <2>4, <2>5, ReceivedSince
  <2>7. blocks' = next.blocks
    <3>1. Reduce(r, kn) = next
      BY DEF Reduce
    <3> HIDE DEF next, kn
    <3>2. blocks' = Reduce(r, kn).blocks
      BY <2>3, <2>6, <3>1 DEF Receive, kn
    <3> QED BY <3>1, <3>2
  <2>8. UNCHANGED <<posted, deleted>>
    BY <2>3 DEF Receive, server
  <2>9. Live' = Live
    BY <2>1, <2>8, LiveSteps
  <2>10. p \in Live => p \in kn
    BY <2>1 DEF RepliesWhole
  <2>11. p \in Live => p \in PostsOf(ToSet(blocks'))
    BY <2>6, <2>7, <2>10
  <2>12. p \in PostsOf(ToSet(blocks')) => InSomeBlock(p)'
    BY DEF InSomeBlock, Has, PostsOf, ToSet
  <2> QED BY <2>9, <2>11, <2>12 DEF Gap
<1> HIDE DEF Closes
<1>2. IInv /\ [Next]_vars => [Closes]_vars
  BY <1>1
<1>3. Spec => [][Closes]_vars
  BY <1>2, InvariantHolds, PTL DEF Spec
<1> QED BY <1>3 DEF SyncClosesGaps, Closes

----------------------------------------------------------------------------
(* What an answer shows, and where.  The rest of the module is about posts *)
(* that are lost with a connection: while the user looks at the newest     *)
(* posts and nothing fails, every one of them is asked for.                *)

\* The blocks C are the blocks B with those of F, and show nothing else.
Fills(C, B, F) ==
  /\ PostsOf(C) \subseteq PostsOf(B) \cup PostsOf(F)
  /\ HasTop(B) => HasTop(C)
  /\ \A p \in Post : Enclosed(C, p) =>
       Enclosed(B, p) \/ p \in PostsOf(C) \/ (Enclosed(F, p) /\ p \notin PostsOf(F))

LEMMA FillsNothing == ASSUME NEW B, NEW F PROVE Fills(B, B, F)
  BY DEF Fills

LEMMA AppendFills ==
  ASSUME NEW bs \in Seq(Blocks), NEW us \in Seq(Blocks), NEW f \in Blocks, NEW kn,
         PostsOf(ToSet(us)) = PostsOf(ToSet(bs)),
         \A p \in Post : Enclosed(ToSet(us), p) => Enclosed(ToSet(bs), p),
         HasTop(ToSet(bs)) => HasTop(ToSet(us) \cup {f}),
         mergePostBlocks(Append(us, f), kn).ok
  PROVE  LET C == ToSet(mergePostBlocks(Append(us, f), kn).blocks)
         IN  Fills(C, ToSet(bs), {f}) /\ ToSet(f.order) \subseteq PostsOf(C)
<1> DEFINE ws == Append(us, f)
           next == mergePostBlocks(ws, kn)
           B == ToSet(bs)
           U == ToSet(us)
           C == ToSet(next.blocks)
<1>1. ws \in Seq(Blocks) /\ ToSet(ws) = U \cup {f}
  BY ToSetOfSequence
<1>2. Gathers(C, U \cup {f})
  <2> HIDE DEF ws, U
  <2>1. next.ok
    BY DEF ws
  <2> QED BY <1>1, <2>1, MergePostBlocksGathers
<1>3. /\ PostsOf(U) = PostsOf(B)
      /\ \A p \in Post : Enclosed(U, p) => Enclosed(B, p)
      /\ HasTop(B) => HasTop(U \cup {f})
  OBVIOUS
<1> HIDE DEF ws, next, B, U, C
<1>4. PostsOf(U \cup {f}) = PostsOf(U) \cup ToSet(f.order) /\ PostsOf({f}) = ToSet(f.order)
  BY DEF PostsOf
<1>5. PostsOf(C) = PostsOf(B) \cup ToSet(f.order)
  BY <1>2, <1>3, <1>4 DEF Gathers
<1>6. ASSUME NEW p \in Post, Enclosed(C, p)
      PROVE  Enclosed(B, p) \/ p \in PostsOf(C) \/ (Enclosed({f}, p) /\ p \notin PostsOf({f}))
  <2>1. Enclosed(U \cup {f}, p) \/ p \in PostsOf(U \cup {f})
    BY <1>2, <1>6 DEF Gathers
  <2>2. Enclosed(U \cup {f}, p) => Enclosed(U, p) \/ Enclosed({f}, p)
    BY DEF Enclosed
  <2> QED BY <1>3, <1>4, <1>5, <2>1, <2>2
<1>7. HasTop(B) => HasTop(C)
  BY <1>2, <1>3 DEF Gathers
<1>8. Fills(C, B, {f})
  BY <1>4, <1>5, <1>6, <1>7 DEF Fills
<1> QED BY <1>5, <1>8 DEF ws, next, B, C

LEMMA ReceivedPage ==
  ASSUME NEW bs \in Seq(Blocks), NEW a \in Replies, NEW recent \in BOOLEAN, NEW kn,
         receivedPostsInChannel(bs, a, recent, kn).ok, bs = <<>> \/ loaded
  PROVE  LET C == ToSet(receivedPostsInChannel(bs, a, recent, kn).blocks)
         IN  /\ Fills(C, ToSet(bs), {Block(a.order, recent, a.oldest)})
             /\ a.order # <<>> => Head(a.order) \in PostsOf(C)
<1> DEFINE i == RecentIndex(bs)
           f == Block(a.order, recent, a.oldest)
           us == IF recent /\ i # 0 THEN [bs EXCEPT ![i].recent = FALSE] ELSE bs
           same == /\ recent /\ i # 0
                   /\ Len(bs[i].order) = Len(a.order)
                   /\ bs[i].order # <<>> => /\ Head(bs[i].order) = Head(a.order)
                                            /\ Last(bs[i].order) = Last(a.order)
           next == receivedPostsInChannel(bs, a, recent, kn)
           merged == mergePostBlocks(Append(us, f), kn)
<1>1. \/ a.order = <<>> /\ next = [ok |-> TRUE, blocks |-> bs]
      \/ same /\ next = [ok |-> TRUE, blocks |-> bs]
      \/ ~(a.order = <<>> /\ loaded) /\ next = merged
  BY DEF receivedPostsInChannel, Unchanged
<1>2. f \in Blocks /\ f.recent = recent /\ f.order = a.order /\ a.order \in Seq(Post)
  BY DEF Replies, Blocks, Block
<1>3. CASE a.order = <<>> /\ next = [ok |-> TRUE, blocks |-> bs]
  BY <1>3, FillsNothing
<1>4. CASE same /\ next = [ok |-> TRUE, blocks |-> bs]
  <2> DEFINE o == bs[i].order
  <2>1. i \in DOMAIN bs /\ bs[i] \in Blocks /\ bs[i] \in ToSet(bs)
    <3>1. i \in DOMAIN bs /\ bs[i] \in Blocks
      BY <1>4, RecentIndexFinds
    <3> HIDE DEF i
    <3> QED BY <3>1 DEF ToSet
  <2>2. o \in Seq(Post)
    BY <2>1 DEF Blocks
  <2>3. ToSet(o) \subseteq PostsOf(ToSet(bs))
    BY <2>1 DEF PostsOf
  <2>4. Len(o) = Len(a.order) /\ (o # <<>> => Head(o) = Head(a.order))
    BY <1>4
  <2> HIDE DEF o
  <2>5. a.order # <<>> => o # <<>>
    BY <1>2, <2>2, <2>4
  <2>6. a.order # <<>> => Head(a.order) \in ToSet(o)
    BY <2>2, <2>4, <2>5, EndsOfSequence
  <2> HIDE DEF next, f, same
  <2>7. next.blocks = bs
    BY <1>4
  <2>8. Fills(ToSet(next.blocks), ToSet(bs), {f})
    BY <2>7, FillsNothing
  <2> QED BY <2>3, <2>6, <2>7, <2>8 DEF next, f
<1>5. CASE ~(a.order = <<>> /\ loaded) /\ next = merged
  <2>1. /\ us \in Seq(Blocks)
        /\ PostsOf(ToSet(us)) = PostsOf(ToSet(bs))
        /\ \A p \in Post : Enclosed(ToSet(us), p) => Enclosed(ToSet(bs), p)
        /\ recent \/ us = bs
    <3>1. CASE us = bs
      BY <3>1
    <3>2. CASE recent /\ i # 0
      <4> DEFINE o == bs[i]
                 b == [o EXCEPT !.recent = FALSE]
      <4>1. i \in DOMAIN bs /\ o \in Blocks
        BY <3>2, RecentIndexFinds
      <4>2. b \in Blocks /\ b.order = o.order /\ b.oldest = o.oldest
        BY <4>1 DEF Blocks
      <4>3. us = [bs EXCEPT ![i] = b]
        BY <3>2
      <4>4. o \in ToSet(bs)
        BY <4>1 DEF ToSet
      <4> HIDE DEF i, o, b, us
      <4>5. /\ us \in Seq(Blocks) /\ ToSet(us) \subseteq ToSet(bs) \cup {b}
            /\ b \in ToSet(us) /\ ToSet(bs) \subseteq ToSet(us) \cup {bs[i]}
        BY <4>1, <4>2, <4>3, ReplaceOne
      <4>6. bs[i] = o
        BY DEF o
      <4>7. PostsOf(ToSet(us)) \subseteq PostsOf(ToSet(bs))
        BY <4>2, <4>4, <4>5 DEF PostsOf
      <4>8. PostsOf(ToSet(bs)) \subseteq PostsOf(ToSet(us))
        BY <4>2, <4>5, <4>6 DEF PostsOf
      <4>9. \A p \in Post : Inside(b, p) => Inside(o, p)
        BY <4>2 DEF Inside
      <4>10. \A p \in Post : Enclosed(ToSet(us), p) => Enclosed(ToSet(bs), p)
        BY <4>4, <4>5, <4>9 DEF Enclosed
      <4> QED BY <3>2, <4>5, <4>7, <4>8, <4>10
    <3> QED BY <3>1, <3>2
  <2>2. HasTop(ToSet(bs)) => HasTop(ToSet(us) \cup {f})
    <3>1. ASSUME HasTop(ToSet(bs)) PROVE a.order # <<>>
      <4>1. bs # <<>>
        <5>1. ToSet(bs) # {}
          BY <3>1 DEF HasTop
        <5> QED BY <5>1, ToSetOfSequence
      <4> QED BY <1>5, <4>1
    <3> HIDE DEF us, f
    <3> QED BY <1>2, <2>1, <3>1 DEF HasTop
  <2>3. merged.ok
    BY <1>5
  <2> HIDE DEF us, f, next
  <2>4. /\ Fills(ToSet(merged.blocks), ToSet(bs), {f})
        /\ ToSet(f.order) \subseteq PostsOf(ToSet(merged.blocks))
    BY <1>2, <2>1, <2>2, <2>3, AppendFills
  <2>5. a.order # <<>> => Head(a.order) \in ToSet(f.order)
    BY <1>2, EndsOfSequence
  <2> QED BY <1>5, <2>4, <2>5 DEF next, f
<1> QED BY <1>1, <1>3, <1>4, <1>5

\* The reducer for an answer, when it does not fail
LEMMA ReduceFills ==
  ASSUME TypeOK, RepliesWhole, NEW r \in requests, NEW kn, Reduce(r, kn).ok
  PROVE  LET C == ToSet(Reduce(r, kn).blocks)
             B == ToSet(blocks)
         IN  /\ r.kind = "since" => TakesNewer(C, B, ToSet(r.reply.order), kn)
             /\ r.kind # "since" => Fills(C, B, Fresh(r))
             /\ r.kind \notin {"since", "before", "after"} /\ r.reply.order # <<>>
                  => Head(r.reply.order) \in PostsOf(C)
<1>1. /\ blocks \in Seq(Blocks) /\ r.reply \in Replies /\ r.kind \in Kinds
      /\ blocks = <<>> \/ loaded
  BY DEF TypeOK
<1>2. r.kind \in {"before", "after"} => r.arg \in Post
  BY DEF RepliesWhole
<1> DEFINE a == r.reply
<1>3. \A f \in Blocks : mergePostBlocks(Append(blocks, f), kn).ok =>
        Fills(ToSet(mergePostBlocks(Append(blocks, f), kn).blocks), ToSet(blocks), {f})
  <2> SUFFICES ASSUME NEW f \in Blocks, mergePostBlocks(Append(blocks, f), kn).ok
               PROVE  Fills(ToSet(mergePostBlocks(Append(blocks, f), kn).blocks), ToSet(blocks), {f})
    OBVIOUS
  <2>1. HasTop(ToSet(blocks)) => HasTop(ToSet(blocks) \cup {f})
    BY DEF HasTop
  <2> DEFINE B == ToSet(blocks)
             U == ToSet(blocks)
  <2>2. PostsOf(U) = PostsOf(B) /\ \A p \in Post : Enclosed(U, p) => Enclosed(B, p)
    OBVIOUS
  <2> QED BY <1>1, <2>1, <2>2, AppendFills
<1>4. CASE r.kind = "since"
  <2>1. Reduce(r, kn) = receivedPostsSince(blocks, a, kn)
    BY <1>4 DEF Reduce
  <2> QED BY <1>1, <1>4, <2>1, ReceivedSince
<1>5. CASE r.kind = "before"
  <2> DEFINE f == Block(<<r.arg>> \o a.order, FALSE, a.oldest)
  <2>1. Reduce(r, kn) = receivedPostsBefore(blocks, a, r.arg, kn) /\ Fresh(r) = {f}
    BY <1>5 DEF Reduce, Fresh
  <2>2. f \in Blocks
    <3>1. a.order \in Seq(Post) /\ a.oldest \in BOOLEAN /\ r.arg \in Post
      BY <1>1, <1>2, <1>5 DEF Replies
    <3>2. <<r.arg>> \o a.order \in Seq(Post)
      BY <3>1
    <3> QED BY <3>1, <3>2 DEF Block, Blocks
  <2>3. \/ Reduce(r, kn) = [ok |-> TRUE, blocks |-> blocks]
        \/ Reduce(r, kn) = mergePostBlocks(Append(blocks, f), kn)
    BY <2>1 DEF receivedPostsBefore, Unchanged
  <2> HIDE DEF f
  <2>4. Fills(ToSet(Reduce(r, kn).blocks), ToSet(blocks), {f})
    BY <1>3, <2>2, <2>3, FillsNothing
  <2> QED BY <1>5, <2>1, <2>4
<1>6. CASE r.kind = "after"
  <2> DEFINE f == Block(Append(a.order, r.arg), a.recent, FALSE)
  <2>1. Reduce(r, kn) = receivedPostsAfter(blocks, a, r.arg, kn) /\ Fresh(r) = {f}
    BY <1>6 DEF Reduce, Fresh
  <2>2. f \in Blocks
    <3>1. a.order \in Seq(Post) /\ a.recent \in BOOLEAN /\ r.arg \in Post
      BY <1>1, <1>2, <1>6 DEF Replies
    <3>2. Append(a.order, r.arg) \in Seq(Post)
      BY <3>1
    <3> QED BY <3>1, <3>2 DEF Block, Blocks
  <2>3. \/ Reduce(r, kn) = [ok |-> TRUE, blocks |-> blocks]
        \/ Reduce(r, kn) = mergePostBlocks(Append(blocks, f), kn)
    BY <2>1 DEF receivedPostsAfter, Unchanged
  <2> HIDE DEF f
  <2>4. Fills(ToSet(Reduce(r, kn).blocks), ToSet(blocks), {f})
    BY <1>3, <2>2, <2>3, FillsNothing
  <2> QED BY <1>6, <2>1, <2>4
<1>7. CASE r.kind \in {"latest", "page0"}
  <2>1. /\ Reduce(r, kn) = receivedPostsInChannel(blocks, a, TRUE, kn)
        /\ Fresh(r) = {Block(a.order, TRUE, a.oldest)}
    BY <1>7 DEF Reduce, Fresh
  <2>2. r.kind # "since"
    BY <1>7
  <2> QED BY <1>1, <2>1, <2>2, ReceivedPage
<1>8. CASE r.kind \notin {"since", "before", "after", "latest", "page0"}
  <2>1. /\ Reduce(r, kn) = receivedPostsInChannel(blocks, a, a.recent, kn)
        /\ Fresh(r) = {Block(a.order, a.recent, a.oldest)}
    BY <1>8 DEF Reduce, Fresh
  <2>2. a.recent \in BOOLEAN /\ r.kind # "since"
    BY <1>1, <1>8 DEF Replies
  <2> QED BY <1>1, <2>1, <2>2, ReceivedPage
<1> QED BY <1>4, <1>5, <1>6, <1>7, <1>8

----------------------------------------------------------------------------
(* The invariant of a calm history. *)

Shown == PostsOf(ToSet(blocks))
Queued(p) == [del |-> FALSE, post |-> p] \in ToSet(events)

\* The blocks reach post p or a newer one.
Reached(p) == \E q \in Shown : q >= p

\* Post p waits for its thread, or a synchronisation will bring it or has it, or the
\* server has left it out of an answer.
Seeks(r, p) ==
  r.kind = "since" /\ r.arg < p /\ (r.answered => p \in ToSet(r.reply.order))
Sought(p) ==
  \/ p \in leftOut
  \/ loaded /\ (p \in awaiting \/ \E r \in requests : Seeks(r, p))

Kept(p) == Reached(p) \/ Sought(p)

\* A post has one event, which is queued, waits for a thread, is lost or is dropped,
\* and the events come in the order of the posts.
EventsOnce ==
  /\ \A i, j \in DOMAIN events :
       i < j /\ ~events[i].del /\ ~events[j].del => events[i].post < events[j].post
  /\ \A p \in Post : Queued(p) => /\ p \notin lost /\ p \notin dropped
                                  /\ \A x \in awaiting : x < p
  /\ lost \cap (dropped \cup awaiting) = {}

LinkUp == (socket # "ready" \/ lost # {}) => drops > 0

\* Nothing is deleted, and from the first disconnection on the user looks at a
\* recent block with posts.
CalmLink == deleted = {} /\ (drops > 0 => viewing /\ HasTop(ToSet(blocks)))

OnTop == NewestIsRecent(blocks) /\ OneIsRecent(blocks)
InStore == Shown \subseteq known

\* A request is for what is in the store, and its answer has all posts of the run
\* it stands for but newer ones and those left out; no post that is newer than its
\* newest one and was not left out is as old as the time stamped with it.
Exact(r) ==
  /\ r.at.n <= posted
  /\ r.kind = "since" => r.arg <= posted
  /\ r.kind \in {"before", "after"} => r.arg \in known
  /\ r.answered =>
       /\ ToSet(r.reply.order) \subseteq r.reply.posts
       /\ \A f \in Fresh(r) : \A p \in 1 .. posted : Covers(f, p) =>
            p \in ToSet(f.order) \/ p \in leftOut \/ \A q \in ToSet(f.order) : q < p
       /\ Stamps(r) /\ r.kind # "since" => \A p \in 1 .. posted : p <= r.at.n =>
            p \in leftOut \/ (r.reply.order # <<>> /\ Head(r.reply.order) >= p)
       /\ r.kind = "since" => \A p \in 1 .. posted :
            /\ r.arg < p
            /\ p <= r.at.n \/ \E x \in ToSet(r.reply.order) : x >= p
            => p \in ToSet(r.reply.order) \/ p \in leftOut

RepliesExact == \A r \in requests : Exact(r)

\* A gap that is older than a post of the block is sought, or its event was dropped.
GapsSought ==
  \A p \in 1 .. posted : Enclosed(ToSet(blocks), p) /\ p \notin Shown => Sought(p) \/ p \in dropped

\* What a synchronisation does not ask for, because it is older than the newest post
\* shown or than the last call, is kept.
AskedKept == \A r \in requests : r.kind = "since" => \A p \in 1 .. posted : p <= r.arg => Kept(p)
StampKept == \A t \in lastApi : t.n <= posted /\ \A p \in 1 .. posted : p <= t.n => Kept(p)
LostKept == \A p \in lost : Kept(p)

Watched ==
  /\ CalmLink /\ OnTop /\ InStore /\ RepliesExact
  /\ GapsSought /\ AskedKept /\ StampKept /\ LostKept

CalmInv == EventsOnce /\ LinkUp /\ (calm => Watched)

----------------------------------------------------------------------------
(* The events. *)

LEMMA NextEventOnce ==
  ASSUME TypeOK, EventsOnce, HandleEvent
  PROVE  LET e == Head(events)
         IN  /\ \A i, j \in DOMAIN events' :
                  i < j /\ ~events'[i].del /\ ~events'[j].del => events'[i].post < events'[j].post
             /\ \A p \in Post : Queued(p)' => Queued(p) /\ (~e.del => e.post < p)
             /\ ~e.del => Queued(e.post)
<1> DEFINE E == [del : BOOLEAN, post : Post]
           e == Head(events)
<1>1. events \in Seq(E) /\ events # <<>> /\ events' = Tail(events)
  BY DEF TypeOK, HandleEvent
<1>2. /\ DOMAIN events = 1 .. Len(events) /\ Len(events) \in Nat /\ 1 \in 1 .. Len(events)
      /\ e = events[1] /\ e \in E /\ events' \in Seq(E)
      /\ Len(events') = Len(events) - 1
      /\ \A i \in 1 .. Len(events') : events'[i] = events[i + 1]
  BY <1>1, TailOfSequence
<1>3. DOMAIN events' = 1 .. Len(events')
  BY <1>2
<1>4. \A i \in DOMAIN events' : i + 1 \in DOMAIN events /\ 1 < i + 1 /\ events'[i] = events[i + 1]
  BY <1>2, <1>3
<1>5. \A i, j \in DOMAIN events :
        i < j /\ ~events[i].del /\ ~events[j].del => events[i].post < events[j].post
  BY DEF EventsOnce
<1>6. ASSUME NEW i \in DOMAIN events', NEW j \in DOMAIN events', i < j,
             ~events'[i].del, ~events'[j].del
      PROVE  events'[i].post < events'[j].post
  <2>1. i + 1 < j + 1
    BY <1>3, <1>6
  <2> QED BY <1>4, <1>5, <1>6, <2>1
<1>7. ASSUME NEW p \in Post, Queued(p)'
      PROVE  Queued(p) /\ (~e.del => e.post < p)
  <2>1. PICK i \in DOMAIN events' : events'[i] = [del |-> FALSE, post |-> p]
    BY <1>7 DEF Queued, ToSet
  <2>2. i + 1 \in DOMAIN events /\ 1 < i + 1 /\ events[i + 1] = [del |-> FALSE, post |-> p]
    BY <1>4, <2>1
  <2>3. Queued(p)
    BY <2>2 DEF Queued, ToSet
  <2>4. ~events[i + 1].del /\ events[i + 1].post = p
    BY <2>2
  <2>5. ~e.del => events[1].post < events[i + 1].post
    BY <1>2, <1>5, <2>2, <2>4
  <2> HIDE DEF e
  <2> QED BY <1>2, <2>3, <2>4, <2>5
<1>8. ~e.del => Queued(e.post)
  <2>1. ~e.del => e = [del |-> FALSE, post |-> e.post]
    BY <1>2
  <2>2. e \in ToSet(events)
    BY <1>2 DEF ToSet
  <2> HIDE DEF e
  <2> QED BY <2>1, <2>2 DEF Queued
<1> QED BY <1>6, <1>7, <1>8

LEMMA EventsStayOnce ==
  ASSUME IInv, EventsOnce, Next
  PROVE  EventsOnce'
<1> DEFINE E == [del : BOOLEAN, post : Post]
<1>1. TypeOK /\ EventsInOrder /\ RootsClosed /\ RepliesWhole
  BY DEF IInv
<1>2. /\ posted \in Nat /\ awaiting \subseteq 1 .. posted /\ lost \subseteq 1 .. posted
      /\ dropped \subseteq 1 .. posted /\ 1 .. posted \subseteq Post
      /\ events \in Seq(E) /\ DOMAIN events = 1 .. Len(events) /\ Len(events) \in Nat
  <2>1. /\ awaiting \subseteq 1 .. posted /\ lost \subseteq 1 .. posted
        /\ dropped \subseteq 1 .. posted /\ events \in Seq(E)
    BY <1>1 DEF TypeOK
  <2>2. posted \in Nat /\ 1 .. posted \subseteq Post
    BY <1>1, LiveSteps
  <2> HIDE DEF E
  <2> QED BY <2>1, <2>2
<1>3. /\ \A i, j \in DOMAIN events :
           i < j /\ ~events[i].del /\ ~events[j].del => events[i].post < events[j].post
      /\ \A p \in Post : Queued(p) => /\ p \notin lost /\ p \notin dropped
                                      /\ \A x \in awaiting : x < p
      /\ lost \cap (dropped \cup awaiting) = {}
  BY DEF EventsOnce
<1>4. ASSUME UNCHANGED <<events, lost, dropped, awaiting>>
      PROVE  EventsOnce'
  BY <1>4 DEF EventsOnce, Queued
<1>5. ASSUME NEW e \in E, events' = Append(events, e), UNCHANGED <<lost, dropped, awaiting>>,
             ~e.del => e.post = posted + 1
      PROVE  EventsOnce'
  <2> HIDE DEF E
  <2>1. /\ DOMAIN events' = 1 .. Len(events) + 1
        /\ \A i \in 1 .. Len(events) : events'[i] = events[i]
        /\ events'[Len(events) + 1] = e
    BY <1>2, <1>5
  <2>2. \A i \in DOMAIN events : events[i].post <= posted /\ events[i].post \in Nat
    <3> SUFFICES ASSUME NEW i \in DOMAIN events
                 PROVE  events[i].post <= posted /\ events[i].post \in Nat
      OBVIOUS
    <3>1. events[i] \in E
      BY <1>2
    <3>2. events[i].post \in Nat
      BY <3>1, PostIsNat DEF E
    <3> QED BY <1>1, <3>2 DEF EventsInOrder
  <2>3. ASSUME NEW i \in DOMAIN events', NEW j \in DOMAIN events', i < j,
               ~events'[i].del, ~events'[j].del
        PROVE  events'[i].post < events'[j].post
    <3>1. i \in 1 .. Len(events) /\ events'[i] = events[i]
      BY <1>2, <2>1, <2>3
    <3>2. CASE j \in 1 .. Len(events)
      <4>1. events'[j] = events[j]
        BY <2>1, <3>2
      <4> HIDE DEF E
      <4> QED BY <1>2, <1>3, <2>3, <3>1, <3>2, <4>1
    <3>3. CASE j = Len(events) + 1
      <4>1. events'[j].post = posted + 1
        BY <1>5, <2>1, <2>3, <3>3
      <4>2. events[i].post <= posted /\ events[i].post \in Nat
        BY <1>2, <2>2, <3>1
      <4> QED BY <1>2, <3>1, <4>1, <4>2
    <3> QED BY <1>2, <2>1, <3>2, <3>3
  <2>4. ToSet(events') = ToSet(events) \cup {e}
    BY <1>1, <1>5, EventsAppended DEF E
  <2>5. ASSUME NEW p \in Post, Queued(p)', ~Queued(p)
        PROVE  p = posted + 1
    <3>1. [del |-> FALSE, post |-> p] = e
      BY <2>4, <2>5 DEF Queued
    <3>2. ~e.del /\ e.post = p
      BY <3>1
    <3> QED BY <1>5, <3>2
  <2>6. ASSUME NEW p \in Post, Queued(p)'
        PROVE  p \notin lost /\ p \notin dropped /\ \A x \in awaiting : x < p
    <3>1. p = posted + 1 => p \notin lost /\ p \notin dropped /\ \A x \in awaiting : x < p
      BY <1>2
    <3> QED BY <1>3, <2>5, <2>6, <3>1
  <2> HIDE DEF E
  <2> QED BY <1>3, <1>5, <2>3, <2>6 DEF EventsOnce
<1>6. ASSUME CreatePost
      PROVE  EventsOnce'
  <2>1. /\ [del |-> FALSE, post |-> posted + 1] \in E
        /\ events' = Append(events, [del |-> FALSE, post |-> posted + 1])
        /\ UNCHANGED <<lost, dropped, awaiting>>
    BY <1>1, <1>6, LiveSteps
  <2> HIDE DEF E
  <2> QED BY <1>5, <2>1
<1>7. ASSUME NEW q \in Post, DeletePost(q)
      PROVE  EventsOnce'
  <2>1. /\ [del |-> TRUE, post |-> q] \in E
        /\ events' = Append(events, [del |-> TRUE, post |-> q])
        /\ UNCHANGED <<lost, dropped, awaiting>>
    BY <1>1, <1>7, LiveSteps
  <2> HIDE DEF E
  <2> QED BY <1>5, <2>1
<1>8. ASSUME HelloNew
      PROVE  EventsOnce'
  <2>1. /\ events' = <<>> /\ UNCHANGED <<dropped, awaiting>>
        /\ lost' = lost \union {e.post : e \in {x \in ToSet(events) : ~x.del /\ Counts}}
    BY <1>8 DEF HelloNew, client
  <2>2. DOMAIN events' = {}
    BY <2>1
  <2>3. \A p : ~Queued(p)'
    BY <2>2 DEF Queued, ToSet
  <2>4. ASSUME NEW e \in ToSet(events), ~e.del
        PROVE  e.post \notin dropped \cup awaiting
    <3> HIDE DEF E
    <3>1. e \in E
      BY <1>2, <2>4, ToSetOfSequence
    <3>2. e = [del |-> FALSE, post |-> e.post] /\ e.post \in Post
      BY <2>4, <3>1 DEF E
    <3>3. Queued(e.post)
      BY <2>4, <3>2 DEF Queued
    <3>4. e.post \notin awaiting
      <4>1. \A x \in awaiting : x < e.post /\ x \in Nat
        BY <1>2, <1>3, <3>2, <3>3, PostIsNat
      <4> QED BY <4>1
    <3> QED BY <1>3, <3>2, <3>3, <3>4
  <2> HIDE DEF E
  <2>5. lost' \cap (dropped \cup awaiting) = {}
    BY <1>3, <2>1, <2>4
  <2> QED BY <2>1, <2>2, <2>3, <2>5 DEF EventsOnce
<1>9. ASSUME HandleEvent
      PROVE  EventsOnce'
  <2> DEFINE e == Head(events)
  <2>1. /\ e \in E
        /\ e.del => e.post \in deleted /\ Deleted(e.post)
        /\ ~e.del => Posted(e.post)
        /\ UNCHANGED <<posted, lost>>
    BY <1>1, <1>9, NextEvent
  <2>2. /\ \A i, j \in DOMAIN events' :
             i < j /\ ~events'[i].del /\ ~events'[j].del => events'[i].post < events'[j].post
        /\ \A p \in Post : Queued(p)' => Queued(p) /\ (~e.del => e.post < p)
        /\ ~e.del => Queued(e.post)
    BY <1>1, <1>9, NextEventOnce
  <2> HIDE DEF e
  <2>3. e.post \in Post /\ e.del \in BOOLEAN
    BY <2>1
  <2>4. e.del => UNCHANGED <<awaiting, dropped>>
    BY <1>1, <2>1, <2>3, DeletedSteps
  <2>5. ~e.del => \/ awaiting' = awaiting \cup {e.post} /\ dropped' = dropped
                  \/ awaiting' = awaiting /\ dropped' \subseteq dropped \cup {e.post}
    <3>1. ReceiveNew(e.post) => dropped' \subseteq dropped \cup {e.post}
      BY DEF ReceiveNew
    <3> QED BY <1>1, <2>1, <2>3, <3>1, PostedSteps
  <2>6. ASSUME NEW p \in Post, Queued(p)'
        PROVE  p \notin lost /\ p \notin dropped' /\ \A x \in awaiting' : x < p
    <3>1. Queued(p) /\ (~e.del => e.post < p /\ e.post # p)
      <4>1. e.post \in Nat /\ p \in Nat
        BY <2>3, PostIsNat
      <4> QED BY <2>2, <2>6, <4>1
    <3> QED BY <1>3, <2>3, <2>4, <2>5, <3>1
  <2>7. lost \cap (dropped' \cup awaiting') = {}
    BY <1>3, <2>2, <2>3, <2>4, <2>5
  <2> HIDE DEF E
  <2> QED BY <2>1, <2>2, <2>6, <2>7 DEF EventsOnce
<1>10. ASSUME NEW q \in awaiting, ThreadLoaded(q) \/ ThreadFails(q)
       PROVE  EventsOnce'
  <2>1. UNCHANGED <<events, lost>> /\ awaiting' = awaiting \ {q} /\ dropped' \subseteq dropped \cup {q}
    BY <1>10 DEF ThreadLoaded, ThreadFails, ReceiveNew, link
  <2>2. \A p \in Post : Queued(p)' <=> Queued(p)
    BY <2>1 DEF Queued
  <2>3. \A p \in Post : Queued(p) => p # q
    <3>1. q \in Nat
      BY <1>2
    <3> QED BY <1>3, <3>1
  <2> QED BY <1>3, <2>1, <2>2, <2>3 DEF EventsOnce
<1>11. ASSUME NEW r \in requests, Answer(r) \/ Receive(r)
       PROVE  EventsOnce'
  <2>1. Answer(r) => UNCHANGED <<events, lost, dropped, awaiting>>
    BY DEF Answer, link
  <2>2. Receive(r) => UNCHANGED <<events, lost, dropped, awaiting>>
    BY DEF Receive, link
  <2> QED BY <1>4, <1>11, <2>1, <2>2
<1>12. CASE Asks
  BY <1>1, <1>4, <1>12, AskingSteps DEF Still
<1> QED BY <1>6, <1>7, <1>8, <1>9, <1>10, <1>11, <1>12, NextCases

LEMMA LinkStaysUp ==
  ASSUME IInv, LinkUp, Next
  PROVE  LinkUp'
<1>1. drops \in Nat /\ socket \in {"ready", "closed", "open"}
  BY PostsAssumption DEF IInv, TypeOK
<1>2. UNCHANGED <<socket, drops, lost>> => LinkUp'
  BY DEF LinkUp
<1>3. Close => LinkUp'
  BY <1>1 DEF Close, LinkUp
<1>4. Open => LinkUp'
  BY DEF Open, LinkUp
<1>5. HelloResumed => LinkUp'
  BY DEF HelloResumed, LinkUp
<1>6. HelloNew => LinkUp'
  BY DEF HelloNew, LinkUp
<1>7. CreatePost \/ (\E p \in Post : DeletePost(p)) \/ HandleEvent => UNCHANGED <<socket, drops, lost>>
  BY DEF CreatePost, DeletePost, HandleEvent
<1>8. (\E p \in awaiting : ThreadLoaded(p) \/ ThreadFails(p)) => UNCHANGED <<socket, drops, lost>>
  BY DEF ThreadLoaded, ThreadFails, link
<1>9. Visit \/ (\E p \in Post : VisitPermalink(p)) \/ Leave \/ Prefetch => UNCHANGED <<socket, drops, lost>>
  BY DEF Visit, VisitPermalink, Leave, Prefetch, link
<1>10. LoadMore("before") \/ LoadMore("after") => UNCHANGED <<socket, drops, lost>>
  BY DEF LoadMore, link
<1>11. ASSUME NEW r \in requests, Answer(r) \/ Receive(r) \/ Fail(r)
       PROVE  UNCHANGED <<socket, drops, lost>>
  <2>1. Answer(r) => UNCHANGED <<socket, drops, lost>>
    BY DEF Answer, link
  <2>2. Receive(r) => UNCHANGED <<socket, drops, lost>>
    BY DEF Receive, link
  <2>3. Fail(r) => UNCHANGED <<socket, drops, lost>>
    BY DEF Fail, link
  <2> QED BY <1>11, <2>1, <2>2, <2>3
<1> QED BY <1>2, <1>3, <1>4, <1>5, <1>6, <1>7, <1>8, <1>9, <1>10, <1>11 DEF Next

----------------------------------------------------------------------------
(* The steps of a calm history. *)

CalmAsks ==
  \/ Close \/ Open \/ HelloResumed \/ Visit \/ (\E p \in Post : VisitPermalink(p))
  \/ Prefetch \/ LoadMore("before") \/ LoadMore("after")

LEMMA CalmCases ==
  ASSUME IInv, CalmInv, Next, calm'
  PROVE  /\ calm /\ Watched
         /\ \/ CreatePost \/ HelloNew
            \/ (HandleEvent /\ ~Head(events).del)
            \/ (\E p \in awaiting : ThreadLoaded(p))
            \/ (\E r \in requests : Answer(r) \/ Receive(r)) \/ CalmAsks
<1>1. TypeOK /\ EventsInOrder /\ RootsClosed
  BY DEF IInv
<1>2. calm => Watched
  BY DEF CalmInv
<1>3. calm => deleted = {}
  BY <1>2 DEF Watched, CalmLink
<1>4. CreatePost => calm
  BY DEF CreatePost, history
<1>5. ASSUME NEW p \in Post, DeletePost(p)
      PROVE  FALSE
  BY <1>5 DEF DeletePost, Disturb
<1>6. HelloNew => calm
  BY DEF HelloNew, history
<1>7. HandleEvent => calm /\ ~Head(events).del
  <2> SUFFICES ASSUME HandleEvent
               PROVE  calm /\ ~Head(events).del
    OBVIOUS
  <2> DEFINE e == Head(events)
  <2>1. /\ e.del => e.post \in deleted /\ Deleted(e.post)
        /\ ~e.del => Posted(e.post)
        /\ e.del \in BOOLEAN
    BY <1>1, NextEvent
  <2> HIDE DEF e
  <2>2. Deleted(e.post) => calm' = calm
    BY DEF Deleted
  <2>3. Posted(e.post) => calm
    BY DEF Posted, ReceiveNew
  <2>4. calm
    BY <2>1, <2>2, <2>3
  <2>5. ~e.del
    BY <1>3, <2>1, <2>4
  <2> QED BY <2>4, <2>5 DEF e
<1>8. ASSUME NEW p \in awaiting, ThreadLoaded(p)
      PROVE  calm
  BY <1>8 DEF ThreadLoaded, ReceiveNew
<1>9. ASSUME NEW p \in awaiting, ThreadFails(p)
      PROVE  FALSE
  <2>1. calm /\ Root(p) \in deleted
    BY <1>9 DEF ThreadFails, Disturb, history
  <2> QED BY <1>3, <2>1
<1>10. ASSUME NEW r \in requests, Answer(r) \/ Receive(r)
       PROVE  calm
  <2>1. Answer(r) => calm
    BY DEF Answer, history
  <2>2. Receive(r) => calm
    BY DEF Receive
  <2> QED BY <1>10, <2>1, <2>2
<1>11. ASSUME NEW r \in requests, Fail(r)
       PROVE  FALSE
  <2>1. calm /\ r.arg \in deleted
    BY <1>11 DEF Fail, Disturb, history
  <2> QED BY <1>3, <2>1
<1>12. Leave => FALSE
  BY DEF Leave
<1>13. CalmAsks => calm
  <2>1. Close \/ Open \/ HelloResumed => calm
    BY DEF Close, Open, HelloResumed, history
  <2>2. Visit \/ Prefetch \/ LoadMore("before") \/ LoadMore("after") => calm
    BY DEF Visit, Prefetch, LoadMore, Quietly
  <2>3. \A p \in Post : VisitPermalink(p) => calm
    BY DEF VisitPermalink, Quietly
  <2> QED BY <2>1, <2>2, <2>3 DEF CalmAsks
<1>14. \/ CreatePost \/ HelloNew \/ HandleEvent
       \/ (\E p \in awaiting : ThreadLoaded(p))
       \/ (\E r \in requests : Answer(r) \/ Receive(r)) \/ CalmAsks
  BY Zenon, <1>5, <1>9, <1>11, <1>12 DEF Next, CalmAsks
<1> QED BY <1>2, <1>4, <1>6, <1>7, <1>8, <1>10, <1>13, <1>14

\* R are requests that nobody has answered, for what is in the store; what a
\* synchronisation among them does not ask for is kept.
AskedWell(R) ==
  \A r \in R :
    /\ ~r.answered
    /\ r.at.n <= posted
    /\ r.kind = "since" => r.arg <= posted /\ \A p \in 1 .. posted : p <= r.arg => Kept(p)
    /\ r.kind \in {"before", "after"} => r.arg \in known

LEMMA RequestWell ==
  ASSUME TypeOK, NEW kind, NEW arg, kind # "since", kind \in {"before", "after"} => arg \in known
  PROVE  AskedWell({Request(kind, arg)})
<1>1. posted \in Nat /\ 0 <= posted
  BY LiveSteps
<1>2. /\ Request(kind, arg).answered = FALSE /\ Request(kind, arg).at.n \in {0, posted}
      /\ Request(kind, arg).kind = kind /\ Request(kind, arg).arg = arg
  BY DEF Request, Now
<1> QED BY <1>1, <1>2 DEF AskedWell

LEMMA SyncWell ==
  ASSUME TypeOK, Watched, NEW h \in Shown
  PROVE  AskedWell({SyncRequest(h)}) /\ SyncRequest(h).kind = "since"
<1> DEFINE late == {t \in lastApi : t.d < drops}
           N == {t.n : t \in late}
           arg == IF late = {} THEN h ELSE Max(N)
<1>1. MaxPosts \in Nat /\ posted \in Nat /\ known \subseteq 1 .. posted /\ Shown \subseteq known
      /\ 1 .. posted \subseteq Post
  BY PostsAssumption, LiveSteps DEF TypeOK, Watched, InStore
<1>2. \A t \in late : t.n \in 0 .. MaxPosts
  BY DEF TypeOK, Times
<1>3. \A t \in late : t.n <= posted /\ \A p \in 1 .. posted : p <= t.n => Kept(p)
  BY DEF Watched, StampKept
<1>4. SyncRequest(h) = Request("since", arg)
  BY DEF SyncRequest
<1> HIDE DEF late
<1>5. N \in SUBSET Nat /\ \A n \in N : n <= MaxPosts
  BY <1>1, <1>2
<1>6. late # {} => N # {}
  OBVIOUS
<1>7. late # {} => Max(N) \in N
  BY <1>1, <1>5, <1>6, MaxIsGreatest
<1>8. arg <= posted /\ \A p \in 1 .. posted : p <= arg => Kept(p)
  <2>1. CASE late = {}
    <3>1. arg = h /\ h \in 1 .. posted
      BY <1>1, <2>1
    <3>2. \A p \in 1 .. posted : p <= h => Kept(p)
      BY DEF Kept, Reached
    <3> HIDE DEF arg
    <3> QED BY <1>1, <3>1, <3>2
  <2>2. CASE late # {}
    <3>1. PICK t \in late : arg = t.n
      BY <1>7, <2>2
    <3> QED BY <1>3, <3>1
  <2> QED BY <2>1, <2>2
<1> HIDE DEF arg
<1>9. /\ SyncRequest(h).answered = FALSE /\ SyncRequest(h).at.n = posted
      /\ SyncRequest(h).kind = "since" /\ SyncRequest(h).arg = arg
  BY <1>4 DEF Request, Now, Stamping
<1> QED BY <1>1, <1>8, <1>9 DEF AskedWell

\* The block that findIndex finds has its posts among those shown.
LEMMA BlockShown ==
  ASSUME TypeOK, NEW k \in DOMAIN blocks
  PROVE  /\ blocks[k] \in Blocks /\ blocks[k] \in ToSet(blocks)
         /\ blocks[k].order \in Seq(Post) /\ ToSet(blocks[k].order) \subseteq Shown
         /\ blocks[k].order # <<>> =>
              Head(blocks[k].order) \in Shown /\ Last(blocks[k].order) \in Shown
<1>1. blocks \in Seq(Blocks)
  BY DEF TypeOK
<1>2. blocks[k] \in Blocks /\ blocks[k] \in ToSet(blocks)
  BY <1>1 DEF ToSet
<1>3. blocks[k].order \in Seq(Post)
  BY <1>2 DEF Blocks
<1>4. ToSet(blocks[k].order) \subseteq Shown
  BY <1>2 DEF Shown, PostsOf
<1>5. blocks[k].order # <<>> =>
        Head(blocks[k].order) \in Shown /\ Last(blocks[k].order) \in Shown
  BY <1>3, <1>4, EndsOfSequence
<1> QED BY <1>2, <1>3, <1>4, <1>5

LEMMA MostRecentShown ==
  ASSUME TypeOK
  PROVE  MostRecent \subseteq Shown
<1> DEFINE i == RecentIndex(blocks)
<1>1. blocks \in Seq(Blocks)
  BY DEF TypeOK
<1>2. CASE i = 0
  BY <1>2 DEF MostRecent
<1>3. CASE i # 0
  <2>1. i \in DOMAIN blocks
    BY <1>1, <1>3, RecentIndexFinds
  <2>2. ToSet(blocks[i].order) \subseteq Shown
    BY <2>1, BlockShown
  <2> QED BY <1>3, <2>2 DEF MostRecent
<1> QED BY <1>2, <1>3

LEMMA ReconnectWell ==
  ASSUME TypeOK, Watched
  PROVE  /\ AskedWell(OnReconnect)
         /\ drops > 0 => \E r \in OnReconnect : r.kind = "since" /\ ~r.answered
<1>1. \A p \in MostRecent : AskedWell({SyncRequest(p)}) /\ SyncRequest(p).kind = "since"
  BY MostRecentShown, SyncWell
<1>2. AskedWell({SyncRequest(p) : p \in MostRecent})
  BY <1>1 DEF AskedWell
<1>3. AskedWell({Request("page0", 0)})
  BY RequestWell
<1>4. AskedWell({})
  BY DEF AskedWell
<1>5. AskedWell(OnReconnect)
  BY <1>2, <1>3, <1>4 DEF OnReconnect
<1>6. ASSUME drops > 0
      PROVE  \E r \in OnReconnect : r.kind = "since" /\ ~r.answered
  <2> DEFINE i == RecentIndex(blocks)
             o == blocks[i].order
  <2>1. viewing /\ \E b \in ToSet(blocks) : b.recent /\ b.order # <<>>
    BY <1>6 DEF Watched, CalmLink, HasTop
  <2>2. blocks \in Seq(Blocks)
    BY DEF TypeOK
  <2>3. i # 0 /\ i \in DOMAIN blocks /\ blocks[i].recent
    BY <2>1, <2>2, RecentIndexFinds
  <2>4. PICK k \in DOMAIN blocks : blocks[k].recent /\ blocks[k].order # <<>>
    BY <2>1 DEF ToSet
  <2>5. i = k
    BY <2>3, <2>4 DEF Watched, OnTop, OneIsRecent
  <2>6. o \in Seq(Post) /\ o # <<>>
    BY <2>4, <2>5, BlockShown
  <2>7. Head(o) \in MostRecent
    <3>1. Head(o) \in ToSet(o)
      BY <2>6, EndsOfSequence
    <3> QED BY <2>3, <3>1 DEF MostRecent
  <2>8. SyncRequest(Head(o)) \in OnReconnect
    BY <2>1, <2>7 DEF OnReconnect
  <2> HIDE DEF o
  <2>9. SyncRequest(Head(o)).kind = "since" /\ ~SyncRequest(Head(o)).answered
    BY <1>1, <2>7 DEF AskedWell
  <2> QED BY <2>8, <2>9
<1> QED BY <1>5, <1>6

LEMMA LoadWell ==
  ASSUME TypeOK, Watched, NEW ts
  PROVE  AskedWell(OnLoad(ts))
<1> DEFINE k == UnreadChunk(ts)
<1>1. AskedWell({Request("unread", 0)}) /\ AskedWell({Request("latest", 0)})
  BY RequestWell
<1>2. AskedWell({})
  BY DEF AskedWell
<1>3. ASSUME k # 0, blocks[k].order # <<>>
      PROVE  AskedWell({SyncRequest(Head(blocks[k].order))})
  <2>1. k \in DOMAIN blocks
    BY <1>3, UnreadChunkFinds
  <2> HIDE DEF k
  <2>2. Head(blocks[k].order) \in Shown
    BY <1>3, <2>1, BlockShown
  <2> QED BY <2>2, SyncWell
<1> QED BY <1>1, <1>2, <1>3 DEF OnLoad

\* Nothing but requests, the connection and what is on the screen changes.
CalmStill ==
  UNCHANGED <<posted, deleted, known, loaded, blocks, lastApi, awaiting, dropped>>

LEMMA AskingWell ==
  ASSUME TypeOK, Watched, CalmAsks \/ HelloNew
  PROVE  /\ CalmStill
         /\ \E R : AskedWell(R) /\ requests' = requests \cup R
<1>0. AskedWell({})
  BY DEF AskedWell
<1>1. CASE Close
  <2>1. CalmStill
    BY <1>1 DEF Close, CalmStill, client, server
  <2>2. requests' = requests \cup {}
    BY <1>1 DEF Close
  <2> QED BY <1>0, <2>1, <2>2
<1>2. CASE Open
  <2>1. CalmStill
    BY <1>2 DEF Open, CalmStill, client, server
  <2> QED BY <1>2, <2>1, ReconnectWell DEF Open
<1>3. CASE HelloResumed
  <2>1. CalmStill
    BY <1>3 DEF HelloResumed, CalmStill, client, server
  <2>2. requests' = requests \cup {}
    BY <1>3 DEF HelloResumed
  <2> QED BY <1>0, <2>1, <2>2
<1>4. CASE Visit
  <2>1. CalmStill
    BY <1>4 DEF Visit, CalmStill, client, server
  <2> QED BY <1>4, <2>1, LoadWell DEF Visit
<1>5. ASSUME NEW p \in Post, VisitPermalink(p)
      PROVE  CalmStill /\ \E R : AskedWell(R) /\ requests' = requests \cup R
  <2>1. CalmStill
    BY <1>5 DEF VisitPermalink, CalmStill, client, server
  <2>2. AskedWell({Request("around", p)})
    BY RequestWell
  <2> QED BY <1>5, <2>1, <2>2 DEF VisitPermalink
<1>6. CASE Prefetch
  <2>1. CalmStill
    BY <1>6 DEF Prefetch, CalmStill, client, server
  <2>2. AskedWell({Request("prefetch", 0)})
    BY RequestWell
  <2>3. \A p \in MostRecent : AskedWell({SyncRequest(p)})
    BY MostRecentShown, SyncWell
  <2>4. AskedWell({SyncRequest(p) : p \in MostRecent})
    BY <2>3 DEF AskedWell
  <2> QED BY <1>6, <2>1, <2>2, <2>4 DEF Prefetch
<1>7. ASSUME NEW kind \in {"before", "after"}, LoadMore(kind)
      PROVE  CalmStill /\ \E R : AskedWell(R) /\ requests' = requests \cup R
  <2>1. CalmStill
    BY <1>7 DEF LoadMore, CalmStill, client, server
  <2>2. PICK b \in {x \in ToSet(blocks) : x.order # <<>>} :
          requests' = requests \cup
             {Request(kind, IF kind = "before" THEN Last(b.order) ELSE Head(b.order))}
    BY <1>7 DEF LoadMore
  <2>3. PICK k \in DOMAIN blocks : blocks[k] = b
    BY <2>2 DEF ToSet
  <2> DEFINE arg == IF kind = "before" THEN Last(b.order) ELSE Head(b.order)
  <2>4. arg \in known
    <3>1. Head(b.order) \in Shown /\ Last(b.order) \in Shown
      BY <2>2, <2>3, BlockShown
    <3> QED BY <3>1 DEF Watched, InStore
  <2> HIDE DEF arg
  <2>5. AskedWell({Request(kind, arg)})
    BY <2>4, RequestWell
  <2> QED BY <2>1, <2>2, <2>5 DEF arg
<1>8. CASE HelloNew
  <2>1. CalmStill
    BY <1>8 DEF HelloNew, CalmStill, client, server
  <2> QED BY <1>8, <2>1, ReconnectWell DEF HelloNew
<1> QED BY <1>1, <1>2, <1>3, <1>4, <1>5, <1>6, <1>7, <1>8 DEF CalmAsks

\* In a calm history a synchronisation that is answered shows all newer posts of its
\* answer.
LEMMA ReceiveInCalm ==
  ASSUME IInv, Watched, NEW r \in requests, r.kind = "since", Receive(r), calm'
  PROVE  \A p \in ToSet(r.reply.order) : p > r.arg => p \in PostsOf(ToSet(blocks'))
<1> DEFINE kn == known \cup r.reply.posts
           next == receivedPostsSince(blocks, r.reply, kn)
           i == RecentIndex(blocks)
           old == blocks[i].order
<1>1. TypeOK /\ RepliesWhole
  BY DEF IInv
<1>2. Reduce(r, kn) = next
  BY DEF Reduce
<1>3. r.answered /\ InTime(r)
  BY DEF Receive
<1>4. blocks' = IF next.ok THEN next.blocks ELSE blocks
  <2> HIDE DEF next
  <2> QED BY <1>2 DEF Receive
<1>5. i # 0 /\ old # <<>> /\ \A p \in ToSet(r.reply.order) : p > r.arg => p >= Last(old)
  BY <1>3 DEF InTime, LastIsOldest
<1>6. blocks \in Seq(Blocks) /\ r.reply \in Replies
  BY <1>1 DEF TypeOK
<1>7. i \in DOMAIN blocks
  BY <1>5, <1>6, RecentIndexFinds
<1>8. old \in Seq(Post) /\ ToSet(old) \subseteq Shown /\ Last(old) \in Shown
  BY <1>1, <1>5, <1>7, BlockShown
<1>9. ToSet(old) \subseteq kn
  BY <1>8 DEF Watched, InStore
<1>10. ToSet(r.reply.order) \subseteq kn
  BY <1>3 DEF Watched, RepliesExact, Exact
<1>11. /\ next.ok /\ next.blocks \in Seq(Blocks)
       /\ PostsOf(ToSet(blocks)) \subseteq PostsOf(ToSet(next.blocks))
       /\ \A p \in ToSet(r.reply.order) \cap kn :
            p > Last(old) => p \in PostsOf(ToSet(next.blocks))
  <2> HIDE DEF next, kn
  <2>1. next.ok /\ \A p \in ToSet(r.reply.order) \cap kn :
            p > Last(old) => p \in PostsOf(ToSet(next.blocks))
    BY <1>5, <1>6, <1>9, ReceivedSince DEF next
  <2>2. next.blocks \in Seq(Blocks) /\ Takes(ToSet(next.blocks), ToSet(blocks), {})
    BY <1>6, <2>1, ReceivedSince DEF next
  <2> QED BY <2>1, <2>2 DEF Takes
<1> HIDE DEF next, kn, old, i
<1> SUFFICES ASSUME NEW p \in ToSet(r.reply.order), p > r.arg
             PROVE  p \in PostsOf(ToSet(next.blocks))
  BY <1>4, <1>11
<1>12. p \in Post /\ Last(old) \in Post
  <2>1. r.reply.order \in Seq(Post)
    BY <1>6 DEF Replies
  <2> QED BY <1>5, <1>8, <2>1, ToSetOfSequence, EndsOfSequence
<1>13. p > Last(old) \/ p = Last(old)
  BY <1>5, <1>12, PostIsNat
<1> QED BY <1>8, <1>10, <1>11, <1>13 DEF Shown

LEMMA MaxOfOrder ==
  ASSUME NEW s \in Seq(Post), s # <<>>
  PROVE  /\ Max(ToSet(s)) \in ToSet(s) /\ Max(ToSet(s)) \in Nat
         /\ \A q \in ToSet(s) : q \in Nat /\ q <= Max(ToSet(s))
<1>1. ToSet(s) \subseteq Post /\ ToSet(s) # {}
  BY ToSetOfSequence
<1>2. ToSet(s) \in SUBSET Nat /\ \A q \in ToSet(s) : q <= MaxPosts
  BY <1>1, PostsAreFinite
<1>3. MaxPosts \in Nat
  BY PostsAssumption
<1>4. Max(ToSet(s)) \in ToSet(s) /\ \A q \in ToSet(s) : q <= Max(ToSet(s))
  BY <1>1, <1>2, <1>3, MaxIsGreatest
<1> QED BY <1>2, <1>4

\* The block with the newest posts stays the recent one when a post is received
\* that is not late.
LEMMA NewOnTop ==
  ASSUME NEW bs \in Seq(Blocks), NEW p \in Post, NewestIsRecent(bs), OneIsRecent(bs),
         \/ \E b \in ToSet(bs) : b.recent /\ Has(b, p)
         \/ \A q \in PostsOf(ToSet(bs)) : q <= p
  PROVE  LET next == receivedNewPost(bs, p)
         IN  /\ NewestIsRecent(next) /\ OneIsRecent(next)
             /\ next = bs \/ \A q \in PostsOf(ToSet(bs)) : q <= p
<1> DEFINE i == RecentIndex(bs)
           next == receivedNewPost(bs, p)
<1>1. \/ i = 0 /\ next = Append(bs, Block(<<p>>, TRUE, FALSE))
      \/ i # 0 /\ next = bs
      \/ i # 0 /\ ~Has(bs[i], p) /\ next = [bs EXCEPT ![i].order = <<p>> \o @]
  BY DEF receivedNewPost
<1>2. /\ i = 0 => \A b \in ToSet(bs) : ~b.recent
      /\ i # 0 => i \in DOMAIN bs /\ bs[i].recent
  BY RecentIndexFinds
<1> HIDE DEF i, next
<1>3. CASE i # 0 /\ next = bs
  BY <1>3 DEF next
<1>4. /\ DOMAIN bs = 1 .. Len(bs) /\ Len(bs) \in Nat
      /\ \A k \in DOMAIN bs : /\ bs[k] \in Blocks /\ bs[k] \in ToSet(bs)
                              /\ bs[k].order \in Seq(Post)
                              /\ ToSet(bs[k].order) \subseteq PostsOf(ToSet(bs))
  <2> SUFFICES ASSUME NEW k \in DOMAIN bs
               PROVE  /\ bs[k] \in Blocks /\ bs[k] \in ToSet(bs)
                      /\ bs[k].order \in Seq(Post)
                      /\ ToSet(bs[k].order) \subseteq PostsOf(ToSet(bs))
    OBVIOUS
  <2>1. bs[k] \in Blocks /\ bs[k] \in ToSet(bs)
    BY DEF ToSet
  <2>2. bs[k].order \in Seq(Post)
    BY <2>1 DEF Blocks
  <2> QED BY <2>1, <2>2 DEF PostsOf
<1>5. p \in Nat
  BY PostIsNat
\* Block k of next is on top when it has p and the others have older posts.
<1>6. ASSUME NEW k, k \in DOMAIN next, next[k].order \in Seq(Post), p \in ToSet(next[k].order),
             \A q \in PostsOf(ToSet(bs)) : q <= p,
             \A j \in DOMAIN next : next[j].recent => j = k,
             \A j \in DOMAIN next : j # k => j \in DOMAIN bs /\ next[j] = bs[j]
      PROVE  NewestIsRecent(next) /\ OneIsRecent(next)
  <2>1. OneIsRecent(next)
    BY <1>6 DEF OneIsRecent
  <2>2. ASSUME NEW a \in DOMAIN next, NEW b \in DOMAIN next, next[a].recent, ~next[b].recent,
               next[a].order # <<>>, next[b].order # <<>>
        PROVE  Max(ToSet(next[a].order)) >= Max(ToSet(next[b].order))
    <3>1. a = k /\ b # k
      BY <1>6, <2>2
    <3>2. b \in DOMAIN bs /\ next[b] = bs[b]
      BY <1>6, <3>1
    <3>3. p <= Max(ToSet(next[a].order)) /\ Max(ToSet(next[a].order)) \in Nat
      BY <1>6, <2>2, <3>1, MaxOfOrder
    <3>4. Max(ToSet(next[b].order)) \in ToSet(bs[b].order) /\ Max(ToSet(next[b].order)) \in Nat
      BY <1>4, <2>2, <3>2, MaxOfOrder
    <3>5. Max(ToSet(next[b].order)) <= p
      BY <1>4, <1>6, <3>2, <3>4
    <3> QED BY <1>5, <3>3, <3>4, <3>5
  <2> QED BY <2>1, <2>2 DEF NewestIsRecent
<1>7. CASE i = 0 /\ next = Append(bs, Block(<<p>>, TRUE, FALSE))
  <2> DEFINE k == Len(bs) + 1
             f == Block(<<p>>, TRUE, FALSE)
  <2>1. \A q \in PostsOf(ToSet(bs)) : q <= p
    BY <1>2, <1>7
  <2>2. /\ DOMAIN next = 1 .. k /\ next[k] = f
        /\ \A j \in 1 .. Len(bs) : next[j] = bs[j]
    <3>1. next = Append(bs, f)
      BY <1>7
    <3> HIDE DEF f
    <3> QED BY <1>4, <3>1
  <2>3. f.order = <<p>> /\ f.recent
    BY DEF Block
  <2>4. f.order \in Seq(Post) /\ p \in ToSet(f.order)
    <3>1. <<p>> \in Seq(Post) /\ 1 \in DOMAIN <<p>> /\ <<p>>[1] = p
      OBVIOUS
    <3> QED BY <2>3, <3>1 DEF ToSet
  <2>5. \A j \in DOMAIN next : j # k => j \in DOMAIN bs /\ next[j] = bs[j]
    BY <1>4, <2>2
  <2>6. \A j \in DOMAIN next : next[j].recent => j = k
    BY <1>2, <1>4, <1>7, <2>5
  <2>7. k \in DOMAIN next
    BY <1>4, <2>2
  <2> HIDE DEF k, f
  <2>8. NewestIsRecent(next) /\ OneIsRecent(next)
    BY <1>6, <2>1, <2>2, <2>4, <2>5, <2>6, <2>7
  <2> QED BY <2>1, <2>8 DEF next
<1>8. CASE i # 0 /\ ~Has(bs[i], p) /\ next = [bs EXCEPT ![i].order = <<p>> \o @]
  <2> DEFINE o == bs[i]
             f == [o EXCEPT !.order = <<p>> \o @]
  <2>1. i \in DOMAIN bs /\ o.recent /\ o \in Blocks /\ o.order \in Seq(Post)
    BY <1>2, <1>4, <1>8
  <2>2. \A j \in DOMAIN bs : bs[j].recent => j = i
    BY <2>1 DEF OneIsRecent
  <2>3. ~\E b \in ToSet(bs) : b.recent /\ Has(b, p)
    <3> SUFFICES ASSUME NEW b \in ToSet(bs), b.recent, Has(b, p)
                 PROVE  FALSE
      OBVIOUS
    <3>1. PICK j \in DOMAIN bs : bs[j] = b
      BY DEF ToSet
    <3> QED BY <1>8, <2>2, <3>1
  <2>4. \A q \in PostsOf(ToSet(bs)) : q <= p
    BY <2>3
  <2>5. f.order = <<p>> \o o.order /\ f.recent = o.recent
    BY <2>1 DEF Blocks
  <2>6. next = [bs EXCEPT ![i] = f]
    BY <1>8
  <2>7. DOMAIN next = DOMAIN bs /\ next[i] = f /\ \A j \in DOMAIN bs : j # i => next[j] = bs[j]
    BY <2>1, <2>6
  <2>8. f.order \in Seq(Post) /\ p \in ToSet(f.order)
    <3>1. <<p>> \o o.order \in Seq(Post)
      BY <2>1
    <3>2. ToSet(<<p>> \o o.order) = ToSet(o.order) \cup {p}
      BY <2>1, ToSetOfSequence
    <3> QED BY <2>5, <3>1, <3>2
  <2>9. \A j \in DOMAIN next : next[j].recent => j = i
    BY <2>2, <2>7
  <2> HIDE DEF f, o
  <2>10. NewestIsRecent(next) /\ OneIsRecent(next)
    BY <1>6, <2>1, <2>4, <2>7, <2>8, <2>9
  <2> QED BY <2>4, <2>10 DEF next
<1> QED BY <1>1, <1>3, <1>7, <1>8

LEMMA NewInCalm ==
  ASSUME TypeOK, OnTop, NEW x \in Post, ReceiveNew(x), calm'
  PROVE  LET B == ToSet(blocks)
             C == ToSet(blocks')
         IN  /\ PostsOf(B) \subseteq PostsOf(C) /\ PostsOf(C) \subseteq PostsOf(B) \cup {x}
             /\ loaded => x \in PostsOf(C)
             /\ HasTop(B) => HasTop(C)
             /\ OnTop'
             /\ dropped \subseteq dropped'
             /\ \A p \in Post : Enclosed(C, p) =>
                  Enclosed(B, p) \/ (loaded /\ p < x /\ \E o \in B : o.recent /\ Follows(o, p))
<1>1. blocks \in Seq(Blocks) /\ NewestIsRecent(blocks) /\ OneIsRecent(blocks)
  BY DEF TypeOK, OnTop
<1>2. dropped \subseteq dropped'
  BY DEF ReceiveNew
<1>3. CASE ~loaded
  <2>1. blocks' = blocks
    BY <1>3 DEF ReceiveNew
  <2> QED BY <1>1, <1>2, <1>3, <2>1 DEF OnTop
<1>4. CASE loaded
  <2> DEFINE next == receivedNewPost(blocks, x)
             B == ToSet(blocks)
             C == ToSet(next)
  <2>1. blocks' = next /\ ~Late(x)
    BY <1>4 DEF ReceiveNew
  <2>2. /\ PostsOf(C) = PostsOf(B) \cup {x}
        /\ HasTop(B) => HasTop(C)
        /\ \A p \in Post : Enclosed(C, p) =>
             \/ Enclosed(B, p) \/ p > x
             \/ p < x /\ \E o \in B : o.recent /\ Follows(o, p)
    BY <1>1, ReceivedNew
  <2>3. PostsOf(B) \subseteq Post
    <3> SUFFICES ASSUME NEW b \in B
                 PROVE  ToSet(b.order) \subseteq Post
      BY DEF PostsOf
    <3>1. b \in Blocks
      BY <1>1, ToSetOfSequence
    <3>2. b.order \in Seq(Post)
      BY <3>1 DEF Blocks
    <3> QED BY <3>2, ToSetOfSequence
  <2>4. \/ \E b \in B : b.recent /\ Has(b, x)
        \/ \A q \in PostsOf(B) : q <= x
    <3>1. \A q \in PostsOf(B) : q \in Nat /\ x \in Nat
      BY <2>3, PostIsNat
    <3> QED BY <2>1, <3>1 DEF Late, PostsOf
  <2> HIDE DEF next
  <2>5. /\ NewestIsRecent(next) /\ OneIsRecent(next)
        /\ next = blocks \/ \A q \in PostsOf(B) : q <= x
    BY <1>1, <2>4, NewOnTop DEF next
  <2>6. ASSUME NEW p \in Post, Enclosed(C, p), p > x
        PROVE  Enclosed(B, p)
    <3>1. CASE next = blocks
      BY <2>6, <3>1
    <3>2. CASE \A q \in PostsOf(B) : q <= x
      <4>1. PICK q \in PostsOf(C) : p < q
        BY <2>6 DEF Enclosed, Inside, PostsOf
      <4>2. q = x \/ (q \in Post /\ q <= x)
        BY <2>2, <2>3, <3>2, <4>1
      <4> QED BY <2>6, <4>1, <4>2, PostIsNat
    <3> QED BY <2>5, <3>1, <3>2
  <2>7. OnTop'
    BY <2>1, <2>5 DEF OnTop
  <2> QED BY <1>2, <1>4, <2>1, <2>2, <2>6, <2>7
<1> QED BY <1>3, <1>4

\* The event of post x is handled, or its thread has come.
PostGoes(x) ==
  /\ UNCHANGED <<posted, deleted, loaded, lastApi, requests, lost, drops, viewing>>
  /\ \/ awaiting' = awaiting \cup {x} /\ UNCHANGED <<known, blocks, dropped>>
     \/ ReceiveNew(x) /\ known \cup {x} \subseteq known' /\ awaiting \ {x} \subseteq awaiting'
  /\ \A p \in Post : Queued(p) => p >= x

LEMMA PostSteps ==
  ASSUME IInv, CalmInv, (HandleEvent /\ ~Head(events).del) \/ \E p \in awaiting : ThreadLoaded(p)
  PROVE  \E x \in Post : PostGoes(x)
<1>1. TypeOK /\ EventsInOrder /\ RootsClosed /\ EventsOnce
  BY DEF IInv, CalmInv
<1>2. posted \in Nat /\ 1 .. posted \subseteq Post /\ awaiting \subseteq 1 .. posted
  BY <1>1, LiveSteps DEF TypeOK
<1>3. ASSUME HandleEvent, ~Head(events).del
      PROVE  \E x \in Post : PostGoes(x)
  <2> DEFINE e == Head(events)
  <2>1. /\ Posted(e.post) /\ e = [del |-> FALSE, post |-> e.post] /\ e.post \in 1 .. posted
        /\ \A y \in ToSet(events) : y = e \/ y \in ToSet(events')
    BY <1>1, <1>3, NextEvent
  <2>2. \A p \in Post : Queued(p)' => e.post < p
    BY <1>1, <1>3, NextEventOnce
  <2> HIDE DEF e
  <2>3. \A p \in Post : Queued(p) => p >= e.post
    <3> SUFFICES ASSUME NEW p \in Post, Queued(p)
                 PROVE  p >= e.post
      OBVIOUS
    <3>1. p \in Nat /\ e.post \in Nat
      BY <1>2, <2>1, PostIsNat
    <3>2. [del |-> FALSE, post |-> p] = e \/ Queued(p)'
      BY <2>1 DEF Queued
    <3>3. [del |-> FALSE, post |-> p] = e => p = e.post
      BY <2>1
    <3> QED BY <2>2, <3>1, <3>2, <3>3
  <2>4. UNCHANGED <<posted, deleted, loaded, lastApi, requests, lost, drops, viewing>>
    BY <1>3 DEF HandleEvent, server
  <2>5. \/ awaiting' = awaiting \cup {e.post} /\ UNCHANGED <<known, blocks, dropped>>
        \/ ReceiveNew(e.post) /\ known' = known \cup {e.post} /\ awaiting' = awaiting
    BY <1>1, <1>2, <2>1, PostedSteps
  <2>6. PostGoes(e.post)
    BY <2>3, <2>4, <2>5 DEF PostGoes
  <2> QED BY <1>2, <2>1, <2>6
<1>4. ASSUME NEW x \in awaiting, ThreadLoaded(x)
      PROVE  \E y \in Post : PostGoes(y)
  <2>1. /\ UNCHANGED <<posted, deleted, loaded, lastApi, requests, lost, drops, viewing>>
        /\ ReceiveNew(x) /\ known \cup {x} \subseteq known' /\ awaiting \ {x} \subseteq awaiting'
    BY <1>4 DEF ThreadLoaded, server, link
  <2>2. x \in Post /\ x \in Nat
    BY <1>2
  <2>3. \A p \in Post : Queued(p) => p >= x
    <3>1. \A p \in Post : Queued(p) => x < p /\ p \in Nat
      BY <1>1, PostIsNat DEF EventsOnce
    <3> QED BY <2>2, <3>1
  <2> QED BY <2>1, <2>2, <2>3 DEF PostGoes
<1> QED BY <1>3, <1>4

\* What the steps of a calm history are to the invariant
CalmStep ==
  /\ leftOut \subseteq leftOut'
  /\ \/ CreatePost
     \/ \E x \in Post : PostGoes(x)
     \/ \E r \in requests : Answer(r) \/ Receive(r)
     \/ CalmStill /\ \E R : AskedWell(R) /\ requests' = requests \cup R

LEMMA CalmSteps ==
  ASSUME IInv, CalmInv, Next, calm'
  PROVE  calm /\ Watched /\ CalmStep
<1>1. TypeOK
  BY DEF IInv
<1>2. /\ calm /\ Watched
      /\ \/ CreatePost \/ HelloNew
         \/ (HandleEvent /\ ~Head(events).del)
         \/ (\E p \in awaiting : ThreadLoaded(p))
         \/ (\E r \in requests : Answer(r) \/ Receive(r)) \/ CalmAsks
  BY CalmCases
<1>3. HelloNew \/ CalmAsks => CalmStill /\ \E R : AskedWell(R) /\ requests' = requests \cup R
  BY <1>1, <1>2, AskingWell
<1>4. (HandleEvent /\ ~Head(events).del) \/ (\E p \in awaiting : ThreadLoaded(p))
        => \E x \in Post : PostGoes(x)
  BY PostSteps
<1>5. leftOut \subseteq leftOut'
  BY LeftOutSteps
<1> QED BY <1>2, <1>3, <1>4, <1>5 DEF CalmStep

LEMMA AnswerStill ==
  ASSUME NEW r \in requests, Answer(r)
  PROVE  CalmStill /\ ~r.answered
BY DEF Answer, CalmStill, server, client

\* What the client has in a calm history it keeps.
LEMMA ShownGrows ==
  ASSUME IInv, Watched, CalmStep, calm'
  PROVE  /\ Shown \subseteq Shown' /\ known \subseteq known' /\ dropped \subseteq dropped'
         /\ (loaded => loaded') /\ deleted' = deleted
         /\ HasTop(ToSet(blocks)) => HasTop(ToSet(blocks'))
<1> DEFINE Grows == /\ Shown \subseteq Shown' /\ known \subseteq known' /\ dropped \subseteq dropped'
                    /\ (loaded => loaded') /\ deleted' = deleted
                    /\ HasTop(ToSet(blocks)) => HasTop(ToSet(blocks'))
<1>1. TypeOK /\ RepliesWhole /\ OnTop
  BY DEF IInv, Watched
<1>2. CalmStill => Grows
  BY DEF CalmStill, Shown
<1>3. CreatePost => Grows
  BY DEF CreatePost, client, Shown
<1>4. ASSUME NEW x \in Post, PostGoes(x)
      PROVE  Grows
  <2>1. CASE UNCHANGED <<known, blocks, dropped>>
    BY <1>4, <2>1 DEF PostGoes, Shown
  <2>2. CASE ReceiveNew(x) /\ known \cup {x} \subseteq known'
    <3>1. /\ PostsOf(ToSet(blocks)) \subseteq PostsOf(ToSet(blocks'))
          /\ HasTop(ToSet(blocks)) => HasTop(ToSet(blocks'))
          /\ dropped \subseteq dropped'
      BY <1>1, <2>2, NewInCalm
    <3> QED BY <1>4, <2>2, <3>1 DEF PostGoes, Shown
  <2> QED BY <1>4, <2>1, <2>2 DEF PostGoes
<1>5. ASSUME NEW r \in requests, Receive(r)
      PROVE  Grows
  <2> DEFINE kn == known \cup r.reply.posts
             next == Reduce(r, kn)
  <2>1. /\ Takes(ToSet(blocks'), ToSet(blocks), Fresh(r))
        /\ UNCHANGED <<deleted, dropped>>
    BY <1>1, <1>5, ReceiveTakes
  <2>2. Shown \subseteq Shown'
    BY <2>1 DEF Takes, Shown
  <2>3. known \subseteq known' /\ (loaded => loaded')
    BY <1>5 DEF Receive
  <2>4. HasTop(ToSet(blocks)) => HasTop(ToSet(blocks'))
    <3>1. CASE next.ok
      <4>1. blocks' = next.blocks
        BY <1>5, <3>1 DEF Receive
      <4>2. TakesNewer(ToSet(next.blocks), ToSet(blocks), ToSet(r.reply.order), kn)
            \/ Fills(ToSet(next.blocks), ToSet(blocks), Fresh(r))
        BY <1>1, <3>1, ReduceFills
      <4> HIDE DEF next
      <4> QED BY <4>1, <4>2 DEF TakesNewer, Fills
    <3>2. CASE ~next.ok
      BY <1>5, <3>2 DEF Receive
    <3> QED BY <3>1, <3>2
  <2> QED BY <2>1, <2>2, <2>3, <2>4
<1>6. ASSUME NEW r \in requests, Answer(r)
      PROVE  Grows
  <2>1. CalmStill
    BY <1>6, AnswerStill
  <2> QED BY <1>2, <2>1
<1> HIDE DEF Grows
<1>7. Grows
  BY <1>2, <1>3, <1>4, <1>5, <1>6 DEF CalmStep
<1> QED BY <1>7 DEF Grows

\* A post that is sought is shown or sought in the next state.
LEMMA SoughtStays ==
  ASSUME IInv, Watched, CalmStep, calm', NEW p \in 1 .. posted, Sought(p)
  PROVE  Sought(p)' \/ p \in Shown'
<1>1. TypeOK /\ RepliesWhole /\ OnTop /\ p \in Live
  BY DEF IInv, Watched, CalmLink, Live
<1>2. leftOut \subseteq leftOut' /\ (loaded => loaded')
  BY ShownGrows DEF CalmStep
<1>3. p \in Post /\ p \in Nat
  BY <1>1, LiveSteps
<1>4. CASE p \in leftOut
  BY <1>2, <1>4 DEF Sought
<1> SUFFICES ASSUME p \notin leftOut
             PROVE  Sought(p)' \/ p \in Shown'
  BY <1>4
<1>5. loaded /\ loaded' /\ (p \in awaiting \/ \E r \in requests : Seeks(r, p))
  BY <1>2 DEF Sought
<1>6. p \in awaiting' => Sought(p)'
  BY <1>5 DEF Sought
<1>7. ASSUME NEW r \in requests', Seeks(r, p)
      PROVE  Sought(p)'
  BY <1>5, <1>7 DEF Sought, Seeks
<1>8. CASE requests \subseteq requests' /\ awaiting \subseteq awaiting'
  BY <1>5, <1>6, <1>7, <1>8
<1>9. CASE CreatePost
  BY <1>8, <1>9 DEF CreatePost
<1>10. CASE CalmStill /\ \E R : AskedWell(R) /\ requests' = requests \cup R
  BY <1>8, <1>10 DEF CalmStill
<1>11. ASSUME NEW x \in Post, PostGoes(x)
       PROVE  Sought(p)' \/ p \in Shown'
  <2>1. CASE awaiting' = awaiting \cup {x}
    BY <1>8, <1>11, <2>1 DEF PostGoes
  <2>2. CASE ReceiveNew(x) /\ awaiting \ {x} \subseteq awaiting'
    <3>1. x \in Shown'
      BY <1>1, <1>5, <2>2, NewInCalm DEF Shown
    <3>2. requests' = requests
      BY <1>11 DEF PostGoes
    <3> QED BY <1>5, <1>6, <1>7, <2>2, <3>1, <3>2
  <2> QED BY <1>11, <2>1, <2>2 DEF PostGoes
<1>12. ASSUME NEW s \in requests, Receive(s)
       PROVE  Sought(p)' \/ p \in Shown'
  <2>1. s.answered /\ requests' = requests \ {s} /\ awaiting' = awaiting
    BY <1>1, <1>12, ReceiveTakes
  <2>2. CASE Seeks(s, p)
    <3>1. s.kind = "since" /\ p > s.arg /\ p \in ToSet(s.reply.order)
      <4>1. s.arg \in 0 .. MaxPosts
        BY <1>1 DEF TypeOK
      <4> QED BY <1>3, <2>1, <2>2, <4>1, PostsAssumption DEF Seeks
    <3> QED BY <1>12, <3>1, ReceiveInCalm DEF Shown
  <2>3. CASE ~Seeks(s, p)
    BY <1>5, <1>6, <1>7, <2>1, <2>3
  <2> QED BY <2>2, <2>3
<1>13. ASSUME NEW s \in requests, Answer(s)
       PROVE  Sought(p)' \/ p \in Shown'
  <2>1. CalmStill /\ ~s.answered
    BY <1>13, AnswerStill
  <2>2. PICK V \in Views : \E a \in Answers(s, V) :
           /\ requests' = (requests \ {s}) \cup {[s EXCEPT !.answered = TRUE, !.reply = a]}
           /\ leftOut' = leftOut \cup Omitted(s, V, a)
    BY Zenon, <1>13, AnswerSteps
  <2>3. PICK a \in Answers(s, V) :
           /\ requests' = (requests \ {s}) \cup {[s EXCEPT !.answered = TRUE, !.reply = a]}
           /\ leftOut' = leftOut \cup Omitted(s, V, a)
    BY Zenon, <2>2
  <2> DEFINE t == [s EXCEPT !.answered = TRUE, !.reply = a]
  <2>4. s.arg \in Nat /\ t.kind = s.kind /\ t.arg = s.arg /\ t.reply = a
    <3>1. s \in [kind : Kinds, arg : 0 .. MaxPosts, at : Times,
                 answered : BOOLEAN, reply : Replies]
      BY <1>1 DEF TypeOK
    <3> QED BY <3>1, PostsAssumption
  <2>5. requests' = (requests \ {s}) \cup {t}
    BY <2>3
  <2> HIDE DEF t
  <2>6. CASE Seeks(s, p) /\ p \in ToSet(a.order)
    BY <1>7, <2>4, <2>5, <2>6 DEF Seeks
  <2>7. CASE Seeks(s, p) /\ p \notin ToSet(a.order)
    <3>1. p \in Omitted(s, V, a)
      BY <1>1, <1>3, <2>4, <2>7 DEF Omitted, Seeks
    <3> QED BY <2>3, <3>1 DEF Sought
  <2>8. CASE ~Seeks(s, p)
    <3>1. awaiting' = awaiting
      BY <2>1 DEF CalmStill
    <3> QED BY <1>5, <1>6, <1>7, <2>5, <2>8, <3>1
  <2> QED BY <2>6, <2>7, <2>8
<1> QED BY <1>9, <1>10, <1>11, <1>12, <1>13 DEF CalmStep

LEMMA KeptStays ==
  ASSUME IInv, Watched, CalmStep, calm', NEW p \in 1 .. posted, Kept(p)
  PROVE  Kept(p)'
<1>1. Shown \subseteq Shown'
  BY ShownGrows
<1>2. CASE Reached(p)
  BY <1>1, <1>2 DEF Kept, Reached
<1>3. CASE Sought(p)
  <2>1. Sought(p)' \/ p \in Shown'
    BY <1>3, SoughtStays
  <2>2. p \in Nat
    OBVIOUS
  <2> QED BY <2>1, <2>2 DEF Kept, Reached
<1> QED BY <1>2, <1>3 DEF Kept

\* A post that is not shown, newer than the oldest one of the recent block, and
\* kept is sought, or its event was dropped.
LEMMA RecentReached ==
  ASSUME IInv, Watched, NEW o \in ToSet(blocks), o.recent, o.order # <<>>,
         NEW p \in 1 .. posted, p \notin Shown, Follows(o, p), Kept(p)
  PROVE  Sought(p) \/ p \in dropped
<1>1. TypeOK
  BY DEF IInv
<1>2. p \in Post /\ p \in Nat
  BY <1>1, LiveSteps
<1>3. CASE Reached(p)
  <2>1. PICK q \in Shown : q >= p
    BY <1>3 DEF Reached
  <2>2. PICK b \in ToSet(blocks) : q \in ToSet(b.order)
    BY <2>1 DEF Shown, PostsOf
  <2>3. PICK i \in DOMAIN blocks : blocks[i] = o
    BY DEF ToSet
  <2>4. PICK j \in DOMAIN blocks : blocks[j] = b
    BY <2>2 DEF ToSet
  <2>5. o.order \in Seq(Post) /\ b.order \in Seq(Post)
    BY <1>1, <2>3, <2>4, BlockShown
  <2>6. b.order # <<>> /\ q \in Nat
    BY <2>2, <2>5, ToSetOfSequence, MaxOfOrder
  <2>7. q > p
    BY <1>2, <2>1, <2>6
  <2>8. \E x \in ToSet(o.order) : p < x
    <3>1. CASE b.recent
      <4>1. i = j
        BY <2>3, <2>4, <3>1 DEF Watched, OnTop, OneIsRecent
      <4> QED BY <2>2, <2>3, <2>4, <2>7, <4>1
    <3>2. CASE ~b.recent
      <4>1. Max(ToSet(o.order)) >= Max(ToSet(b.order))
        BY <2>3, <2>4, <2>6, <3>2 DEF Watched, OnTop, NewestIsRecent
      <4>2. Max(ToSet(o.order)) \in ToSet(o.order) /\ Max(ToSet(o.order)) \in Nat
        BY <2>5, MaxOfOrder
      <4>3. q <= Max(ToSet(b.order)) /\ Max(ToSet(b.order)) \in Nat
        BY <2>2, <2>5, <2>6, MaxOfOrder
      <4> QED BY <1>2, <2>6, <2>7, <4>1, <4>2, <4>3
    <3> QED BY <3>1, <3>2
  <2>9. Enclosed(ToSet(blocks), p)
    BY <2>8 DEF Enclosed, Inside, Follows
  <2> QED BY <2>9 DEF Watched, GapsSought
<1> QED BY <1>3 DEF Kept

----------------------------------------------------------------------------
(* Each part of the invariant of a calm history stays true. *)

LEMMA CalmLinkStays ==
  ASSUME IInv, CalmInv, Next, calm'
  PROVE  CalmLink'
<1>1. TypeOK
  BY DEF IInv
<1>2. calm /\ Watched /\ CalmStep
  BY CalmSteps
<1>3. deleted' = deleted /\ (HasTop(ToSet(blocks)) => HasTop(ToSet(blocks')))
  BY <1>2, ShownGrows
<1>4. deleted = {} /\ (drops > 0 => viewing /\ HasTop(ToSet(blocks)))
  BY <1>2 DEF Watched, CalmLink
<1> DEFINE Looks == (drops' = drops \/ (viewing /\ HasTop(ToSet(blocks)))) /\ (viewing => viewing')
<1>5. \/ CreatePost \/ HelloNew
      \/ (HandleEvent /\ ~Head(events).del)
      \/ (\E p \in awaiting : ThreadLoaded(p))
      \/ (\E r \in requests : Answer(r) \/ Receive(r)) \/ CalmAsks
  BY CalmCases
<1>6. CreatePost => Looks
  BY DEF CreatePost
<1>7. HelloNew => Looks
  BY DEF HelloNew
<1>8. HandleEvent => Looks
  BY DEF HandleEvent
<1>9. ASSUME NEW p \in awaiting, ThreadLoaded(p)
      PROVE  Looks
  BY <1>9 DEF ThreadLoaded, link
<1>10. ASSUME NEW r \in requests, Answer(r)
       PROVE  Looks
  BY <1>10 DEF Answer, link
<1>11. ASSUME NEW r \in requests, Receive(r)
       PROVE  Looks
  BY <1>11 DEF Receive, link
<1>12. ASSUME Close
       PROVE  Looks
  <2> DEFINE i == RecentIndex(blocks)
  <2>1. viewing /\ viewing' /\ MostRecent # {}
    BY <1>12 DEF Close
  <2>2. i # 0 /\ ToSet(blocks[i].order) # {}
    BY <2>1 DEF MostRecent
  <2>3. blocks \in Seq(Blocks)
    BY <1>1 DEF TypeOK
  <2>4. i \in DOMAIN blocks /\ blocks[i].recent
    BY <2>2, <2>3, RecentIndexFinds
  <2>5. blocks[i] \in ToSet(blocks) /\ blocks[i].order \in Seq(Post)
    BY <1>1, <2>4, BlockShown
  <2>6. blocks[i].order # <<>>
    BY <2>2, <2>5, ToSetOfSequence
  <2> HIDE DEF i
  <2>7. HasTop(ToSet(blocks))
    BY <2>4, <2>5, <2>6 DEF HasTop
  <2> QED BY <2>1, <2>7
<1>13. Open \/ HelloResumed => Looks
  BY DEF Open, HelloResumed
<1>14. Visit \/ Prefetch => Looks
  BY DEF Visit, Prefetch, link
<1>15. ASSUME NEW p \in Post, VisitPermalink(p)
       PROVE  Looks
  BY <1>15 DEF VisitPermalink, link
<1>16. LoadMore("before") \/ LoadMore("after") => Looks
  BY DEF LoadMore, link
<1> HIDE DEF Looks
<1>17. CalmAsks => Looks
  BY <1>12, <1>13, <1>14, <1>15, <1>16 DEF CalmAsks
<1>18. Looks
  BY <1>5, <1>6, <1>7, <1>8, <1>9, <1>10, <1>11, <1>17
<1> QED BY <1>3, <1>4, <1>18 DEF Looks, CalmLink

LEMMA OnTopStays ==
  ASSUME IInv, Watched, CalmStep, calm'
  PROVE  OnTop'
<1>1. TypeOK /\ OnTop
  BY DEF IInv, Watched
<1>2. CASE blocks' = blocks
  BY <1>1, <1>2 DEF OnTop
<1>3. CreatePost => blocks' = blocks
  BY DEF CreatePost, client
<1>4. CalmStill => blocks' = blocks
  BY DEF CalmStill
<1>5. ASSUME NEW x \in Post, PostGoes(x)
      PROVE  OnTop'
  <2>1. CASE ReceiveNew(x)
    BY <1>1, <2>1, NewInCalm
  <2> QED BY <1>2, <1>5, <2>1 DEF PostGoes
<1>6. ASSUME NEW r \in requests, Receive(r)
      PROVE  OnTop'
  <2> DEFINE next == Reduce(r, known \cup r.reply.posts)
  <2>1. /\ blocks' = IF next.ok THEN next.blocks ELSE blocks
        /\ NewestIsRecent(next.blocks) /\ OneIsRecent(next.blocks)
    BY <1>6 DEF Receive
  <2> HIDE DEF next
  <2> QED BY <1>2, <2>1 DEF OnTop
<1>7. ASSUME NEW r \in requests, Answer(r)
      PROVE  OnTop'
  <2>1. CalmStill
    BY <1>7, AnswerStill
  <2> QED BY <1>2, <1>4, <2>1
<1> QED BY <1>2, <1>3, <1>4, <1>5, <1>6, <1>7 DEF CalmStep

\* What the blocks made of an answer show is in the store once it is received.
LEMMA FreshInStore ==
  ASSUME TypeOK, RepliesWhole, RepliesExact, NEW r \in requests, r.answered
  PROVE  PostsOf(Fresh(r)) \subseteq known \cup r.reply.posts
<1>1. /\ ToSet(r.reply.order) \subseteq r.reply.posts
      /\ r.kind \in {"before", "after"} => r.arg \in known /\ r.arg \in Post
      /\ r.kind \in Kinds
  BY DEF RepliesExact, Exact, RepliesWhole, TypeOK
<1>2. r.reply.order \in Seq(Post)
  <2>1. r.reply \in Replies
    BY DEF TypeOK
  <2> QED BY <2>1 DEF Replies
<1>3. ToSet(Append(r.reply.order, r.arg)) = ToSet(r.reply.order) \cup {r.arg}
      \/ r.arg \notin Post
  BY <1>2, ToSetOfSequence
<1>4. ToSet(<<r.arg>> \o r.reply.order) = ToSet(r.reply.order) \cup {r.arg}
      \/ r.arg \notin Post
  BY <1>2, ToSetOfSequence
<1>5. ASSUME NEW s, NEW recent, NEW oldest
      PROVE  PostsOf({Block(s, recent, oldest)}) = ToSet(s)
  <2> DEFINE f == Block(s, recent, oldest)
  <2>1. f.order = s
    BY DEF Block
  <2> HIDE DEF f
  <2>2. PostsOf({f}) = ToSet(s)
    BY <2>1 DEF PostsOf
  <2> QED BY <2>2 DEF f
<1>6. CASE r.kind = "since"
  BY <1>6 DEF Fresh, PostsOf
<1>7. CASE r.kind = "before"
  <2>1. Fresh(r) = {Block(<<r.arg>> \o r.reply.order, FALSE, r.reply.oldest)}
    BY <1>7 DEF Fresh
  <2>2. PostsOf(Fresh(r)) = ToSet(<<r.arg>> \o r.reply.order)
    BY <1>5, <2>1
  <2> QED BY <1>1, <1>4, <1>7, <2>2
<1>8. CASE r.kind = "after"
  <2>1. Fresh(r) = {Block(Append(r.reply.order, r.arg), r.reply.recent, FALSE)}
    BY <1>8 DEF Fresh
  <2>2. PostsOf(Fresh(r)) = ToSet(Append(r.reply.order, r.arg))
    BY <1>5, <2>1
  <2> QED BY <1>1, <1>3, <1>8, <2>2
<1>9. CASE r.kind \notin {"since", "before", "after"}
  <2>1. \/ Fresh(r) = {Block(r.reply.order, TRUE, r.reply.oldest)}
        \/ Fresh(r) = {Block(r.reply.order, r.reply.recent, r.reply.oldest)}
    BY <1>9 DEF Fresh
  <2>2. PostsOf(Fresh(r)) = ToSet(r.reply.order)
    BY <1>5, <2>1
  <2> QED BY <1>1, <2>2
<1> QED BY <1>6, <1>7, <1>8, <1>9

LEMMA InStoreStays ==
  ASSUME IInv, Watched, CalmStep, calm'
  PROVE  InStore'
<1>1. TypeOK /\ RepliesWhole /\ OnTop /\ RepliesExact
  BY DEF IInv, Watched
<1>2. Shown \subseteq known
  BY DEF Watched, InStore
<1>3. CASE UNCHANGED <<blocks, known>>
  BY <1>2, <1>3 DEF InStore, Shown
<1>4. CreatePost => UNCHANGED <<blocks, known>>
  BY DEF CreatePost, client
<1>5. CalmStill => UNCHANGED <<blocks, known>>
  BY DEF CalmStill
<1>6. ASSUME NEW x \in Post, PostGoes(x)
      PROVE  InStore'
  <2>1. CASE ReceiveNew(x) /\ known \cup {x} \subseteq known'
    <3>1. PostsOf(ToSet(blocks')) \subseteq PostsOf(ToSet(blocks)) \cup {x}
      BY <1>1, <2>1, NewInCalm
    <3> QED BY <1>2, <2>1, <3>1 DEF InStore, Shown
  <2> QED BY <1>3, <1>6, <2>1 DEF PostGoes
<1>7. ASSUME NEW r \in requests, Receive(r)
      PROVE  InStore'
  <2> DEFINE kn == known \cup r.reply.posts
             next == Reduce(r, kn)
  <2>1. CASE next.ok
    <3>1. blocks' = next.blocks /\ known' = kn /\ r.answered
      BY <1>7, <2>1 DEF Receive
    <3> DEFINE C == ToSet(next.blocks)
    <3>2. /\ r.kind = "since" => TakesNewer(C, ToSet(blocks), ToSet(r.reply.order), kn)
          /\ r.kind # "since" => Fills(C, ToSet(blocks), Fresh(r))
      BY <1>1, <2>1, ReduceFills
    <3>3. PostsOf(Fresh(r)) \subseteq kn
      BY <1>1, <3>1, FreshInStore
    <3>4. PostsOf(ToSet(blocks)) \subseteq kn
      BY <1>2 DEF Shown
    <3> HIDE DEF next, kn
    <3>5. PostsOf(C) \subseteq kn
      BY <3>2, <3>3, <3>4 DEF TakesNewer, Fills
    <3> QED BY <3>1, <3>5 DEF InStore, Shown
  <2>2. CASE ~next.ok
    BY <1>3, <1>7, <2>2 DEF Receive
  <2> QED BY <2>1, <2>2
<1>8. ASSUME NEW r \in requests, Answer(r)
      PROVE  InStore'
  <2>1. CalmStill
    BY <1>8, AnswerStill
  <2> QED BY <1>3, <1>5, <2>1
<1> QED BY <1>3, <1>4, <1>5, <1>6, <1>7, <1>8 DEF CalmStep

LEMMA ExactStays ==
  ASSUME NEW r, Exact(r), posted' = posted, known \subseteq known', leftOut \subseteq leftOut'
  PROVE  Exact(r)'
<1>1. /\ r.at.n <= posted'
      /\ r.kind = "since" => r.arg <= posted'
      /\ r.kind \in {"before", "after"} => r.arg \in known'
      /\ r.answered => ToSet(r.reply.order) \subseteq r.reply.posts
  BY DEF Exact
<1>2. ASSUME r.answered, NEW f \in Fresh(r), NEW p \in 1 .. posted, Covers(f, p)
      PROVE  p \in ToSet(f.order) \/ p \in leftOut' \/ \A q \in ToSet(f.order) : q < p
  BY <1>2 DEF Exact
<1>3. ASSUME r.answered, Stamps(r), r.kind # "since", NEW p \in 1 .. posted, p <= r.at.n
      PROVE  p \in leftOut' \/ (r.reply.order # <<>> /\ Head(r.reply.order) >= p)
  BY <1>3 DEF Exact
<1>4. ASSUME r.answered, r.kind = "since", NEW p \in 1 .. posted, r.arg < p,
             p <= r.at.n \/ \E x \in ToSet(r.reply.order) : x >= p
      PROVE  p \in ToSet(r.reply.order) \/ p \in leftOut'
  BY <1>4 DEF Exact
<1> QED BY <1>1, <1>2, <1>3, <1>4 DEF Exact

\* The answer to r has posts of V, and is the newest page when r is for that.
PageFor(r, V, a) ==
  \E S \in SUBSET V : \E M \in {V, Live} :
    a = Page(V, M, S) /\ (r.kind = "latest" => S = Newest(V))

LEMMA AnswersArePages ==
  ASSUME TypeOK, NEW r \in requests, NEW V \in Views, NEW a \in Answers(r, V),
         r.kind \in {"before", "after"} => r.arg \in Post, r.kind # "since"
  PROVE  PageFor(r, V, a)
<1>1. PageSize \in Nat /\ PageSize - 1 \in Nat /\ V \in SUBSET Post
  BY PostsAssumption, ViewsAreOfPosts
<1>2. /\ Newest(V) \in SUBSET V
      /\ \A p \in Post : Newest(Below(V, p)) \in SUBSET V
      /\ \A p \in Post : \A n \in Nat : Oldest(Above(V, p), n) \in SUBSET V
      /\ \A p \in V : \A n \in Nat : Window(V, p, n) \in SUBSET V
  <2>1. \A p : Below(V, p) \subseteq V /\ Above(V, p) \subseteq V
    BY DEF Below, Above
  <2> QED BY <1>1, <2>1, PagesAreConvex
<1>3. ASSUME a \in Pages(V, Newest(V))
      PROVE  PageFor(r, V, a)
  BY <1>2, <1>3 DEF PageFor, Pages
<1>4. ASSUME NEW S \in SUBSET V, a \in Pages(V, S), r.kind # "latest"
      PROVE  PageFor(r, V, a)
  BY <1>4 DEF PageFor, Pages
<1>5. CASE r.kind \in {"latest", "page0"}
  BY <1>3, <1>5 DEF Answers
<1>6. CASE r.kind \in {"unread", "prefetch"}
  <2>1. a \in Pages(V, Newest(V)) \/ \E p \in V : a \in Pages(V, Window(V, p, PageSize - 1))
    BY <1>6 DEF Answers
  <2>2. \A p \in V : Window(V, p, PageSize - 1) \in SUBSET V
    BY <1>1, <1>2
  <2> QED BY <1>3, <1>4, <1>6, <2>1, <2>2
<1>7. CASE r.kind = "around"
  <2>1. \E p \in V : a \in Pages(V, Window(V, p, PageSize))
    BY <1>7 DEF Answers
  <2>2. \A p \in V : Window(V, p, PageSize) \in SUBSET V
    BY <1>1, <1>2
  <2> QED BY <1>4, <1>7, <2>1, <2>2
<1>8. CASE r.kind = "before"
  <2>1. a \in Pages(V, Newest(Below(V, r.arg))) /\ Newest(Below(V, r.arg)) \in SUBSET V
    BY <1>2, <1>8 DEF Answers
  <2> QED BY <1>4, <1>8, <2>1
<1>9. CASE r.kind = "after"
  <2>1. /\ a \in Pages(V, Oldest(Above(V, r.arg), PageSize))
        /\ Oldest(Above(V, r.arg), PageSize) \in SUBSET V
    BY <1>1, <1>2, <1>9 DEF Answers
  <2> QED BY <1>4, <1>9, <2>1
<1>10. r.kind \in Kinds
  BY DEF TypeOK
<1> HIDE DEF TypeOK
<1> QED BY <1>5, <1>6, <1>7, <1>8, <1>9, <1>10 DEF Kinds

\* The first of a sequence in order is as new as each of its posts.
LEMMA DescHead ==
  ASSUME NEW S \in SUBSET Post, NEW q \in S
  PROVE  Desc(S) # <<>> /\ Head(Desc(S)) >= q
<1> DEFINE s == Desc(S)
<1>1. s \in Seq(Post) /\ ToSet(s) = S /\ \A i, j \in 1 .. Len(s) : i < j => s[i] > s[j]
  BY DescSorts
<1> HIDE DEF s
<1>2. PICK k \in 1 .. Len(s) : s[k] = q
  BY <1>1, ToSetOfSequence
<1>3. s # <<>> /\ Len(s) \in Nat /\ Head(s) = s[1] /\ 1 \in 1 .. Len(s)
  BY <1>1, <1>2
<1>4. k = 1 \/ s[1] > s[k]
  BY <1>1, <1>2, <1>3
<1>5. s[1] \in Nat /\ q \in Nat
  <2>1. s[1] \in Post
    BY <1>1, <1>3
  <2> QED BY <2>1, PostIsNat
<1>6. s # <<>> /\ Head(s) >= q
  BY <1>2, <1>3, <1>4, <1>5
<1> QED BY <1>6 DEF s

\* The newest page, and a page that says it reaches the newest post, does so in what
\* the server sees.
LEMMA PageTop ==
  ASSUME Live \in SUBSET Post, NEW V \in SUBSET Live, NEW M \in {V, Live},
         NEW S \in SUBSET V, Page(V, M, S).recent \/ S = Newest(V), NEW p \in V
  PROVE  Desc(S) # <<>> /\ Head(Desc(S)) >= p
<1>1. V \in SUBSET Post /\ S \in SUBSET Post /\ p \in Nat /\ \A x \in S : x \in Nat
  BY PostIsNat
<1>2. \E q \in S : q >= p
  <2>1. CASE p \in S
    BY <1>1, <2>1
  <2>2. CASE p \notin S /\ Page(V, M, S).recent
    <3>1. \A x \in M \ S : \E q \in S : q > x
      BY <2>2 DEF Page
    <3>2. PICK q \in S : q > p
      BY <2>2, <3>1
    <3> QED BY <1>1, <3>2
  <2>3. CASE p \notin S /\ S = Newest(V)
    <3>1. \E q : q \in Newest(V)
      <4>1. IsFiniteSet(V) /\ V # {}
        BY <1>1, PostsAreFinite
      <4>2. V \in SUBSET Nat /\ \A n \in V : n <= MaxPosts
        BY <1>1, PostsAreFinite
      <4>3. Max(V) \in V /\ \A n \in V : n <= Max(V)
        BY <4>1, <4>2, PostsAssumption, MaxIsGreatest
      <4> DEFINE N == {y \in V : y > Max(V)}
      <4>4. N = {}
        <5>1. ASSUME NEW m \in V, \A n \in V : n <= m
              PROVE  {y \in V : y > m} = {}
          <6>1. ASSUME NEW y \in V
                PROVE  ~(y > m)
            BY <4>2, <5>1
          <6> QED BY <6>1
        <5> QED BY <4>3, <5>1
      <4> HIDE DEF N
      <4>5. Cardinality(N) < PageSize
        BY <4>4, FS_EmptySet, PostsAssumption
      <4> QED BY <4>3, <4>5 DEF N, Newest
    <3>2. PICK q : q \in Newest(V)
      BY <3>1
    <3>3. q > p
      BY <1>1, <2>3, <3>2, NewestAreNewer
    <3> QED BY <1>1, <2>3, <3>2, <3>3
  <2> QED BY <2>1, <2>2, <2>3
<1>3. PICK q \in S : q >= p
  BY <1>2
<1>4. Desc(S) # <<>> /\ Head(Desc(S)) >= q /\ Desc(S) \in Seq(Post)
  BY <1>1, DescHead, DescSorts
<1>5. Head(Desc(S)) \in Nat /\ q \in Nat
  <2>1. Head(Desc(S)) \in Post
    BY <1>4, EndsOfSequence
  <2> QED BY <1>1, <2>1, PostIsNat
<1> QED BY <1>1, <1>3, <1>4, <1>5

\* With what an answer leaves out, it is exact.
LEMMA AnswerExact ==
  ASSUME TypeOK, RepliesWhole, deleted = {}, NEW r \in requests, Exact(r),
         NEW V \in Views, NEW a \in Answers(r, V),
         posted' = posted, known \subseteq known',
         Omitted(r, V, a) \subseteq leftOut'
  PROVE  Exact([r EXCEPT !.answered = TRUE, !.reply = a])'
<1> DEFINE t == [r EXCEPT !.answered = TRUE, !.reply = a]
<1>1. r \in [kind : Kinds, arg : 0 .. MaxPosts, at : Times, answered : BOOLEAN, reply : Replies]
  BY DEF TypeOK
<1>2. /\ t.kind = r.kind /\ t.arg = r.arg /\ t.at = r.at /\ t.answered /\ t.reply = a
  BY <1>1
<1>3. /\ r.at.n <= posted
      /\ r.kind = "since" => r.arg <= posted
      /\ r.kind \in {"before", "after"} => r.arg \in known /\ r.arg \in Post
  BY DEF Exact, RepliesWhole
<1>4. /\ posted \in Nat /\ Live = 1 .. posted /\ Live \in SUBSET Post /\ r.at.n \in Nat
      /\ r.arg \in Nat /\ V \in SUBSET Live
  <2>1. MaxPosts \in Nat
    BY PostsAssumption
  <2>2. Live = 1 .. posted
    BY DEF Live
  <2> QED BY <1>1, <2>1, <2>2, LiveSteps, ViewsAreOfPosts DEF Times
<1>5. \A f \in Fresh(t) : \A p \in Live : Covers(f, p) =>
        p \in ToSet(f.order) \/ p \in Omitted(r, V, a)
  BY Zenon, <1>3, AnswersAreWhole
<1> HIDE DEF t
<1>6. r.kind # "since" => PageFor(r, V, a)
  BY <1>3, AnswersArePages
<1>7. \A S \in SUBSET V : ToSet(Desc(S)) = S /\ S \subseteq Threads(V, S)
  BY <1>4, DescSorts DEF Threads
<1>8. ToSet(a.order) \subseteq a.posts
  <2>1. CASE r.kind # "since"
    <3>1. PICK S \in SUBSET V : \E M \in {V, Live} : a = Page(V, M, S)
      BY <1>6, <2>1 DEF PageFor
    <3>2. a.order = Desc(S) /\ a.posts = Threads(V, S)
      BY <3>1 DEF Page
    <3> QED BY <1>7, <3>2
  <2>2. CASE r.kind = "since"
    <3>1. a \in UpdatedSince(V, r.arg)
      BY <2>2 DEF Answers
    <3>3. PICK S \in SUBSET (V \cup deleted) : a.order = Desc(S) /\ a.posts = Threads(V, S)
      BY <3>1, UpdatedInOrder
    <3>4. S \in SUBSET V
      OBVIOUS
    <3> QED BY <1>7, <3>3, <3>4
  <2> QED BY <2>1, <2>2
<1>9. ASSUME Stamps(t), r.kind # "since", NEW p \in 1 .. posted, p <= r.at.n
      PROVE  p \in leftOut' \/ (a.order # <<>> /\ Head(a.order) >= p)
  <2>1. PICK S \in SUBSET V, M \in {V, Live} :
          a = Page(V, M, S) /\ (r.kind = "latest" => S = Newest(V))
    BY <1>6, <1>9 DEF PageFor
  <2>2. a.order = Desc(S) /\ ToSet(a.order) = S
    BY <1>7, <2>1 DEF Page
  <2>3. CASE p \in V
    <3>1. r.kind = "latest" \/ a.recent
      BY <1>2, <1>9 DEF Stamps, Stamping
    <3>2. Desc(S) # <<>> /\ Head(Desc(S)) >= p
      BY <1>4, <2>1, <2>3, <3>1, PageTop
    <3> QED BY <2>2, <3>2
  <2>4. CASE p \notin V
    <3>1. p \in Omitted(r, V, a)
      BY <1>4, <1>9, <2>1, <2>2, <2>4 DEF Omitted
    <3> QED BY <3>1
  <2> QED BY <2>3, <2>4
<1>10. ASSUME r.kind = "since", NEW p \in 1 .. posted, r.arg < p
       PROVE  p \in ToSet(a.order) \/ p \in leftOut'
  <2>1. p \notin ToSet(a.order) => p \in Omitted(r, V, a)
    BY <1>4, <1>10 DEF Omitted
  <2> QED BY <2>1
<1>11. Exact(t)'
  BY <1>2, <1>3, <1>4, <1>5, <1>8, <1>9, <1>10 DEF Exact
<1> QED BY <1>11 DEF t

LEMMA RepliesStayExact ==
  ASSUME IInv, Watched, CalmStep, calm'
  PROVE  RepliesExact'
<1>1. TypeOK /\ RepliesWhole /\ deleted = {} /\ InStore
  BY DEF IInv, Watched, CalmLink
<1>2. \A r \in requests : Exact(r)
  BY DEF Watched, RepliesExact
<1>3. known \subseteq known' /\ leftOut \subseteq leftOut'
  BY ShownGrows DEF CalmStep
<1>4. CASE requests' \subseteq requests /\ posted' = posted
  <2>1. \A r \in requests' : Exact(r)'
    BY <1>2, <1>3, <1>4, ExactStays
  <2> QED BY <2>1 DEF RepliesExact
<1>5. CASE CalmStill /\ \E R : AskedWell(R) /\ requests' = requests \cup R
  <2>1. posted' = posted
    BY <1>5 DEF CalmStill
  <2>2. PICK R : AskedWell(R) /\ requests' = requests \cup R
    BY <1>5
  <2>3. \A r \in R : Exact(r)
    BY <2>2 DEF AskedWell, Exact
  <2>4. \A r \in requests' : Exact(r)'
    BY <1>2, <1>3, <2>1, <2>2, <2>3, ExactStays
  <2> QED BY <2>4 DEF RepliesExact
<1>6. CASE CreatePost
  <2>1. posted' = posted + 1 /\ requests' = requests /\ known' = known
    BY <1>6 DEF CreatePost, client
  <2>2. posted \in Nat /\ 1 .. posted' = (1 .. posted) \cup {posted + 1} /\ known \subseteq 1 .. posted
    BY <1>1, <2>1, LiveSteps DEF TypeOK
  <2>3. ASSUME NEW r \in requests
        PROVE  Exact(r)'
    <3>1. Exact(r)
      BY <1>2
    <3>2. r.at.n \in Nat /\ r.arg \in Nat
      <4>1. MaxPosts \in Nat
        BY PostsAssumption
      <4> QED BY <1>1, <4>1 DEF TypeOK, Times
    <3>3. r.answered => /\ PostsOf(Fresh(r)) \subseteq 1 .. posted
                        /\ ToSet(r.reply.order) \subseteq 1 .. posted
      <4>1. r.answered => r.reply.posts \subseteq 1 .. posted
        BY <1>1 DEF RepliesWhole
      <4>2. r.answered => PostsOf(Fresh(r)) \subseteq known \cup r.reply.posts
        BY <1>1, FreshInStore DEF Watched
      <4> QED BY <2>2, <3>1, <4>1, <4>2 DEF Exact
    <3>4. ASSUME r.answered, NEW f \in Fresh(r), NEW p \in 1 .. posted', Covers(f, p)
          PROVE  p \in ToSet(f.order) \/ p \in leftOut' \/ \A q \in ToSet(f.order) : q < p
      <4>1. CASE p \in 1 .. posted
        BY <1>3, <3>1, <3>4, <4>1 DEF Exact
      <4>2. CASE p = posted + 1
        <5>1. ToSet(f.order) \subseteq 1 .. posted
          BY <3>3, <3>4 DEF PostsOf
        <5> QED BY <2>2, <4>2, <5>1
      <4> QED BY <2>2, <4>1, <4>2
    <3>5. ASSUME r.answered, r.kind = "since", NEW p \in 1 .. posted', r.arg < p,
                 p <= r.at.n \/ \E x \in ToSet(r.reply.order) : x >= p
          PROVE  p \in ToSet(r.reply.order) \/ p \in leftOut'
      <4>1. CASE p \in 1 .. posted
        BY <1>3, <3>1, <3>5, <4>1 DEF Exact
      <4>2. CASE p = posted + 1
        <5>1. ~(p <= r.at.n)
          BY <2>2, <3>1, <3>2, <4>2 DEF Exact
        <5>2. \A x \in ToSet(r.reply.order) : ~(x >= p)
          BY <2>2, <3>3, <3>5, <4>2
        <5> QED BY <3>5, <5>1, <5>2
      <4> QED BY <2>2, <4>1, <4>2
    <3>6. r.at.n <= posted' /\ (r.kind = "since" => r.arg <= posted')
      BY <2>1, <2>2, <3>1, <3>2 DEF Exact
    <3>7. /\ r.kind \in {"before", "after"} => r.arg \in known'
          /\ r.answered => ToSet(r.reply.order) \subseteq r.reply.posts
      BY <2>1, <3>1 DEF Exact
    <3>8. ASSUME r.answered, Stamps(r), r.kind # "since", NEW p \in 1 .. posted', p <= r.at.n
          PROVE  p \in leftOut' \/ (r.reply.order # <<>> /\ Head(r.reply.order) >= p)
      <4>1. p \in 1 .. posted
        BY <2>2, <3>1, <3>2, <3>8 DEF Exact
      <4> QED BY <1>3, <3>1, <3>8, <4>1 DEF Exact
    <3> QED BY <3>4, <3>5, <3>6, <3>7, <3>8 DEF Exact
  <2> QED BY <2>1, <2>3 DEF RepliesExact
<1>7. ASSUME NEW x \in Post, PostGoes(x)
      PROVE  RepliesExact'
  BY <1>4, <1>7 DEF PostGoes
<1>8. ASSUME NEW r \in requests, Receive(r)
      PROVE  RepliesExact'
  BY <1>1, <1>4, <1>8, ReceiveTakes
<1>9. ASSUME NEW r \in requests, Answer(r)
      PROVE  RepliesExact'
  <2>1. posted' = posted
    <3>1. CalmStill
      BY <1>9, AnswerStill
    <3> QED BY <3>1 DEF CalmStill
  <2>2. PICK V \in Views : \E a \in Answers(r, V) :
           /\ requests' = (requests \ {r}) \cup {[r EXCEPT !.answered = TRUE, !.reply = a]}
           /\ leftOut' = leftOut \cup Omitted(r, V, a)
    BY Zenon, <1>9, AnswerSteps
  <2>3. PICK a \in Answers(r, V) :
           /\ requests' = (requests \ {r}) \cup {[r EXCEPT !.answered = TRUE, !.reply = a]}
           /\ leftOut' = leftOut \cup Omitted(r, V, a)
    BY Zenon, <2>2
  <2> DEFINE t == [r EXCEPT !.answered = TRUE, !.reply = a]
  <2>4. Omitted(r, V, a) \subseteq leftOut' /\ requests' = (requests \ {r}) \cup {t}
    BY <2>3
  <2>5. Exact(t)'
    BY Zenon, <1>1, <1>2, <1>3, <2>1, <2>4, AnswerExact
  <2> HIDE DEF t
  <2>6. \A s \in requests' : Exact(s)'
    BY <1>2, <1>3, <2>1, <2>4, <2>5, ExactStays
  <2> QED BY <2>6 DEF RepliesExact
<1> QED BY <1>5, <1>6, <1>7, <1>8, <1>9 DEF CalmStep

\* A post that is accounted for in front of the recent block is sought or dropped,
\* if its event does not come any more.
LEMMA AccountedSought ==
  ASSUME IInv, CalmInv, Watched, NEW p \in 1 .. posted, p \notin Shown,
         NEW o \in ToSet(blocks), o.recent, Follows(o, p), ~Queued(p)
  PROVE  Sought(p) \/ p \in dropped
<1>1. TypeOK /\ BlocksWhole
  BY DEF IInv
<1>2. p \in Live
  BY DEF Live, Watched, CalmLink
<1>3. Covered(ToSet(blocks), p)
  BY DEF Covered, Covers, Follows
<1>4. loaded
  BY <1>1, <1>3, BlocksCount
<1>5. p \in awaiting \/ p \in lost \/ p \in dropped \/ p \in leftOut
  <2>1. Accounted(p)
    BY <1>1, <1>2, <1>3 DEF BlocksWhole
  <2> QED BY <2>1, AccountedIs DEF Queued, Shown
<1>6. CASE p \in lost
  <2>1. drops > 0 /\ Kept(p)
    BY <1>6 DEF CalmInv, LinkUp, Watched, LostKept
  <2>2. PICK b \in ToSet(blocks) : b.recent /\ b.order # <<>>
    BY <2>1 DEF Watched, CalmLink, HasTop
  <2>3. o = b
    <3>1. PICK i \in DOMAIN blocks : blocks[i] = o
      BY DEF ToSet
    <3>2. PICK j \in DOMAIN blocks : blocks[j] = b
      BY DEF ToSet
    <3>3. i = j
      BY <2>2, <3>1, <3>2 DEF Watched, OnTop, OneIsRecent
    <3> QED BY <3>1, <3>2, <3>3
  <2> QED BY <2>1, <2>2, <2>3, RecentReached
<1> QED BY <1>4, <1>5, <1>6 DEF Sought

LEMMA InsideIsCovered ==
  ASSUME NEW F, NEW p, Enclosed(F, p)
  PROVE  \E f \in F : Covers(f, p) /\ \E q \in ToSet(f.order) : p < q
BY DEF Enclosed, Inside, Covers

LEMMA GapsStaySought ==
  ASSUME IInv, CalmInv, Watched, CalmStep, calm'
  PROVE  GapsSought'
<1>1. TypeOK /\ RepliesWhole /\ OnTop /\ InStore /\ RepliesExact
  BY DEF IInv, Watched
<1>2. /\ posted \in Nat /\ 1 .. posted \subseteq Post /\ known \subseteq 1 .. posted
      /\ Shown \subseteq 1 .. posted
  BY <1>1, LiveSteps DEF TypeOK, InStore
<1>3. Shown \subseteq Shown' /\ dropped \subseteq dropped'
  BY ShownGrows
\* What was sought or dropped stays so.
<1>4. ASSUME NEW p \in 1 .. posted, p \notin Shown', Sought(p) \/ p \in dropped
      PROVE  Sought(p)' \/ p \in dropped'
  BY <1>3, <1>4, SoughtStays
<1>5. ASSUME NEW p \in 1 .. posted, p \notin Shown', Enclosed(ToSet(blocks), p)
      PROVE  Sought(p)' \/ p \in dropped'
  <2>1. Sought(p) \/ p \in dropped
    BY <1>3, <1>5 DEF Watched, GapsSought
  <2> QED BY <1>4, <1>5, <2>1
<1>6. CASE UNCHANGED <<posted, blocks>>
  <2> SUFFICES ASSUME NEW p \in 1 .. posted, Enclosed(ToSet(blocks), p), p \notin Shown'
               PROVE  Sought(p)' \/ p \in dropped'
    BY <1>6 DEF GapsSought
  <2> QED BY <1>5
<1>7. CASE CreatePost
  <2>1. posted' = posted + 1 /\ blocks' = blocks
    BY <1>7 DEF CreatePost, client
  <2>2. 1 .. posted' = (1 .. posted) \cup {posted + 1}
    BY <1>2, <2>1
  <2>3. ~Enclosed(ToSet(blocks), posted + 1)
    <3> SUFFICES ASSUME Enclosed(ToSet(blocks), posted + 1)
                 PROVE  FALSE
      OBVIOUS
    <3>1. PICK q \in Shown : posted + 1 < q
      BY DEF Enclosed, Inside, Shown, PostsOf
    <3> QED BY <1>2, <3>1
  <2> SUFFICES ASSUME NEW p \in 1 .. posted', Enclosed(ToSet(blocks), p), p \notin Shown'
               PROVE  Sought(p)' \/ p \in dropped'
    BY <2>1 DEF GapsSought
  <2> QED BY <1>5, <2>2, <2>3
<1>8. ASSUME NEW x \in Post, PostGoes(x)
      PROVE  GapsSought'
  <2>1. posted' = posted /\ \A p \in Post : Queued(p) => p >= x
    BY <1>8 DEF PostGoes
  <2>2. CASE ReceiveNew(x)
    <3> SUFFICES ASSUME NEW p \in 1 .. posted, Enclosed(ToSet(blocks'), p), p \notin Shown'
                 PROVE  Sought(p)' \/ p \in dropped'
      BY <2>1 DEF GapsSought
    <3>1. p \in Post
      BY <1>2
    <3>2. Enclosed(ToSet(blocks), p)
          \/ (p < x /\ \E o \in ToSet(blocks) : o.recent /\ Follows(o, p))
      BY <1>1, <2>2, <3>1, NewInCalm
    <3>3. ASSUME p < x, NEW o \in ToSet(blocks), o.recent, Follows(o, p)
          PROVE  Sought(p)' \/ p \in dropped'
      <4>1. ~Queued(p)
        <5>1. p \in Nat /\ x \in Nat
          BY PostIsNat
        <5> QED BY <2>1, <3>1, <3>3, <5>1
      <4>2. Sought(p) \/ p \in dropped
        BY <1>3, <3>3, <4>1, AccountedSought
      <4> QED BY <1>4, <4>2
    <3> QED BY <1>5, <3>2, <3>3
  <2> QED BY <1>6, <1>8, <2>1, <2>2 DEF PostGoes
<1>9. ASSUME NEW r \in requests, Receive(r)
      PROVE  GapsSought'
  <2> DEFINE kn == known \cup r.reply.posts
             next == Reduce(r, kn)
  <2>1. posted' = posted /\ r.answered
    BY <1>1, <1>9, ReceiveTakes
  <2>2. CASE ~next.ok
    <3>1. blocks' = blocks
      BY <1>9, <2>2 DEF Receive
    <3> QED BY <1>6, <2>1, <3>1
  <2>3. CASE next.ok
    <3>1. blocks' = next.blocks
      BY <1>9, <2>3 DEF Receive
    <3>2. /\ r.kind = "since" => TakesNewer(ToSet(next.blocks), ToSet(blocks), ToSet(r.reply.order), kn)
          /\ r.kind # "since" => Fills(ToSet(next.blocks), ToSet(blocks), Fresh(r))
      BY <1>1, <2>3, ReduceFills
    <3> HIDE DEF next
    <3> SUFFICES ASSUME NEW p \in 1 .. posted, Enclosed(ToSet(blocks'), p), p \notin Shown'
                 PROVE  Sought(p)' \/ p \in dropped'
      BY <2>1 DEF GapsSought
    <3>3. p \in Post /\ p \in Nat
      BY <1>2
    <3>4. CASE r.kind = "since"
      <4>1. \/ Enclosed(ToSet(blocks), p)
            \/ /\ \E q \in ToSet(r.reply.order) : p < q
               /\ \E o \in ToSet(blocks) : o.recent /\ o.order # <<>> /\ Follows(o, p)
        BY <3>1, <3>2, <3>3, <3>4 DEF TakesNewer
      <4>2. ASSUME NEW q \in ToSet(r.reply.order), p < q,
                   NEW o \in ToSet(blocks), o.recent, o.order # <<>>, Follows(o, p)
            PROVE  Sought(p)' \/ p \in dropped'
        <5>1. r.arg \in Nat /\ q \in Nat
          <6>1. MaxPosts \in Nat
            BY PostsAssumption
          <6>2. r.arg \in 0 .. MaxPosts
            BY <1>1 DEF TypeOK
          <6>3. ToSet(r.reply.order) \subseteq 1 .. posted
            BY <1>1, <2>1, <3>4 DEF RepliesWhole
          <6> QED BY <1>2, <6>1, <6>2, <6>3
        <5>2. CASE r.arg < p
          <6>1. q >= p
            BY <3>3, <4>2, <5>1
          <6>2. p \in ToSet(r.reply.order) \/ p \in leftOut
            BY <1>1, <2>1, <3>4, <5>2, <6>1 DEF RepliesExact, Exact
          <6>3. p \in ToSet(r.reply.order) => p \in Shown'
            BY <1>9, <3>3, <3>4, <5>1, <5>2, ReceiveInCalm DEF Shown
          <6>4. p \in leftOut => Sought(p)
            BY DEF Sought
          <6> QED BY <1>4, <6>2, <6>3, <6>4
        <5>3. CASE p <= r.arg
          <6>1. Kept(p)
            BY <3>4, <5>3 DEF Watched, AskedKept
          <6>2. p \notin Shown
            BY <1>3
          <6>3. Sought(p) \/ p \in dropped
            BY <4>2, <6>1, <6>2, RecentReached
          <6> QED BY <1>4, <6>3
        <5> QED BY <3>3, <5>1, <5>2, <5>3
      <4> QED BY <1>5, <4>1, <4>2
    <3>5. CASE r.kind # "since"
      <4>1. \/ Enclosed(ToSet(blocks), p)
            \/ p \in PostsOf(ToSet(blocks'))
            \/ Enclosed(Fresh(r), p) /\ p \notin PostsOf(Fresh(r))
        BY <3>1, <3>2, <3>3, <3>5 DEF Fills
      <4>2. p \notin PostsOf(ToSet(blocks'))
        BY DEF Shown
      <4>3. Enclosed(Fresh(r), p) /\ p \notin PostsOf(Fresh(r)) => p \in leftOut
        <5> SUFFICES ASSUME Enclosed(Fresh(r), p), p \notin PostsOf(Fresh(r)), p \notin leftOut
                     PROVE  FALSE
          OBVIOUS
        <5>1. PICK f \in Fresh(r) : Covers(f, p) /\ \E q \in ToSet(f.order) : p < q
          BY InsideIsCovered
        <5>2. p \in ToSet(f.order) \/ p \in leftOut \/ \A q \in ToSet(f.order) : q < p
          BY <1>1, <2>1, <5>1 DEF RepliesExact, Exact
        <5>3. p \notin ToSet(f.order)
          BY <5>1 DEF PostsOf
        <5>4. PICK q \in ToSet(f.order) : p < q
          BY <5>1
        <5>5. q \in Nat
          <6>1. q \in known \cup r.reply.posts
            BY <1>1, <2>1, <5>1, <5>4, FreshInStore DEF PostsOf
          <6>2. r.reply.posts \subseteq 1 .. posted
            BY <1>1, <2>1 DEF RepliesWhole
          <6> QED BY <1>2, <6>1, <6>2
        <5> QED BY <3>3, <5>2, <5>3, <5>4, <5>5
      <4>4. p \in leftOut => Sought(p)
        BY DEF Sought
      <4> QED BY <1>4, <1>5, <4>1, <4>2, <4>3, <4>4
    <3> QED BY <3>4, <3>5
  <2> QED BY <2>2, <2>3
<1>10. ASSUME CalmStill
       PROVE  GapsSought'
  BY <1>6, <1>10 DEF CalmStill
<1>11. ASSUME NEW r \in requests, Answer(r)
       PROVE  GapsSought'
  <2>1. CalmStill
    BY <1>11, AnswerStill
  <2> QED BY <1>10, <2>1
<1> QED BY <1>7, <1>8, <1>9, <1>10, <1>11 DEF CalmStep

LEMMA AskedStayKept ==
  ASSUME IInv, Watched, CalmStep, calm'
  PROVE  AskedKept'
<1>1. TypeOK /\ RepliesWhole /\ RepliesExact /\ AskedKept
  BY DEF IInv, Watched
<1>2. \A p \in 1 .. posted : Kept(p) => Kept(p)'
  BY KeptStays
<1>3. CASE posted' = posted /\ requests' \subseteq requests
  BY <1>1, <1>2, <1>3 DEF AskedKept
<1>4. CASE CalmStill /\ \E R : AskedWell(R) /\ requests' = requests \cup R
  <2>1. posted' = posted
    BY <1>4 DEF CalmStill
  <2>2. PICK R : AskedWell(R) /\ requests' = requests \cup R
    BY <1>4
  <2>3. \A r \in requests \cup R : r.kind = "since" => \A p \in 1 .. posted : p <= r.arg => Kept(p)
    BY <1>1, <2>2 DEF AskedKept, AskedWell
  <2> QED BY <1>2, <2>1, <2>2, <2>3 DEF AskedKept
<1>5. CASE CreatePost
  <2>1. posted' = posted + 1 /\ requests' = requests
    BY <1>5 DEF CreatePost
  <2>2. posted \in Nat /\ 1 .. posted' = (1 .. posted) \cup {posted + 1} /\ MaxPosts \in Nat
    BY <1>1, <2>1, LiveSteps, PostsAssumption
  <2> SUFFICES ASSUME NEW r \in requests, r.kind = "since", NEW p \in 1 .. posted', p <= r.arg
               PROVE  Kept(p)'
    BY <2>1 DEF AskedKept
  <2>3. r.arg <= posted /\ r.arg \in 0 .. MaxPosts
    BY <1>1 DEF RepliesExact, Exact, TypeOK
  <2>4. p \in 1 .. posted
    BY <2>2, <2>3
  <2> QED BY <1>1, <1>2, <2>4 DEF AskedKept
<1>6. ASSUME NEW x \in Post, PostGoes(x)
      PROVE  AskedKept'
  BY <1>3, <1>6 DEF PostGoes
<1>7. ASSUME NEW r \in requests, Receive(r)
      PROVE  AskedKept'
  BY <1>1, <1>3, <1>7, ReceiveTakes
<1>8. ASSUME NEW r \in requests, Answer(r)
      PROVE  AskedKept'
  <2>1. posted' = posted
    <3>1. CalmStill
      BY <1>8, AnswerStill
    <3> QED BY <3>1 DEF CalmStill
  <2>2. PICK a : requests' = (requests \ {r}) \cup {[r EXCEPT !.answered = TRUE, !.reply = a]}
    BY Zenon, <1>8, AnswerSteps
  <2> DEFINE t == [r EXCEPT !.answered = TRUE, !.reply = a]
  <2>3. t.kind = r.kind /\ t.arg = r.arg
    <3>1. r \in [kind : Kinds, arg : 0 .. MaxPosts, at : Times,
                 answered : BOOLEAN, reply : Replies]
      BY <1>1 DEF TypeOK
    <3> QED BY <3>1
  <2>4. requests' = (requests \ {r}) \cup {t}
    BY <2>2
  <2> HIDE DEF t
  <2> QED BY <1>1, <1>2, <2>1, <2>3, <2>4 DEF AskedKept
<1> QED BY <1>4, <1>5, <1>6, <1>7, <1>8 DEF CalmStep

LEMMA StampStaysKept ==
  ASSUME IInv, Watched, CalmStep, calm'
  PROVE  StampKept'
<1>1. TypeOK /\ RepliesWhole /\ RepliesExact /\ AskedKept /\ StampKept
  BY DEF IInv, Watched
<1>2. \A p \in 1 .. posted : Kept(p) => Kept(p)'
  BY KeptStays
<1>3. posted \in Nat /\ MaxPosts \in Nat
  BY <1>1, LiveSteps, PostsAssumption
<1>4. CASE posted' = posted /\ lastApi' = lastApi
  BY <1>1, <1>2, <1>4 DEF StampKept
<1>5. CASE CreatePost
  <2>1. posted' = posted + 1 /\ lastApi' = lastApi
    BY <1>5 DEF CreatePost, client
  <2>2. 1 .. posted' = (1 .. posted) \cup {posted + 1}
    BY <1>3, <2>1
  <2> SUFFICES ASSUME NEW t \in lastApi
               PROVE  t.n <= posted' /\ \A p \in 1 .. posted' : p <= t.n => Kept(p)'
    BY <2>1 DEF StampKept
  <2>3. t.n \in 0 .. MaxPosts
    BY <1>1 DEF TypeOK, Times
  <2>4. t.n <= posted /\ \A p \in 1 .. posted : p <= t.n => Kept(p)
    BY <1>1 DEF StampKept
  <2> QED BY <1>2, <1>3, <2>1, <2>2, <2>3, <2>4
<1>6. ASSUME NEW x \in Post, PostGoes(x)
      PROVE  StampKept'
  BY <1>4, <1>6 DEF PostGoes
<1>7. CalmStill => StampKept'
  BY <1>4 DEF CalmStill
<1>8. ASSUME NEW r \in requests, Answer(r)
      PROVE  StampKept'
  <2>1. CalmStill
    BY <1>8, AnswerStill
  <2> QED BY <1>7, <2>1
<1>9. ASSUME NEW r \in requests, Receive(r)
      PROVE  StampKept'
  <2> DEFINE kn == known \cup r.reply.posts
             next == Reduce(r, kn)
  <2>1. posted' = posted /\ r.answered
    BY <1>1, <1>9, ReceiveTakes
  <2>2. CASE ~next.ok \/ ~Stamps(r)
    <3>1. lastApi' = lastApi
      BY <1>9, <2>2 DEF Receive
    <3> QED BY <1>4, <2>1, <3>1
  <2>3. CASE next.ok /\ Stamps(r)
    <3>1. blocks' = next.blocks /\ leftOut \subseteq leftOut'
          /\ \E n \in Clock(r) : n <= r.at.n /\ lastApi' = {[r.at EXCEPT !.n = n]}
      BY Zenon, <1>9, <2>3 DEF Receive, CalmStep
    <3>2. r.at.n <= posted /\ r.at.n \in Nat /\ r.arg \in Nat
      <4>1. r.arg \in 0 .. MaxPosts /\ r.at \in Times
        BY <1>1 DEF TypeOK
      <4>2. r.at.n \in 0 .. MaxPosts
        BY <4>1 DEF Times
      <4> QED BY <1>1, <1>3, <4>1, <4>2 DEF RepliesExact, Exact
    <3>3. ASSUME NEW p \in 1 .. posted, p <= r.at.n
          PROVE  Kept(p)'
      <4>1. CASE r.kind = "since" /\ p <= r.arg
        BY <1>1, <1>2, <4>1 DEF AskedKept
      <4>2. CASE r.kind = "since" /\ r.arg < p
        <5>1. p \in ToSet(r.reply.order) \/ p \in leftOut
          BY <1>1, <2>1, <3>3, <4>2 DEF RepliesExact, Exact
        <5>2. p \in ToSet(r.reply.order) => p \in Shown'
          BY <1>9, <3>2, <4>2, ReceiveInCalm DEF Shown
        <5>3. p \in leftOut => Sought(p)'
          BY <3>1 DEF Sought
        <5> QED BY <1>3, <5>1, <5>2, <5>3 DEF Kept, Reached
      <4>3. CASE r.kind # "since"
        <5>1. r.kind \notin {"before", "after"}
          BY <2>3 DEF Stamps, Stamping
        <5>2. CASE p \in leftOut
          BY <3>1, <5>2 DEF Kept, Sought
        <5>3. CASE p \notin leftOut
          <6>1. r.reply.order # <<>> /\ Head(r.reply.order) >= p
            BY <1>1, <2>1, <2>3, <3>3, <4>3, <5>3 DEF RepliesExact, Exact
          <6>2. Head(r.reply.order) \in PostsOf(ToSet(next.blocks))
            BY <1>1, <2>3, <4>3, <5>1, <6>1, ReduceFills
          <6> HIDE DEF next
          <6>3. Head(r.reply.order) \in Shown'
            BY <3>1, <6>2 DEF Shown
          <6> QED BY <6>1, <6>3 DEF Kept, Reached
        <5> QED BY <5>2, <5>3
      <4> QED BY <3>2, <4>1, <4>2, <4>3
    <3>4. PICK n \in Clock(r) : n <= r.at.n /\ lastApi' = {[r.at EXCEPT !.n = n]}
      BY Zenon, <3>1
    <3>5. n \in Nat
      <4>1. n \in {r.at.n} \cup 0 .. MaxPosts
        BY DEF Clock
      <4> QED BY <1>3, <3>2, <4>1
    <3>6. [r.at EXCEPT !.n = n].n = n
      <4>1. r.at \in Times
        BY <1>1 DEF TypeOK
      <4> QED BY <4>1 DEF Times
    <3>7. \A t \in lastApi' : t.n = n
      BY Zenon, <3>4, <3>6
    <3>8. n <= posted /\ \A p \in 1 .. posted : p <= n => Kept(p)'
      BY <1>3, <3>2, <3>3, <3>4, <3>5
    <3> QED BY <2>1, <3>7, <3>8 DEF StampKept
  <2> QED BY <2>2, <2>3
<1> QED BY <1>5, <1>6, <1>7, <1>8, <1>9 DEF CalmStep

LEMMA LostStaysKept ==
  ASSUME IInv, CalmInv, Next, calm'
  PROVE  LostKept'
<1>1. TypeOK
  BY DEF IInv
<1>2. calm /\ Watched /\ CalmStep
  BY CalmSteps
<1>3. lost \subseteq 1 .. posted /\ \A p \in lost : Kept(p)
  BY <1>1, <1>2 DEF TypeOK, Watched, LostKept
<1>4. CASE lost' = lost
  BY <1>2, <1>3, <1>4, KeptStays DEF LostKept
<1>5. CASE HelloNew
  <2>1. posted' = posted /\ loaded' = loaded /\ socket = "open" /\ requests' = requests \cup OnReconnect
    BY <1>5 DEF HelloNew, server, client
  <2>2. lost' \subseteq 1 .. posted
    BY <2>1, SetsSteps
  <2>3. drops > 0
    BY <2>1 DEF CalmInv, LinkUp
  <2>4. loaded
    <3>1. blocks # <<>>
      BY <1>2, <2>3 DEF Watched, CalmLink, HasTop, ToSet
    <3> QED BY <1>1, <3>1 DEF TypeOK
  <2>5. PICK r \in OnReconnect : r.kind = "since" /\ ~r.answered
    BY <1>1, <1>2, <2>3, ReconnectWell
  <2>6. \A p \in 1 .. posted : p <= r.arg => Kept(p)
    BY <1>1, <1>2, <2>5, ReconnectWell DEF AskedWell
  <2>7. r.arg \in Nat
    <3>1. r \in Requests
      BY <1>1, AskedOnReconnect DEF Asked
    <3>2. r.arg \in 0 .. MaxPosts
      BY <3>1 DEF Requests
    <3> QED BY <3>2, PostsAssumption
  <2>8. ASSUME NEW p \in lost'
        PROVE  Kept(p)'
    <3>1. p \in 1 .. posted
      BY <2>2
    <3>2. CASE p <= r.arg
      BY <1>2, <2>6, <3>1, <3>2, KeptStays
    <3>3. CASE r.arg < p
      <4>1. r \in requests'
        BY <2>1
      <4>2. Sought(p)'
        BY <2>1, <2>4, <2>5, <3>3, <4>1 DEF Sought, Seeks
      <4> QED BY <4>2 DEF Kept
    <3> QED BY <2>7, <3>1, <3>2, <3>3
  <2> QED BY <2>8 DEF LostKept
<1>6. \/ CreatePost \/ HelloNew
      \/ (HandleEvent /\ ~Head(events).del)
      \/ (\E p \in awaiting : ThreadLoaded(p))
      \/ (\E r \in requests : Answer(r) \/ Receive(r)) \/ CalmAsks
  BY CalmCases
<1>7. CreatePost => lost' = lost
  BY DEF CreatePost
<1>8. HandleEvent => lost' = lost
  BY DEF HandleEvent
<1>9. ASSUME NEW p \in awaiting, ThreadLoaded(p)
      PROVE  lost' = lost
  BY <1>9 DEF ThreadLoaded, link
<1>10. ASSUME NEW r \in requests, Answer(r)
       PROVE  lost' = lost
  BY <1>10 DEF Answer, link
<1>11. ASSUME NEW r \in requests, Receive(r)
       PROVE  lost' = lost
  BY <1>11 DEF Receive, link
<1>12. Close \/ Open \/ HelloResumed => lost' = lost
  BY DEF Close, Open, HelloResumed
<1>13. Visit \/ Prefetch => lost' = lost
  BY DEF Visit, Prefetch, link
<1>14. ASSUME NEW p \in Post, VisitPermalink(p)
       PROVE  lost' = lost
  BY <1>14 DEF VisitPermalink, link
<1>15. LoadMore("before") \/ LoadMore("after") => lost' = lost
  BY DEF LoadMore, link
<1>16. CalmAsks => lost' = lost
  BY <1>12, <1>13, <1>14, <1>15 DEF CalmAsks
<1> QED BY <1>4, <1>5, <1>6, <1>7, <1>8, <1>9, <1>10, <1>11, <1>16

----------------------------------------------------------------------------
(* What is lost is fetched. *)

LEMMA InitialCalm == Init => CalmInv
<1> SUFFICES ASSUME Init
             PROVE  CalmInv
  OBVIOUS
<1>1. /\ deleted = {} /\ events = <<>> /\ socket = "ready" /\ drops = 0
      /\ known = {} /\ blocks = <<>> /\ lastApi = {}
      /\ requests = {} /\ awaiting = {} /\ lost = {} /\ dropped = {}
  BY DEF Init
<1>2. ToSet(blocks) = {} /\ ToSet(events) = {} /\ DOMAIN blocks = {} /\ DOMAIN events = {}
  BY <1>1 DEF ToSet
<1>3. Shown = {}
  BY <1>2 DEF Shown, PostsOf
<1>4. EventsOnce /\ LinkUp
  BY <1>1, <1>2 DEF EventsOnce, LinkUp, Queued
<1>5. CalmLink /\ OnTop /\ InStore
  BY <1>1, <1>2, <1>3 DEF CalmLink, OnTop, NewestIsRecent, OneIsRecent, InStore
<1>6. RepliesExact /\ GapsSought /\ AskedKept /\ StampKept /\ LostKept
  BY <1>1, <1>2 DEF RepliesExact, GapsSought, Enclosed, AskedKept, StampKept, LostKept
<1> QED BY <1>4, <1>5, <1>6 DEF CalmInv, Watched

LEMMA CalmStays == IInv /\ CalmInv /\ [Next]_vars => CalmInv'
<1> SUFFICES ASSUME IInv, CalmInv, [Next]_vars
             PROVE  CalmInv'
  OBVIOUS
<1>1. CASE Next
  <2>1. EventsOnce' /\ LinkUp'
    BY <1>1, EventsStayOnce, LinkStaysUp DEF CalmInv
  <2>2. ASSUME calm'
        PROVE  Watched'
    <3>1. Watched /\ CalmStep
      BY <1>1, <2>2, CalmSteps
    <3>2. CalmLink' /\ LostKept'
      BY <1>1, <2>2, CalmLinkStays, LostStaysKept
    <3>3. OnTop' /\ InStore' /\ RepliesExact'
      BY <2>2, <3>1, OnTopStays, InStoreStays, RepliesStayExact
    <3>4. GapsSought' /\ AskedKept' /\ StampKept'
      BY <2>2, <3>1, GapsStaySought, AskedStayKept, StampStaysKept
    <3> QED BY <3>2, <3>3, <3>4 DEF Watched
  <2> QED BY <2>1, <2>2 DEF CalmInv
<1>2. CASE UNCHANGED vars
  <2>1. /\ UNCHANGED <<posted, deleted, events, socket, drops, known, loaded, blocks, lastApi>>
        /\ UNCHANGED <<leftOut, viewing, requests, awaiting, lost, dropped, calm>>
    BY <1>2 DEF vars
  <2>2. EventsOnce' /\ LinkUp'
    BY <2>1 DEF CalmInv, EventsOnce, LinkUp, Queued
  <2>3. \A p : Kept(p) <=> Kept(p)'
    BY <2>1 DEF Kept, Reached, Sought, Seeks, Shown
  <2>4. \A p : Sought(p) <=> Sought(p)'
    BY <2>1 DEF Sought, Seeks
  <2>5. Shown' = Shown
    BY <2>1 DEF Shown
  <2>6. Watched => CalmLink' /\ OnTop' /\ InStore'
    BY <2>1, <2>5 DEF Watched, CalmLink, OnTop, InStore
  <2>7. Watched => RepliesExact'
    BY <2>1 DEF Watched, RepliesExact, Exact
  <2>8. Watched => GapsSought'
    BY <2>1, <2>4, <2>5 DEF Watched, GapsSought
  <2>9. Watched => AskedKept' /\ StampKept' /\ LostKept'
    BY <2>1, <2>3 DEF Watched, AskedKept, StampKept, LostKept
  <2> QED BY <2>1, <2>2, <2>6, <2>7, <2>8, <2>9 DEF CalmInv, Watched
<1> QED BY <1>1, <1>2

LEMMA CalmHolds == Spec => []CalmInv
<1>1. IInv /\ CalmInv /\ [Next]_vars => CalmInv'
  BY CalmStays
<1> QED BY <1>1, InitialCalm, InvariantHolds, PTL DEF Spec

\* Once nothing is on its way in a calm history, no post that was lost with a
\* connection is a gap, unless the server left it out of an answer: the
\* synchronisation of the reconnection (websocket_actions.ts:251, reconnect) or of the
\* restart (:244, restart) has brought it, whatever pages, prefetches, threads, old
\* answers and further disconnections came in between, and with a client's clock
\* behind the server's.  For any number of posts, pages and limits of any size, and
\* histories of any length.
THEOREM LostIsFetchedHolds == Spec => []LostIsFetched
<1>1. IInv /\ CalmInv => LostIsFetched
  <2> SUFFICES ASSUME IInv, CalmInv, Settled, calm, NEW p \in lost, Gap(p),
                      p \notin leftOut
               PROVE  FALSE
    BY DEF LostIsFetched
  <2>1. TypeOK /\ Watched
    BY DEF IInv, CalmInv
  <2>2. /\ p \in 1 .. posted /\ p \in Post /\ p \in Nat
    BY <2>1, LiveSteps DEF TypeOK
  <2>3. ~Sought(p)
    BY DEF Sought, Settled
  <2>4. p \notin dropped
    BY DEF CalmInv, EventsOnce
  <2>5. Kept(p)
    BY <2>1 DEF Watched, LostKept
  <2>6. p \notin Shown
    <3>1. \A i \in DOMAIN blocks : p \notin ToSet(blocks[i].order)
      BY DEF Gap, InSomeBlock, Has
    <3> QED BY <3>1 DEF Shown, PostsOf, ToSet
  <2>7. PICK i \in DOMAIN blocks : Spans(blocks[i], p)
    BY DEF Gap
  <2> DEFINE b == blocks[i]
  <2>8. b \in ToSet(blocks) /\ b.order \in Seq(Post) /\ b.order # <<>>
    BY <2>1, <2>7, BlockShown DEF Spans
  <2>9. Follows(b, p)
    <3>0. ToSet(b.order) \subseteq Post /\ ToSet(b.order) # {}
      BY <2>8, ToSetOfSequence
    <3>1. ToSet(b.order) \in SUBSET Nat
      BY <3>0, PostIsNat
    <3>2. Min(ToSet(b.order)) \in ToSet(b.order)
      BY <3>0, <3>1, MinIsLeast
    <3> QED BY <2>7, <3>2 DEF Spans, Follows
  <2>10. CASE b.recent
    BY <2>2, <2>3, <2>4, <2>5, <2>6, <2>8, <2>9, <2>10, RecentReached, <2>1
  <2>11. CASE ~b.recent
    <3>1. p < Max(ToSet(b.order)) /\ Max(ToSet(b.order)) \in ToSet(b.order)
      BY <2>7, <2>8, <2>11, MaxOfOrder DEF Spans
    <3>2. Enclosed(ToSet(blocks), p)
      BY <2>8, <2>9, <3>1 DEF Enclosed, Inside, Follows
    <3> QED BY <2>1, <2>2, <2>3, <2>4, <2>6, <3>2 DEF Watched, GapsSought
  <2> QED BY <2>10, <2>11
<1> QED BY <1>1, InvariantHolds, CalmHolds, PTL
=============================================================================
