-------------------------- MODULE IfcKernelProofs ---------------------------
(***************************************************************************)
(* Lemmas about the kernel that ifc_utils.c works on: what keeping some    *)
(* elements of a table does to their order, that every operation leaves    *)
(* the tables as the kernel keeps them and other interfaces alone, and     *)
(* that the steps of every function are ones the kernel can take.          *)
(***************************************************************************)
EXTENDS IfcAlone, FiniteSetTheorems, WellFoundedInduction, TLAPS

(***************************************************************************)
(* Keep.  The rank of a place that is kept is the place that its element   *)
(* gets.                                                                   *)
(***************************************************************************)

\* A set of places has as many ranks as places, and more places have more ranks.
LEMMA RankIsOneToOne ==
    ASSUME NEW L \in Nat, NEW N \in SUBSET (1 .. L)
    PROVE  /\ IsFiniteSet(N) /\ Cardinality(N) \in Nat
           /\ \A m \in N : Cardinality({n \in N : n <= m}) \in 1 .. Cardinality(N)
           /\ \A m, k \in N : m < k => Cardinality({n \in N : n <= m}) < Cardinality({n \in N : n <= k})
           /\ \A j \in 1 .. Cardinality(N) : \E m \in N : Cardinality({n \in N : n <= m}) = j
<1> DEFINE Upto(m) == {n \in N : n <= m}
           rank == [m \in N |-> Cardinality(Upto(m))]
<1>1. \A n \in N : n \in Nat
  OBVIOUS
<1>2. IsFiniteSet(N) /\ Cardinality(N) \in Nat
  <2>1. 0 \in Int /\ 1 \in Int /\ L \in Int
    OBVIOUS
  <2>2. IsFiniteSet(1 .. L)
    BY <2>1, FS_Interval
  <2>3. IsFiniteSet(N)
    BY <2>2, FS_Subset
  <2> QED
    BY <2>3, FS_CardinalityType
<1>3. ASSUME NEW m \in N
      PROVE  IsFiniteSet(Upto(m)) /\ Cardinality(Upto(m)) \in 1 .. Cardinality(N)
  <2>1. Upto(m) \subseteq N /\ m \in Upto(m)
    OBVIOUS
  <2> HIDE DEF Upto
  <2>2. IsFiniteSet(Upto(m)) /\ Cardinality(Upto(m)) <= Cardinality(N)
    BY <1>2, <2>1, FS_Subset
  <2>3. Cardinality(Upto(m)) \in Nat /\ Cardinality(Upto(m)) # 0
    BY <2>1, <2>2, FS_CardinalityType, FS_EmptySet
  <2> QED
    BY <1>2, <2>2, <2>3
<1>4. ASSUME NEW m \in N, NEW k \in N, m < k
      PROVE  Cardinality(Upto(m)) < Cardinality(Upto(k))
  <2>1. m \in Nat /\ k \in Nat
    BY <1>1
  <2>2. ASSUME NEW n \in N, n <= m
        PROVE  n <= k
    BY <1>1, <1>4, <2>1, <2>2
  <2>3. k <= k /\ ~(k <= m)
    BY <1>4, <2>1
  <2>4. Upto(m) \subseteq Upto(k) /\ k \in Upto(k) /\ k \notin Upto(m)
    BY <2>2, <2>3
  <2>5. IsFiniteSet(Upto(k))
    BY <1>3
  <2> HIDE DEF Upto
  <2>6. Cardinality(Upto(m)) <= Cardinality(Upto(k)) /\ Cardinality(Upto(m)) # Cardinality(Upto(k))
    BY <2>4, <2>5, FS_Subset
  <2>7. Cardinality(Upto(m)) \in Nat /\ Cardinality(Upto(k)) \in Nat
    BY <1>3, FS_CardinalityType
  <2> QED
    BY <2>6, <2>7
<1>5. \A m, k \in N : rank[m] = rank[k] => m = k
  <2> SUFFICES ASSUME NEW m \in N, NEW k \in N, m # k
               PROVE  rank[m] # rank[k]
    OBVIOUS
  <2>1. m < k \/ k < m
    OBVIOUS
  <2>2. rank[m] = Cardinality(Upto(m)) /\ rank[k] = Cardinality(Upto(k))
    OBVIOUS
  <2>3. Cardinality(Upto(m)) \in Nat /\ Cardinality(Upto(k)) \in Nat
    BY <1>2, <1>3
  <2> HIDE DEF rank, Upto
  <2> QED
    BY <1>4, <2>1, <2>2, <2>3
<1>6. rank \in [N -> 1 .. Cardinality(N)]
  BY <1>3
<1>7. \A j \in 1 .. Cardinality(N) : \E m \in N : rank[m] = j
  <2> DEFINE T == {rank[m] : m \in N}
  <2>1. T \subseteq 1 .. Cardinality(N)
    BY <1>6
  <2>2. rank \in Bijection(N, T)
    <3>1. rank \in [N -> T]
      OBVIOUS
    <3> HIDE DEF rank
    <3> QED
      BY <1>5, <3>1 DEF Bijection, Injection, Surjection, IsInjective
  <2> HIDE DEF rank
  <2>3. IsFiniteSet(T) /\ Cardinality(T) = Cardinality(N)
    BY <1>2, <2>2, FS_Bijection DEF ExistsBijection
  <2>4. IsFiniteSet(1 .. Cardinality(N)) /\ Cardinality(1 .. Cardinality(N)) = Cardinality(N)
    BY <1>2, FS_Interval
  <2>5. T = 1 .. Cardinality(N)
    BY <1>2, <2>1, <2>3, <2>4, FS_Subset
  <2> QED
    BY <2>5
<1> QED
  BY <1>2, <1>3, <1>4, <1>7

Kept(q, S) == {m \in DOMAIN q : q[m] \in S}

\* e are the places in q of the elements of k.
Places(e, q, k) ==
    /\ \A j \in 1 .. Len(k) : k[j] = q[e[j]]
    /\ \A i, j \in 1 .. Len(k) : i < j => e[i] < e[j]

\* Keep runs through the places of the elements that are kept, in their order.
LEMMA KeepRuns ==
    ASSUME NEW T, NEW q \in Seq(T), NEW S
    PROVE  /\ Keep(q, S) \in Seq(T)
           /\ \E e \in [1 .. Len(Keep(q, S)) -> Kept(q, S)] :
                 /\ Places(e, q, Keep(q, S))
                 /\ \A m \in Kept(q, S) : \E j \in 1 .. Len(Keep(q, S)) : e[j] = m
<1> DEFINE N == Kept(q, S)
           R(m) == Cardinality({n \in N : n <= m})
           at(j) == CHOOSE m \in N : R(m) = j
           e == [j \in 1 .. Cardinality(N) |-> at(j)]
           k == [j \in 1 .. Cardinality(N) |-> q[at(j)]]
<1>1. N \in SUBSET (1 .. Len(q)) /\ Len(q) \in Nat
  BY DEF Kept
<1>2. Keep(q, S) = k
  BY DEF Keep, Kept
<1>3. \A m \in N : m \in Nat /\ q[m] \in T
  BY DEF Kept
<1> HIDE DEF N
<1>4. /\ Cardinality(N) \in Nat
      /\ \A m \in N : R(m) \in 1 .. Cardinality(N)
      /\ \A m, n \in N : m < n => R(m) < R(n)
      /\ \A j \in 1 .. Cardinality(N) : \E m \in N : R(m) = j
  BY <1>1, RankIsOneToOne
<1> HIDE DEF R
<1>5. \A j \in 1 .. Cardinality(N) : at(j) \in N /\ R(at(j)) = j
  BY <1>4
<1> HIDE DEF at
<1>6. e \in [1 .. Cardinality(N) -> N]
  BY <1>5
<1>7. k \in Seq(T) /\ Len(k) = Cardinality(N)
  <2>1. \A j \in 1 .. Cardinality(N) : q[at(j)] \in T
    BY <1>3, <1>5
  <2> QED
    BY <1>4, <2>1
<1>8. \A i, j \in 1 .. Cardinality(N) : i < j => e[i] < e[j]
  <2> SUFFICES ASSUME NEW i \in 1 .. Cardinality(N), NEW j \in 1 .. Cardinality(N), i < j
               PROVE  at(i) < at(j)
    OBVIOUS
  <2>1. at(i) \in N /\ at(j) \in N /\ R(at(i)) = i /\ R(at(j)) = j
    BY <1>5
  <2>2. at(i) \in Nat /\ at(j) \in Nat
    BY <1>3, <2>1
  <2>3. ~(at(j) < at(i)) /\ at(i) # at(j)
    BY <1>4, <2>1
  <2> QED
    BY <2>2, <2>3
<1>9. \A m \in N : \E j \in 1 .. Cardinality(N) : e[j] = m
  <2> SUFFICES ASSUME NEW m \in N
               PROVE  e[R(m)] = m /\ R(m) \in 1 .. Cardinality(N)
    OBVIOUS
  <2>1. R(m) \in 1 .. Cardinality(N)
    BY <1>4
  <2>2. at(R(m)) \in N /\ R(at(R(m))) = R(m)
    BY <1>5, <2>1
  <2>3. m \in Nat /\ at(R(m)) \in Nat
    BY <1>3, <2>2
  <2>4. at(R(m)) = m
    BY <1>4, <2>1, <2>2, <2>3
  <2> QED
    BY <2>1, <2>4
<1>10. \A j \in 1 .. Cardinality(N) : k[j] = q[e[j]]
  OBVIOUS
<1> HIDE DEF k, e
<1>11. Places(e, q, k)
  BY <1>7, <1>8, <1>10 DEF Places
<1>12. \E f \in [1 .. Len(k) -> N] : Places(f, q, k) /\ \A m \in N : \E j \in 1 .. Len(k) : f[j] = m
  BY <1>6, <1>7, <1>9, <1>11
<1> QED
  BY <1>2, <1>7, <1>12 DEF N

NoTwice(q) == \A m, n \in DOMAIN q : q[m] = q[n] => m = n

\* What is kept, in which order, and that nothing comes to be there twice.
LEMMA KeepFacts ==
    ASSUME NEW T, NEW q \in Seq(T), NEW S
    PROVE  LET k == Keep(q, S) IN
           /\ k \in Seq(T) /\ Elements(k) = Elements(q) \cap S
           /\ \A x, y : Ahead(k, x, y) <=> Ahead(q, x, y) /\ x \in S /\ y \in S
           /\ NoTwice(q) => NoTwice(k)
<1> DEFINE N == Kept(q, S)
           k == Keep(q, S)
<1>1. PICK e \in [1 .. Len(k) -> N] :
         /\ \A j \in 1 .. Len(k) : k[j] = q[e[j]]
         /\ \A i, j \in 1 .. Len(k) : i < j => e[i] < e[j]
         /\ \A m \in N : \E j \in 1 .. Len(k) : e[j] = m
  BY KeepRuns DEF Places
<1>2. k \in Seq(T)
  BY KeepRuns
<1> HIDE DEF k
<1>3. DOMAIN k = 1 .. Len(k) /\ Len(k) \in Nat /\ N \subseteq Nat /\ DOMAIN q \subseteq Nat
  BY <1>2 DEF Kept
<1>4. \A m : m \in N <=> m \in DOMAIN q /\ q[m] \in S
  BY DEF Kept
<1> HIDE DEF N
<1>5. Elements(k) = Elements(q) \cap S
  <2>1. ASSUME NEW j \in DOMAIN k
        PROVE  k[j] \in Elements(q) \cap S
    <3>1. e[j] \in N /\ k[j] = q[e[j]]
      BY <1>1, <1>3
    <3> QED
      BY <1>4, <3>1 DEF Elements
  <2>2. ASSUME NEW m \in DOMAIN q, q[m] \in S
        PROVE  q[m] \in Elements(k)
    <3>1. PICK j \in 1 .. Len(k) : e[j] = m
      BY <1>4, <1>1, <2>2
    <3> QED
      BY <1>1, <1>3, <3>1 DEF Elements
  <2> QED
    BY <2>1, <2>2 DEF Elements
<1>6. \A i, j \in 1 .. Len(k) : i <= j <=> e[i] <= e[j]
  <2> SUFFICES ASSUME NEW i \in 1 .. Len(k), NEW j \in 1 .. Len(k)
               PROVE  i <= j <=> e[i] <= e[j]
    OBVIOUS
  <2>1. e[i] \in N /\ e[j] \in N
    BY <1>1
  <2>2. e[i] \in Nat /\ e[j] \in Nat
    BY <1>3, <2>1, Zenon
  <2>3. i \in Nat /\ j \in Nat
    BY <1>3
  <2>4. e[i] \in Nat /\ e[j] \in Nat /\ i \in Nat /\ j \in Nat
    BY <2>2, <2>3
  <2>5. i < j \/ i = j \/ j < i
    BY <2>4
  <2>6. i < j => e[i] < e[j]
    BY <1>1
  <2>7. j < i => e[j] < e[i]
    BY <1>1
  <2> QED
    BY <2>4, <2>5, <2>6, <2>7
<1>7. ASSUME NEW x, NEW y
      PROVE  Ahead(k, x, y) <=> Ahead(q, x, y) /\ x \in S /\ y \in S
  <2>1. ASSUME Ahead(k, x, y)
        PROVE  Ahead(q, x, y) /\ x \in S /\ y \in S
    <3>1. PICK i, j \in 1 .. Len(k) : i <= j /\ k[i] = x /\ k[j] = y
      BY <1>3, <2>1 DEF Ahead
    <3>2. e[i] \in N /\ e[j] \in N /\ e[i] <= e[j] /\ q[e[i]] = x /\ q[e[j]] = y
      BY <1>1, <1>6, <3>1
    <3> QED
      BY <1>4, <3>2 DEF Ahead
  <2>2. ASSUME Ahead(q, x, y), x \in S, y \in S
        PROVE  Ahead(k, x, y)
    <3>1. PICK m, n \in DOMAIN q : m <= n /\ q[m] = x /\ q[n] = y
      BY <2>2 DEF Ahead
    <3>2. m \in N /\ n \in N
      BY <1>4, <2>2, <3>1
    <3>3. PICK i, j \in 1 .. Len(k) : e[i] = m /\ e[j] = n
      BY <1>1, <3>2
    <3>4. i <= j /\ k[i] = x /\ k[j] = y
      BY <1>1, <1>6, <3>1, <3>3
    <3> QED
      BY <1>3, <3>4 DEF Ahead
  <2> QED
    BY <2>1, <2>2
<1>8. ASSUME NoTwice(q)
      PROVE  NoTwice(k)
  <2> SUFFICES ASSUME NEW i \in 1 .. Len(k), NEW j \in 1 .. Len(k), k[i] = k[j]
               PROVE  i = j
    BY <1>3 DEF NoTwice
  <2>1. e[i] = e[j]
    BY <1>4, <1>1, <1>8 DEF NoTwice
  <2>2. i <= j /\ j <= i
    BY <1>1, <1>3, <1>6, <2>1
  <2> QED
    BY <2>2
<1> QED
  BY <1>2, <1>5, <1>7, <1>8 DEF k

(***************************************************************************)
(* Routing tables.                                                         *)
(***************************************************************************)

LEMMA AheadIsOfElements ==
    ASSUME NEW q, NEW x, NEW y, Ahead(q, x, y)
    PROVE  x \in Elements(q) /\ y \in Elements(q)
BY DEF Ahead, Elements

LEMMA ElementsAreAhead ==
    ASSUME NEW T, NEW q \in Seq(T), NEW x
    PROVE  /\ x \in Elements(q) <=> Ahead(q, x, x)
           /\ Elements(q) \subseteq T
<1>1. \A n \in DOMAIN q : n <= n /\ q[n] \in T
  OBVIOUS
<1> QED
  BY <1>1 DEF Ahead, Elements

\* The table h is q without some of the routes of i, or with a new one of i.
Trims(q, h, i) ==
    /\ h \in Seq(Route) /\ NoTwice(h) /\ Elements(h) \subseteq Elements(q)
    /\ \A x, y \in Elements(h) : Ahead(h, x, y) <=> Ahead(q, x, y)
    /\ \A r \in Elements(q) : r.dev # i => r \in Elements(h)

LEMMA SameTrims ==
    ASSUME NEW q \in Seq(Route), NoTwice(q), NEW i
    PROVE  Trims(q, q, i)
BY DEF Trims

LEMMA FlushTrims ==
    ASSUME NEW k \in Kernel, NoTwice(k.routes), NEW i, NEW family
    PROVE  LET g == Flush(k, i, family) IN
           /\ g = [k EXCEPT !.routes = g.routes] /\ Trims(k.routes, g.routes, i)
           /\ \A r \in Elements(g.routes) : r.dev = i => r.dst \notin family
<1> DEFINE q == k.routes
           S == {r \in Elements(q) : r.dev # i \/ r.dst \notin family}
           h == Keep(q, S)
<1>1. q \in Seq(Route) /\ DOMAIN k = {"link", "routes", "conns", "dns"}
  BY DEF Kernel
<1>2. Flush(k, i, family) = [k EXCEPT !.routes = h]
  BY DEF Flush, RoutesWithout
<1>3. /\ h \in Seq(Route) /\ Elements(h) = Elements(q) \cap S
      /\ \A x, y : Ahead(h, x, y) <=> Ahead(q, x, y) /\ x \in S /\ y \in S
      /\ NoTwice(q) => NoTwice(h)
  BY <1>1, KeepFacts
<1> HIDE DEF h
<1>4. Trims(q, h, i) /\ \A r \in Elements(h) : r.dev = i => r.dst \notin family
  BY <1>3 DEF Trims
<1>5. LET g == [k EXCEPT !.routes = h] IN g = [k EXCEPT !.routes = g.routes] /\ g.routes = h
  BY <1>1
<1> QED
  BY <1>2, <1>4, <1>5

\* A nonempty set of places has a first one.
LEMMA FirstPlace ==
    ASSUME NEW S \in SUBSET Nat, S # {}
    PROVE  \E f \in S : \A m \in S : f <= m
<1> DEFINE R == {w \in Nat \X Nat : w[1] < w[2]}
<1>1. IsWellFoundedOn(R, Nat)
  <2>1. R = OpToRel(<, Nat)
    BY DEF OpToRel
  <2> QED
    BY <2>1, NatLessThanWellFounded
<1>2. \E f \in S : \A m \in S : <<m, f>> \notin R
  BY <1>1, WFMin
<1>3. ASSUME NEW f \in S, NEW m \in S, <<m, f>> \notin R
      PROVE  f <= m
  <2>1. m \in Nat /\ f \in Nat /\ <<m, f>> \in Nat \X Nat /\ <<m, f>>[1] = m /\ <<m, f>>[2] = f
    OBVIOUS
  <2>2. ~(m < f)
    BY <1>3, <2>1
  <2> QED
    BY <2>1, <2>2
<1> QED
  BY <1>2, <1>3

LEMMA Concat ==
    ASSUME NEW T, NEW u \in Seq(T), NEW v \in Seq(T)
    PROVE  /\ u \o v \in Seq(T) /\ Len(u \o v) = Len(u) + Len(v)
           /\ \A j \in 1 .. Len(u) : (u \o v)[j] = u[j]
           /\ \A j \in 1 .. Len(v) : (u \o v)[Len(u) + j] = v[j]
OBVIOUS

\* Taking one place out of a table.
LEMMA WithoutPlace ==
    ASSUME NEW q \in Seq(Route), NoTwice(q), NEW f \in DOMAIN q, NEW i, q[f].dev = i
    PROVE  LET h == SubSeq(q, 1, f - 1) \o SubSeq(q, f + 1, Len(q)) IN
           Trims(q, h, i) /\ Elements(h) = Elements(q) \ {q[f]}
<1> DEFINE h == SubSeq(q, 1, f - 1) \o SubSeq(q, f + 1, Len(q))
           e(j) == IF j < f THEN j ELSE j + 1
<1>1. f \in 1 .. Len(q) /\ Len(q) \in Nat
  OBVIOUS
<1>2. h \in Seq(Route) /\ Len(h) = Len(q) - 1 /\ \A j \in 1 .. Len(h) : h[j] = q[e(j)]
  <2>1. SubSeq(q, 1, f - 1) \in Seq(Route) /\ Len(SubSeq(q, 1, f - 1)) = f - 1
    BY <1>1
  <2>2. SubSeq(q, f + 1, Len(q)) \in Seq(Route) /\ Len(SubSeq(q, f + 1, Len(q))) = Len(q) - f
    BY <1>1
  <2>3. \A j \in 1 .. f - 1 : SubSeq(q, 1, f - 1)[j] = q[j]
    BY <1>1
  <2>4. \A j \in 1 .. Len(q) - f : SubSeq(q, f + 1, Len(q))[j] = q[f + j]
    BY <1>1
  <2> DEFINE u == SubSeq(q, 1, f - 1)
             v == SubSeq(q, f + 1, Len(q))
  <2>5. /\ u \in Seq(Route) /\ Len(u) = f - 1 /\ \A j \in 1 .. f - 1 : u[j] = q[j]
        /\ v \in Seq(Route) /\ Len(v) = Len(q) - f /\ \A j \in 1 .. Len(q) - f : v[j] = q[f + j]
    BY <2>1, <2>2, <2>3, <2>4
  <2> HIDE DEF u, v
  <2> DEFINE w == u \o v
  <2>6. /\ w \in Seq(Route) /\ Len(w) = Len(u) + Len(v)
        /\ \A j \in 1 .. Len(u) : w[j] = u[j]
        /\ \A j \in 1 .. Len(v) : w[Len(u) + j] = v[j]
    <3>1. u \in Seq(Route) /\ v \in Seq(Route)
      BY <2>5
    <3> HIDE DEF w
    <3>2. w = u \o v
      BY DEF w
    <3> QED
      BY <3>1, <3>2, Concat
  <2> HIDE DEF w
  <2>7. Len(w) = Len(q) - 1
    BY <1>1, <2>5, <2>6
  <2>8. ASSUME NEW j \in 1 .. Len(q) - 1
        PROVE  w[j] = q[e(j)]
    <3>1. CASE j < f
      <4>1. j \in 1 .. f - 1
        BY <1>1, <3>1
      <4> QED
        BY <2>5, <2>6, <3>1, <4>1
    <3>2. CASE ~(j < f)
      <4>1. /\ j - (f - 1) \in 1 .. Len(q) - f /\ f + (j - (f - 1)) = j + 1
            /\ Len(u) + (j - (f - 1)) = j
        <5>1. Len(u) = f - 1
          BY <2>5
        <5>2. f \in Int /\ j \in Int /\ j >= f /\ j <= Len(q) - 1 /\ Len(q) \in Int
          BY <1>1, <3>2
        <5>3. /\ j - (f - 1) >= 1 /\ j - (f - 1) <= Len(q) - f /\ j - (f - 1) \in Int
              /\ f + (j - (f - 1)) = j + 1 /\ f - 1 + (j - (f - 1)) = j
          BY <5>2
        <5> QED
          BY <5>1, <5>3
      <4>2. w[j] = v[j - (f - 1)]
        BY <2>5, <2>6, <4>1
      <4>3. v[j - (f - 1)] = q[j + 1]
        BY <2>5, <4>1
      <4> QED
        BY <3>2, <4>2, <4>3
    <3> QED
      BY <3>1, <3>2
  <2> QED
    BY <2>6, <2>7, <2>8 DEF u, v, w
<1> HIDE DEF h
<1>3. DOMAIN h = 1 .. Len(q) - 1
  BY <1>1, <1>2
<1>4. /\ \A j \in 1 .. Len(q) - 1 : e(j) \in 1 .. Len(q) /\ e(j) # f
      /\ \A j, l \in 1 .. Len(q) - 1 : (j <= l <=> e(j) <= e(l)) /\ (e(j) = e(l) => j = l)
      /\ \A m \in 1 .. Len(q) : m # f => \E j \in 1 .. Len(q) - 1 : e(j) = m
  <2>1. \A j \in 1 .. Len(q) - 1 : e(j) \in 1 .. Len(q) /\ e(j) # f
    BY <1>1
  <2>2. \A j, l \in 1 .. Len(q) - 1 : (j <= l <=> e(j) <= e(l)) /\ (e(j) = e(l) => j = l)
    BY <1>1
  <2>3. ASSUME NEW m \in 1 .. Len(q), m # f
        PROVE  \E j \in 1 .. Len(q) - 1 : e(j) = m
    <3>1. CASE m < f
      BY <1>1, <3>1
    <3>2. CASE ~(m < f)
      <4>1. m - 1 \in 1 .. Len(q) - 1 /\ e(m - 1) = m
        BY <1>1, <2>3, <3>2
      <4> QED
        BY <4>1
    <3> QED
      BY <3>1, <3>2
  <2> QED
    BY <2>1, <2>2, <2>3
<1> HIDE DEF e
<1>5. /\ DOMAIN q = 1 .. Len(q) /\ \A j \in DOMAIN h : e(j) \in DOMAIN q /\ e(j) # f /\ h[j] = q[e(j)]
      /\ \A j, l \in DOMAIN h : (j <= l <=> e(j) <= e(l)) /\ (e(j) = e(l) => j = l)
      /\ \A m \in DOMAIN q : m # f => \E j \in DOMAIN h : e(j) = m
  <2>1. DOMAIN q = 1 .. Len(q)
    OBVIOUS
  <2> QED
    BY <1>2, <1>3, <1>4, <2>1
<1>6. NoTwice(h)
  BY <1>5 DEF NoTwice
<1>7. Elements(h) = Elements(q) \ {q[f]}
  BY <1>5 DEF NoTwice, Elements
<1>8. ASSUME NEW x \in Elements(h), NEW y \in Elements(h)
      PROVE  Ahead(h, x, y) <=> Ahead(q, x, y)
  <2>1. ASSUME Ahead(h, x, y)
        PROVE  Ahead(q, x, y)
    BY <1>5, <2>1 DEF Ahead
  <2>2. ASSUME Ahead(q, x, y)
        PROVE  Ahead(h, x, y)
    <3>1. PICK m, n \in DOMAIN q : m <= n /\ q[m] = x /\ q[n] = y
      BY <2>2 DEF Ahead
    <3>2. m # f /\ n # f
      BY <1>7, <3>1
    <3>3. PICK j, l \in DOMAIN h : e(j) = m /\ e(l) = n
      BY <1>5, <3>1, <3>2
    <3> QED
      BY <1>5, <3>1, <3>3 DEF Ahead
  <2> QED
    BY <2>1, <2>2
<1>9. Trims(q, h, i)
  BY <1>2, <1>6, <1>7, <1>8 DEF Trims
<1> QED
  BY <1>7, <1>9 DEF h

LEMMA MatchIsThere ==
    ASSUME NEW k \in Kernel, NEW r, Matches(k, r) # {}
    PROVE  LET first == CHOOSE n \in Matches(k, r) : \A m \in Matches(k, r) : n <= m IN
           first \in Matches(k, r) /\ \A m \in Matches(k, r) : first <= m
<1>1. DOMAIN k.routes \subseteq Nat
  BY DEF Kernel
<1>2. Matches(k, r) \in SUBSET Nat
  BY <1>1 DEF Matches
<1> QED
  BY <1>2, FirstPlace

LEMMA MatchIsOfDevice ==
    ASSUME NEW k \in Kernel, NEW r, DOMAIN r = {"dev", "dst", "plen", "gw"}, NEW n \in Matches(k, r)
    PROVE  /\ n \in DOMAIN k.routes
           /\ LET x == k.routes[n] IN
              /\ x.dev = r.dev /\ x.dst = r.dst /\ x.plen = r.plen
              /\ r.gw \notin {Any4, Any6} => x.gw = r.gw
BY DEF Matches

LEMMA DelRouteTrims ==
    ASSUME NEW k \in Kernel, NoTwice(k.routes), NEW r, DOMAIN r = {"dev", "dst", "plen", "gw"},
           Matches(k, r) # {}
    PROVE  LET g == DelRoute(k, r)
               first == CHOOSE n \in Matches(k, r) : \A m \in Matches(k, r) : n <= m
           IN  /\ g = [k EXCEPT !.routes = g.routes] /\ Trims(k.routes, g.routes, r.dev)
               /\ Elements(g.routes) = Elements(k.routes) \ {k.routes[first]}
<1> DEFINE q == k.routes
           first == CHOOSE n \in Matches(k, r) : \A m \in Matches(k, r) : n <= m
           h == SubSeq(q, 1, first - 1) \o SubSeq(q, first + 1, Len(q))
<1>1. q \in Seq(Route) /\ DOMAIN k = {"link", "routes", "conns", "dns"}
  BY DEF Kernel
<1>2. first \in Matches(k, r)
  BY MatchIsThere
<1>3. DelRoute(k, r) = [k EXCEPT !.routes = h]
  BY DEF DelRoute
<1> HIDE DEF first
<1>4. first \in DOMAIN q /\ q[first].dev = r.dev
  BY <1>2, MatchIsOfDevice
<1>5. Trims(q, h, r.dev) /\ Elements(h) = Elements(q) \ {q[first]}
  BY <1>1, <1>4, WithoutPlace
<1> HIDE DEF h
<1>6. LET g == [k EXCEPT !.routes = h] IN g = [k EXCEPT !.routes = g.routes] /\ g.routes = h
  BY <1>1
<1> QED
  BY <1>3, <1>5, <1>6 DEF first

LEMMA InFront ==
    ASSUME NEW q \in Seq(Route), NoTwice(q), NEW r \in Route, r \notin Elements(q)
    PROVE  LET h == <<r>> \o q IN
           /\ h \in Seq(Route) /\ NoTwice(h) /\ Elements(h) = Elements(q) \cup {r}
           /\ \A x, y \in Elements(q) : Ahead(h, x, y) <=> Ahead(q, x, y)
<1> DEFINE h == <<r>> \o q
<1>1. h \in Seq(Route) /\ Len(h) = Len(q) + 1 /\ h[1] = r /\ \A j \in 1 .. Len(q) : h[j + 1] = q[j]
  OBVIOUS
<1> HIDE DEF h
<1>2. /\ DOMAIN h = 1 .. Len(q) + 1 /\ DOMAIN q = 1 .. Len(q) /\ Len(q) \in Nat
      /\ \A j \in DOMAIN q : j \in Nat /\ j + 1 \in DOMAIN h /\ h[j + 1] = q[j]
      /\ \A m \in DOMAIN h : m = 1 \/ \E j \in DOMAIN q : m = j + 1
      /\ 1 \in DOMAIN h /\ h[1] = r
  <2>1. DOMAIN h = 1 .. Len(q) + 1 /\ DOMAIN q = 1 .. Len(q) /\ Len(q) \in Nat
    BY <1>1
  <2>2. ASSUME NEW m \in DOMAIN h, m # 1
        PROVE  \E j \in DOMAIN q : m = j + 1
    <3>1. m - 1 \in DOMAIN q /\ m = (m - 1) + 1
      BY <2>1, <2>2
    <3> QED
      BY <3>1
  <2>3. \A j \in DOMAIN q : j \in Nat /\ j + 1 \in DOMAIN h /\ h[j + 1] = q[j]
    BY <1>1, <2>1
  <2>4. 1 \in DOMAIN h
    BY <2>1
  <2> QED
    BY <1>1, <2>1, <2>2, <2>3, <2>4
<1>3. Elements(h) = Elements(q) \cup {r}
  BY <1>2 DEF Elements
<1>4. \A j \in DOMAIN q : q[j] # r
  BY DEF Elements
<1>5. NoTwice(h)
  <2> SUFFICES ASSUME NEW m \in DOMAIN h, NEW n \in DOMAIN h, h[m] = h[n]
               PROVE  m = n
    BY DEF NoTwice
  <2>1. m = 1 \/ \E j \in DOMAIN q : m = j + 1
    BY <1>2
  <2>2. n = 1 \/ \E j \in DOMAIN q : n = j + 1
    BY <1>2
  <2> QED
    BY <1>2, <1>4, <2>1, <2>2 DEF NoTwice
<1>6. ASSUME NEW x \in Elements(q), NEW y \in Elements(q)
      PROVE  Ahead(h, x, y) <=> Ahead(q, x, y)
  <2>1. ASSUME Ahead(q, x, y)
        PROVE  Ahead(h, x, y)
    <3>1. PICK m, n \in DOMAIN q : m <= n /\ q[m] = x /\ q[n] = y
      BY <2>1 DEF Ahead
    <3>2. m + 1 \in DOMAIN h /\ n + 1 \in DOMAIN h /\ m + 1 <= n + 1 /\ h[m + 1] = x /\ h[n + 1] = y
      BY <1>2, <3>1
    <3> QED
      BY <3>2 DEF Ahead
  <2>2. ASSUME Ahead(h, x, y)
        PROVE  Ahead(q, x, y)
    <3>1. PICK m, n \in DOMAIN h : m <= n /\ h[m] = x /\ h[n] = y
      BY <2>2 DEF Ahead
    <3>2. x # r /\ y # r
      OBVIOUS
    <3>3. m # 1 /\ n # 1
      BY <1>2, <3>1, <3>2
    <3>4. PICK i, j \in DOMAIN q : m = i + 1 /\ n = j + 1
      BY <1>2, <3>3
    <3>5. i <= j /\ q[i] = x /\ q[j] = y
      BY <1>2, <3>1, <3>4
    <3> QED
      BY <3>5 DEF Ahead
  <2> QED
    BY <2>1, <2>2
<1> QED
  BY <1>1, <1>3, <1>5, <1>6 DEF h

(***************************************************************************)
(* What the operations of the kernel do to one device.                     *)
(***************************************************************************)

Sane(k) == k \in Kernel /\ Settled(k)

\* Nothing that is not of i changes.
Elsewhere(k, g, i) ==
    /\ \A j \in Ifaces : j # i => g.link[j] = k.link[j] /\ g.dns[j] = k.dns[j]
    /\ \A x, y : x.dev # i /\ y.dev # i => (Ahead(g.routes, x, y) <=> Ahead(k.routes, x, y))

Works(k, g, i) == Sane(g) /\ Elsewhere(k, g, i) /\ g.conns \subseteq k.conns

\* What a device that has routes has besides.
Carries(link, h, i) ==
    /\ ~link.present => link.flags = {} /\ link.addrs = <<>> /\ link.addrs6 = <<>>
    /\ \A r \in Elements(h) : r.dev = i =>
          "UP" \in link.flags /\ (r.dst \in V4 /\ r.gw # Any4 => link.addrs # <<>>)

LEMMA CarriesNow ==
    ASSUME NEW k, Sane(k), NEW i \in Ifaces
    PROVE  /\ k.link[i] \in Link /\ k.routes \in Seq(Route) /\ NoTwice(k.routes) /\ k.conns \subseteq Addrs
           /\ Carries(k.link[i], k.routes, i)
<1>1. k.link[i] \in Link /\ k.routes \in Seq(Route) /\ k.conns \subseteq Addrs
  BY DEF Sane, Kernel
<1>2. NoTwice(k.routes)
  BY DEF Sane, Settled, NoTwice
<1>3. Carries(k.link[i], k.routes, i)
  BY DEF Sane, Settled, Carries, Up
<1> QED
  BY <1>1, <1>2, <1>3

LEMMA TrimsElsewhere ==
    ASSUME NEW q, NEW h, NEW i, Trims(q, h, i), NEW x, NEW y, x.dev # i, y.dev # i
    PROVE  Ahead(h, x, y) <=> Ahead(q, x, y)
BY AheadIsOfElements DEF Trims

LEMMA Remade ==
    ASSUME NEW k, Sane(k), NEW i \in Ifaces, NEW link \in Link, NEW h, Trims(k.routes, h, i),
           Carries(link, h, i)
    PROVE  Works(k, [k EXCEPT !.link = [@ EXCEPT ![i] = link], !.routes = h], i)
<1> DEFINE g == [k EXCEPT !.link = [@ EXCEPT ![i] = link], !.routes = h]
<1>1. k \in Kernel
  BY DEF Sane
<1>2. h \in Seq(Route) /\ NoTwice(h) /\ Elements(h) \subseteq Elements(k.routes)
  BY DEF Trims
<1>3. g \in Kernel
  <2> HIDE DEF Link, Route
  <2> QED
    BY <1>1, <1>2 DEF Kernel
<1>4. /\ g.routes = h /\ g.conns = k.conns /\ g.dns = k.dns /\ g.link[i] = link
      /\ \A j \in Ifaces : j # i => g.link[j] = k.link[j]
  BY <1>1 DEF Kernel
<1> HIDE DEF g
<1>5. Settled(g)
  <2>1. ASSUME NEW j \in Ifaces, ~g.link[j].present
        PROVE  g.link[j].flags = {} /\ g.link[j].addrs = <<>> /\ g.link[j].addrs6 = <<>>
    BY <1>4, <2>1 DEF Sane, Settled, Carries
  <2>2. ASSUME NEW r \in Elements(h)
        PROVE  Up(g, r.dev) /\ (r.dst \in V4 /\ r.gw # Any4 => g.link[r.dev].addrs # <<>>)
    <3>1. r \in Elements(k.routes) /\ r \in Route
      BY <1>2, ElementsAreAhead
    <3>2. r.dev \in Ifaces
      BY <3>1 DEF Route
    <3>3. CASE r.dev = i
      BY <1>4, <3>3 DEF Carries, Up
    <3>4. CASE r.dev # i
      BY <1>4, <3>1, <3>2, <3>4 DEF Sane, Settled, Up
    <3> QED
      BY <3>3, <3>4
  <2> QED
    BY <1>2, <1>4, <2>1, <2>2 DEF Settled, NoTwice
<1>6. Elsewhere(k, g, i)
  BY <1>4, TrimsElsewhere DEF Elsewhere
<1> QED
  BY <1>3, <1>4, <1>5, <1>6 DEF Works, Sane, g

LEMMA WorksNot ==
    ASSUME NEW k, Sane(k), NEW i
    PROVE  Works(k, k, i)
BY DEF Works, Elsewhere

\* The link of a device with one field replaced.
LEMMA LinkParts ==
    ASSUME NEW link \in Link
    PROVE  /\ DOMAIN link = {"present", "flags", "hwaddr", "addrs", "mask", "addrs6"}
           /\ link.present \in BOOLEAN /\ link.flags \in SUBSET {"UP", "PROMISC"} /\ link.hwaddr \in Nat
           /\ link.addrs \in Seq(Addrs) /\ link.mask \in Mask /\ link.addrs6 \in Seq(Addrs6)
           /\ \A flags \in SUBSET {"UP", "PROMISC"} : [link EXCEPT !.flags = flags] \in Link
           /\ \A hwaddr \in Nat : [link EXCEPT !.hwaddr = hwaddr] \in Link
           /\ \A addrs \in Seq(Addrs) : [link EXCEPT !.addrs = addrs] \in Link
           /\ \A mask \in Mask : [link EXCEPT !.mask = mask] \in Link
           /\ \A addrs6 \in Seq(Addrs6) : [link EXCEPT !.addrs6 = addrs6] \in Link
<1> HIDE DEF Mask
<1> QED
  BY DEF Link

LEMMA WithAddrsWorks ==
    ASSUME NEW k, Sane(k), NEW i \in Ifaces, NEW addrs \in Seq(Addrs),
           k.link[i].present \/ addrs = <<>>
    PROVE  /\ Works(k, WithAddrs(k, i, addrs), i)
           /\ WithAddrs(k, i, addrs).link[i] = [k.link[i] EXCEPT !.addrs = addrs]
           /\ WithAddrs(k, i, addrs).dns = k.dns
           /\ addrs # <<>> => WithAddrs(k, i, addrs).routes = k.routes
<1> DEFINE f == IF addrs = <<>> THEN Flush(k, i, V4) ELSE k
           link == [k.link[i] EXCEPT !.addrs = addrs]
           h == f.routes
           g == [k EXCEPT !.link = [@ EXCEPT ![i] = link], !.routes = h]
<1>1. /\ k.link[i] \in Link /\ k.routes \in Seq(Route) /\ NoTwice(k.routes)
      /\ Carries(k.link[i], k.routes, i) /\ k \in Kernel
  BY CarriesNow DEF Sane
<1>2. f = [k EXCEPT !.routes = h] /\ Trims(k.routes, h, i)
  <2>1. CASE addrs = <<>>
    BY <1>1, <2>1, FlushTrims
  <2>2. CASE addrs # <<>>
    <3>1. f = k
      BY <2>2
    <3> HIDE DEF f
    <3> QED
      BY <1>1, <3>1, SameTrims DEF Kernel
  <2> QED
    BY <2>1, <2>2
<1>3. addrs = <<>> => \A r \in Elements(h) : r.dev = i => r.dst \notin V4
  BY <1>1, FlushTrims
<1>4. Elements(h) \subseteq Elements(k.routes)
  BY <1>2 DEF Trims
<1>5. link \in Link
  BY <1>1, LinkParts
<1>6. link.present = k.link[i].present /\ link.flags = k.link[i].flags /\ link.addrs = addrs
      /\ link.addrs6 = k.link[i].addrs6
  BY <1>1, LinkParts
<1>7. addrs # <<>> => h = k.routes
  OBVIOUS
<1>8. WithAddrs(k, i, addrs) = [f EXCEPT !.link[i].addrs = addrs]
  BY DEF WithAddrs
<1> HIDE DEF f, h
<1>9. WithAddrs(k, i, addrs) = g /\ g.link[i] = link /\ g.dns = k.dns /\ g.routes = h
  BY <1>1, <1>2, <1>8 DEF Kernel
<1> HIDE DEF link
<1>10. Carries(link, h, i)
  BY <1>1, <1>3, <1>4, <1>6 DEF Carries
<1>11. Works(k, g, i)
  BY <1>2, <1>5, <1>10, Remade
<1> HIDE DEF g
<1> QED
  BY <1>7, <1>9, <1>11 DEF link

LEMMA MaskOfLength ==
    ASSUME NEW p
    PROVE  prefixLengthToIpv4Netmask(p) \in Mask
BY DEF prefixLengthToIpv4Netmask, Mask

\* One field of a link that carries no meaning for the routes.
LEMMA LinkWorks ==
    ASSUME NEW k, Sane(k), NEW i \in Ifaces, NEW link \in Link,
           link.present = k.link[i].present, link.flags = k.link[i].flags,
           link.addrs = <<>> <=> k.link[i].addrs = <<>>, ~link.present => link.addrs6 = <<>>
    PROVE  Works(k, [k EXCEPT !.link = [@ EXCEPT ![i] = link], !.routes = k.routes], i)
<1>1. /\ k.routes \in Seq(Route) /\ NoTwice(k.routes) /\ Carries(k.link[i], k.routes, i)
  BY CarriesNow
<1>2. Trims(k.routes, k.routes, i)
  BY <1>1, SameTrims
<1>3. Carries(link, k.routes, i)
  BY <1>1 DEF Carries
<1> QED
  BY <1>2, <1>3, Remade

LEMMA SetAddrWorks ==
    ASSUME NEW k, Sane(k), NEW i \in Ifaces, NEW a \in V4, k.link[i].present
    PROVE  LET g == SetAddr(k, i, a) IN
           /\ Works(k, g, i) /\ g.link[i].flags = k.link[i].flags /\ g.dns = k.dns
           /\ a # Any4 => a \in Elements(g.link[i].addrs)
<1> DEFINE old == k.link[i].addrs
           less == IF old = <<>> THEN old ELSE Tail(old)
           rest == WithAddrs(k, i, less)
           more == Append(less, a)
           class == prefixLengthToIpv4Netmask(ClassPrefix)
           link == [rest.link[i] EXCEPT !.addrs = more, !.mask = class]
           g == [rest EXCEPT !.link = [@ EXCEPT ![i] = link], !.routes = rest.routes]
<1>1. k.link[i] \in Link /\ old \in Seq(Addrs)
  BY CarriesNow, LinkParts
<1>2. less \in Seq(Addrs)
  BY <1>1
<1> HIDE DEF less
<1>3. Works(k, rest, i) /\ rest.link[i] = [k.link[i] EXCEPT !.addrs = less] /\ rest.dns = k.dns
  BY <1>2, WithAddrsWorks
<1>4. rest.link[i].flags = k.link[i].flags
  BY <1>1, <1>3, LinkParts
<1>5. CASE old # <<>> /\ Head(old) = a
  <2>1. SetAddr(k, i, a) = k
    BY <1>5 DEF SetAddr
  <2>2. old[1] = a /\ 1 \in DOMAIN old
    BY <1>1, <1>5
  <2> QED
    BY <2>1, <2>2, WorksNot DEF Elements
<1>6. CASE ~(old # <<>> /\ Head(old) = a) /\ a = Any4
  <2>1. SetAddr(k, i, a) = rest
    BY <1>6 DEF SetAddr, less
  <2> HIDE DEF rest
  <2> QED
    BY <1>3, <1>4, <1>6, <2>1
<1>7. CASE ~(old # <<>> /\ Head(old) = a) /\ a # Any4
  <2>1. SetAddr(k, i, a) = [rest EXCEPT !.link[i].addrs = Append(@, a), !.link[i].mask = class]
    BY <1>7 DEF SetAddr, less
  <2>2. a \in Addrs
    BY <1>7 DEF V4
  <2>3. more \in Seq(Addrs) /\ more # <<>> /\ a \in Elements(more)
    <3>1. more \in Seq(Addrs) /\ Len(more) = Len(less) + 1 /\ more[Len(more)] = a /\ Len(less) \in Nat
      BY <1>2, <2>2
    <3> HIDE DEF more
    <3>2. Len(more) \in DOMAIN more
      BY <3>1
    <3> QED
      BY <3>1, <3>2 DEF Elements
  <2>4. Sane(rest) /\ rest.link[i] \in Link /\ rest.link[i].addrs = less
    <3>1. Sane(rest)
      BY <1>3 DEF Works
    <3>2. rest.link[i] \in Link
      BY <3>1, CarriesNow
    <3> QED
      BY <1>1, <1>3, <3>1, <3>2, LinkParts
  <2> HIDE DEF rest, more, class
  <2>5. rest.link \in [Ifaces -> Link] /\ rest \in Kernel
    BY <2>4 DEF Sane, Kernel
  <2>6. /\ link.present = rest.link[i].present /\ link.flags = rest.link[i].flags
        /\ link.addrs = more /\ link.addrs6 = rest.link[i].addrs6
    BY <2>4, LinkParts
  <2>7. link \in Link
    BY <2>3, <2>4, MaskOfLength, LinkParts DEF class
  <2>8. SetAddr(k, i, a) = g /\ g.link[i] = link /\ g.dns = rest.dns /\ g.conns = rest.conns
    <3>1. SetAddr(k, i, a) = [rest EXCEPT !.link[i].addrs = more, !.link[i].mask = class]
      BY <2>1, <2>4, <2>5 DEF Kernel, more
    <3>2. SetAddr(k, i, a) = g
      <4>1. [rest EXCEPT !.link[i].addrs = more, !.link[i].mask = class]
            = [rest EXCEPT !.link = [@ EXCEPT ![i] = [rest.link[i] EXCEPT !.addrs = more, !.mask = class]],
                           !.routes = rest.routes]
        BY <2>5 DEF Kernel
      <4> QED
        BY <3>1, <4>1, Zenon
    <3>3. g.link[i] = link /\ g.dns = rest.dns /\ g.conns = rest.conns
      BY <2>5 DEF Kernel
    <3> QED
      BY <3>2, <3>3
  <2> HIDE DEF link
  <2>9. Carries(link, rest.routes, i)
    <3>1. Carries(rest.link[i], rest.routes, i) /\ rest.link[i].present
      <4>1. Carries(rest.link[i], rest.routes, i)
        BY <2>4, CarriesNow
      <4> QED
        BY <1>1, <1>3, <4>1, LinkParts
    <3> QED
      BY <2>3, <2>6, <3>1 DEF Carries
  <2>10. Works(rest, g, i)
    <3>1. rest.routes \in Seq(Route) /\ NoTwice(rest.routes)
      BY <2>4, CarriesNow
    <3>2. Trims(rest.routes, rest.routes, i)
      BY <3>1, SameTrims
    <3> QED
      BY <2>4, <2>7, <2>9, <3>2, Remade
  <2> HIDE DEF g
  <2>11. Works(k, g, i)
    BY <1>3, <2>10 DEF Works, Elsewhere
  <2> QED
    BY <1>3, <1>4, <2>3, <2>6, <2>8, <2>11
<1> QED
  BY <1>5, <1>6, <1>7

LEMMA SetMaskWorks ==
    ASSUME NEW k, Sane(k), NEW i \in Ifaces, NEW m \in Mask
    PROVE  LET g == SetMask(k, i, m) IN
           /\ Works(k, g, i) /\ g.link[i].flags = k.link[i].flags /\ g.link[i].addrs = k.link[i].addrs
           /\ g.dns = k.dns /\ g.link[i].mask = m
<1> DEFINE f == IF Len(k.link[i].addrs) = 1 THEN Flush(k, i, V4) ELSE k
           link == [k.link[i] EXCEPT !.mask = m]
           h == f.routes
           g == [k EXCEPT !.link = [@ EXCEPT ![i] = link], !.routes = h]
<1>1. /\ k.link[i] \in Link /\ k.routes \in Seq(Route) /\ NoTwice(k.routes)
      /\ Carries(k.link[i], k.routes, i) /\ k \in Kernel
  BY CarriesNow DEF Sane
<1>2. CASE k.link[i].mask = m
  BY <1>2, WorksNot DEF SetMask
<1>3. CASE k.link[i].mask # m
  <2>1. f = [k EXCEPT !.routes = h] /\ Trims(k.routes, h, i)
    <3>1. CASE Len(k.link[i].addrs) = 1
      BY <1>1, <3>1, FlushTrims
    <3>2. CASE Len(k.link[i].addrs) # 1
      <4>1. f = k
        BY <3>2
      <4> HIDE DEF f
      <4> QED
        BY <1>1, <4>1, SameTrims DEF Kernel
    <3> QED
      BY <3>1, <3>2
  <2>2. Elements(h) \subseteq Elements(k.routes)
    BY <2>1 DEF Trims
  <2>3. SetMask(k, i, m) = [f EXCEPT !.link[i].mask = m]
    BY <1>3 DEF SetMask
  <2> HIDE DEF f, h
  <2>4. /\ link \in Link /\ link.mask = m /\ link.present = k.link[i].present
        /\ link.flags = k.link[i].flags /\ link.addrs = k.link[i].addrs /\ link.addrs6 = k.link[i].addrs6
    BY <1>1, LinkParts
  <2>5. SetMask(k, i, m) = g /\ g.link[i] = link /\ g.dns = k.dns
    BY <1>1, <2>1, <2>3 DEF Kernel
  <2> HIDE DEF link
  <2>6. Carries(link, h, i)
    BY <1>1, <2>2, <2>4 DEF Carries
  <2>7. Works(k, g, i)
    BY <2>1, <2>4, <2>6, Remade
  <2> HIDE DEF g
  <2> QED
    BY <2>4, <2>5, <2>7
<1> QED
  BY <1>2, <1>3

LEMMA SetFlagsWorks ==
    ASSUME NEW k, Sane(k), NEW i \in Ifaces, NEW flags \in SUBSET {"UP", "PROMISC"}, k.link[i].present
    PROVE  LET g == SetFlags(k, i, flags) IN
           /\ Works(k, g, i) /\ g.link[i].flags = flags /\ g.link[i].addrs = k.link[i].addrs /\ g.dns = k.dns
<1> DEFINE up == "UP" \in flags
           f == IF up \/ ~Up(k, i) THEN k ELSE Flush(k, i, V4 \cup V6)
           six == IF ~up THEN <<>> ELSE IF Up(k, i) THEN k.link[i].addrs6 ELSE <<LinkLocal[i]>>
           link == [k.link[i] EXCEPT !.flags = flags, !.addrs6 = six]
           h == f.routes
           g == [k EXCEPT !.link = [@ EXCEPT ![i] = link], !.routes = h]
<1>1. /\ k.link[i] \in Link /\ k.routes \in Seq(Route) /\ NoTwice(k.routes)
      /\ Carries(k.link[i], k.routes, i) /\ k \in Kernel
  BY CarriesNow DEF Sane
<1>2. f = [k EXCEPT !.routes = h] /\ Trims(k.routes, h, i)
  <2>1. CASE ~(up \/ ~Up(k, i))
    BY <1>1, <2>1, FlushTrims
  <2>2. CASE up \/ ~Up(k, i)
    <3>1. f = k
      BY <2>2
    <3> HIDE DEF f
    <3> QED
      BY <1>1, <3>1, SameTrims DEF Kernel
  <2> QED
    BY <2>1, <2>2
<1>3. ASSUME ~up, NEW r \in Elements(h)
      PROVE  r.dev # i
  <2>1. CASE Up(k, i)
    <3>1. f = Flush(k, i, V4 \cup V6)
      BY <1>3, <2>1
    <3>2. r.dev = i => r.dst \notin V4 \cup V6
      BY <1>1, <1>3, <3>1, FlushTrims
    <3>3. r \in Route
      BY <1>2, <1>3, ElementsAreAhead DEF Trims
    <3> QED
      BY <3>2, <3>3 DEF Route
  <2>2. CASE ~Up(k, i)
    <3>1. f = k
      BY <2>2
    <3> QED
      BY <1>1, <1>3, <2>2, <3>1 DEF Carries, Up
  <2> QED
    BY <2>1, <2>2
<1>4. Elements(h) \subseteq Elements(k.routes)
  BY <1>2 DEF Trims
<1>5. SetFlags(k, i, flags) = [f EXCEPT !.link[i].flags = flags,
                                        !.link[i].addrs6 = IF ~up THEN <<>> ELSE IF Up(k, i) THEN @ ELSE <<LinkLocal[i]>>]
  BY DEF SetFlags
<1> HIDE DEF f, h
<1>6. six \in Seq(Addrs6)
  <2>1. LinkLocal[i] \in Addrs6
    BY KernelAssumption
  <2> QED
    BY <1>1, <2>1, LinkParts
<1>7. SetFlags(k, i, flags) = g /\ g.link[i] = link /\ g.dns = k.dns
  <2>1. f \in Kernel /\ f.link = k.link
    BY <1>1, <1>2 DEF Kernel, Trims
  <2>2. SetFlags(k, i, flags) = [f EXCEPT !.link[i].flags = flags, !.link[i].addrs6 = six]
    BY <1>5, <2>1 DEF Kernel
  <2>3. SetFlags(k, i, flags) = [f EXCEPT !.link = [@ EXCEPT ![i] = link], !.routes = f.routes]
    <3>1. [f EXCEPT !.link[i].flags = flags, !.link[i].addrs6 = six]
          = [f EXCEPT !.link = [@ EXCEPT ![i] = [f.link[i] EXCEPT !.flags = flags, !.addrs6 = six]],
                      !.routes = f.routes]
      BY <2>1 DEF Kernel
    <3>2. [f.link[i] EXCEPT !.flags = flags, !.addrs6 = six] = link
      BY <2>1
    <3> QED
      BY <2>2, <3>1, <3>2, Zenon
  <2>4. f.routes = h
    BY DEF h
  <2> HIDE DEF link
  <2>5. [f EXCEPT !.link = [@ EXCEPT ![i] = link], !.routes = f.routes] = g
    BY <1>1, <1>2, <2>1, <2>4 DEF Kernel
  <2>6. g.link[i] = link /\ g.dns = k.dns
    BY <1>1 DEF Kernel
  <2> QED
    BY <2>3, <2>5, <2>6
<1> HIDE DEF six
<1>8. /\ link.present /\ link.flags = flags /\ link.addrs = k.link[i].addrs
  BY <1>1, LinkParts
<1>9. link \in Link
  BY <1>1, <1>6, LinkParts
<1> HIDE DEF link
<1>10. Carries(link, h, i)
  BY <1>1, <1>3, <1>4, <1>8 DEF Carries
<1>11. Works(k, g, i)
  BY <1>2, <1>9, <1>10, Remade
<1> HIDE DEF g
<1> QED
  BY <1>7, <1>8, <1>11

LEMMA HwaddrWorks ==
    ASSUME NEW k, Sane(k), NEW i \in Ifaces, NEW a \in Nat
    PROVE  LET g == [k EXCEPT !.link[i].hwaddr = a] IN
           Works(k, g, i) /\ g.link[i].flags = k.link[i].flags /\ g.dns = k.dns
<1> DEFINE link == [k.link[i] EXCEPT !.hwaddr = a]
           g == [k EXCEPT !.link = [@ EXCEPT ![i] = link], !.routes = k.routes]
<1>1. k.link[i] \in Link /\ k \in Kernel /\ Carries(k.link[i], k.routes, i)
  BY CarriesNow DEF Sane
<1>2. /\ link \in Link /\ link.present = k.link[i].present /\ link.flags = k.link[i].flags
      /\ link.addrs = k.link[i].addrs /\ link.addrs6 = k.link[i].addrs6
  BY <1>1, LinkParts
<1>3. [k EXCEPT !.link[i].hwaddr = a] = g /\ g.link[i] = link /\ g.dns = k.dns
  BY <1>1 DEF Kernel
<1> HIDE DEF link
<1>4. Works(k, g, i)
  BY <1>1, <1>2, LinkWorks DEF Carries
<1> HIDE DEF g
<1> QED
  BY <1>2, <1>3, <1>4

LEMMA Addrs6Works ==
    ASSUME NEW k, Sane(k), NEW i \in Ifaces, NEW six \in Seq(Addrs6), k.link[i].present
    PROVE  LET g == [k EXCEPT !.link[i].addrs6 = six] IN
           Works(k, g, i) /\ g.link[i].flags = k.link[i].flags /\ g.dns = k.dns
<1> DEFINE link == [k.link[i] EXCEPT !.addrs6 = six]
           g == [k EXCEPT !.link = [@ EXCEPT ![i] = link], !.routes = k.routes]
<1>1. k.link[i] \in Link /\ k \in Kernel
  BY CarriesNow DEF Sane
<1>2. /\ link \in Link /\ link.present = k.link[i].present /\ link.flags = k.link[i].flags
      /\ link.addrs = k.link[i].addrs
  BY <1>1, LinkParts
<1>3. [k EXCEPT !.link[i].addrs6 = six] = g /\ g.link[i] = link /\ g.dns = k.dns
  BY <1>1 DEF Kernel
<1> HIDE DEF link
<1>4. Works(k, g, i)
  BY <1>1, <1>2, LinkWorks
<1> HIDE DEF g
<1> QED
  BY <1>2, <1>3, <1>4

LEMMA NewAddrWorks ==
    ASSUME NEW k, Sane(k), NEW i \in Ifaces, NEW a \in V4 \cup Addrs6, k.link[i].present
    PROVE  LET g == NewAddr(k, i, a) IN
           Works(k, g, i) /\ g.link[i].flags = k.link[i].flags /\ g.dns = k.dns
<1>1. k.link[i] \in Link /\ k.link[i].addrs \in Seq(Addrs) /\ k.link[i].addrs6 \in Seq(Addrs6) /\ k \in Kernel
  BY CarriesNow, LinkParts DEF Sane
<1>2. CASE a \in Addrs6
  <2> DEFINE six == Append(k.link[i].addrs6, a)
  <2>1. six \in Seq(Addrs6)
    BY <1>1, <1>2
  <2>2. NewAddr(k, i, a) = [k EXCEPT !.link[i].addrs6 = six]
    BY <1>1, <1>2 DEF NewAddr, Kernel
  <2> HIDE DEF six
  <2> DEFINE h == [k EXCEPT !.link[i].addrs6 = six]
  <2>3. Works(k, h, i) /\ h.link[i].flags = k.link[i].flags /\ h.dns = k.dns
    BY <2>1, Addrs6Works
  <2>4. NewAddr(k, i, a) = h
    BY <2>2
  <2> HIDE DEF h
  <2> QED
    BY <2>3, <2>4
<1>3. CASE a \notin Addrs6 /\ a = Any4
  BY <1>3, WorksNot DEF NewAddr
<1>4. CASE a \notin Addrs6 /\ a # Any4
  <2> DEFINE more == Append(k.link[i].addrs, a)
  <2>1. more \in Seq(Addrs)
    BY <1>1, <1>4 DEF V4
  <2>2. NewAddr(k, i, a) = WithAddrs(k, i, more)
    BY <1>4 DEF NewAddr
  <2> HIDE DEF more
  <2> DEFINE g == WithAddrs(k, i, more)
  <2>3. NewAddr(k, i, a) = g
    BY <2>2
  <2>4. Works(k, g, i) /\ g.link[i] = [k.link[i] EXCEPT !.addrs = more] /\ g.dns = k.dns
    BY <2>1, WithAddrsWorks
  <2> HIDE DEF g
  <2>5. g.link[i].flags = k.link[i].flags
    BY <1>1, <2>4, LinkParts
  <2> QED
    BY <2>4, <2>5, <2>3
<1> QED
  BY <1>2, <1>3, <1>4

LEMMA DelAddrWorks ==
    ASSUME NEW k, Sane(k), NEW i \in Ifaces, NEW a, k.link[i].present
    PROVE  LET g == DelAddr(k, i, a) IN
           Works(k, g, i) /\ g.link[i].flags = k.link[i].flags /\ g.dns = k.dns
<1>1. k.link[i] \in Link /\ k.link[i].addrs \in Seq(Addrs) /\ k.link[i].addrs6 \in Seq(Addrs6) /\ k \in Kernel
  BY CarriesNow, LinkParts DEF Sane
<1>2. CASE a \in Addrs6
  <2> DEFINE six == Others(k.link[i].addrs6, a)
  <2>1. six \in Seq(Addrs6)
    BY <1>1, KeepFacts DEF Others
  <2>2. DelAddr(k, i, a) = [k EXCEPT !.link[i].addrs6 = six]
    BY <1>1, <1>2 DEF DelAddr, Kernel
  <2> HIDE DEF six
  <2> DEFINE h == [k EXCEPT !.link[i].addrs6 = six]
  <2>3. Works(k, h, i) /\ h.link[i].flags = k.link[i].flags /\ h.dns = k.dns
    BY <2>1, Addrs6Works
  <2>4. DelAddr(k, i, a) = h
    BY <2>2
  <2> HIDE DEF h
  <2> QED
    BY <2>3, <2>4
<1>3. CASE a \notin Addrs6
  <2> DEFINE less == Others(k.link[i].addrs, a)
  <2>1. less \in Seq(Addrs)
    BY <1>1, KeepFacts DEF Others
  <2>2. DelAddr(k, i, a) = WithAddrs(k, i, less)
    BY <1>3 DEF DelAddr
  <2> HIDE DEF less
  <2> DEFINE g == WithAddrs(k, i, less)
  <2>3. DelAddr(k, i, a) = g
    BY <2>2
  <2>4. Works(k, g, i) /\ g.link[i] = [k.link[i] EXCEPT !.addrs = less] /\ g.dns = k.dns
    BY <2>1, WithAddrsWorks
  <2> HIDE DEF g
  <2>5. g.link[i].flags = k.link[i].flags
    BY <1>1, <2>4, LinkParts
  <2> QED
    BY <2>4, <2>5, <2>3
<1> QED
  BY <1>2, <1>3

LEMMA AddRouteWorks ==
    ASSUME NEW k, Sane(k), NEW r \in Route, ~HasRoute(k, r), Up(k, r.dev),
           r.dst \in V4 /\ r.gw # Any4 => k.link[r.dev].addrs # <<>>
    PROVE  LET g == AddRoute(k, r) IN
           /\ Works(k, g, r.dev) /\ g.link = k.link /\ g.dns = k.dns
           /\ Elements(g.routes) = Elements(k.routes) \cup {r}
<1> DEFINE q == k.routes
           h == <<r>> \o q
           g == [k EXCEPT !.routes = h]
           i == r.dev
<1>1. i \in Ifaces
  BY DEF Route
<1>2. k.link[i] \in Link /\ k \in Kernel /\ q \in Seq(Route) /\ NoTwice(q) /\ r \notin Elements(q)
  BY <1>1, CarriesNow DEF Sane, HasRoute
<1>3. /\ h \in Seq(Route) /\ NoTwice(h) /\ Elements(h) = Elements(q) \cup {r}
      /\ \A x, y \in Elements(q) : Ahead(h, x, y) <=> Ahead(q, x, y)
  BY <1>2, InFront
<1>4. AddRoute(k, r) = g
  BY DEF AddRoute
<1> HIDE DEF h
<1>5. g \in Kernel /\ g.link = k.link /\ g.routes = h /\ g.conns = k.conns /\ g.dns = k.dns
  BY <1>2, <1>3 DEF Kernel
<1> HIDE DEF g
<1>6. Settled(g)
  <2>1. \A x \in Elements(h) :
           Up(g, x.dev) /\ (x.dst \in V4 /\ x.gw # Any4 => g.link[x.dev].addrs # <<>>)
    BY <1>3, <1>5 DEF Sane, Settled, Up
  <2>2. \A j \in Ifaces : LET link == g.link[j] IN
           ~link.present => link.flags = {} /\ link.addrs = <<>> /\ link.addrs6 = <<>>
    BY <1>5 DEF Sane, Settled
  <2> QED
    BY <1>3, <1>5, <2>1, <2>2 DEF Settled, NoTwice
<1>7. Elsewhere(k, g, i)
  <2>1. ASSUME NEW x, NEW y, x.dev # i, y.dev # i
        PROVE  Ahead(h, x, y) <=> Ahead(q, x, y)
    BY <1>3, <2>1, AheadIsOfElements
  <2> QED
    BY <1>5, <2>1 DEF Elsewhere
<1> QED
  BY <1>3, <1>4, <1>5, <1>6, <1>7 DEF Works, Sane

LEMMA DelRouteWorks ==
    ASSUME NEW k, Sane(k), NEW r, DOMAIN r = {"dev", "dst", "plen", "gw"}, r.dev \in Ifaces,
           Matches(k, r) # {}
    PROVE  LET g == DelRoute(k, r) IN Works(k, g, r.dev) /\ g.link = k.link /\ g.dns = k.dns
<1> DEFINE i == r.dev
           h == DelRoute(k, r).routes
           g == [k EXCEPT !.link = [@ EXCEPT ![i] = k.link[i]], !.routes = h]
<1>1. k.link[i] \in Link /\ k \in Kernel /\ NoTwice(k.routes) /\ Carries(k.link[i], k.routes, i)
  BY CarriesNow DEF Sane
<1>2. DelRoute(k, r) = [k EXCEPT !.routes = h] /\ Trims(k.routes, h, i)
  BY <1>1, DelRouteTrims
<1> HIDE DEF h
<1>3. Carries(k.link[i], h, i)
  BY <1>1, <1>2 DEF Carries, Trims
<1>4. Works(k, g, i)
  BY <1>1, <1>2, <1>3, Remade
<1>5. DelRoute(k, r) = g /\ g.link = k.link /\ g.dns = k.dns
  BY <1>1, <1>2 DEF Kernel
<1> HIDE DEF g
<1> QED
  BY <1>4, <1>5

LEMMA KillWorks ==
    ASSUME NEW k, Sane(k), NEW a, NEW i
    PROVE  LET g == KillAddr(k, a) IN Works(k, g, i) /\ g.link = k.link /\ g.dns = k.dns
<1> DEFINE c == IF a = Any4 THEN k.conns \cap Local(k) ELSE k.conns \ {a}
           g == [k EXCEPT !.conns = c]
<1>1. KillAddr(k, a) = g
  BY DEF KillAddr
<1>2. k \in Kernel /\ c \subseteq k.conns
  BY DEF Sane
<1> HIDE DEF c
<1>3. g \in Kernel /\ g.link = k.link /\ g.routes = k.routes /\ g.conns = c /\ g.dns = k.dns
  BY <1>2 DEF Kernel
<1> HIDE DEF g
<1>4. Settled(g)
  BY <1>3 DEF Sane, Settled, Up
<1> QED
  BY <1>1, <1>2, <1>3, <1>4 DEF Works, Sane, Elsewhere

LEMMA DnsWorks ==
    ASSUME NEW k, Sane(k), NEW i \in Ifaces, NEW n \in 1 .. 2, NEW a \in V4,
           NEW g, g = [k EXCEPT !.dns[i][n] = a]
    PROVE  /\ Works(k, g, i) /\ g.link = k.link /\ g.routes = k.routes
           /\ g.dns[i] \in V4 \X V4 /\ k.dns[i] \in V4 \X V4
           /\ g.dns[i][n] = a /\ \A m \in 1 .. 2 : m # n => g.dns[i][m] = k.dns[i][m]
<1> DEFINE d == [k.dns[i] EXCEPT ![n] = a]
           e == [k EXCEPT !.dns[i] = d]
<1>1. k \in Kernel /\ k.dns[i] \in V4 \X V4
  BY DEF Sane, Kernel
<1>2. g = e
  BY <1>1 DEF Kernel
<1>3. d \in V4 \X V4 /\ d[n] = a /\ \A m \in 1 .. 2 : m # n => d[m] = k.dns[i][m]
  <2>1. n = 1 \/ n = 2
    OBVIOUS
  <2>2. k.dns[i] = <<k.dns[i][1], k.dns[i][2]>> /\ k.dns[i][1] \in V4 /\ k.dns[i][2] \in V4
    BY <1>1
  <2>3. d = IF n = 1 THEN <<a, k.dns[i][2]>> ELSE <<k.dns[i][1], a>>
    BY <2>1, <2>2
  <2> HIDE DEF d
  <2> QED
    BY <2>1, <2>2, <2>3
<1> HIDE DEF d
<1>4. /\ e \in Kernel /\ e.link = k.link /\ e.routes = k.routes /\ e.conns = k.conns /\ e.dns[i] = d
      /\ \A j \in Ifaces : j # i => e.dns[j] = k.dns[j]
  BY <1>1, <1>3 DEF Kernel
<1> HIDE DEF e
<1>5. Settled(e)
  BY <1>4 DEF Sane, Settled, Up
<1> QED
  BY <1>1, <1>2, <1>3, <1>4, <1>5 DEF Works, Sane, Elsewhere

(***************************************************************************)
(* Every state of the kernel is sane.                                      *)
(***************************************************************************)

LEMMA InitSane == Init => Sane(net)
BY AloneAssumption DEF Init, Sane

LEMMA UnplugSane ==
    ASSUME Sane(net), NEW i \in Ifaces, Unplug(i)
    PROVE  Sane(net')
<1> DEFINE f == Flush(net, i, V4 \cup V6)
           link == [net.link[i] EXCEPT !.present = FALSE, !.flags = {}, !.addrs = <<>>, !.addrs6 = <<>>]
           h == f.routes
           g == [net EXCEPT !.link = [@ EXCEPT ![i] = link], !.routes = h]
<1>1. /\ net.link[i] \in Link /\ net.routes \in Seq(Route) /\ NoTwice(net.routes) /\ net \in Kernel
  BY CarriesNow DEF Sane
<1>2. f = [net EXCEPT !.routes = h] /\ Trims(net.routes, h, i)
  BY <1>1, FlushTrims
<1>3. \A r \in Elements(h) : r.dev # i
  <2>1. \A r \in Elements(h) : r.dev = i => r.dst \notin V4 \cup V6
    BY <1>1, FlushTrims
  <2>2. \A r \in Elements(h) : r \in Route
    BY <1>2, ElementsAreAhead DEF Trims
  <2> QED
    BY <2>1, <2>2 DEF Route
<1>4. net' = [f EXCEPT !.link[i] =
                 [@ EXCEPT !.present = FALSE, !.flags = {}, !.addrs = <<>>, !.addrs6 = <<>>]]
  BY DEF Unplug, Outside
<1> HIDE DEF f, h
<1>5. net' = g
  BY <1>1, <1>2, <1>4 DEF Kernel
<1>6. link \in Link
  <2>1. <<>> \in Seq(Addrs) /\ <<>> \in Seq(Addrs6) /\ {} \in SUBSET {"UP", "PROMISC"}
    OBVIOUS
  <2> HIDE DEF Mask
  <2> QED
    BY <1>1, <2>1 DEF Link
<1>7. link.flags = {} /\ link.addrs = <<>> /\ link.addrs6 = <<>>
  BY <1>1, LinkParts
<1> HIDE DEF link
<1>8. Works(net, g, i)
  BY <1>2, <1>3, <1>6, <1>7, Remade DEF Carries
<1> HIDE DEF g
<1> QED
  BY <1>5, <1>8 DEF Works

LEMMA PlugSane ==
    ASSUME Sane(net), NEW i \in Ifaces, Plug(i)
    PROVE  Sane(net')
<1> DEFINE link == [net.link[i] EXCEPT !.present = TRUE]
           g == [net EXCEPT !.link = [@ EXCEPT ![i] = link], !.routes = net.routes]
<1>1. /\ net.link[i] \in Link /\ net.routes \in Seq(Route) /\ NoTwice(net.routes) /\ net \in Kernel
      /\ Carries(net.link[i], net.routes, i)
  BY CarriesNow DEF Sane
<1>2. net' = g
  BY <1>1 DEF Plug, Outside, Kernel
<1>3. link \in Link /\ link.present /\ link.flags = net.link[i].flags /\ link.addrs = net.link[i].addrs
  BY <1>1 DEF Link
<1> HIDE DEF link
<1>4. Trims(net.routes, net.routes, i) /\ Carries(link, net.routes, i)
  BY <1>1, <1>3, SameTrims DEF Carries
<1>5. Works(net, g, i)
  BY <1>3, <1>4, Remade
<1> HIDE DEF g
<1> QED
  BY <1>2, <1>5 DEF Works

LEMMA CaptureSane ==
    ASSUME Sane(net), NEW i \in Ifaces, Capture(i)
    PROVE  Sane(net')
<1> DEFINE old == net.link[i].flags
           flags == IF "PROMISC" \in old THEN old \ {"PROMISC"} ELSE old \cup {"PROMISC"}
           link == [net.link[i] EXCEPT !.flags = flags]
           g == [net EXCEPT !.link = [@ EXCEPT ![i] = link], !.routes = net.routes]
<1>1. /\ net.link[i] \in Link /\ net.routes \in Seq(Route) /\ NoTwice(net.routes) /\ net \in Kernel
      /\ Carries(net.link[i], net.routes, i) /\ net.link[i].present /\ old \in SUBSET {"UP", "PROMISC"}
  BY CarriesNow, LinkParts DEF Sane, Capture
<1>2. net' = [net EXCEPT !.link[i].flags = flags]
  BY <1>1 DEF Capture, Outside, Kernel
<1>3. flags \in SUBSET {"UP", "PROMISC"} /\ ("UP" \in flags <=> "UP" \in old)
  BY <1>1
<1> HIDE DEF flags
<1>4. net' = g
  BY <1>1, <1>2 DEF Kernel
<1>5. link \in Link /\ link.present /\ link.flags = flags /\ link.addrs = net.link[i].addrs
  BY <1>1, <1>3, LinkParts
<1> HIDE DEF link
<1>6. Trims(net.routes, net.routes, i) /\ Carries(link, net.routes, i)
  BY <1>1, <1>3, <1>5, SameTrims DEF Carries
<1>7. Works(net, g, i)
  BY <1>5, <1>6, Remade
<1> HIDE DEF g
<1> QED
  BY <1>4, <1>7 DEF Works

LEMMA UpIsPresent ==
    ASSUME NEW k, Sane(k), NEW i \in Ifaces, Up(k, i)
    PROVE  k.link[i].present
BY DEF Sane, Settled, Up

LEMMA EventSane ==
    ASSUME Sane(net), Event
    PROVE  Sane(net')
<1>1. ASSUME NEW i \in Ifaces, NEW a \in Addrs6, Autoconf(i, a)
      PROVE  Sane(net')
  <2>1. net' = NewAddr(net, i, a) /\ net.link[i].present
    BY <1>1, UpIsPresent DEF Autoconf, Outside
  <2> QED
    BY <2>1, NewAddrWorks DEF Works
<1>2. ASSUME NEW a \in Addrs, Connect(a)
      PROVE  Sane(net')
  <2>1. net' = [net EXCEPT !.conns = net.conns \cup {a}] /\ net \in Kernel
    BY <1>2 DEF Connect, Outside, Sane
  <2>2. net' \in Kernel /\ net'.link = net.link /\ net'.routes = net.routes
    BY <2>1 DEF Kernel
  <2> QED
    BY <2>2 DEF Sane, Settled, Up
<1> QED
  BY <1>1, <1>2, UnplugSane, PlugSane, CaptureSane DEF Event

(***************************************************************************)
(* The steps of a program, and that every step that a call can come to is  *)
(* one that the kernel can take.                                           *)
(***************************************************************************)

\* Steps on the sockets, and all others: those that any argument will do for first.
OfSockets == {"socket", "socket6", "close", "close6"}
AnyArgs == { "refuse", "getflags", "readflags", "gethwaddr", "getindex", "getindex6",
             "getaddr", "sethwaddr", "getmask", "setmask", "clear", "scan6", "scanhosts",
             "scandefault", "readaddrs", "readroutes", "deladdr", "delroute", "delroute6", "kill",
             "kill6", "rawsocket", "exchange", "rawclose", "verdict" }
Fussy == {"setaddr", "setdns", "newaddr", "addroute", "addroute6"}

Fits(s) ==
    /\ s.do \in OfSockets \/ s.dev # NoDev
    /\ s.do \in {"setaddr", "setdns", "addroute"} => s.a \in V4
    /\ s.do = "setdns" => s.p \in 1 .. 2
    /\ s.do = "newaddr" => s.a \in V4 \cup V6
    /\ s.do = "addroute" => s.p \in PrefixLength /\ s.g \in V4
    /\ s.do = "addroute6" => s.a \in V6 /\ s.g \in V6
    /\ s.do \in {"scan6", "readaddrs", "readroutes"} => s.p \in Nat

StepOf(i) ==
    { s \in [ do : OfSockets \cup AnyArgs \cup Fussy, dev : {i, NoDev}, a : Nat, p : Int, g : Nat,
              fail : {"abort", "return", "note", "ignore"} ] : Fits(s) }

LEMMA AddressesAre ==
    /\ V4 \subseteq Nat /\ V6 \subseteq Nat /\ Any4 \in V4 /\ Any6 \in V6 /\ Addrs \subseteq V4
    /\ Addrs6 \subseteq V6 /\ V4 \cap V6 = {} /\ Any4 \notin Addrs
BY KernelAssumption DEF V4, V6, Any4

LEMMA StepTyped ==
    ASSUME NEW i \in Ifaces, NEW do \in AnyArgs \cup Fussy, NEW a \in Nat, NEW p \in Int, NEW g \in Nat,
           do \in {"setaddr", "setdns", "addroute"} => a \in V4,
           do = "setdns" => p \in 1 .. 2,
           do = "newaddr" => a \in V4 \cup V6,
           do = "addroute" => p \in PrefixLength /\ g \in V4,
           do = "addroute6" => a \in V6 /\ g \in V6,
           do \in {"scan6", "readaddrs", "readroutes"} => p \in Nat
    PROVE  Step(do, i, a, p, g) \in StepOf(i)
<1> DEFINE s == Step(do, i, a, p, g)
<1>1. i # NoDev
  BY AloneAssumption
<1>2. s.do = do /\ s.dev = i /\ s.a = a /\ s.p = p /\ s.g = g
  BY DEF Step
<1>3. s \in [ do : OfSockets \cup AnyArgs \cup Fussy, dev : {i, NoDev}, a : Nat, p : Int, g : Nat,
              fail : {"abort", "return", "note", "ignore"} ]
  <2> HIDE DEF OfSockets, AnyArgs, Fussy
  <2> QED
    BY DEF Step
<1> HIDE DEF s
<1>4. Fits(s)
  BY <1>1, <1>2 DEF Fits
<1> QED
  BY <1>3, <1>4 DEF StepOf, s

LEMMA SocketTyped ==
    ASSUME NEW i, NEW do \in OfSockets
    PROVE  Ioctl(do, NoDev) \in Seq(StepOf(i))
<1> DEFINE s == Step(do, NoDev, Any4, 0, Any4)
<1>1. s.do = do
  BY DEF Step
<1>2. s \in [ do : OfSockets \cup AnyArgs \cup Fussy, dev : {i, NoDev}, a : Nat, p : Int, g : Nat,
              fail : {"abort", "return", "note", "ignore"} ]
  <2> HIDE DEF OfSockets, AnyArgs, Fussy
  <2> QED
    BY DEF Step, Any4
<1> HIDE DEF s
<1>3. Fits(s)
  BY <1>1 DEF Fits, OfSockets
<1>4. s \in StepOf(i)
  BY <1>2, <1>3 DEF StepOf
<1>5. <<s>> \in Seq(StepOf(i))
  BY <1>4
<1> QED
  BY <1>5 DEF Ioctl, s

LEMMA IoctlTyped ==
    ASSUME NEW i \in Ifaces, NEW do \in AnyArgs
    PROVE  Ioctl(do, i) \in Seq(StepOf(i))
<1> DEFINE s == Step(do, i, Any4, 0, Any4)
<1>1. do \notin Fussy
  BY DEF AnyArgs, Fussy
<1>2. s \in StepOf(i)
  BY <1>1, StepTyped, AddressesAre DEF Fussy
<1> HIDE DEF s
<1>3. <<s>> \in Seq(StepOf(i))
  BY <1>2
<1> QED
  BY <1>3 DEF Ioctl, s

LEMMA Joined ==
    ASSUME NEW S, NEW u \in Seq(S), NEW v \in Seq(S)
    PROVE  u \o v \in Seq(S)
OBVIOUS

\* A step that may fail in another way is still the same step.
LEMMA FailingTyped ==
    ASSUME NEW i, NEW q \in Seq(StepOf(i)), NEW how \in {"return", "note", "ignore"}
    PROVE  OnFailure(how, q) \in Seq(StepOf(i))
<1>1. ASSUME NEW s \in StepOf(i)
      PROVE  [s EXCEPT !.fail = how] \in StepOf(i)
  <2> DEFINE r == [s EXCEPT !.fail = how]
  <2>1. r.do = s.do /\ r.dev = s.dev /\ r.a = s.a /\ r.p = s.p /\ r.g = s.g
    BY DEF StepOf
  <2>2. r \in [ do : OfSockets \cup AnyArgs \cup Fussy, dev : {i, NoDev}, a : Nat, p : Int, g : Nat,
                fail : {"abort", "return", "note", "ignore"} ]
    <3> HIDE DEF OfSockets, AnyArgs, Fussy
    <3> QED
      BY DEF StepOf
  <2> HIDE DEF r
  <2>3. Fits(r)
    BY <2>1 DEF Fits, StepOf
  <2> QED
    BY <2>2, <2>3 DEF StepOf, r
<1>2. \A n \in DOMAIN q : q[n] \in StepOf(i)
  OBVIOUS
<1>3. DOMAIN q = 1 .. Len(q) /\ Len(q) \in Nat
  OBVIOUS
<1> QED
  BY <1>1, <1>2, <1>3 DEF OnFailure

LEMMA LengthOfMask ==
    ASSUME NEW m
    PROVE  ipv4NetmaskToPrefixLength(m) \in PrefixLength
<1> DEFINE N == {n \in 1 .. Bits : \A i \in 1 .. n : m[i]}
<1>1. Bits \in Nat /\ N \subseteq 1 .. Bits
  BY BitsAssumption
<1> HIDE DEF N
<1>2. IsFiniteSet(1 .. Bits) /\ Cardinality(1 .. Bits) = Bits
  <2>1. 1 \in Int /\ Bits \in Int /\ (IF 1 > Bits THEN 0 ELSE Bits - 1 + 1) = Bits
    BY <1>1
  <2> QED
    BY <2>1, FS_Interval
<1>3. IsFiniteSet(N) /\ Cardinality(N) <= Bits /\ Cardinality(N) \in Nat
  <2>1. IsFiniteSet(N) /\ Cardinality(N) <= Cardinality(1 .. Bits)
    BY <1>1, <1>2, FS_Subset
  <2> QED
    BY <1>2, <2>1, FS_CardinalityType
<1>4. Cardinality(N) \in 0 .. Bits
  BY <1>1, <1>3
<1> QED
  BY <1>4 DEF N, ipv4NetmaskToPrefixLength, PrefixLength

LEMMA DnsStepTyped ==
    ASSUME NEW i \in Ifaces, NEW a \in V4, NEW n \in 1 .. 2
    PROVE  Step("setdns", i, a, n, Any4) \in StepOf(i)
<1>1. "setdns" \in Fussy /\ a \in Nat /\ n \in Int /\ Any4 \in Nat
  BY AddressesAre DEF Fussy
<1> QED
  BY <1>1, StepTyped

\* The functions that are called by others, on the arguments that they get.
LEMMA PiecesTyped ==
    ASSUME NEW i \in Ifaces, NEW a \in V4, NEW p \in Int, NEW g \in V4
    PROVE  /\ ifc_init \in Seq(StepOf(i)) /\ ifc_init6 \in Seq(StepOf(i))
           /\ ifc_close \in Seq(StepOf(i)) /\ ifc_close6 \in Seq(StepOf(i))
           /\ ifc_up(i) \in Seq(StepOf(i)) /\ ifc_down(i) \in Seq(StepOf(i))
           /\ ifc_set_addr(i, a) \in Seq(StepOf(i)) /\ ifc_set_mask(i, p) \in Seq(StepOf(i))
           /\ ClearRound(i, p) \in Seq(StepOf(i))
           /\ \A n \in 1 .. 2 : << Step("setdns", i, a, n, Any4) >> \in Seq(StepOf(i))
           /\ << Step("addroute", i, a, MaskLength(p), g) >> \in Seq(StepOf(i))
           /\ << Step("delroute", i, a, MaskLength(p), g) >> \in Seq(StepOf(i))
<1>1. /\ ifc_init \in Seq(StepOf(i)) /\ ifc_init6 \in Seq(StepOf(i))
      /\ ifc_close \in Seq(StepOf(i)) /\ ifc_close6 \in Seq(StepOf(i))
  BY SocketTyped DEF ifc_init, ifc_init6, ifc_close, ifc_close6, OfSockets
<1>2. 0 \in Nat /\ 1 \in Int /\ 0 \in Int /\ a \in Nat /\ g \in Nat /\ Any4 \in Nat /\ Any4 \in V4
  BY AddressesAre
<1>3. MaskLength(p) \in PrefixLength /\ MaskLength(p) \in Int
  BY LengthOfMask DEF MaskLength, PrefixLength
<1>4. Step("getflags", i, Any4, 1, Any4) \in StepOf(i) /\ Step("getflags", i, Any4, 0, Any4) \in StepOf(i)
  BY <1>2, StepTyped DEF AnyArgs
<1>5. Step("setaddr", i, a, 0, Any4) \in StepOf(i)
  BY <1>2, StepTyped DEF Fussy
<1>6. Step("setmask", i, Any4, p, Any4) \in StepOf(i) /\ Step("clear", i, Any4, p, Any4) \in StepOf(i)
  BY <1>2, StepTyped DEF AnyArgs
<1>7. \A n \in 1 .. 2 : Step("setdns", i, a, n, Any4) \in StepOf(i)
  BY DnsStepTyped
<1>8. Step("addroute", i, a, MaskLength(p), g) \in StepOf(i) /\ Step("delroute", i, a, MaskLength(p), g) \in StepOf(i)
  BY <1>2, <1>3, StepTyped DEF Fussy, AnyArgs
<1>9. \A s \in StepOf(i) : <<s>> \in Seq(StepOf(i))
  OBVIOUS
<1> HIDE DEF StepOf
<1>10. ClearRound(i, p) \in Seq(StepOf(i))
  BY <1>6, <1>9, FailingTyped DEF ClearRound
<1> QED
  BY <1>1, <1>4, <1>5, <1>6, <1>7, <1>8, <1>9, <1>10 DEF ifc_up, ifc_down, ifc_set_flags, ifc_set_addr, ifc_set_mask

LEMMA RoutesTyped ==
    ASSUME NEW i \in Ifaces, NEW action \in {"addroute", "delroute"}, NEW p \in Int
    PROVE  /\ \A a, g \in V4 : ifc_act_on_ipv4_route(action, i, a, p, g) \in Seq(StepOf(i))
           /\ \A a, g \in V6 : ifc_act_on_ipv6_route(action, i, a, p, g) \in Seq(StepOf(i))
           /\ \A a, g : ifc_act_on_route(action, i, a, p, g) \in Seq(StepOf(i))
<1>1. ASSUME NEW a \in V4, NEW g \in V4
      PROVE  ifc_act_on_ipv4_route(action, i, a, p, g) \in Seq(StepOf(i))
  <2> DEFINE route == << Step(action, i, a, MaskLength(p), g) >>
  <2>1. ifc_init \in Seq(StepOf(i)) /\ route \in Seq(StepOf(i)) /\ ifc_close \in Seq(StepOf(i))
    BY PiecesTyped
  <2> HIDE DEF route
  <2>2. ifc_init \o route \o ifc_close \in Seq(StepOf(i))
    BY <2>1, Joined
  <2> QED
    BY <2>2 DEF ifc_act_on_ipv4_route, route
<1>2. ASSUME NEW a \in V6, NEW g \in V6
      PROVE  ifc_act_on_ipv6_route(action, i, a, p, g) \in Seq(StepOf(i))
  <2> DEFINE route == << Step(OnSocket6(action), i, a, p, g) >>
             index == Ioctl("getindex6", i)
  <2>1. ifc_init6 \in Seq(StepOf(i)) /\ ifc_close6 \in Seq(StepOf(i))
    BY AddressesAre, PiecesTyped
  <2>2. index \in Seq(StepOf(i))
    BY IoctlTyped DEF AnyArgs
  <2>3. route \in Seq(StepOf(i))
    <3>1. Step(OnSocket6(action), i, a, p, g) \in StepOf(i)
      BY AddressesAre, StepTyped DEF OnSocket6, Fussy, AnyArgs
    <3> HIDE DEF StepOf
    <3> QED
      BY <3>1
  <2> HIDE DEF route, index
  <2>4. index \o ifc_init6 \o route \o ifc_close6 \in Seq(StepOf(i))
    BY <2>1, <2>2, <2>3, Joined
  <2> QED
    BY <2>4 DEF ifc_act_on_ipv6_route, route, index
<1>3. Ioctl("refuse", i) \in Seq(StepOf(i))
  BY IoctlTyped DEF AnyArgs
<1> QED
  BY <1>1, <1>2, <1>3 DEF ifc_act_on_route

LEMMA ConfigureTyped ==
    ASSUME NEW i \in Ifaces, NEW a \in V4, NEW p \in Int, NEW g \in V4, NEW dns \in V4 \X V4
    PROVE  /\ ifc_set_prefixLength(i, p) \in Seq(StepOf(i))
           /\ ifc_configure(i, a, p, g, dns) \in Seq(StepOf(i))
           /\ do_dhcp(i, a, p, g, dns) \in Seq(StepOf(i))
<1>1. ifc_set_prefixLength(i, p) \in Seq(StepOf(i))
  <2>1. Ioctl("refuse", i) \in Seq(StepOf(i))
    BY IoctlTyped DEF AnyArgs
  <2>2. ifc_set_mask(i, p) \in Seq(StepOf(i))
    BY PiecesTyped
  <2> QED
    BY <2>1, <2>2 DEF ifc_set_prefixLength
<1>2. Any4 \in V4 /\ 0 \in Int /\ dns[1] \in V4 /\ dns[2] \in V4 /\ {1, 2} \subseteq 1 .. 2
  BY AddressesAre
<1>3. ifc_create_default_route(i, g) \in Seq(StepOf(i))
  BY <1>2, RoutesTyped DEF ifc_create_default_route
<1>4. /\ ifc_init \in Seq(StepOf(i)) /\ ifc_close \in Seq(StepOf(i)) /\ ifc_up(i) \in Seq(StepOf(i))
      /\ ifc_set_addr(i, a) \in Seq(StepOf(i)) /\ ifc_set_addr(i, Any4) \in Seq(StepOf(i))
  BY <1>2, PiecesTyped
<1> DEFINE both == << Step("setdns", i, dns[1], 1, Any4), Step("setdns", i, dns[2], 2, Any4) >>
           last == SetDns(i, dns)
<1>5. both \in Seq(StepOf(i))
  <2>1. Step("setdns", i, dns[1], 1, Any4) \in StepOf(i) /\ Step("setdns", i, dns[2], 2, Any4) \in StepOf(i)
    BY <1>2, DnsStepTyped
  <2> HIDE DEF StepOf
  <2> QED
    BY <2>1
<1>15. last \in Seq(StepOf(i))
  <2> HIDE DEF both
  <2>1. OnFailure("ignore", both) \in Seq(StepOf(i))
    BY <1>5, FailingTyped
  <2> QED
    BY <2>1 DEF SetDns, both
<1> HIDE DEF last
<1>6. ifc_init \o ifc_up(i) \o ifc_set_addr(i, a) \o ifc_set_prefixLength(i, p)
      \o ifc_create_default_route(i, g) \o ifc_close \o last \in Seq(StepOf(i))
  BY <1>1, <1>3, <1>4, <1>15, Joined
<1>7. ifc_configure(i, a, p, g, dns) \in Seq(StepOf(i))
  BY <1>6 DEF ifc_configure, last
<1>8. /\ ifc_get_hwaddr(i) \in Seq(StepOf(i)) /\ ifc_get_ifindex(i) \in Seq(StepOf(i))
      /\ Ioctl("exchange", i) \in Seq(StepOf(i)) /\ Ioctl("rawsocket", i) \in Seq(StepOf(i))
      /\ Ioctl("rawclose", i) \in Seq(StepOf(i)) /\ Ioctl("verdict", i) \in Seq(StepOf(i))
  BY IoctlTyped DEF AnyArgs, ifc_get_hwaddr, ifc_get_ifindex
<1> DEFINE early == ifc_set_addr(i, Any4) \o ifc_up(i) \o ifc_get_hwaddr(i) \o ifc_get_ifindex(i)
                    \o Ioctl("rawsocket", i) \o Ioctl("exchange", i)
<1>9. early \in Seq(StepOf(i))
  BY <1>4, <1>8, Joined
<1> HIDE DEF early
<1>10. /\ OnFailure("return", early) \in Seq(StepOf(i))
       /\ OnFailure("ignore", Ioctl("rawclose", i)) \in Seq(StepOf(i))
       /\ OnFailure("return", Ioctl("verdict", i)) \in Seq(StepOf(i))
  BY <1>8, <1>9, FailingTyped
<1>11. OnFailure("return", early) \o OnFailure("ignore", Ioctl("rawclose", i))
       \o OnFailure("return", Ioctl("verdict", i)) \o dhcp_configure(i, a, p, g, dns) \in Seq(StepOf(i))
  BY <1>7, <1>10, Joined DEF dhcp_configure
<1> QED
  BY <1>1, <1>7, <1>11 DEF do_dhcp, open_raw_socket, early

LEMMA DisableTyped ==
    ASSUME NEW i \in Ifaces
    PROVE  ifc_disable(i) \in Seq(StepOf(i)) /\ ifc_enable(i) \in Seq(StepOf(i))
           /\ ifc_clear_addresses(i) \in Seq(StepOf(i))
<1>1. Any4 \in V4 /\ 0 \in Int /\ CLEAR_MAX \in Int
  BY AddressesAre, IfcAssumption
<1>2. /\ ifc_init \in Seq(StepOf(i)) /\ ifc_close \in Seq(StepOf(i)) /\ ifc_up(i) \in Seq(StepOf(i))
      /\ ifc_down(i) \in Seq(StepOf(i)) /\ ifc_set_addr(i, Any4) \in Seq(StepOf(i))
      /\ ClearRound(i, CLEAR_MAX) \in Seq(StepOf(i))
  BY <1>1, PiecesTyped
<1>3. OnFailure("note", ifc_down(i)) \in Seq(StepOf(i)) /\ OnFailure("ignore", ifc_set_addr(i, Any4)) \in Seq(StepOf(i))
  BY <1>2, FailingTyped
<1>4. ifc_clear_ipv6_addresses(i) \in Seq(StepOf(i))
  BY IoctlTyped DEF ifc_clear_ipv6_addresses, AnyArgs
<1>5. ifc_disable(i) \in Seq(StepOf(i))
  BY <1>2, <1>3, Joined DEF ifc_disable
<1>6. ifc_enable(i) \in Seq(StepOf(i))
  BY <1>2, Joined DEF ifc_enable
<1>7. ifc_clear_addresses(i) \in Seq(StepOf(i))
  BY <1>2, <1>4, Joined DEF ifc_clear_addresses, ifc_clear_ipv4_addresses
<1> QED
  BY <1>5, <1>6, <1>7

LEMMA InfoTyped ==
    ASSUME NEW i \in Ifaces, NEW wanted
    PROVE  ifc_get_info(i, wanted) \in Seq(StepOf(i))
<1> DEFINE part(name, do) == IF name \in wanted THEN Ioctl(do, i) ELSE <<>>
<1>1. Ioctl("getaddr", i) \in Seq(StepOf(i)) /\ Ioctl("getmask", i) \in Seq(StepOf(i))
      /\ Ioctl("readflags", i) \in Seq(StepOf(i))
  BY IoctlTyped DEF AnyArgs
<1>2. <<>> \in Seq(StepOf(i))
  OBVIOUS
<1>3. part("addr", "getaddr") \in Seq(StepOf(i)) /\ part("plen", "getmask") \in Seq(StepOf(i))
      /\ part("flags", "readflags") \in Seq(StepOf(i))
  BY <1>1, <1>2
<1> HIDE DEF part
<1>4. part("addr", "getaddr") \o part("plen", "getmask") \o part("flags", "readflags") \in Seq(StepOf(i))
  BY <1>3, Joined
<1> QED
  BY <1>4, FailingTyped DEF ifc_get_info, part

LEMMA ResetTyped ==
    ASSUME NEW i \in Ifaces, NEW mask
    PROVE  ifc_reset_connections(i, mask) \in Seq(StepOf(i))
<1> DEFINE info == IF "IGNORE" \in mask THEN <<>> ELSE ifc_get_info(i, {"addr"})
           four == ifc_init \o info \o OnFailure("note", Ioctl("kill", i)) \o ifc_close
           six == ifc_init6 \o OnFailure("note", Ioctl("kill6", i)) \o ifc_close6
<1>1. /\ ifc_init \in Seq(StepOf(i)) /\ ifc_close \in Seq(StepOf(i))
      /\ ifc_init6 \in Seq(StepOf(i)) /\ ifc_close6 \in Seq(StepOf(i))
  BY AddressesAre, PiecesTyped
<1>2. OnFailure("note", Ioctl("kill", i)) \in Seq(StepOf(i)) /\ OnFailure("note", Ioctl("kill6", i)) \in Seq(StepOf(i))
  BY IoctlTyped, FailingTyped DEF AnyArgs
<1>3. info \in Seq(StepOf(i)) /\ <<>> \in Seq(StepOf(i))
  BY InfoTyped
<1> HIDE DEF info
<1>4. four \in Seq(StepOf(i)) /\ six \in Seq(StepOf(i))
  BY <1>1, <1>2, <1>3, Joined
<1> HIDE DEF four, six
<1>5. (IF "IPV4" \notin mask THEN <<>> ELSE four) \in Seq(StepOf(i))
      /\ (IF "IPV6" \notin mask THEN <<>> ELSE six) \in Seq(StepOf(i))
  BY <1>3, <1>4
<1>6. (IF "IPV4" \notin mask THEN <<>> ELSE four) \o (IF "IPV6" \notin mask THEN <<>> ELSE six) \in Seq(StepOf(i))
  BY <1>5, Joined
<1> QED
  BY <1>6 DEF ifc_reset_connections, four, six, info

\* Kinds of calls, by the parameters that they have.
SocketCalls == {"ifc_init", "ifc_close"}
PlainCalls == {"ifc_enable", "ifc_disable", "ifc_clear_addresses", "ifc_get_info",
               "ifc_remove_host_routes", "ifc_get_default_route", "ifc_remove_default_route"}

LEMMA CallKinds ==
    ASSUME NEW c \in Calls
    PROVE  \/ c.fn \in SocketCalls /\ c.dev = NoDev
           \/ c.fn \in PlainCalls /\ c.dev \in Ifaces
           \/ c.fn \in AddrCalls /\ c.dev \in Ifaces /\ c.a \in Nat /\ c.p \in Int
           \/ c.fn \in Ipv4Calls /\ c.dev \in Ifaces /\ c.a \in V4 /\ c.p \in Int /\ c.g \in V4
           \/ c.fn = "ifc_add_ipv6_route" /\ c.dev \in Ifaces /\ c.a \in V6 /\ c.p \in Int /\ c.g \in V6
           \/ /\ c.fn \in Configuring /\ c.dev \in Ifaces /\ c.a \in V4 /\ c.p \in Int /\ c.g \in V4
              /\ c.dns \in V4 \X V4
           \/ c.fn = "ifc_reset_connections" /\ c.dev \in Ifaces /\ c.mask \subseteq {"IPV4", "IPV6", "IGNORE"}
<1>1. c \in CallsThereAre
  BY AloneAssumption
<1> HIDE DEF AddrCalls, Ipv4Calls, Configuring, SocketCalls, PlainCalls
<1> QED
  BY <1>1 DEF CallsThereAre, SocketCalls, PlainCalls

LEMMA AddressCallsTyped ==
    ASSUME NEW i \in Ifaces, NEW a \in Nat, NEW p \in Int
    PROVE  /\ ifc_add_address(i, a, p) \in Seq(StepOf(i)) /\ ifc_del_address(i, a, p) \in Seq(StepOf(i))
           /\ ifc_set_hwaddr(i, a) \in Seq(StepOf(i))
<1>1. Any4 \in Nat /\ 0 \in Int
  BY AddressesAre
<1>2. \A s \in StepOf(i) : <<s>> \in Seq(StepOf(i))
  OBVIOUS
<1>3. Step("refuse", i, a, p, Any4) \in StepOf(i) /\ Step("deladdr", i, a, p, Any4) \in StepOf(i)
      /\ Step("sethwaddr", i, a, 0, Any4) \in StepOf(i)
  BY <1>1, StepTyped DEF AnyArgs
<1>4. string_to_ip(a) # "EAI_NONAME" => a \in V4 \cup V6
  BY DEF string_to_ip
<1>5. a \in V4 \cup V6 => Step("newaddr", i, a, p, Any4) \in StepOf(i)
  BY <1>1, StepTyped DEF Fussy
<1> HIDE DEF StepOf
<1> QED
  BY <1>2, <1>3, <1>4, <1>5 DEF ifc_add_address, ifc_del_address, ifc_act_on_address, ifc_set_hwaddr

\* The program of a call consists of steps for its device.
LEMMA ProgramTyped ==
    ASSUME NEW c \in Calls
    PROVE  Program(c) \in Seq(StepOf(c.dev))
<1> DEFINE i == c.dev
<1>1. Any4 \in V4 /\ Any4 \in Nat /\ 0 \in Int /\ V4 \subseteq Nat /\ V6 \subseteq Nat /\ Bits \in Int
  BY AddressesAre, BitsAssumption
<1>2. CASE c.fn \in SocketCalls
  <2>1. Ioctl("socket", NoDev) \in Seq(StepOf(i)) /\ Ioctl("close", NoDev) \in Seq(StepOf(i))
    BY SocketTyped DEF OfSockets
  <2>2. OnFailure("note", Ioctl("socket", NoDev)) \in Seq(StepOf(i))
    BY <2>1, FailingTyped
  <2> QED
    BY <1>2, <2>1, <2>2 DEF SocketCalls, Program, ifc_init, ifc_close
<1>3. CASE c.fn \in PlainCalls
  <2>1. i \in Ifaces
    BY <1>3, CallKinds DEF PlainCalls, SocketCalls, AddrCalls, Ipv4Calls, Configuring
  <2>2. c.fn \in {"ifc_enable", "ifc_disable", "ifc_clear_addresses"} => Program(c) \in Seq(StepOf(i))
    BY <2>1, DisableTyped DEF Program
  <2>3. c.fn = "ifc_get_info" => Program(c) \in Seq(StepOf(i))
    BY <2>1, InfoTyped DEF Program
  <2>4. Ioctl("scanhosts", i) \in Seq(StepOf(i)) /\ Ioctl("scandefault", i) \in Seq(StepOf(i))
    BY <2>1, IoctlTyped DEF AnyArgs
  <2>5. OnFailure("ignore", Ioctl("scandefault", i)) \in Seq(StepOf(i))
    BY <2>4, FailingTyped
  <2>6. ifc_remove_default_route(i) \in Seq(StepOf(i))
    <3> DEFINE route == << Step("delroute", i, Any4, 0, Any4) >>
    <3>1. Step("delroute", i, Any4, 0, Any4) \in StepOf(i)
      BY <1>1, <2>1, StepTyped DEF AnyArgs
    <3>2. route \in Seq(StepOf(i))
      <4> HIDE DEF StepOf
      <4> QED
        BY <3>1
    <3> HIDE DEF route
    <3>3. ifc_init \o route \o ifc_close \in Seq(StepOf(i))
      BY <1>1, <2>1, <3>2, PiecesTyped, Joined
    <3> QED
      BY <3>3 DEF ifc_remove_default_route, route
  <2>7. c.fn \in {"ifc_remove_host_routes", "ifc_get_default_route", "ifc_remove_default_route"}
        => Program(c) \in Seq(StepOf(i))
    BY <2>4, <2>5, <2>6 DEF Program, ifc_remove_host_routes, ifc_get_default_route
  <2> QED
    BY <1>3, <2>2, <2>3, <2>7 DEF PlainCalls
<1>4. CASE c.fn \in AddrCalls
  <2>1. i \in Ifaces /\ c.a \in Nat /\ c.p \in Int
    BY <1>1, <1>4, CallKinds DEF PlainCalls, SocketCalls, AddrCalls, Ipv4Calls, Configuring
  <2>2. ifc_set_prefixLength(i, c.p) \in Seq(StepOf(i))
    <3>1. <<Any4, Any4>> \in V4 \X V4
      BY <1>1
    <3> QED
      BY <1>1, <2>1, <3>1, ConfigureTyped
  <2>3. ifc_add_route(i, c.a, c.p, c.g) \in Seq(StepOf(i)) /\ ifc_remove_route(i, c.a, c.p, c.g) \in Seq(StepOf(i))
    BY <2>1, RoutesTyped DEF ifc_add_route, ifc_remove_route
  <2> QED
    BY <1>4, <2>1, <2>2, <2>3, AddressCallsTyped DEF AddrCalls, Program
<1>5. CASE c.fn \in Ipv4Calls
  <2>1. i \in Ifaces /\ c.a \in V4 /\ c.p \in Int /\ c.g \in V4
    BY <1>5, CallKinds DEF PlainCalls, SocketCalls, AddrCalls, Ipv4Calls, Configuring
  <2>2. /\ ifc_act_on_ipv4_route("addroute", i, c.a, c.p, c.g) \in Seq(StepOf(i))
        /\ ifc_act_on_ipv4_route("addroute", i, c.a, Bits, Any4) \in Seq(StepOf(i))
        /\ ifc_act_on_ipv4_route("addroute", i, Any4, 0, c.g) \in Seq(StepOf(i))
    BY <1>1, <2>1, RoutesTyped
  <2>3. ifc_init \in Seq(StepOf(i)) /\ ifc_close \in Seq(StepOf(i))
    BY <1>1, <2>1, PiecesTyped
  <2>4. ifc_set_default_route(i, c.g) \in Seq(StepOf(i))
    BY <2>2, <2>3, Joined DEF ifc_set_default_route, ifc_create_default_route
  <2> QED
    BY <1>5, <2>2, <2>4 DEF Ipv4Calls, Program, ifc_add_host_route, ifc_add_ipv4_route
<1>6. CASE c.fn = "ifc_add_ipv6_route"
  <2>1. i \in Ifaces /\ c.a \in V6 /\ c.p \in Int /\ c.g \in V6
    BY <1>6, CallKinds DEF PlainCalls, SocketCalls, AddrCalls, Ipv4Calls, Configuring
  <2> QED
    BY <1>6, <2>1, RoutesTyped DEF Program, ifc_add_ipv6_route
<1>7. CASE c.fn \in Configuring
  <2>1. i \in Ifaces /\ c.a \in V4 /\ c.p \in Int /\ c.g \in V4 /\ c.dns \in V4 \X V4
    BY <1>7, CallKinds DEF PlainCalls, SocketCalls, AddrCalls, Ipv4Calls, Configuring
  <2> QED
    BY <1>7, <2>1, ConfigureTyped DEF Configuring, Program
<1>8. CASE c.fn = "ifc_reset_connections"
  <2>1. i \in Ifaces
    BY <1>8, CallKinds DEF PlainCalls, SocketCalls, AddrCalls, Ipv4Calls, Configuring
  <2> QED
    BY <1>8, <2>1, ResetTyped DEF Program
<1> QED
  BY <1>2, <1>3, <1>4, <1>5, <1>6, <1>7, <1>8, CallKinds

\* The device of a step is the one that the call is for.
LEMMA StepParts ==
    ASSUME NEW i \in Ifaces \cup {NoDev}, NEW s \in StepOf(i)
    PROVE  /\ s.do \in OfSockets \cup AnyArgs \cup Fussy
           /\ s.do \notin OfSockets => i \in Ifaces /\ s.dev = i
           /\ s.a \in Nat /\ s.p \in Int /\ s.g \in Nat /\ s.fail \in {"abort", "return", "note", "ignore"}
           /\ DOMAIN s = {"do", "dev", "a", "p", "g", "fail"} /\ Fits(s)
<1> HIDE DEF OfSockets, AnyArgs, Fussy
<1> QED
  BY DEF StepOf, Fits

\* The one step that no function is written with: the second half of ifc_set_flags.
SetsFlags(s) == [s EXCEPT !.do = "setflags"]
StepNow(i) == StepOf(i) \cup {SetsFlags(s) : s \in {r \in StepOf(i) : r.do = "getflags"}}

\* What may be left of a program: its first step may be that half.
TodoOf(i) == {q \in Seq(StepNow(i)) : q # <<>> => Tail(q) \in Seq(StepOf(i))}

LEMMA StepNowParts ==
    ASSUME NEW i \in Ifaces \cup {NoDev}, NEW s \in StepNow(i)
    PROVE  /\ s.do \in OfSockets \cup AnyArgs \cup Fussy \cup {"setflags"}
           /\ s.do \notin OfSockets => i \in Ifaces /\ s.dev = i
           /\ s.a \in Nat /\ s.p \in Int /\ s.g \in Nat /\ s.fail \in {"abort", "return", "note", "ignore"}
           /\ Fits(s) /\ (s.do # "setflags" => s \in StepOf(i))
<1>1. CASE s \in StepOf(i)
  BY <1>1, StepParts
<1>2. CASE s \notin StepOf(i)
  <2>1. PICK r \in StepOf(i) : r.do = "getflags" /\ s = SetsFlags(r)
    BY <1>2 DEF StepNow
  <2>2. /\ r.dev = i /\ i \in Ifaces /\ r.a \in Nat /\ r.p \in Int /\ r.g \in Nat
        /\ r.fail \in {"abort", "return", "note", "ignore"} /\ DOMAIN r = {"do", "dev", "a", "p", "g", "fail"}
    BY <2>1, StepParts DEF OfSockets
  <2>3. s.do = "setflags" /\ s.dev = i /\ s.a = r.a /\ s.p = r.p /\ s.g = r.g /\ s.fail = r.fail
    BY <2>1, <2>2 DEF SetsFlags
  <2> QED
    BY <2>2, <2>3, AloneAssumption DEF Fits
<1> QED
  BY <1>1, <1>2

LEMMA TodoIs ==
    ASSUME NEW i
    PROVE  /\ Seq(StepOf(i)) \subseteq TodoOf(i)
           /\ \A q \in TodoOf(i) : q # <<>> => Head(q) \in StepNow(i) /\ Tail(q) \in Seq(StepOf(i))
           /\ \A q \in Seq(StepOf(i)) : q # <<>> => Head(q) \in StepOf(i)
<1>1. \A q \in Seq(StepOf(i)) : q \in Seq(StepNow(i)) /\ (q # <<>> => Head(q) \in StepOf(i) /\ Tail(q) \in Seq(StepOf(i)))
  <2> HIDE DEF StepOf
  <2> QED
    BY DEF StepNow
<1>2. \A q \in Seq(StepNow(i)) : q # <<>> => Head(q) \in StepNow(i)
  <2> HIDE DEF StepNow
  <2> QED
    OBVIOUS
<1> QED
  BY <1>1, <1>2 DEF TodoOf

LEMMA DeletionsOf ==
    ASSUME NEW i \in Ifaces, NEW q \in Seq(Addrs6)
    PROVE  [n \in DOMAIN q |-> Step("deladdr", i, q[n], 0, Any4)] \in Seq(StepOf(i))
<1>1. ASSUME NEW n \in DOMAIN q
      PROVE  Step("deladdr", i, q[n], 0, Any4) \in StepOf(i)
  <2>1. q[n] \in Addrs6
    OBVIOUS
  <2>2. q[n] \in Nat /\ Any4 \in Nat
    BY <2>1, AddressesAre
  <2> QED
    BY <2>2, StepTyped DEF AnyArgs
<1>2. DOMAIN q = 1 .. Len(q) /\ Len(q) \in Nat
  OBVIOUS
<1> HIDE DEF StepOf
<1> QED
  BY <1>1, <1>2

\* What is read at once is part of the table, and all of it if it is not long.
LEMMA BlockTyped ==
    ASSUME NEW S, NEW q \in Seq(S), NEW p \in Nat
    PROVE  /\ Block(q, p) \in Seq(S) /\ Len(Block(q, p)) \in Nat
           /\ \A x \in Elements(Block(q, p)) : x \in Elements(q)
           /\ Len(q) <= LINES => Block(q, 0) = q
<1> DEFINE n == Len(q)
           m == IF p + LINES < n THEN p + LINES ELSE n
<1>1. LINES \in Nat /\ n \in Nat /\ DOMAIN q = 1 .. n /\ \A j \in 1 .. n : q[j] \in S
  BY IfcAssumption
<1> HIDE DEF n
<1>2. m \in Nat /\ m <= n
  BY <1>1
<1> HIDE DEF m
<1> DEFINE b == SubSeq(q, p + 1, m)
<1>3. Block(q, p) = b
  BY DEF Block, m, n
<1>4. Len(q) <= LINES => Block(q, 0) = q
  <2> SUFFICES ASSUME n <= LINES
               PROVE  Block(q, 0) = q
    BY DEF n
  <2>1. ~(0 + LINES < n)
    BY <1>1
  <2>2. Block(q, 0) = SubSeq(q, 1, n)
    BY <2>1 DEF Block, n
  <2> QED
    BY <2>2 DEF n
<1>5. CASE m < p + 1
  <2>1. b = <<>>
    BY <1>2, <1>5
  <2> HIDE DEF b
  <2> QED
    BY <1>3, <2>1, <1>4 DEF Elements
<1>6. CASE ~(m < p + 1)
  <2>1. /\ b \in Seq(S) /\ Len(b) = m - p
        /\ \A j \in 1 .. m - p : b[j] = q[p + j]
    BY <1>1, <1>2, <1>6
  <2>2. m - p \in Nat /\ \A j \in 1 .. m - p : p + j \in 1 .. n
    BY <1>1, <1>2, <1>6
  <2>3. DOMAIN b = 1 .. m - p
    <3> HIDE DEF b
    <3> QED
      BY <2>1
  <2> HIDE DEF b
  <2>4. \A x \in Elements(b) : x \in Elements(q)
    BY <1>1, <2>1, <2>2, <2>3 DEF Elements
  <2> QED
    BY <1>3, <1>4, <2>1, <2>2, <2>4
<1> QED
  BY <1>5, <1>6

LEMMA DeletionsTyped ==
    ASSUME NEW k, Sane(k), NEW i \in Ifaces, NEW p \in Nat
    PROVE  LET b6 == Block(Lines6(k, i), p)
               b4 == Block(Lines4(k), p)
           IN  /\ AddressDeletions(b6, i) \in Seq(StepOf(i)) /\ RouteDeletions(b4, i) \in Seq(StepOf(i))
               /\ Len(b6) \in Nat /\ Len(b4) \in Nat /\ b4 \in Seq(Route) /\ Lines4(k) \in Seq(Route)
<1> DEFINE b6 == Block(Lines6(k, i), p)
           b4 == Block(Lines4(k), p)
<1>1. Any4 \in Nat /\ 0 \in Int /\ Bits \in Int /\ V4 \subseteq Nat /\ V6 \subseteq Nat /\ Addrs6 \subseteq Nat
  BY AddressesAre, BitsAssumption
<1>2. k.link[i].addrs6 \in Seq(Addrs6) /\ k.routes \in Seq(Route)
  BY CarriesNow, LinkParts
<1>5. Lines6(k, i) \in Seq(Addrs6) /\ Lines4(k) \in Seq(Route)
  BY <1>2, KeepFacts DEF Lines6, Lines4
<1>6. b6 \in Seq(Addrs6) /\ b4 \in Seq(Route) /\ Len(b6) \in Nat /\ Len(b4) \in Nat
  BY <1>5, BlockTyped
<1> HIDE DEF b6, b4
<1>3. AddressDeletions(b6, i) \in Seq(StepOf(i))
  <2>1. Keep(b6, Addrs6 \ LinkLocals) \in Seq(Addrs6)
    BY <1>6, KeepFacts
  <2> QED
    BY <2>1, DeletionsOf DEF AddressDeletions
<1>4. RouteDeletions(b4, i) \in Seq(StepOf(i))
  <2> DEFINE rs == Keep(b4, HostRoutes(b4, i))
  <2>1. rs \in Seq(Route)
    BY <1>6, KeepFacts
  <2>2. RouteDeletions(b4, i) = [n \in DOMAIN rs |-> Step("delroute", i, rs[n].dst, Bits, rs[n].gw)]
    BY DEF RouteDeletions
  <2> HIDE DEF rs
  <2>3. \A n \in DOMAIN rs : Step("delroute", i, rs[n].dst, Bits, rs[n].gw) \in StepOf(i)
    <3>1. \A a, g \in Nat : Step("delroute", i, a, Bits, g) \in StepOf(i)
      BY <1>1, StepTyped DEF AnyArgs
    <3>2. \A r \in Route : r.dst \in Nat /\ r.gw \in Nat
      BY <1>1 DEF Route
    <3>3. \A n \in DOMAIN rs : rs[n].dst \in Nat /\ rs[n].gw \in Nat
      BY <2>1, <3>2
    <3> QED
      BY <3>1, <3>3
  <2>4. DOMAIN rs = 1 .. Len(rs) /\ Len(rs) \in Nat
    BY <2>1
  <2> HIDE DEF StepOf
  <2> QED
    BY <2>2, <2>3, <2>4
<1> QED
  BY <1>3, <1>4, <1>5, <1>6 DEF b6, b4

LEMMA ReadsOn ==
    ASSUME NEW i \in Ifaces, NEW do \in {"readaddrs", "readroutes"}, NEW p \in Nat, NEW n \in Nat
    PROVE  ThenRead(do, i, p, n) \in Seq(StepOf(i))
<1>1. Step(do, i, Any4, p + n, Any4) \in StepOf(i)
  <2>1. do \in AnyArgs /\ p + n \in Nat /\ p + n \in Int /\ Any4 \in Nat
    BY AddressesAre DEF AnyArgs
  <2> QED
    BY <2>1, StepTyped
<1> DEFINE q == << Step(do, i, Any4, p + n, Any4) >>
<1>2. q \in Seq(StepOf(i)) /\ <<>> \in Seq(StepOf(i))
  <2> HIDE DEF StepOf
  <2> QED
    BY <1>1
<1> HIDE DEF q
<1>3. OnFailure("ignore", q) \in Seq(StepOf(i))
  BY <1>2, FailingTyped
<1> QED
  BY <1>2, <1>3 DEF ThenRead, q

LEMMA ReadsAreTyped ==
    ASSUME NEW k, Sane(k), NEW i \in Ifaces, NEW p \in Nat
    PROVE  ReadAddresses(k, i, p) \in Seq(StepOf(i)) /\ ReadRoutes(k, i, p) \in Seq(StepOf(i))
<1> DEFINE b6 == Block(Lines6(k, i), p)
           b4 == Block(Lines4(k), p)
<1>1. /\ AddressDeletions(b6, i) \in Seq(StepOf(i)) /\ RouteDeletions(b4, i) \in Seq(StepOf(i))
      /\ Len(b6) \in Nat /\ Len(b4) \in Nat
  BY DeletionsTyped
<1> HIDE DEF b6, b4
<1>2. /\ OnFailure("note", AddressDeletions(b6, i)) \in Seq(StepOf(i))
      /\ OnFailure("ignore", RouteDeletions(b4, i)) \in Seq(StepOf(i))
  BY <1>1, FailingTyped
<1>3. /\ ThenRead("readaddrs", i, p, Len(b6)) \in Seq(StepOf(i))
      /\ ThenRead("readroutes", i, p, Len(b4)) \in Seq(StepOf(i))
  BY <1>1, ReadsOn
<1> QED
  BY <1>2, <1>3, Joined DEF ReadAddresses, ReadRoutes, b6, b4

LEMMA UnfoldsTyped ==
    ASSUME NEW k, Sane(k), NEW i \in Ifaces \cup {NoDev}, NEW s \in StepNow(i), s.do # "getflags"
    PROVE  Unfolds(k, s) \in Seq(StepOf(i))
<1>1. <<>> \in Seq(StepOf(i)) /\ Any4 \in V4
  BY AddressesAre
<1>2. CASE s.do = "clear"
  <2>1. i \in Ifaces /\ s.dev = i /\ s.p - 1 \in Int
    BY <1>2, StepNowParts DEF OfSockets
  <2>2. ifc_set_addr(i, Any4) \in Seq(StepOf(i)) /\ ClearRound(i, s.p - 1) \in Seq(StepOf(i))
    BY <1>1, <2>1, PiecesTyped
  <2>3. OnFailure("ignore", ifc_set_addr(i, Any4)) \in Seq(StepOf(i))
    BY <2>2, FailingTyped
  <2>4. (IF s.p > 1 THEN ClearRound(i, s.p - 1) ELSE <<>>) \in Seq(StepOf(i))
    BY <1>1, <2>2
  <2> QED
    BY <1>2, <2>1, <2>3, <2>4, Joined DEF Unfolds
<1>3. CASE s.do \in {"scan6", "readaddrs", "readroutes"}
  <2>1. i \in Ifaces /\ s.dev = i /\ s.p \in Nat
    BY <1>3, StepNowParts DEF OfSockets, Fits
  <2>2. ReadAddresses(k, i, s.p) \in Seq(StepOf(i)) /\ ReadRoutes(k, i, s.p) \in Seq(StepOf(i))
    BY <2>1, ReadsAreTyped
  <2> QED
    BY <1>3, <2>1, <2>2 DEF Unfolds
<1>4. CASE s.do \in {"scanhosts", "scandefault"}
  <2>1. i \in Ifaces /\ s.dev = i
    BY <1>4, StepNowParts DEF OfSockets
  <2>2. ifc_init \in Seq(StepOf(i)) /\ ifc_close \in Seq(StepOf(i))
    BY SocketTyped DEF ifc_init, ifc_close, OfSockets
  <2>3. ReadRoutes(k, i, 0) \in Seq(StepOf(i))
    BY <2>1, ReadsAreTyped
  <2>4. ifc_init \o ReadRoutes(k, i, 0) \o ifc_close \in Seq(StepOf(i))
        /\ ifc_init \o ifc_close \in Seq(StepOf(i))
    BY <2>2, <2>3, Joined
  <2> QED
    BY <1>4, <2>1, <2>4 DEF Unfolds
<1>5. CASE s.do \notin {"clear", "scan6", "readaddrs", "readroutes", "scanhosts", "scandefault"}
  BY <1>1, <1>5 DEF Unfolds
<1> QED
  BY <1>2, <1>3, <1>4, <1>5

LEMMA ClosesTyped ==
    ASSUME NEW i, NEW q \in Seq(StepOf(i))
    PROVE  Closes(q) \in Seq(StepOf(i)) /\ Elements(Closes(q)) = {s \in Elements(q) : s.do \in {"close", "close6"}}
<1> HIDE DEF StepOf
<1> QED
  BY KeepFacts DEF Closes

(***************************************************************************)
(* What a step can do.                                                     *)
(***************************************************************************)

\* A step that succeeds met nothing that is wrong.
LEMMA NothingWrong ==
    ASSUME NEW k, NEW cs, NEW s, Certain(k, cs, s) = {}
    PROVE  /\ s.do # "refuse" /\ (s.do \in OnSock => cs.sock # NoSock) /\ (s.do \in OnSock6 => cs.sock6 # NoSock)
           /\ s.do \in OfDevice => k.link[s.dev].present /\ Wrong(k, s) = {}
BY DEF Certain

LEMMA WrongNot ==
    ASSUME NEW k, NEW s, Wrong(k, s) = {}
    PROVE  /\ NeedsAddr(s) => k.link[s.dev].addrs # <<>>
           /\ s.do = "deladdr" => s.a \in Assigned(k, s.dev)
           /\ s.do = "newaddr" => s.a # Any6 /\ s.a \notin Assigned(k, s.dev)
           /\ AddsRoute(s) => ~HasRoute(k, RouteOf(s)) /\ Up(k, s.dev)
           /\ s.do = "addroute6" => s.p \in 0 .. 128
           /\ s.do = "addroute" => s.g = Any4 \/ k.link[s.dev].addrs # <<>>
           /\ s.do \in {"delroute", "delroute6"} => Matches(k, RouteOf(s)) # {}
BY DEF Wrong, OnRoute, AddsRoute

FlagSets == SUBSET {"UP", "PROMISC"}

LEMMA EffectWorks ==
    ASSUME NEW k, Sane(k), NEW cs, NEW pr, NEW i \in Ifaces \cup {NoDev}, NEW s \in StepNow(i),
           Certain(k, cs, s) = {}, pr.got.flags \in FlagSets
    PROVE  LET g == Effect(k, pr, s) IN
           /\ Works(k, g, i)
           /\ s.do # "setdns" => g.dns = k.dns
           /\ s.do \notin OfSockets /\ s.do # "setflags" => g.link[i].flags = k.link[i].flags
           /\ s.do = "setflags" => g.link[i].flags = NewFlags(pr.got.flags, s.p)
<1> DEFINE g == Effect(k, pr, s)
<1>1. /\ s.do \notin OfSockets => i \in Ifaces /\ s.dev = i
      /\ s.a \in Nat /\ Fits(s)
  BY StepNowParts
<1>2. s.do \in OfDevice => k.link[s.dev].present /\ Wrong(k, s) = {}
  BY NothingWrong
<1>3. CASE s.do = "setflags"
  <2>1. i \in Ifaces /\ s.dev = i /\ k.link[i].present
    BY <1>1, <1>2, <1>3 DEF OfSockets, OfDevice, OnSock
  <2>2. NewFlags(pr.got.flags, s.p) \in FlagSets
    BY DEF NewFlags, FlagSets
  <2>3. g = SetFlags(k, i, NewFlags(pr.got.flags, s.p))
    BY <1>3, <2>1 DEF Effect
  <2> HIDE DEF g
  <2> QED
    BY <1>3, <2>1, <2>2, <2>3, SetFlagsWorks DEF g, FlagSets
<1>4. CASE s.do = "setaddr"
  <2>1. i \in Ifaces /\ s.dev = i /\ k.link[i].present /\ s.a \in V4
    BY <1>1, <1>2, <1>4 DEF OfSockets, OfDevice, OnSock, Fits
  <2>2. g = SetAddr(k, i, s.a)
    BY <1>4, <2>1 DEF Effect
  <2> HIDE DEF g
  <2> QED
    BY <1>4, <2>1, <2>2, SetAddrWorks DEF g
<1>5. CASE s.do = "sethwaddr"
  <2>1. i \in Ifaces /\ s.dev = i
    BY <1>1, <1>5 DEF OfSockets
  <2>2. g = [k EXCEPT !.link[i].hwaddr = s.a]
    BY <1>5, <2>1 DEF Effect
  <2> HIDE DEF g
  <2> QED
    BY <1>1, <1>5, <2>1, <2>2, HwaddrWorks DEF g
<1>6. CASE s.do = "setmask"
  <2>1. i \in Ifaces /\ s.dev = i
    BY <1>1, <1>6 DEF OfSockets
  <2> DEFINE m == prefixLengthToIpv4Netmask(s.p)
  <2>2. g = SetMask(k, i, m)
    BY <1>6, <2>1 DEF Effect
  <2>3. m \in Mask
    BY MaskOfLength
  <2> HIDE DEF g, m
  <2> QED
    BY <1>6, <2>1, <2>2, <2>3, SetMaskWorks DEF g
<1>7. CASE s.do \in {"addroute", "addroute6"}
  <2>1. /\ i \in Ifaces /\ s.dev = i /\ Wrong(k, s) = {}
        /\ s.do = "addroute" => s.a \in V4 /\ s.p \in PrefixLength /\ s.g \in V4
        /\ s.do = "addroute6" => s.a \in V6 /\ s.g \in V6
    BY <1>1, <1>2, <1>7 DEF OfSockets, OfDevice, OnSock, Fits
  <2> DEFINE r == RouteOf(s)
  <2>2. r.dev = i /\ r.dst = s.a /\ r.plen = s.p /\ r.gw = s.g
    BY <2>1 DEF RouteOf
  <2>3. /\ ~HasRoute(k, r) /\ Up(k, i)
        /\ s.do = "addroute6" => s.p \in 0 .. 128
        /\ s.do = "addroute" => s.g = Any4 \/ k.link[i].addrs # <<>>
    BY <1>7, <2>1, WrongNot DEF AddsRoute
  <2>4. r \in Route
    BY <1>7, <2>1, <2>3 DEF Route, RouteOf
  <2>5. g = AddRoute(k, r)
    BY <1>7 DEF Effect
  <2> HIDE DEF r, g
  <2>6. r.dst \in V4 /\ r.gw # Any4 => k.link[r.dev].addrs # <<>>
    BY <1>7, <2>1, <2>2, <2>3, AddressesAre
  <2>7. Works(k, g, i) /\ g.link = k.link /\ g.dns = k.dns
    BY <2>2, <2>3, <2>4, <2>5, <2>6, AddRouteWorks
  <2> QED
    BY <1>7, <2>7 DEF g
<1>8. CASE s.do \in {"delroute", "delroute6"}
  <2>1. i \in Ifaces /\ s.dev = i /\ Wrong(k, s) = {}
    BY <1>1, <1>2, <1>8 DEF OfSockets, OfDevice, OnSock
  <2> DEFINE r == RouteOf(s)
  <2>2. r.dev = i /\ DOMAIN r = {"dev", "dst", "plen", "gw"}
    BY <2>1 DEF RouteOf
  <2>3. Matches(k, r) # {}
    BY <1>8, <2>1, WrongNot
  <2>4. g = DelRoute(k, r)
    BY <1>8 DEF Effect
  <2> HIDE DEF r, g
  <2>5. Works(k, g, i) /\ g.link = k.link /\ g.dns = k.dns
    BY <2>1, <2>2, <2>3, <2>4, DelRouteWorks
  <2> QED
    BY <1>8, <2>5 DEF g
<1>9. CASE s.do = "newaddr"
  <2>1. i \in Ifaces /\ s.dev = i /\ k.link[i].present /\ Wrong(k, s) = {} /\ s.a \in V4 \cup V6
    BY <1>1, <1>2, <1>9 DEF OfSockets, OfDevice, OnSock, Fits
  <2>2. s.a \in V4 \cup Addrs6
    BY <1>9, <2>1, WrongNot DEF V6
  <2>3. g = NewAddr(k, i, s.a)
    BY <1>9, <2>1 DEF Effect
  <2> HIDE DEF g
  <2> QED
    BY <1>9, <2>1, <2>2, <2>3, NewAddrWorks DEF g
<1>10. CASE s.do = "deladdr"
  <2>1. i \in Ifaces /\ s.dev = i /\ k.link[i].present
    BY <1>1, <1>2, <1>10 DEF OfSockets, OfDevice, OnSock
  <2>2. g = DelAddr(k, i, s.a)
    BY <1>10, <2>1 DEF Effect
  <2> HIDE DEF g
  <2> QED
    BY <1>10, <2>1, <2>2, DelAddrWorks DEF g
<1>11. CASE s.do = "kill"
  <2>1. g = KillAddr(k, pr.got.addr)
    BY <1>11 DEF Effect
  <2> HIDE DEF g
  <2>2. Works(k, g, i) /\ g.link = k.link /\ g.dns = k.dns
    BY <2>1, KillWorks
  <2> QED
    BY <1>11, <2>2 DEF g
<1>12. CASE s.do = "setdns"
  <2>1. i \in Ifaces /\ s.dev = i /\ s.p \in 1 .. 2 /\ s.a \in V4
    BY <1>1, <1>12 DEF OfSockets, Fits
  <2>2. g = [k EXCEPT !.dns[i][s.p] = s.a]
    BY <1>12, <2>1 DEF Effect
  <2>3. Works(k, g, i) /\ g.link = k.link
    <3> DEFINE n == s.p
               a == s.a
    <3>1. n \in 1 .. 2 /\ a \in V4 /\ g = [k EXCEPT !.dns[i][n] = a]
      BY <2>1, <2>2
    <3> HIDE DEF n, a, g
    <3> QED
      BY <2>1, <3>1, DnsWorks
  <2> HIDE DEF g
  <2> QED
    BY <1>12, <2>3 DEF g
<1>13. CASE s.do \notin {"setflags", "setaddr", "sethwaddr", "setmask", "addroute", "addroute6", "delroute",
                        "delroute6", "newaddr", "deladdr", "kill", "setdns"}
  <2>1. g = k
    BY <1>13 DEF Effect
  <2> HIDE DEF g
  <2> QED
    BY <1>13, <2>1, WorksNot DEF g
<1> QED
  BY <1>3, <1>4, <1>5, <1>6, <1>7, <1>8, <1>9, <1>10, <1>11, <1>12, <1>13

=============================================================================
