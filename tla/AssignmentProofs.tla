--------------------------- MODULE AssignmentProofs ---------------------------
(* The proof that the assignment is a cheapest one, for every value of the       *)
(* constants: whatever the costs, the limit and the number of rows and columns.  *)
EXTENDS PartsProofs
-------------------------------------------------------------------------------
(* The assignment: sums as numbers of things                                     *)

LEMMA MatchNumbers == Half \in Nat /\ Costs \subseteq Nat /\ MaxRows \in Nat \ {0}
                      /\ MaxCols \in Nat \ {0}
  BY MatchingAssumption DEF Matching!CostsAssumption, Matching!BoundsAssumption

LEMMA MatchCardinality == ASSUME NEW S PROVE Matching!Cardinality(S) = Cardinality(S)
  BY DEF Cardinality, Matching!Cardinality, IsFiniteSet, Matching!IsFiniteSet

LEMMA BijectionIs ==
    ASSUME NEW S, NEW T, NEW b
    PROVE  b \in Bijection(S, T) <=>
             /\ b \in [S -> T]
             /\ \A e, o \in S : b[e] = b[o] => e = o
             /\ \A o \in T : \E e \in S : b[e] = o
  BY DEF Bijection, Injection, Surjection, IsInjective

\* What f sums, one thing for each unit.
Heap(f) == UNION {{e} \X (1..f[e]) : e \in DOMAIN f}
Sum(f) == Cardinality(Heap(f))

LEMMA SumIs == ASSUME NEW f PROVE Matching!Total(f) = Sum(f)
  BY MatchCardinality DEF Matching!Total, Sum, Heap

LEMMA HeapIs ==
    ASSUME NEW S, IsFiniteSet(S), NEW f \in [S -> Nat]
    PROVE  /\ \A p : p \in Heap(f) <=> \E e \in S, n \in Nat : n \in 1..f[e] /\ p = <<e, n>>
           /\ IsFiniteSet(Heap(f)) /\ Sum(f) \in Nat
<1>1. \A p : p \in Heap(f) <=> \E e \in S, n \in Nat : n \in 1..f[e] /\ p = <<e, n>>
  BY DEF Heap
<1> DEFINE piles == {{e} \X (1..f[e]) : e \in S}
<1>2. IsFiniteSet(piles)
  <2> DEFINE g == [e \in S |-> {e} \X (1..f[e])]
  <2>1. g \in Surjection(S, piles)
    BY DEF Surjection
  <2> QED BY <2>1, FS_Surjection
<1>3. \A T \in piles : IsFiniteSet(T)
  <2>1. ASSUME NEW e \in S PROVE IsFiniteSet({e} \X (1..f[e]))
    <3>1. f[e] \in Int
      OBVIOUS
    <3>2. IsFiniteSet(1..f[e])
      BY ONLY <3>1, 1 \in Int, FS_Interval
    <3>3. IsFiniteSet({e})
      BY FS_Singleton
    <3> QED BY <3>2, <3>3, FS_Product
  <2> QED BY <2>1
<1>4. Heap(f) = UNION piles
  BY DEF Heap
<1> HIDE DEF piles
<1>5. IsFiniteSet(Heap(f))
  BY <1>2, <1>3, <1>4, FS_UNION
<1> QED BY <1>1, <1>5, FS_CardinalityType DEF Sum

\* What is nowhere less sums to no less.
LEMMA SumGrows ==
    ASSUME NEW S, IsFiniteSet(S), NEW f \in [S -> Nat], NEW g \in [S -> Nat],
           \A e \in S : f[e] <= g[e]
    PROVE  Sum(f) <= Sum(g)
<1>1. ASSUME NEW p \in Heap(f) PROVE p \in Heap(g)
  <2>1. PICK e \in S, n \in Nat : n \in 1..f[e] /\ p = <<e, n>>
    BY HeapIs
  <2>2. n \in 1..g[e]
    BY <2>1
  <2> QED BY <2>1, <2>2, HeapIs
<1>2. Heap(f) \in SUBSET Heap(g)
  BY <1>1
<1> QED BY <1>2, HeapIs, FS_Subset DEF Sum

\* Sums add up, over the arguments ...
LEMMA SumParts ==
    ASSUME NEW S, IsFiniteSet(S), NEW f \in [S -> Nat], NEW A, NEW B,
           A \cup B = S, A \cap B = {}
    PROVE  Sum(f) = Sum([e \in A |-> f[e]]) + Sum([e \in B |-> f[e]])
<1> DEFINE fa == [e \in A |-> f[e]]
           fb == [e \in B |-> f[e]]
<1>1. IsFiniteSet(A) /\ IsFiniteSet(B)
  BY FS_Subset
<1>2. fa \in [A -> Nat] /\ fb \in [B -> Nat]
      /\ (\A e \in A : fa[e] = f[e]) /\ (\A e \in B : fb[e] = f[e])
  OBVIOUS
<1> HIDE DEF fa, fb
<1>3. /\ IsFiniteSet(Heap(fa)) /\ IsFiniteSet(Heap(fb))
      /\ Sum(fa) \in Nat /\ Sum(fb) \in Nat
      /\ \A p : p \in Heap(fa) <=> \E e \in A, n \in Nat : n \in 1..fa[e] /\ p = <<e, n>>
      /\ \A p : p \in Heap(fb) <=> \E e \in B, n \in Nat : n \in 1..fb[e] /\ p = <<e, n>>
  BY <1>1, <1>2, HeapIs
<1>4. \A p : p \in Heap(f) <=> \E e \in S, n \in Nat : n \in 1..f[e] /\ p = <<e, n>>
  BY HeapIs
<1>5. Heap(f) = Heap(fa) \cup Heap(fb)
  <2>1. \A p : p \in Heap(fa) <=> \E e \in A, n \in Nat : n \in 1..f[e] /\ p = <<e, n>>
    BY <1>2, <1>3
  <2>2. \A p : p \in Heap(fb) <=> \E e \in B, n \in Nat : n \in 1..f[e] /\ p = <<e, n>>
    BY <1>2, <1>3
  <2>3. \A p : p \in Heap(f) <=> p \in Heap(fa) \/ p \in Heap(fb)
    BY <1>4, <2>1, <2>2
  <2> QED BY <2>3
<1>6. Heap(fa) \cap Heap(fb) = {}
  <2> SUFFICES ASSUME NEW p \in Heap(fa), p \in Heap(fb) PROVE FALSE
    OBVIOUS
  <2>1. PICK e \in A : \E n \in 1..fa[e] : p = <<e, n>>
    BY <1>3
  <2>2. PICK g \in B : \E n \in 1..fb[g] : p = <<g, n>>
    BY <1>3
  <2> QED BY <2>1, <2>2
<1>7. Sum(f) = Sum(fa) + Sum(fb)
  <2>1. Cardinality(Heap(f)) = Cardinality(Heap(fa)) + Cardinality(Heap(fb)) - Cardinality({})
    BY <1>3, <1>5, <1>6, FS_Union
  <2> QED BY <1>3, <2>1, FS_EmptySet DEF Sum
<1> QED BY <1>7 DEF fa, fb

\* ... and over what they are of.
LEMMA SumAdds ==
    ASSUME NEW S, IsFiniteSet(S), NEW f \in [S -> Nat], NEW g \in [S -> Nat],
           NEW h \in [S -> Nat], \A e \in S : h[e] = f[e] + g[e]
    PROVE  Sum(h) = Sum(f) + Sum(g)
<1>1. /\ IsFiniteSet(Heap(f)) /\ IsFiniteSet(Heap(g)) /\ IsFiniteSet(Heap(h))
      /\ Sum(f) \in Nat /\ Sum(g) \in Nat
      /\ \A p : p \in Heap(f) <=> \E e \in S, n \in Nat : n \in 1..f[e] /\ p = <<e, n>>
      /\ \A p : p \in Heap(g) <=> \E e \in S, n \in Nat : n \in 1..g[e] /\ p = <<e, n>>
      /\ \A p : p \in Heap(h) <=> \E e \in S, n \in Nat : n \in 1..h[e] /\ p = <<e, n>>
  BY HeapIs
<1>2. ASSUME NEW e \in S PROVE f[e] \in Nat /\ g[e] \in Nat /\ h[e] = f[e] + g[e]
  OBVIOUS
<1> DEFINE up == [p \in Heap(g) |-> <<p[1], f[p[1]] + p[2]>>]
           top == {up[p] : p \in Heap(g)}
<1>3. up \in [Heap(g) -> top] /\ \A q \in top : \E p \in Heap(g) : up[p] = q
  OBVIOUS
<1>4. ASSUME NEW e \in S, NEW n \in Nat, n \in 1..g[e]
      PROVE  <<e, n>> \in Heap(g) /\ up[<<e, n>>] = <<e, f[e] + n>>
  BY <1>1, <1>4
<1> HIDE DEF up, top
<1>5. \A q : q \in top <=> \E e \in S, n \in Nat : n \in 1..g[e] /\ q = <<e, f[e] + n>>
  <2>1. ASSUME NEW q \in top
        PROVE  \E e \in S, n \in Nat : n \in 1..g[e] /\ q = <<e, f[e] + n>>
    <3>1. PICK p \in Heap(g) : up[p] = q
      BY <1>3
    <3>2. PICK e \in S, n \in Nat : n \in 1..g[e] /\ p = <<e, n>>
      BY <1>1
    <3>3. q = <<e, f[e] + n>>
      BY <1>4, <3>1, <3>2
    <3> QED BY <3>2, <3>3
  <2>2. ASSUME NEW e \in S, NEW n \in Nat, n \in 1..g[e] PROVE <<e, f[e] + n>> \in top
    BY <1>3, <1>4, <2>2
  <2> QED BY <2>1, <2>2
<1>6. \A p, q \in Heap(g) : up[p] = up[q] => p = q
  <2> SUFFICES ASSUME NEW p \in Heap(g), NEW q \in Heap(g), up[p] = up[q] PROVE p = q
    OBVIOUS
  <2>1. PICK e \in S, n \in Nat : n \in 1..g[e] /\ p = <<e, n>>
    BY <1>1
  <2>2. PICK k \in S, l \in Nat : l \in 1..g[k] /\ q = <<k, l>>
    BY <1>1
  <2>3. <<e, f[e] + n>> = <<k, f[k] + l>>
    BY <1>4, <2>1, <2>2
  <2>4. e = k /\ f[e] + n = f[e] + l /\ f[e] \in Nat
    BY <1>2, <2>3
  <2>5. n = l
    BY <2>4
  <2> QED BY <2>1, <2>2, <2>4, <2>5
<1>7. IsFiniteSet(top) /\ Cardinality(top) = Sum(g)
  <2>1. up \in Bijection(Heap(g), top)
    BY <1>3, <1>6, BijectionIs
  <2> QED BY <1>1, <2>1, FS_Bijection DEF ExistsBijection, Sum
<1>8. Heap(h) = Heap(f) \cup top
  <2>1. ASSUME NEW p \in Heap(h) PROVE p \in Heap(f) \cup top
    <3>1. PICK e \in S, n \in Nat : n \in 1..h[e] /\ p = <<e, n>>
      BY <1>1
    <3>2. PICK a \in Nat, b \in Nat : a = f[e] /\ b = g[e] /\ h[e] = a + b
      BY <1>2
    <3>3. CASE n <= a
      <4>1. n \in 1..f[e]
        BY <3>1, <3>2, <3>3
      <4> QED BY <1>1, <3>1, <4>1
    <3>4. CASE n > a
      <4>1. PICK l \in Nat : l \in 1..b /\ n = a + l
        <5>1. n - a \in Nat /\ n - a \in 1..b /\ n = a + (n - a)
          BY <3>1, <3>2, <3>4
        <5> QED BY <5>1
      <4>2. l \in 1..g[e] /\ n = f[e] + l
        BY <3>2, <4>1
      <4> QED BY <1>5, <3>1, <4>2
    <3> QED BY <3>2, <3>3, <3>4
  <2>2. ASSUME NEW p \in Heap(f) PROVE p \in Heap(h)
    <3>1. PICK e \in S, n \in Nat : n \in 1..f[e] /\ p = <<e, n>>
      BY <1>1
    <3>2. n \in 1..h[e]
      BY <1>2, <3>1
    <3> QED BY <1>1, <3>1, <3>2
  <2>3. ASSUME NEW p \in top PROVE p \in Heap(h)
    <3>1. PICK e \in S, n \in Nat : n \in 1..g[e] /\ p = <<e, f[e] + n>>
      BY <1>5
    <3>2. PICK a \in Nat : a = f[e] + n
      BY <1>2
    <3>3. a \in 1..h[e]
      BY <1>2, <3>1, <3>2
    <3> QED BY <1>1, <3>1, <3>2, <3>3
  <2> QED BY <2>1, <2>2, <2>3
<1>9. Heap(f) \cap top = {}
  <2> SUFFICES ASSUME NEW p \in Heap(f), p \in top PROVE FALSE
    OBVIOUS
  <2>1. PICK e \in S, n \in Nat : n \in 1..f[e] /\ p = <<e, n>>
    BY <1>1
  <2>2. PICK k \in S, l \in Nat : l \in 1..g[k] /\ p = <<k, f[k] + l>>
    BY <1>5
  <2>3. e = k /\ n = f[e] + l /\ f[e] \in Nat
    BY <1>2, <2>1, <2>2
  <2> QED BY <2>1, <2>2, <2>3
<1>10. Cardinality(Heap(h)) = Cardinality(Heap(f)) + Cardinality(top) - Cardinality({})
  BY <1>1, <1>7, <1>8, <1>9, FS_Union
<1> QED BY <1>1, <1>7, <1>10, FS_EmptySet DEF Sum

\* It does not matter what the arguments are called ...
LEMMA SumRenamed ==
    ASSUME NEW S, IsFiniteSet(S), NEW T, NEW b \in Bijection(S, T),
           NEW f \in [S -> Nat], NEW g \in [T -> Nat], \A e \in S : f[e] = g[b[e]]
    PROVE  Sum(f) = Sum(g)
<1>1. IsFiniteSet(T) /\ b \in [S -> T] /\ (\A o \in T : \E e \in S : b[e] = o)
      /\ \A e, o \in S : b[e] = b[o] => e = o
  BY BijectionIs, FS_Bijection DEF ExistsBijection
<1>2. /\ IsFiniteSet(Heap(f))
      /\ \A p : p \in Heap(f) <=> \E e \in S, n \in Nat : n \in 1..f[e] /\ p = <<e, n>>
      /\ \A p : p \in Heap(g) <=> \E e \in T, n \in Nat : n \in 1..g[e] /\ p = <<e, n>>
  BY <1>1, HeapIs
<1> DEFINE m == [p \in Heap(f) |-> <<b[p[1]], p[2]>>]
<1>3. ASSUME NEW e \in S, NEW n \in 1..f[e]
      PROVE  <<e, n>> \in Heap(f) /\ m[<<e, n>>] = <<b[e], n>>
  BY <1>2
<1>4. m \in [Heap(f) -> Heap(g)]
  <2>1. ASSUME NEW p \in Heap(f) PROVE m[p] \in Heap(g)
    <3>1. PICK e \in S, n \in Nat : n \in 1..f[e] /\ p = <<e, n>>
      BY <1>2
    <3>2. b[e] \in T /\ n \in 1..g[b[e]]
      BY <1>1, <3>1
    <3> QED BY <1>2, <1>3, <3>1, <3>2
  <2> QED BY <2>1
<1>5. ASSUME NEW p \in Heap(f), NEW q \in Heap(f), m[p] = m[q] PROVE p = q
  <2>1. PICK e \in S, n \in Nat : n \in 1..f[e] /\ p = <<e, n>>
    BY <1>2
  <2>2. PICK k \in S, l \in Nat : l \in 1..f[k] /\ q = <<k, l>>
    BY <1>2
  <2>3. b[e] = b[k] /\ n = l
    BY <1>3, <1>5, <2>1, <2>2
  <2> QED BY <1>1, <2>1, <2>2, <2>3
<1>6. ASSUME NEW q \in Heap(g) PROVE \E p \in Heap(f) : m[p] = q
  <2>1. PICK o \in T, n \in Nat : n \in 1..g[o] /\ q = <<o, n>>
    BY <1>2
  <2>2. PICK e \in S : b[e] = o
    BY <1>1
  <2>3. n \in 1..f[e]
    BY <2>1, <2>2
  <2> QED BY <1>3, <2>1, <2>2, <2>3
<1> HIDE DEF m
<1>7. m \in Bijection(Heap(f), Heap(g))
  BY <1>4, <1>5, <1>6, BijectionIs
<1> QED BY <1>2, <1>7, FS_Bijection DEF ExistsBijection, Sum

\* ... and what is the same everywhere sums to a product.
LEMMA SumConstant ==
    ASSUME NEW S, IsFiniteSet(S), NEW c \in Nat
    PROVE  Sum([e \in S |-> c]) = Cardinality(S) * c
<1> DEFINE f == [e \in S |-> c]
<1>1. /\ IsFiniteSet(1..c) /\ Cardinality(1..c) = c
  BY FS_Interval
<1>2. \A p : p \in Heap(f) <=> \E e \in S, n \in Nat : n \in 1..f[e] /\ p = <<e, n>>
  <2>1. f \in [S -> Nat]
    OBVIOUS
  <2> HIDE DEF f
  <2> QED BY <2>1, HeapIs
<1>3. Heap(f) = S \X (1..c)
  <2>1. \A p : p \in Heap(f) <=> \E e \in S, n \in 1..c : p = <<e, n>>
    BY <1>2
  <2> HIDE DEF f
  <2> QED BY <2>1
<1> HIDE DEF f
<1>4. Sum(f) = Cardinality(S) * c
  BY <1>1, <1>3, FS_Product DEF Sum
<1> QED BY <1>4 DEF f
-------------------------------------------------------------------------------
(* The assignment: the inductive invariant                                       *)

Nobody == Matching!Nobody
Lines == Matching!All

\* Row i holds a column.
Holds(i) == \E j \in Lines : y[j] = i

MatchTypes ==
    /\ rows \in Nat \ {0} /\ cols \in Nat \ {0}
    /\ cost \in [Lines -> [Lines -> Int]]
    /\ step \in {"transfer", "reduce", "path", "find", "done"}
    /\ x \in [Lines -> Lines \cup {Nobody}] /\ y \in [Lines -> Lines \cup {Nobody}]
    /\ v \in [Lines -> Int]
    /\ free \in Seq(Lines) /\ kept \in Seq(Lines) /\ current \in Nat /\ reduced \in Nat

\* The corner without rows and columns of their own is free, the rest beyond the matrix
\* costs half the limit.
Extended ==
    \A i, j \in Lines :
      cost[i][j] \in IF i < rows /\ j < cols THEN Nat
                     ELSE {IF i >= rows /\ j >= cols THEN 0 ELSE Half}

\* The row that holds a column has it, and has none that is cheaper.
Content ==
    \A j \in Lines : y[j] # Nobody =>
      x[y[j]] = j /\ \A k \in Lines : Matching!Reduced(y[j], j) <= Matching!Reduced(y[j], k)

\* The rows that wait: in this round from the current one, and those of the next.
Turns == (current + 1)..Len(free)
Waiting == {free[k] : k \in Turns} \cup {kept[k] : k \in DOMAIN kept}

\* Before the reduction of rows: no price is above a cost, and the rows to come hold
\* what they would take for nothing.
Transfers ==
    /\ current < Matching!N /\ kept = <<>>
    /\ \A i \in Lines : x[i] # Nobody => y[x[i]] = i
    /\ {free[k] : k \in DOMAIN free} = {i \in Lines : i < current /\ x[i] = Nobody}
    /\ \A k, l \in DOMAIN free : free[k] = free[l] => k = l
    /\ \A i, k \in Lines : Matching!Reduced(i, k) >= 0
    /\ \A i \in Lines : i >= current /\ x[i] # Nobody => Matching!Reduced(i, x[i]) = 0

\* From then on: the rows that hold nothing wait, each once.
Queued ==
    /\ Waiting = {i \in Lines : ~Holds(i)}
    /\ \A k, l \in Turns : free[k] = free[l] => k = l
    /\ \A k, l \in DOMAIN kept : kept[k] = kept[l] => k = l
    /\ \A k \in Turns, l \in DOMAIN kept : free[k] # kept[l]
    /\ step = "reduce" => current <= Len(free)
    /\ step \in {"path", "find"} => free # <<>> /\ kept = <<>> /\ current = 0
    /\ step = "done" => free = <<>> /\ kept = <<>>

\* How far column k is from column j over the row that holds j.
Over(j, k) == d[j] + Matching!Reduced(y[j], k) - Matching!Reduced(y[j], j)

\* From every column the rows lead back to the free one.
LeadsBack(from) ==
    \A C \in SUBSET Lines : C # {} =>
      \E k \in C : from[k] = free[1] \/ x[from[k]] \notin C

\* The columns that were reached: which row each was reached from, and how far it is.
Reached ==
    /\ ready \subseteq Lines /\ scan \subseteq Lines /\ ready \cap scan = {}
    /\ d \in [Lines -> Int] /\ pred \in [Lines -> Lines]
    /\ \A j \in ready \cup scan : y[j] # Nobody
    /\ \A j \in ready \cup scan, k \in Lines \ ready : d[j] <= d[k]
    /\ \A k \in Lines : \/ pred[k] = free[1] /\ d[k] = Matching!Reduced(free[1], k)
                        \/ \E j \in ready : pred[k] = y[j] /\ d[k] = Over(j, k)
    /\ \A k \in Lines : d[k] <= Matching!Reduced(free[1], k)
    /\ \A j \in ready, k \in Lines : d[k] <= Over(j, k)
    /\ LeadsBack(pred)

MatchInv ==
    /\ MatchTypes /\ Extended /\ Content
    /\ IF step = "transfer" THEN Transfers ELSE Queued
    /\ step = "find" => Reached
-------------------------------------------------------------------------------
(* The assignment: a permutation of the extended matrix is a matching            *)

Paired(z) == {<<i, z[i]>> : i \in {k \in 0..(rows - 1) : z[k] < cols}}
Weight(z) == Sum([i \in Lines |-> cost[i][z[i]]])

LEMMA SizesAre ==
    ASSUME rows \in Nat \ {0}, cols \in Nat \ {0}
    PROVE  /\ rows \in Nat /\ cols \in Nat /\ rows >= 1 /\ cols >= 1
           /\ Lines = 0..(rows + cols - 1) /\ Nobody = -1 /\ Nobody \notin Lines
           /\ IsFiniteSet(Lines) /\ Lines \subseteq Nat /\ Lines \subseteq Int
           /\ 0 \in Lines /\ 1 \in Lines /\ Lines # {}
<1>1. rows \in Nat /\ cols \in Nat /\ rows >= 1 /\ cols >= 1
  OBVIOUS
<1>2. Lines = 0..(rows + cols - 1) /\ Nobody = -1
  <2>1. Lines = 0..(rows + cols - 1)
    BY <1>1 DEF Lines, Matching!All, Matching!N
  <2>2. Nobody = -1
    BY DEF Nobody, Matching!Nobody
  <2> QED BY <2>1, <2>2
<1>3. 0 \in Lines /\ 1 \in Lines /\ Nobody \notin Lines /\ Lines \subseteq Nat
  BY <1>1, <1>2
<1>4. PICK n \in Int : n = rows + cols - 1
  BY <1>1
<1>5. IsFiniteSet(0..n)
  BY FS_Interval
<1> QED BY <1>1, <1>2, <1>3, <1>4, <1>5

LEMMA LinesAre ==
    ASSUME MatchTypes
    PROVE  /\ rows \in Nat /\ cols \in Nat /\ rows >= 1 /\ cols >= 1
           /\ Lines = 0..(rows + cols - 1) /\ Nobody = -1 /\ Nobody \notin Lines
           /\ IsFiniteSet(Lines) /\ Lines \subseteq Nat /\ Lines \subseteq Int
           /\ 0 \in Lines /\ 1 \in Lines /\ Lines # {}
  BY SizesAre DEF MatchTypes

\* The extended matrix, whatever corner a pair is in.
LEMMA CostIs ==
    ASSUME MatchTypes, Extended, NEW i \in Lines, NEW j \in Lines
    PROVE  /\ cost[i][j] \in Nat
           /\ i < rows /\ j >= cols => cost[i][j] = Half
           /\ i >= rows /\ j < cols => cost[i][j] = Half
           /\ i >= rows /\ j >= cols => cost[i][j] = 0
<1>1. /\ rows \in Nat /\ cols \in Nat /\ i \in Nat /\ j \in Nat /\ Half \in Nat
      /\ cost[i][j] \in IF i < rows /\ j < cols THEN Nat
                        ELSE {IF i >= rows /\ j >= cols THEN 0 ELSE Half}
  BY LinesAre, MatchNumbers DEF Extended
<1> QED BY ONLY <1>1

\* The parts that a permutation splits the rows into.
Among(z) == {i \in 0..(rows - 1) : z[i] < cols}
Alone(z) == {i \in 0..(rows - 1) : z[i] >= cols}
Spare(z) == {i \in rows..(rows + cols - 1) : z[i] < cols}
Rest(z) == {i \in rows..(rows + cols - 1) : z[i] >= cols}

LEMMA PartsAre ==
    ASSUME MatchTypes, NEW z \in Bijection(Lines, Lines)
    PROVE  /\ Among(z) \cup Alone(z) = 0..(rows - 1) /\ Among(z) \cap Alone(z) = {}
           /\ Spare(z) \cup Rest(z) = rows..(rows + cols - 1) /\ Spare(z) \cap Rest(z) = {}
           /\ IsFiniteSet(Among(z)) /\ IsFiniteSet(Alone(z))
           /\ IsFiniteSet(Spare(z)) /\ IsFiniteSet(Rest(z))
           /\ Cardinality(Among(z)) \in Nat
           /\ Cardinality(Alone(z)) = rows - Cardinality(Among(z))
           /\ Cardinality(Spare(z)) = cols - Cardinality(Among(z))
<1>1. /\ rows \in Nat /\ cols \in Nat /\ rows >= 1 /\ cols >= 1
      /\ Lines = 0..(rows + cols - 1)
      /\ IsFiniteSet(Lines) /\ Lines \subseteq Nat
  BY LinesAre
<1>2. /\ z \in [Lines -> Lines] /\ \A e, o \in Lines : z[e] = z[o] => e = o
      /\ \A o \in Lines : \E e \in Lines : z[e] = o
  BY BijectionIs
<1>3. /\ 0..(rows - 1) \subseteq Lines /\ rows..(rows + cols - 1) \subseteq Lines
      /\ 0..(cols - 1) \subseteq Lines
      /\ \A i \in Lines : i \in 0..(rows - 1) \/ i \in rows..(rows + cols - 1)
      /\ (0..(rows - 1)) \cap (rows..(rows + cols - 1)) = {}
  BY ONLY <1>1
<1>4. \A i \in Lines : z[i] \in Nat /\ (z[i] < cols <=> ~(z[i] >= cols))
  <2> SUFFICES ASSUME NEW i \in Lines PROVE z[i] \in Nat /\ (z[i] < cols <=> ~(z[i] >= cols))
    OBVIOUS
  <2>1. z[i] \in Lines
    BY <1>2
  <2>2. z[i] \in Nat
    BY <1>1, <2>1
  <2> QED BY ONLY <1>1, <2>2
<1>5. /\ Among(z) \cup Alone(z) = 0..(rows - 1) /\ Among(z) \cap Alone(z) = {}
      /\ Spare(z) \cup Rest(z) = rows..(rows + cols - 1) /\ Spare(z) \cap Rest(z) = {}
      /\ Among(z) \cap Spare(z) = {}
  BY <1>3, <1>4 DEF Among, Alone, Spare, Rest
<1>6. /\ IsFiniteSet(Among(z)) /\ IsFiniteSet(Alone(z))
      /\ IsFiniteSet(Spare(z)) /\ IsFiniteSet(Rest(z))
  <2>1. /\ Among(z) \subseteq Lines /\ Alone(z) \subseteq Lines
        /\ Spare(z) \subseteq Lines /\ Rest(z) \subseteq Lines
    BY <1>3, <1>5
  <2> QED BY <1>1, <2>1, FS_Subset
<1>7. /\ Cardinality(0..(rows - 1)) = rows /\ Cardinality(0..(cols - 1)) = cols
      /\ IsFiniteSet(0..(cols - 1))
  <2>1. PICK a \in Int, b \in Int : a = rows - 1 /\ b = cols - 1
    BY <1>1
  <2>2. /\ Cardinality(0..a) = IF 0 > a THEN 0 ELSE a - 0 + 1
        /\ Cardinality(0..b) = IF 0 > b THEN 0 ELSE b - 0 + 1
        /\ IsFiniteSet(0..b)
    BY FS_Interval
  <2> QED BY <1>1, <2>1, <2>2
<1>8. Cardinality(Among(z) \cup Spare(z)) = cols
  <2> DEFINE S == Among(z) \cup Spare(z)
             b == [i \in S |-> z[i]]
  <2>1. S \subseteq Lines /\ \A i \in Lines : i \in S <=> z[i] < cols
    BY <1>3, <1>4 DEF Among, Spare
  <2>2. b \in [S -> 0..(cols - 1)]
    <3>1. ASSUME NEW i \in S PROVE z[i] \in 0..(cols - 1)
      <4>1. z[i] \in Nat /\ z[i] < cols
        BY <1>4, <2>1
      <4> QED BY ONLY <1>1, <4>1
    <3> QED BY <3>1
  <2>3. \A e, o \in S : b[e] = b[o] => e = o
    BY <1>2, <2>1
  <2>4. \A o \in 0..(cols - 1) : \E e \in S : b[e] = o
    <3> SUFFICES ASSUME NEW o \in 0..(cols - 1) PROVE \E e \in S : b[e] = o
      OBVIOUS
    <3>1. PICK e \in Lines : z[e] = o
      BY <1>2, <1>3
    <3>2. z[e] < cols
      BY <1>1, <3>1
    <3> QED BY <2>1, <3>1, <3>2
  <2>5. IsFiniteSet(S)
    BY <1>6, FS_Union
  <2> HIDE DEF S, b
  <2>6. b \in Bijection(S, 0..(cols - 1))
    BY <2>2, <2>3, <2>4, BijectionIs
  <2>7. Cardinality(S) = cols
    BY <1>7, <2>5, <2>6, FS_Bijection DEF ExistsBijection
  <2> QED BY <2>7 DEF S
<1>9. /\ rows = Cardinality(Among(z)) + Cardinality(Alone(z)) - Cardinality({})
      /\ cols = Cardinality(Among(z)) + Cardinality(Spare(z)) - Cardinality({})
  <2>1. Cardinality(Among(z) \cup Alone(z))
           = Cardinality(Among(z)) + Cardinality(Alone(z)) - Cardinality(Among(z) \cap Alone(z))
    BY <1>6, FS_Union
  <2>2. Cardinality(Among(z) \cup Spare(z))
           = Cardinality(Among(z)) + Cardinality(Spare(z)) - Cardinality(Among(z) \cap Spare(z))
    BY <1>6, FS_Union
  <2> QED BY ONLY <1>5, <1>7, <1>8, <2>1, <2>2
<1>10. /\ Cardinality(Among(z)) \in Nat /\ Cardinality(Alone(z)) \in Nat
       /\ Cardinality(Spare(z)) \in Nat /\ Cardinality({}) = 0
  BY <1>6, FS_CardinalityType, FS_EmptySet
<1>11. PICK a \in Int, b \in Int, c \in Int :
         a = Cardinality(Among(z)) /\ b = Cardinality(Alone(z)) /\ c = Cardinality(Spare(z))
  BY <1>10
<1>12. rows \in Int /\ cols \in Int /\ rows = a + b /\ cols = a + c
  BY ONLY <1>1, <1>9, <1>10, <1>11
<1>13. /\ Cardinality(Alone(z)) = rows - Cardinality(Among(z))
       /\ Cardinality(Spare(z)) = cols - Cardinality(Among(z))
  BY ONLY <1>11, <1>12
<1> QED BY ONLY <1>5, <1>6, <1>10, <1>13

\* The weight of a permutation is the value of its matching.
LEMMA WeightIs ==
    ASSUME MatchTypes, Extended, NEW z \in Bijection(Lines, Lines)
    PROVE  Paired(z) \in Matching!Pairings /\ Matching!Value(Paired(z)) = Weight(z)
<1>1. /\ rows \in Nat /\ cols \in Nat /\ rows >= 1 /\ cols >= 1 /\ Half \in Nat
      /\ Lines = 0..(rows + cols - 1)
      /\ IsFiniteSet(Lines) /\ Lines \subseteq Nat
  BY LinesAre, MatchNumbers
<1>2. /\ z \in [Lines -> Lines] /\ \A e, o \in Lines : z[e] = z[o] => e = o
  BY BijectionIs
<1> DEFINE A == Among(z)
           B == Alone(z)
           C == Spare(z)
           E == Rest(z)
           w == [i \in Lines |-> cost[i][z[i]]]
           m == Paired(z)
           g == [p \in m |-> cost[p[1]][p[2]]]
           R == 0..(rows - 1)
           D == rows..(rows + cols - 1)
<1>3. /\ A \cup B = R /\ A \cap B = {} /\ C \cup E = D /\ C \cap E = {}
      /\ IsFiniteSet(A) /\ IsFiniteSet(B) /\ IsFiniteSet(C) /\ IsFiniteSet(E)
      /\ Cardinality(A) \in Nat /\ Cardinality(B) = rows - Cardinality(A)
      /\ Cardinality(C) = cols - Cardinality(A)
  BY PartsAre
<1>4. /\ R \cup D = Lines /\ R \cap D = {}
  BY ONLY <1>1
<1>5. /\ A \subseteq Lines /\ B \subseteq Lines /\ C \subseteq Lines /\ E \subseteq Lines
  BY <1>3, <1>4
<1>6. /\ w \in [Lines -> Nat]
      /\ \A i \in A : i < rows /\ i \in R /\ z[i] < cols
      /\ \A i \in B \cup C : w[i] = Half
      /\ \A i \in E : w[i] = 0
  <2>1. \A i \in Lines : w[i] \in Nat
    BY <1>2, CostIs
  <2>2. ASSUME NEW i \in A PROVE i < rows /\ i \in R /\ z[i] < cols
    BY <1>1 DEF Among
  <2>3. ASSUME NEW i \in B PROVE w[i] = Half
    <3>1. i < rows /\ z[i] >= cols /\ i \in Lines /\ z[i] \in Lines
      BY <1>1, <1>2, <1>5 DEF Alone
    <3> QED BY <3>1, CostIs
  <2>4. ASSUME NEW i \in C PROVE w[i] = Half
    <3>1. i >= rows /\ z[i] < cols /\ i \in Lines /\ z[i] \in Lines
      BY <1>1, <1>2, <1>5 DEF Spare
    <3> QED BY <3>1, CostIs
  <2>5. ASSUME NEW i \in E PROVE w[i] = 0
    <3>1. i >= rows /\ z[i] >= cols /\ i \in Lines /\ z[i] \in Lines
      BY <1>1, <1>2, <1>5 DEF Rest
    <3> QED BY <3>1, CostIs
  <2> QED BY <2>1, <2>2, <2>3, <2>4, <2>5
<1>7. m = {<<i, z[i]>> : i \in A}
  BY DEF Paired, Among
<1>8. m \in Matching!Pairings
  <2>1. ASSUME NEW i \in A PROVE i \in R /\ z[i] \in 0..(cols - 1)
    BY <1>1, <1>2, <1>5, <1>6
  <2>2. m \subseteq R \X (0..(cols - 1))
    BY <1>7, <2>1
  <2>3. \A p, q \in m : p # q => p[1] # q[1] /\ p[2] # q[2]
    BY <1>2, <1>5, <1>7
  <2> QED BY <2>2, <2>3 DEF Matching!Pairings
<1>9. /\ IsFiniteSet(m) /\ Cardinality(m) = Cardinality(A)
      /\ Sum([i \in A |-> w[i]]) = Sum(g)
  <2> DEFINE b == [i \in A |-> <<i, z[i]>>]
             wa == [i \in A |-> w[i]]
  <2>1. /\ b \in [A -> m] /\ (\A e, o \in A : b[e] = b[o] => e = o)
        /\ \A o \in m : \E e \in A : b[e] = o
    BY <1>7
  <2>2. \A i \in A : wa[i] = g[b[i]] /\ wa[i] \in Nat
    BY <1>5, <1>6, <1>7
  <2> HIDE DEF b, wa, g, m, A
  <2>3. wa \in [A -> Nat] /\ g \in [m -> Nat]
    <3>1. ASSUME NEW p \in m PROVE g[p] \in Nat
      <4>1. PICK e \in A : b[e] = p
        BY <2>1
      <4> QED BY <2>2, <4>1
    <3>2. wa \in [A -> Nat]
      BY <2>2 DEF wa
    <3>3. g \in [m -> Nat]
      BY <3>1 DEF g
    <3> QED BY <3>2, <3>3
  <2>4. b \in Bijection(A, m)
    BY <2>1, BijectionIs
  <2>5. IsFiniteSet(m) /\ Cardinality(m) = Cardinality(A)
    BY <1>3, <2>4, FS_Bijection DEF ExistsBijection
  <2>6. Sum(wa) = Sum(g)
    BY <1>3, <2>2, <2>3, <2>4, SumRenamed
  <2> QED BY <2>5, <2>6 DEF wa
<1>10. /\ Sum([i \in B |-> w[i]]) = Cardinality(B) * Half
       /\ Sum([i \in C |-> w[i]]) = Cardinality(C) * Half
       /\ Sum([i \in E |-> w[i]]) = Cardinality(E) * 0
  <2>1. /\ [i \in B |-> w[i]] = [i \in B |-> Half]
        /\ [i \in C |-> w[i]] = [i \in C |-> Half]
        /\ [i \in E |-> w[i]] = [i \in E |-> 0]
    BY <1>6
  <2> HIDE DEF B, C, E, w
  <2> QED BY <1>1, <1>3, <2>1, SumConstant
<1>11. Weight(z) = Sum([i \in A |-> w[i]]) + Sum([i \in B |-> w[i]])
                   + (Sum([i \in C |-> w[i]]) + Sum([i \in E |-> w[i]]))
  <2> DEFINE wr == [i \in R |-> w[i]]
             wd == [i \in D |-> w[i]]
  <2>1. Weight(z) = Sum(w)
    BY DEF Weight
  <2>2. /\ [i \in A |-> w[i]] = [i \in A |-> wr[i]] /\ [i \in B |-> w[i]] = [i \in B |-> wr[i]]
        /\ [i \in C |-> w[i]] = [i \in C |-> wd[i]] /\ [i \in E |-> w[i]] = [i \in E |-> wd[i]]
    BY <1>3
  <2>3. wr \in [R -> Nat] /\ wd \in [D -> Nat] /\ IsFiniteSet(R) /\ IsFiniteSet(D)
    <3>1. R \subseteq Lines /\ D \subseteq Lines
      BY <1>4
    <3> QED BY <1>1, <1>6, <3>1, FS_Subset
  <2> HIDE DEF w, R, D, A, B, C, E
  <2>4. Sum(w) = Sum(wr) + Sum(wd)
    <3>1. /\ IsFiniteSet(Lines) /\ w \in [Lines -> Nat]
          /\ R \cup D = Lines /\ R \cap D = {}
      BY <1>1, <1>4, <1>6
    <3> QED BY ONLY <3>1, SumParts
  <2> HIDE DEF wr, wd
  <2>5. /\ Sum(wr) = Sum([i \in A |-> wr[i]]) + Sum([i \in B |-> wr[i]])
        /\ Sum(wd) = Sum([i \in C |-> wd[i]]) + Sum([i \in E |-> wd[i]])
    BY <1>3, <2>3, SumParts
  <2> QED BY <2>1, <2>2, <2>4, <2>5
<1>12. Matching!Value(m) = Sum(g) + Half * (rows + cols - 2 * Cardinality(m))
  BY SumIs, MatchCardinality DEF Matching!Value
<1>13. Sum(g) \in Nat
  <2>1. g \in [m -> Nat]
    <3>1. \A p \in m : p[1] \in A /\ g[p] = w[p[1]]
      BY <1>5, <1>7
    <3> QED BY <1>5, <1>6, <3>1
  <2> HIDE DEF g, m
  <2> QED BY <1>9, <2>1, HeapIs
<1>14. PICK s \in Nat, a \in Nat : s = Sum(g) /\ a = Cardinality(A)
  BY <1>3, <1>13
<1>15. Cardinality(E) \in Nat
  BY <1>3, FS_CardinalityType
<1> HIDE DEF A, B, C, E, w, m, g, R, D
<1>16. Weight(z) = s + (rows - a) * Half + ((cols - a) * Half + 0)
  BY <1>3, <1>9, <1>10, <1>11, <1>14, <1>15
<1>17. Matching!Value(m) = s + Half * (rows + cols - 2 * a)
  BY <1>9, <1>12, <1>14
<1>18. s + (rows - a) * Half + ((cols - a) * Half + 0) = s + Half * (rows + cols - 2 * a)
  BY ONLY <1>1, s \in Nat, a \in Nat
<1> QED BY <1>8, <1>16, <1>17, <1>18 DEF m

\* The cheapest and first of some lines.
LEMMA CheapestIs ==
    ASSUME NEW S, IsFiniteSet(S), S \subseteq Int, S # {}, NEW f, \A j \in S : f[j] \in Int
    PROVE  /\ Matching!First(Matching!Cheapest(S, f)) \in S
           /\ \A k \in S : f[Matching!First(Matching!Cheapest(S, f))] <= f[k]
<1> DEFINE g == [j \in S |-> f[j]]
           T == {g[j] : j \in S}
           C == Matching!Cheapest(S, f)
<1>1. g \in Surjection(S, T) /\ T \subseteq Int /\ T # {}
  BY DEF Surjection
<1>2. IsFiniteSet(T)
  BY <1>1, FS_Surjection
<1>3. PICK c \in S : \A k \in S : f[c] <= f[k]
  <2>1. PICK e \in T : \A o \in T : e <= o
    <3> HIDE DEF T
    <3> QED BY <1>1, <1>2, EndsAre
  <2> QED BY <2>1
<1>4. C \subseteq S /\ c \in C /\ \A k \in C, l \in S : f[k] <= f[l]
  BY <1>3 DEF Matching!Cheapest
<1> HIDE DEF C
<1>5. IsFiniteSet(C) /\ C \subseteq Int
  BY <1>4, FS_Subset
<1>6. \E e \in C : \A o \in C : e <= o
  BY <1>4, <1>5, EndsAre
<1>7. Matching!First(C) \in C
  BY <1>6 DEF Matching!First, Matching!Min
<1> QED BY <1>4, <1>7 DEF C

LEMMA Cancels ==
    ASSUME NEW a \in Int, NEW b \in Int, NEW c \in Int
    PROVE  (a + b = a + c => b = c) /\ (b - a = c - a => b = c)
  OBVIOUS

\* Every set of pairs that are a matching is the matching of a permutation: who is alone
\* goes with the line that was added for it, and the lines that were added for a pair
\* go with each other.
LEMMA PairingExtends ==
    ASSUME MatchTypes, NEW m \in Matching!Pairings
    PROVE  \E z \in Bijection(Lines, Lines) : Paired(z) = m
<1>1. /\ rows \in Nat /\ cols \in Nat /\ rows >= 1 /\ cols >= 1
      /\ Lines = 0..(rows + cols - 1)
      /\ IsFiniteSet(Lines) /\ Lines \subseteq Nat
  BY LinesAre
<1>0. rows \in Nat /\ cols \in Nat
  BY <1>1
<1>2. /\ \A p \in m : p \in (0..(rows - 1)) \X (0..(cols - 1))
      /\ \A p, q \in m : p # q => p[1] # q[1] /\ p[2] # q[2]
  BY DEF Matching!Pairings
<1>3. /\ \A i, j : <<i, j>> \in m => i \in Nat /\ i < rows /\ j \in Nat /\ j < cols
      /\ \A i, j, k : <<i, j>> \in m /\ <<i, k>> \in m => j = k
      /\ \A i, j, k : <<j, i>> \in m /\ <<k, i>> \in m => j = k
  <2>1. ASSUME NEW i, NEW j, <<i, j>> \in m
        PROVE  i \in 0..(rows - 1) /\ j \in 0..(cols - 1)
    BY <1>2, <2>1
  <2>2. \A i, j : <<i, j>> \in m => i \in Nat /\ i < rows /\ j \in Nat /\ j < cols
    BY <1>1, <2>1
  <2>3. ASSUME NEW i, NEW j, NEW k, <<i, j>> \in m, <<i, k>> \in m PROVE j = k
    BY <1>2, <2>3
  <2>4. ASSUME NEW i, NEW j, NEW k, <<j, i>> \in m, <<k, i>> \in m PROVE j = k
    BY <1>2, <2>4
  <2> QED BY <2>2, <2>3, <2>4
<1> DEFINE HasCol(i) == \E j \in Lines : <<i, j>> \in m
           HasRow(j) == \E i \in Lines : <<i, j>> \in m
           z == [i \in Lines |->
                   IF i < rows
                   THEN IF HasCol(i) THEN CHOOSE j \in Lines : <<i, j>> \in m ELSE cols + i
                   ELSE IF HasRow(i - rows)
                        THEN cols + (CHOOSE k \in Lines : <<k, i - rows>> \in m)
                        ELSE i - rows]
<1>4. ASSUME NEW i \in Lines, i < rows
      PROVE  \/ <<i, z[i]>> \in m
             \/ ~HasCol(i) /\ z[i] = cols + i
  <2>1. CASE HasCol(i)
    BY <1>4, <2>1
  <2>2. CASE ~HasCol(i)
    BY <1>4, <2>2
  <2> QED BY <2>1, <2>2
<1>5. ASSUME NEW i \in Lines, i >= rows
      PROVE  \/ \E k \in Lines : <<k, i - rows>> \in m /\ z[i] = cols + k
             \/ ~HasRow(i - rows) /\ z[i] = i - rows
  <2>0. ~(i < rows)
    BY <1>1, <1>5
  <2>1. CASE HasRow(i - rows)
    <3>1. PICK k : k = CHOOSE l \in Lines : <<l, i - rows>> \in m
      OBVIOUS
    <3>2. k \in Lines /\ <<k, i - rows>> \in m
      BY <2>1, <3>1
    <3>3. z[i] = cols + k
      BY <2>0, <2>1, <3>1
    <3> QED BY <3>2, <3>3
  <2>2. CASE ~HasRow(i - rows)
    BY <2>0, <2>2
  <2> QED BY <2>1, <2>2
<1>6. /\ \A i, j : <<i, j>> \in m => i \in Lines /\ j \in Lines
      /\ \A i \in Lines : i < rows \/ i >= rows
  BY <1>1, <1>3
<1>7. DOMAIN z = Lines
  OBVIOUS
<1>8. z = [i \in Lines |-> z[i]]
  OBVIOUS
<1> HIDE DEF z
<1>9. ASSUME NEW i \in Lines PROVE z[i] \in Lines
  <2>1. CASE i < rows
    <3>1. CASE <<i, z[i]>> \in m
      BY <1>6, <3>1
    <3>2. CASE z[i] = cols + i
      BY <1>1, <2>1, <3>2
    <3> QED BY <1>4, <2>1, <3>1, <3>2
  <2>2. CASE i >= rows
    <3>1. ASSUME NEW k \in Lines, <<k, i - rows>> \in m, z[i] = cols + k PROVE z[i] \in Lines
      BY <1>1, <1>3, <3>1
    <3>2. CASE z[i] = i - rows
      BY <1>1, <2>2, <3>2
    <3> QED BY <1>5, <2>2, <3>1, <3>2
  <2> QED BY <1>6, <2>1, <2>2
<1>10. ASSUME NEW e \in Lines, NEW o \in Lines, z[e] = z[o], e < rows, o < rows PROVE e = o
  <2>1. CASE <<e, z[e]>> \in m /\ <<o, z[o]>> \in m
    BY <1>3, <1>10, <2>1
  <2>2. CASE <<e, z[e]>> \in m /\ z[o] = cols + o
    <3>1. z[e] < cols /\ z[e] \in Nat /\ o \in Nat
      BY <1>1, <1>3, <2>2
    <3> QED BY <1>1, <1>10, <2>2, <3>1
  <2>3. CASE z[e] = cols + e /\ <<o, z[o]>> \in m
    <3>1. z[o] < cols /\ z[o] \in Nat /\ e \in Nat
      BY <1>1, <1>3, <2>3
    <3> QED BY <1>1, <1>10, <2>3, <3>1
  <2>4. CASE z[e] = cols + e /\ z[o] = cols + o
    <3>1. e \in Int /\ o \in Int /\ cols \in Int
      BY <1>1
    <3>2. cols + e = cols + o
      BY <1>10, <2>4
    <3> QED BY ONLY <3>1, <3>2, Cancels
  <2> QED BY <1>4, <1>10, <2>1, <2>2, <2>3, <2>4
<1>11. ASSUME NEW e \in Lines, NEW o \in Lines, z[e] = z[o], e < rows, o >= rows PROVE FALSE
  <2>1. /\ e \in Int /\ cols \in Int /\ cols + e >= cols
        /\ o - rows < cols
    BY <1>1
  <2>2. CASE <<e, z[e]>> \in m
    <3>1. z[e] < cols /\ z[e] \in Nat
      BY <1>3, <2>2
    <3>2. ASSUME NEW k \in Lines, z[o] = cols + k PROVE FALSE
      <4>1. cols + k >= cols /\ ~(cols + k < cols)
        BY <1>1
      <4> QED BY <1>11, <3>1, <3>2, <4>1
    <3>3. ~HasRow(o - rows) /\ z[o] = o - rows
      BY <1>5, <1>11, <3>2
    <3> QED BY <1>11, <2>2, <3>3
  <2>3. CASE ~HasCol(e) /\ z[e] = cols + e
    <3>1. ASSUME NEW k \in Lines, <<k, o - rows>> \in m, z[o] = cols + k PROVE FALSE
      <4>1. k \in Int
        BY <1>1
      <4>2. cols + k = cols + e
        BY <1>11, <2>3, <3>1
      <4>3. k = e
        BY ONLY <2>1, <4>1, <4>2, Cancels
      <4> QED BY <1>6, <2>3, <3>1, <4>3
    <3>2. z[o] = o - rows
      BY <1>5, <1>11, <3>1
    <3>3. cols + e = o - rows
      BY <1>11, <2>3, <3>2
    <3>4. ~(cols + e < cols)
      BY <1>1
    <3> QED BY <2>1, <3>3, <3>4
  <2> QED BY <1>4, <1>11, <2>2, <2>3
<1>12. ASSUME NEW e \in Lines, NEW o \in Lines, z[e] = z[o], e >= rows, o >= rows PROVE e = o
  <2>1. /\ e \in Int /\ o \in Int /\ cols \in Int /\ rows \in Int
        /\ e - rows < cols /\ o - rows < cols
        /\ \A k \in Lines : k \in Int /\ ~(cols + k < cols)
    BY <1>1
  <2>2. ASSUME NEW k \in Lines, <<k, e - rows>> \in m, z[e] = cols + k,
               NEW l \in Lines, <<l, o - rows>> \in m, z[o] = cols + l
        PROVE  e = o
    <3>1. cols + k = cols + l /\ k \in Int /\ l \in Int
      BY <1>12, <2>1, <2>2
    <3>2. k = l
      BY ONLY <2>1, <3>1, Cancels
    <3>3. e - rows = o - rows
      BY <1>3, <2>2, <3>2
    <3> QED BY ONLY <2>1, <3>3, Cancels
  <2>3. ASSUME NEW k \in Lines, z[e] = cols + k, z[o] = o - rows PROVE FALSE
    <3>1. cols + k = o - rows
      BY <1>12, <2>3
    <3> QED BY <2>1, <3>1
  <2>4. ASSUME NEW k \in Lines, z[o] = cols + k, z[e] = e - rows PROVE FALSE
    <3>1. cols + k = e - rows
      BY <1>12, <2>4
    <3> QED BY <2>1, <3>1
  <2>5. CASE z[e] = e - rows /\ z[o] = o - rows
    <3>1. e - rows = o - rows
      BY <1>12, <2>5
    <3> QED BY ONLY <2>1, <3>1, Cancels
  <2> QED BY <1>5, <1>12, <2>2, <2>3, <2>4, <2>5
<1>13. \A e, o \in Lines : z[e] = z[o] => e = o
  BY <1>6, <1>10, <1>11, <1>12
<1>14. z \in Bijection(Lines, Lines)
  <2>1. z \in [Lines -> Lines]
    BY <1>8, <1>9
  <2>2. z \in Injection(Lines, Lines)
    BY <1>13, <2>1 DEF Injection, IsInjective
  <2>3. z \in Surjection(Lines, Lines)
    BY <1>1, <2>2, FS_Injection
  <2> QED BY <2>2, <2>3 DEF Bijection
<1>15. ASSUME NEW i \in Lines, NEW j, <<i, j>> \in m PROVE z[i] = j /\ i < rows /\ j < cols
  <2>1. i < rows /\ j < cols
    BY <1>3, <1>15
  <2>2. HasCol(i)
    BY <1>6, <1>15
  <2> QED BY <1>3, <1>4, <1>15, <2>1, <2>2
<1>16. ASSUME NEW i \in Lines, i < rows, z[i] < cols PROVE <<i, z[i]>> \in m
  <2>1. i \in Nat
    BY <1>1
  <2>2. z[i] # cols + i
    BY <1>1, <1>16, <2>1
  <2> QED BY <1>4, <1>16, <2>2
<1>17. Paired(z) = m
  <2>1. ASSUME NEW p \in Paired(z) PROVE p \in m
    <3>1. PICK i \in 0..(rows - 1) : z[i] < cols /\ p = <<i, z[i]>>
      BY DEF Paired
    <3>2. i \in Lines /\ i < rows
      BY ONLY <1>1, i \in 0..(rows - 1)
    <3> QED BY <1>16, <3>1, <3>2
  <2>2. ASSUME NEW p \in m PROVE p \in Paired(z)
    <3>1. PICK i \in 0..(rows - 1), j \in 0..(cols - 1) : p = <<i, j>>
      BY <1>2
    <3>2. i \in Lines
      BY ONLY <1>1, i \in 0..(rows - 1)
    <3>3. z[i] = j /\ z[i] < cols
      BY <1>15, <3>1, <3>2
    <3> QED BY <3>1, <3>3 DEF Paired
  <2> QED BY <2>1, <2>2
<1> QED BY <1>14, <1>17

\* When every row holds a column and is content, no permutation is cheaper.
LEMMA ContentIsCheapest ==
    ASSUME MatchTypes, Extended, Content, \A i \in Lines : Holds(i),
           NEW z \in Bijection(Lines, Lines)
    PROVE  x \in Bijection(Lines, Lines) /\ Weight(x) <= Weight(z)
<1>1. /\ IsFiniteSet(Lines) /\ Lines # {} /\ Nobody \notin Lines
      /\ x \in [Lines -> Lines \cup {Nobody}] /\ v \in [Lines -> Int]
      /\ \A i, j \in Lines : cost[i][j] \in Nat
  BY LinesAre, CostIs DEF MatchTypes
<1>2. ASSUME NEW i \in Lines
      PROVE  /\ x[i] \in Lines /\ y[x[i]] = i
             /\ \A k \in Lines : cost[i][x[i]] - v[x[i]] <= cost[i][k] - v[k]
  <2>1. PICK j \in Lines : y[j] = i
    BY DEF Holds
  <2>2. y[j] # Nobody
    BY <1>1, <2>1
  <2>3. /\ x[i] = j
        /\ \A k \in Lines : Matching!Reduced(i, j) <= Matching!Reduced(i, k)
    BY <2>1, <2>2 DEF Content
  <2> QED BY <2>1, <2>3 DEF Matching!Reduced
<1>3. x \in Bijection(Lines, Lines)
  <2>1. x \in [Lines -> Lines] /\ \A e, o \in Lines : x[e] = x[o] => e = o
    <3>1. \A i \in Lines : x[i] \in Lines
      BY <1>2
    <3>2. ASSUME NEW e \in Lines, NEW o \in Lines, x[e] = x[o] PROVE e = o
      BY <1>2, <3>2
    <3> QED BY <1>1, <3>1, <3>2
  <2>2. x \in Injection(Lines, Lines)
    BY <2>1 DEF Injection, IsInjective
  <2>3. x \in Surjection(Lines, Lines)
    BY <1>1, <2>2, FS_Injection
  <2> QED BY <2>2, <2>3 DEF Bijection
<1>4. z \in [Lines -> Lines]
  BY BijectionIs
<1>5. PICK low \in Int : \A j \in Lines : low <= v[j]
  <2> DEFINE T == {v[j] : j \in Lines}
  <2>1. v \in Surjection(Lines, T) /\ T \subseteq Int /\ T # {}
    BY <1>1 DEF Surjection
  <2>2. IsFiniteSet(T)
    BY <1>1, <2>1, FS_Surjection
  <2>3. \A j \in Lines : v[j] \in T
    OBVIOUS
  <2> HIDE DEF T
  <2>4. PICK e \in T : \A o \in T : e <= o
    BY <2>1, <2>2, EndsAre
  <2> QED BY <2>1, <2>3, <2>4
\* Prices over the lowest.
<1> DEFINE w == [j \in Lines |-> v[j] - low]
           cx == [i \in Lines |-> cost[i][x[i]]]
           cz == [i \in Lines |-> cost[i][z[i]]]
           wx == [i \in Lines |-> w[x[i]]]
           wz == [i \in Lines |-> w[z[i]]]
           f == [i \in Lines |-> cx[i] + wz[i]]
           g == [i \in Lines |-> cz[i] + wx[i]]
<1>6. w \in [Lines -> Nat]
  <2>1. ASSUME NEW j \in Lines PROVE v[j] - low \in Nat
    <3>1. v[j] \in Int /\ low <= v[j]
      BY <1>1, <1>5
    <3> QED BY <3>1
  <2> QED BY <2>1
<1>7. ASSUME NEW i \in Lines
      PROVE  /\ cx[i] \in Nat /\ cz[i] \in Nat /\ wx[i] \in Nat /\ wz[i] \in Nat
             /\ cx[i] + wz[i] <= cz[i] + wx[i]
  <2>1. x[i] \in Lines /\ z[i] \in Lines
    BY <1>2, <1>4
  <2>2. /\ cx[i] \in Nat /\ cz[i] \in Nat /\ wx[i] \in Nat /\ wz[i] \in Nat
    BY <1>1, <1>6, <2>1
  <2>3. cost[i][x[i]] - v[x[i]] <= cost[i][z[i]] - v[z[i]]
    BY <1>2, <2>1
  <2>4. PICK a \in Int, b \in Int : a = v[x[i]] /\ b = v[z[i]]
    BY <1>1, <2>1
  <2>5. cx[i] - a <= cz[i] - b /\ wx[i] = a - low /\ wz[i] = b - low
    BY <2>1, <2>3, <2>4
  <2> HIDE DEF cx, cz, wx, wz
  <2> QED BY <2>2, <2>4, <2>5
<1>8. /\ \A i \in Lines : wx[i] = w[x[i]] /\ wz[i] = w[z[i]]
      /\ \A i \in Lines : f[i] = cx[i] + wz[i] /\ g[i] = cz[i] + wx[i]
  OBVIOUS
<1>9. Weight(x) = Sum(cx) /\ Weight(z) = Sum(cz)
  BY DEF Weight
<1>10. /\ cx \in [Lines -> Nat] /\ cz \in [Lines -> Nat]
       /\ wx \in [Lines -> Nat] /\ wz \in [Lines -> Nat]
  BY <1>7
<1> HIDE DEF w, cx, cz, wx, wz
<1>11. f \in [Lines -> Nat] /\ g \in [Lines -> Nat] /\ \A i \in Lines : f[i] <= g[i]
  BY <1>7
<1> HIDE DEF f, g
<1>12. Sum(f) <= Sum(g)
  BY <1>1, <1>11, SumGrows
<1>13. Sum(f) = Sum(cx) + Sum(wz) /\ Sum(g) = Sum(cz) + Sum(wx)
  <2>1. IsFiniteSet(Lines)
    BY <1>1
  <2>2. Sum(f) = Sum(cx) + Sum(wz)
    BY ONLY <1>8, <1>10, <1>11, <2>1, SumAdds
  <2>3. Sum(g) = Sum(cz) + Sum(wx)
    BY ONLY <1>8, <1>10, <1>11, <2>1, SumAdds
  <2> QED BY <2>2, <2>3
<1>14. Sum(wx) = Sum(w) /\ Sum(wz) = Sum(w)
  <2>1. IsFiniteSet(Lines) /\ z \in Bijection(Lines, Lines)
    BY <1>1
  <2>2. Sum(wx) = Sum(w)
    BY ONLY <1>3, <1>6, <1>8, <1>10, <2>1, SumRenamed
  <2>3. Sum(wz) = Sum(w)
    BY ONLY <1>6, <1>8, <1>10, <2>1, SumRenamed
  <2> QED BY <2>2, <2>3
<1>15. Sum(cx) \in Nat /\ Sum(cz) \in Nat /\ Sum(w) \in Nat
  BY <1>1, <1>6, <1>10, HeapIs
<1> QED BY <1>3, <1>9, <1>12, <1>13, <1>14, <1>15

LEMMA AllHeldIsOptimal ==
    ASSUME MatchTypes, Extended, Content, \A i \in Lines : Holds(i)
    PROVE  Matching!Optimal
<1>1. PICK z \in Bijection(Lines, Lines) : TRUE
  <2>1. [i \in Lines |-> i] \in Bijection(Lines, Lines)
    BY BijectionIs
  <2> QED BY <2>1
<1>2. x \in Bijection(Lines, Lines)
  BY ContentIsCheapest
<1>3. Matching!Matches = Paired(x)
  BY DEF Matching!Matches, Paired
<1>4. Paired(x) \in Matching!Pairings /\ Matching!Value(Paired(x)) = Weight(x)
  BY <1>2, WeightIs
<1>5. ASSUME NEW m \in Matching!Pairings PROVE Matching!Value(Paired(x)) <= Matching!Value(m)
  <2>1. PICK p \in Bijection(Lines, Lines) : Paired(p) = m
    BY PairingExtends
  <2>2. Matching!Value(m) = Weight(p) /\ Weight(x) <= Weight(p)
    BY <2>1, WeightIs, ContentIsCheapest
  <2> QED BY <1>4, <2>2
<1> QED BY <1>3, <1>4, <1>5 DEF Matching!Optimal
-------------------------------------------------------------------------------
(* The assignment: its steps keep the inductive invariant                        *)

LEMMA MatchAre ==
    ASSUME MatchTypes
    PROVE  /\ x \in [Lines -> Lines \cup {Nobody}] /\ y \in [Lines -> Lines \cup {Nobody}]
           /\ v \in [Lines -> Int] /\ free \in Seq(Lines) /\ kept \in Seq(Lines)
           /\ Len(free) \in Nat /\ Len(kept) \in Nat /\ current \in Nat /\ reduced \in Nat
           /\ \A i, j \in Lines : cost[i][j] \in Int /\ Matching!Reduced(i, j) \in Int
           /\ \A i, j \in Lines : Matching!Reduced(i, j) = cost[i][j] - v[j]
  BY DEF MatchTypes, Matching!Reduced

\* The matrix stays as it is.
LEMMA ExtendedStays ==
    ASSUME Extended, UNCHANGED <<rows, cols, cost>>
    PROVE  Lines' = Lines /\ Nobody' = Nobody /\ Extended'
<1>1. Lines' = Lines /\ Nobody' = Nobody
  BY DEF Lines, Nobody, Matching!Nobody, Matching!All, Matching!N
<1>2. Extended' = Extended
  BY <1>1 DEF Extended
<1> QED BY <1>1, <1>2

LEMMA BestIs ==
    ASSUME MatchTypes, NEW i \in Lines, NEW S, S \subseteq Lines, S # {}
    PROVE  /\ Matching!Best(S, i) \in S
           /\ \A k \in S : Matching!Reduced(i, Matching!Best(S, i)) <= Matching!Reduced(i, k)
<1> DEFINE f == [j \in Lines |-> Matching!Reduced(i, j)]
<1>1. IsFiniteSet(S) /\ S \subseteq Int
  <2>1. IsFiniteSet(Lines) /\ Lines \subseteq Nat
    BY LinesAre
  <2>2. S \subseteq Int
    BY <2>1
  <2> QED BY <2>1, <2>2, FS_Subset
<1>2. \A j \in S : f[j] \in Int /\ f[j] = Matching!Reduced(i, j)
  BY MatchAre
<1>3. Matching!Best(S, i) = Matching!First(Matching!Cheapest(S, f))
  BY DEF Matching!Best, Lines
<1> HIDE DEF f
<1> QED BY <1>1, <1>2, <1>3, CheapestIs

LEMMA AppendIs ==
    ASSUME NEW S, NEW q \in Seq(S), NEW e \in S
    PROVE  /\ Append(q, e) \in Seq(S) /\ Len(q) \in Nat
           /\ DOMAIN q = 1..Len(q) /\ DOMAIN Append(q, e) = 1..(Len(q) + 1)
           /\ Len(Append(q, e)) = Len(q) + 1
           /\ \A k \in 1..Len(q) : Append(q, e)[k] = q[k]
           /\ Append(q, e)[Len(q) + 1] = e
  OBVIOUS

\* Who has a column before the transfer is over.
LEMMA TransferHolders ==
    ASSUME MatchTypes, Content, Transfers, NEW i \in Lines
    PROVE  Holds(i) <=> x[i] # Nobody
<1>1. ASSUME NEW j \in Lines, y[j] = i PROVE x[i] # Nobody
  <2>1. y[j] # Nobody
    BY <1>1, LinesAre
  <2> QED BY <1>1, <2>1, LinesAre DEF Content
<1>2. ASSUME x[i] # Nobody PROVE Holds(i)
  BY <1>2, MatchAre DEF Transfers, Holds
<1> QED BY <1>1, <1>2 DEF Holds

LEMMA MatchBegins == ASSUME Matching!Init PROVE MatchInv
<1>1. /\ rows \in 1..MaxRows /\ cols \in 1..MaxCols
      /\ v = [j \in Lines |-> cost[Matching!RowOf(j)][j]]
      /\ x = [i \in Lines |-> Matching!Takes(i)]
      /\ y = [j \in Lines |-> IF Matching!Takes(Matching!RowOf(j)) = j
                              THEN Matching!RowOf(j) ELSE Nobody]
      /\ step = "transfer" /\ current = 0 /\ free = <<>> /\ reduced = 0 /\ kept = <<>>
  BY DEF Matching!Init, Lines, Nobody
<1>2. PICK m \in [0..(rows - 1) -> [0..(cols - 1) -> Costs]] :
        cost = Matching!Extend(rows, cols, m)
  BY DEF Matching!Init
<1>3. rows \in Nat \ {0} /\ cols \in Nat \ {0}
  BY <1>1, MatchNumbers
<1>4. /\ Lines = 0..(rows + cols - 1) /\ Nobody = -1 /\ Nobody \notin Lines
      /\ IsFiniteSet(Lines) /\ Lines \subseteq Nat /\ 0 \in Lines
      /\ rows \in Nat /\ cols \in Nat
  BY <1>3, SizesAre
<1>5. cost = [i \in Lines |-> [j \in Lines |->
        IF i < rows /\ j < cols THEN m[i][j]
        ELSE IF i >= rows /\ j >= cols THEN 0 ELSE Half]]
  BY <1>2, <1>4 DEF Matching!Extend
<1>6. ASSUME NEW i \in Lines, NEW j \in Lines
      PROVE  /\ cost[i][j] \in Nat /\ cost[i][j] \in Int
             /\ cost[i][j] \in IF i < rows /\ j < cols THEN Nat
                               ELSE {IF i >= rows /\ j >= cols THEN 0 ELSE Half}
  <2>1. CASE i < rows /\ j < cols
    <3>1. i \in 0..(rows - 1) /\ j \in 0..(cols - 1)
      BY ONLY <1>4, <2>1, i \in Lines, j \in Lines
    <3>2. m[i][j] \in Nat
      BY <3>1, MatchNumbers
    <3> QED BY <1>5, <2>1, <3>2
  <2>2. CASE ~(i < rows /\ j < cols)
    BY <1>5, <2>2, MatchNumbers
  <2> QED BY <2>1, <2>2
<1>7. cost \in [Lines -> [Lines -> Int]] /\ Extended
  <2>1. \A i, j \in Lines : cost[i][j] \in Int
    BY <1>6
  <2>2. cost \in [Lines -> [Lines -> Int]]
    <3>1. cost = [i \in Lines |-> [j \in Lines |-> cost[i][j]]]
      BY <1>5
    <3> QED BY <2>1, <3>1
  <2> QED BY <1>6, <2>2 DEF Extended
\* The first cheapest row of a column.
<1>8. ASSUME NEW j \in Lines
      PROVE  /\ Matching!RowOf(j) \in Lines
             /\ \A i \in Lines : cost[Matching!RowOf(j)][j] <= cost[i][j]
  <2> DEFINE f == [i \in Lines |-> cost[i][j]]
  <2>1. \A i \in Lines : f[i] = cost[i][j] /\ f[i] \in Int
    BY <1>6
  <2>2. Matching!RowOf(j) = Matching!First(Matching!Cheapest(Lines, f))
    BY DEF Matching!RowOf, Lines
  <2>3. IsFiniteSet(Lines) /\ Lines # {} /\ Lines \subseteq Int
    BY <1>3, SizesAre
  <2> HIDE DEF f
  <2>4. \A i \in Lines : f[i] \in Int
    BY <2>1
  <2>5. /\ Matching!RowOf(j) \in Lines
        /\ \A i \in Lines : f[Matching!RowOf(j)] <= f[i]
    BY ONLY <2>2, <2>3, <2>4, CheapestIs
  <2> QED BY <2>1, <2>5
<1>9. ASSUME NEW i \in Lines, Matching!Takes(i) # Nobody
      PROVE  Matching!Takes(i) \in Lines /\ Matching!RowOf(Matching!Takes(i)) = i
  <2>1. Matching!Mine(i) = {j \in Lines : Matching!RowOf(j) = i}
    BY DEF Matching!Mine, Lines
  <2>2. Matching!Mine(i) # {} /\ Matching!Takes(i) = Matching!Max(Matching!Mine(i))
    BY <1>9 DEF Matching!Takes, Nobody
  <2>3. IsFiniteSet(Matching!Mine(i)) /\ Matching!Mine(i) \subseteq Int
    <3>1. Matching!Mine(i) \subseteq Lines
      BY <2>1
    <3> QED BY <1>4, <3>1, FS_Subset
  <2>4. PICK e \in Matching!Mine(i) : \A o \in Matching!Mine(i) : o <= e
    BY <2>2, <2>3, EndsAre
  <2>5. \A o \in Matching!Mine(i) : e >= o
    BY <2>3, <2>4
  <2>6. Matching!Max(Matching!Mine(i)) \in Matching!Mine(i)
    BY <2>5 DEF Matching!Max
  <2> QED BY <2>1, <2>2, <2>6
<1>10. MatchTypes
  <2>1. x \in [Lines -> Lines \cup {Nobody}] /\ y \in [Lines -> Lines \cup {Nobody}]
    BY <1>1, <1>8, <1>9
  <2>2. v \in [Lines -> Int]
    BY <1>1, <1>6, <1>8
  <2>3. free \in Seq(Lines) /\ kept \in Seq(Lines) /\ current \in Nat /\ reduced \in Nat
    BY <1>1
  <2> QED BY <1>1, <1>3, <1>7, <2>1, <2>2, <2>3 DEF MatchTypes
<1>11. \A i, k \in Lines : Matching!Reduced(i, k) >= 0
  <2> SUFFICES ASSUME NEW i \in Lines, NEW k \in Lines PROVE Matching!Reduced(i, k) >= 0
    OBVIOUS
  <2>1. PICK a \in Int, b \in Int : a = cost[i][k] /\ b = cost[Matching!RowOf(k)][k]
    BY <1>6, <1>8
  <2>2. b <= a /\ v[k] = b
    BY <1>1, <1>8, <2>1
  <2>3. Matching!Reduced(i, k) = a - b
    BY <1>10, <2>1, <2>2, MatchAre
  <2> QED BY <2>1, <2>2, <2>3
<1>12. \A k \in Lines : Matching!Reduced(Matching!RowOf(k), k) = 0
  <2> SUFFICES ASSUME NEW k \in Lines PROVE Matching!Reduced(Matching!RowOf(k), k) = 0
    OBVIOUS
  <2>1. PICK b \in Int : b = cost[Matching!RowOf(k)][k]
    BY <1>6, <1>8
  <2>2. Matching!Reduced(Matching!RowOf(k), k) = b - b
    BY <1>1, <1>8, <1>10, <2>1, MatchAre
  <2> QED BY <2>1, <2>2
<1>13. Content
  <2> SUFFICES ASSUME NEW j \in Lines, y[j] # Nobody, NEW k \in Lines
               PROVE  x[y[j]] = j /\ Matching!Reduced(y[j], j) <= Matching!Reduced(y[j], k)
    BY DEF Content
  <2>1. /\ y[j] = Matching!RowOf(j) /\ Matching!Takes(Matching!RowOf(j)) = j
        /\ y[j] \in Lines
    BY <1>1, <1>8
  <2>2. Matching!Reduced(y[j], j) = 0 /\ Matching!Reduced(y[j], k) >= 0
    BY <1>11, <1>12, <2>1
  <2> QED BY <1>1, <2>1, <2>2
<1>14. Transfers
  <2>1. current < Matching!N
    BY <1>1, <1>3 DEF Matching!N
  <2>2. ASSUME NEW i \in Lines, x[i] # Nobody
        PROVE  y[x[i]] = i /\ Matching!Reduced(i, x[i]) = 0
    <3>1. x[i] \in Lines /\ Matching!RowOf(x[i]) = i /\ Matching!Takes(i) = x[i]
      BY <1>1, <1>9, <2>2
    <3> QED BY <1>1, <1>12, <3>1
  <2>3. DOMAIN free = {} /\ \A i \in Lines : ~(i < current)
    BY <1>1, <1>4
  <2> QED BY <1>1, <1>11, <2>1, <2>2, <2>3 DEF Transfers
<1> QED BY <1>1, <1>7, <1>10, <1>13, <1>14 DEF MatchInv

LEMMA ContentAfter ==
    ASSUME NEW nx, NEW ny, NEW w, x' = nx, y' = ny, v' = w, UNCHANGED <<rows, cols, cost>>,
           \A j \in Lines : ny[j] # Nobody =>
             /\ nx[ny[j]] = j
             /\ \A k \in Lines : cost[ny[j]][j] - w[j] <= cost[ny[j]][k] - w[k]
    PROVE  Content'
<1>1. Lines' = Lines /\ Nobody' = Nobody
  BY DEF Lines, Nobody, Matching!Nobody, Matching!All, Matching!N
<1> QED BY <1>1 DEF Content, Matching!Reduced

LEMMA MatchTransfers == ASSUME MatchInv, Matching!Transfer PROVE MatchInv'
<1>1. /\ MatchTypes /\ Extended /\ Content /\ Transfers /\ step = "transfer"
      /\ UNCHANGED <<rows, cols, cost, x, y, kept, reduced>>
  BY DEF MatchInv, Matching!Transfer, Matching!input
<1>2. /\ x \in [Lines -> Lines \cup {Nobody}] /\ y \in [Lines -> Lines \cup {Nobody}]
      /\ v \in [Lines -> Int] /\ free \in Seq(Lines) /\ Len(free) \in Nat /\ current \in Nat
      /\ \A i, j \in Lines : cost[i][j] \in Int /\ Matching!Reduced(i, j) \in Int
      /\ \A i, j \in Lines : Matching!Reduced(i, j) = cost[i][j] - v[j]
  BY <1>1, MatchAre
<1>3. /\ Lines = 0..(rows + cols - 1) /\ Nobody \notin Lines /\ Lines \subseteq Int
      /\ rows \in Nat /\ cols \in Nat /\ rows >= 1 /\ cols >= 1 /\ 0 \in Lines /\ 1 \in Lines
      /\ Matching!N = rows + cols /\ Lines' = Lines /\ Nobody' = Nobody
      /\ Matching!N' = Matching!N
  BY <1>1, LinesAre DEF Matching!N, Matching!All, Lines, Nobody, Matching!Nobody
<1>4. PICK i \in Lines : i = current
  BY <1>1, <1>2, <1>3 DEF Transfers
<1>5. /\ free' = IF x[i] = Nobody THEN Append(free, i) ELSE free
      /\ v' = IF x[i] # Nobody /\ Matching!Unique(i)
              THEN [v EXCEPT ![x[i]] = @ - Matching!Reduced(i, Matching!Best(Lines \ {x[i]}, i))]
              ELSE v
      /\ IF i + 1 < Matching!N
         THEN current' = i + 1 /\ step' = "transfer"
         ELSE current' = 0 /\ step' = IF free' = <<>> THEN "done" ELSE "reduce"
  BY <1>1, <1>4 DEF Matching!Transfer, Lines, Nobody
\* The column of the row in turn becomes dearer for the others, and for the row no
\* dearer than its second best.
<1>6. PICK w \in [Lines -> Int] :
        /\ v' = w
        /\ \A k \in Lines : k # x[i] => w[k] = v[k]
        /\ x[i] # Nobody =>
             /\ w[x[i]] <= v[x[i]]
             /\ \A k \in Lines : cost[i][x[i]] - w[x[i]] <= cost[i][k] - w[k]
  <2>1. CASE x[i] # Nobody /\ Matching!Unique(i)
    <3>1. PICK c \in Lines : c = x[i]
      BY <1>2, <2>1
    <3>2. Lines \ {c} # {}
      <4>1. 0 \in Lines /\ 1 \in Lines
        BY <1>3
      <4> QED BY ONLY <4>1
    <3>3. PICK b \in Lines \ {c} : b = Matching!Best(Lines \ {c}, i)
      BY <1>1, <3>2, BestIs
    <3>4. \A k \in Lines \ {c} : Matching!Reduced(i, b) <= Matching!Reduced(i, k)
      BY <1>1, <3>2, <3>3, BestIs
    <3>5. PICK a \in Int : a = Matching!Reduced(i, b) /\ a >= 0
      BY <1>1, <1>2 DEF Transfers
    <3>6. v' = [v EXCEPT ![c] = @ - a]
      BY <1>5, <2>1, <3>1, <3>3, <3>5
    <3>7. PICK w \in [Lines -> Int] : w = [v EXCEPT ![c] = @ - a]
      <4>1. v[c] - a \in Int
        BY <1>2, <3>5
      <4>2. [v EXCEPT ![c] = @ - a] \in [Lines -> Int]
        BY <1>2, <4>1
      <4> QED BY <4>2
    <3>8. w[c] = v[c] - a /\ (\A k \in Lines : k # c => w[k] = v[k]) /\ v[c] \in Int
      BY <1>2, <3>7
    <3>9. cost[i][c] - v[c] = 0 /\ cost[i][c] \in Int
      <4>1. i >= current
        BY <1>3, <1>4
      <4>2. Matching!Reduced(i, x[i]) = 0
        BY <1>1, <2>1, <4>1 DEF Transfers
      <4> QED BY <1>2, <3>1, <4>2
    <3>10. cost[i][c] - w[c] = a
      BY <3>5, <3>8, <3>9
    <3>11. ASSUME NEW k \in Lines PROVE cost[i][c] - w[c] <= cost[i][k] - w[k]
      <4>1. CASE k = c
        BY <3>5, <3>10, <4>1
      <4>2. CASE k # c
        <5>1. cost[i][k] - w[k] = Matching!Reduced(i, k)
          BY <1>2, <3>8, <4>2
        <5> QED BY <3>4, <3>5, <3>10, <4>2, <5>1
      <4> QED BY <4>1, <4>2
    <3> QED BY <3>1, <3>5, <3>6, <3>7, <3>8, <3>11
  <2>2. CASE ~(x[i] # Nobody /\ Matching!Unique(i))
    <3>1. v' = v
      BY <1>5, <2>2
    <3>2. ASSUME x[i] # Nobody, NEW k \in Lines
          PROVE  cost[i][x[i]] - v[x[i]] <= cost[i][k] - v[k]
      <4>1. x[i] \in Lines
        BY <1>2, <3>2
      <4>2. Matching!Reduced(i, x[i]) = 0 /\ Matching!Reduced(i, k) >= 0
        BY <1>1, <1>2, <1>3, <1>4, <3>2 DEF Transfers
      <4> QED BY <1>2, <4>1, <4>2
    <3>3. x[i] # Nobody => v[x[i]] \in Int
      BY <1>2
    <3>4. v \in [Lines -> Int] /\ (x[i] # Nobody => v[x[i]] <= v[x[i]])
      BY <1>2, <3>3
    <3> QED BY ONLY <3>1, <3>2, <3>4
  <2> QED BY <2>1, <2>2
<1>7. ASSUME NEW l \in Lines PROVE w[l] <= v[l] /\ w[l] \in Int /\ v[l] \in Int
  <2>1. w[l] \in Int /\ v[l] \in Int
    BY <1>2
  <2>2. CASE l # x[i]
    BY <1>6, <2>1, <2>2
  <2>3. CASE l = x[i]
    BY <1>3, <1>6, <2>1, <2>3
  <2> QED BY <2>1, <2>2, <2>3
<1>8. ASSUME NEW k \in Lines, NEW l \in Lines
      PROVE  cost[k][l] - w[l] \in Int /\ Matching!Reduced(k, l) <= cost[k][l] - w[l]
  <2>1. PICK a \in Int, b \in Int, c \in Int : a = cost[k][l] /\ b = w[l] /\ c = v[l]
    BY <1>2, <1>7
  <2>2. Matching!Reduced(k, l) = a - c /\ b <= c
    BY <1>2, <1>7, <2>1
  <2> QED BY <2>1, <2>2
<1>9. Content'
  <2>1. ASSUME NEW j \in Lines, y[j] # Nobody, NEW k \in Lines
        PROVE  x[y[j]] = j /\ cost[y[j]][j] - w[j] <= cost[y[j]][k] - w[k]
    <3>1. PICK o \in Lines : o = y[j]
      BY <1>2, <2>1
    <3>2. x[o] = j /\ Matching!Reduced(o, j) <= Matching!Reduced(o, k)
      BY <1>1, <2>1, <3>1 DEF Content
    <3>3. CASE o = i
      <4>1. x[i] = j /\ x[i] # Nobody
        BY <1>3, <3>2, <3>3
      <4> QED BY <1>6, <3>1, <3>3, <4>1
    <3>4. CASE o # i
      <4>1. j # x[i]
        BY <1>1, <1>3, <3>1, <3>4 DEF Transfers
      <4>2. cost[o][j] - w[j] = Matching!Reduced(o, j)
        BY <1>2, <1>6, <4>1
      <4>3. PICK a \in Int, b \in Int, c \in Int :
              /\ a = Matching!Reduced(o, j) /\ b = Matching!Reduced(o, k)
              /\ c = cost[o][k] - w[k]
        BY <1>2, <1>8
      <4>4. a <= b /\ b <= c
        BY <1>8, <3>2, <4>3
      <4>5. a <= c
        BY <4>3, <4>4
      <4> QED BY <3>1, <3>2, <4>2, <4>3, <4>5
    <3> QED BY <3>3, <3>4
  <2>2. x' = x /\ y' = y /\ v' = w /\ UNCHANGED <<rows, cols, cost>>
    BY <1>1, <1>6
  <2> QED BY <2>1, <2>2, ContentAfter
<1>10. /\ free' \in Seq(Lines)
       /\ {free'[k] : k \in DOMAIN free'} = {k \in Lines : k < i + 1 /\ x[k] = Nobody}
       /\ \A k, l \in DOMAIN free' : free'[k] = free'[l] => k = l
  <2>1. /\ {free[k] : k \in DOMAIN free} = {k \in Lines : k < i /\ x[k] = Nobody}
        /\ \A k, l \in DOMAIN free : free[k] = free[l] => k = l
        /\ DOMAIN free = 1..Len(free)
    BY <1>1, <1>2, <1>4 DEF Transfers
  <2>2. \A k \in Lines : k < i + 1 <=> k < i \/ k = i
    BY ONLY <1>3, i \in Lines
  <2>3. CASE x[i] # Nobody
    <3>1. free' = free
      BY <1>5, <2>3
    <3>2. {k \in Lines : k < i + 1 /\ x[k] = Nobody} = {k \in Lines : k < i /\ x[k] = Nobody}
      BY <2>2, <2>3
    <3>3. PICK q \in Seq(Lines) : q = free
      BY <1>2
    <3> QED BY <2>1, <3>1, <3>2, <3>3
  <2>4. CASE x[i] = Nobody
    <3>1. PICK q : q = free' /\ q = Append(free, i)
      BY <1>5, <2>4
    <3>2. /\ q \in Seq(Lines) /\ DOMAIN q = 1..(Len(free) + 1)
          /\ \A k \in 1..Len(free) : q[k] = free[k]
          /\ q[Len(free) + 1] = i
      BY <1>2, <3>1, AppendIs
    <3>3. \A k \in DOMAIN q : k \in DOMAIN free \/ k = Len(free) + 1
      BY <1>2, <2>1, <3>2
    <3>4. \A k \in DOMAIN free : k \in DOMAIN q /\ q[k] = free[k]
      BY <1>2, <2>1, <3>2
    <3>5. Len(free) + 1 \in DOMAIN q
      BY <1>2, <3>2
    <3>6. \A k \in DOMAIN free : free[k] # i
      <4>1. ~(i < i)
        BY <1>3
      <4> QED BY <2>1, <4>1
    <3>7. {q[k] : k \in DOMAIN q} = {free[k] : k \in DOMAIN free} \cup {i}
      BY <3>2, <3>3, <3>4, <3>5
    <3>8. {q[k] : k \in DOMAIN q} = {k \in Lines : k < i + 1 /\ x[k] = Nobody}
      BY <2>1, <2>2, <2>4, <3>7
    <3>9. \A k, l \in DOMAIN q : q[k] = q[l] => k = l
      BY <2>1, <3>2, <3>3, <3>4, <3>6
    <3> QED BY <3>1, <3>2, <3>8, <3>9
  <2> QED BY <2>3, <2>4
<1>11. MatchTypes'
  <2>1. /\ current' \in Nat /\ step' \in {"transfer", "reduce", "path", "find", "done"}
    BY <1>3, <1>5
  <2>2. v' \in [Lines -> Int] /\ free' \in Seq(Lines)
    BY <1>6, <1>10
  <2>3. /\ rows \in Nat \ {0} /\ cols \in Nat \ {0} /\ cost \in [Lines -> [Lines -> Int]]
        /\ kept \in Seq(Lines) /\ reduced \in Nat
    BY <1>1 DEF MatchTypes
  <2>4. /\ rows' \in Nat \ {0} /\ cols' \in Nat \ {0} /\ cost' \in [Lines -> [Lines -> Int]]
        /\ kept' \in Seq(Lines) /\ reduced' \in Nat
    BY ONLY <1>1, <2>3
  <2>5. x' \in [Lines -> Lines \cup {Nobody}] /\ y' \in [Lines -> Lines \cup {Nobody}]
    BY ONLY <1>1, <1>2
  <2>6. Lines' = Lines /\ Nobody' = Nobody
    BY <1>3
  <2> QED BY ONLY <2>1, <2>2, <2>4, <2>5, <2>6 DEF MatchTypes
<1>12. Extended'
  BY <1>1, ExtendedStays
<1>13. CASE i + 1 < Matching!N
  <2>1. current' = i + 1 /\ step' = "transfer" /\ current' < Matching!N'
    BY <1>3, <1>5, <1>13
  <2>2. ASSUME NEW k \in Lines, NEW l \in Lines PROVE cost[k][l] - w[l] >= 0
    <3>1. PICK a \in Int, b \in Int : a = Matching!Reduced(k, l) /\ b = cost[k][l] - w[l]
      BY <1>2, <1>8
    <3>2. a >= 0 /\ a <= b
      BY <1>1, <1>8, <3>1 DEF Transfers
    <3> QED BY <3>1, <3>2
  <2>3. ASSUME NEW k \in Lines, k >= i + 1, x[k] # Nobody
        PROVE  cost[k][x[k]] - w[x[k]] = 0
    <3>1. k >= i /\ k # i
      BY ONLY <1>3, <2>3, i \in Lines, k \in Lines
    <3>2. x[k] \in Lines /\ x[k] # x[i]
      BY <1>1, <1>2, <2>3, <3>1 DEF Transfers
    <3>3. w[x[k]] = v[x[k]] /\ Matching!Reduced(k, x[k]) = 0
      BY <1>1, <1>4, <1>6, <2>3, <3>1, <3>2 DEF Transfers
    <3> QED BY <1>2, <3>2, <3>3
  <2>4. /\ \A k, l \in Lines : Matching!Reduced(k, l)' >= 0
        /\ \A k \in Lines : k >= current' /\ x'[k] # Nobody => Matching!Reduced(k, x[k])' = 0
    BY <1>1, <1>6, <2>1, <2>2, <2>3 DEF Matching!Reduced
  <2>5. \A k \in Lines : x[k] # Nobody => y[x[k]] = k
    BY <1>1 DEF Transfers
  <2>6. /\ kept' = <<>>
    BY <1>1 DEF Transfers
  <2>7. \A k \in Lines : k >= current' /\ x'[k] # Nobody' => (Matching!Reduced(k, x[k]) = 0)'
    BY <1>1, <1>3, <2>4
  <2>8. Transfers'
    BY <1>1, <1>3, <1>10, <2>1, <2>4, <2>5, <2>6, <2>7 DEF Transfers
  <2> QED BY <1>9, <1>11, <1>12, <2>1, <2>8 DEF MatchInv
<1>14. CASE ~(i + 1 < Matching!N)
  <2>1. /\ current' = 0 /\ step' = IF free' = <<>> THEN "done" ELSE "reduce"
        /\ kept' = <<>>
    BY <1>1, <1>5, <1>14 DEF Transfers
  <2>2. {free'[k] : k \in DOMAIN free'} = {k \in Lines : x[k] = Nobody}
    <3>1. \A k \in Lines : k < i + 1
      BY ONLY <1>3, <1>14, i \in Lines
    <3> QED BY <1>10, <3>1
  <2>3. \A k \in Lines : Holds(k)' <=> x[k] # Nobody
    <3>1. \A k \in Lines : Holds(k) <=> x[k] # Nobody
      BY <1>1, TransferHolders
    <3> QED BY <1>1, <1>3, <3>1 DEF Holds
  <2>4. PICK q \in Seq(Lines) : q = free'
    BY <1>10
  <2>5. Turns' = DOMAIN q /\ DOMAIN kept' = {} /\ Len(q) \in Nat
    BY <2>1, <2>4 DEF Turns
  <2>6. Queued'
    <3>1. Waiting' = {k \in Lines : ~Holds(k)'}
      BY <2>2, <2>3, <2>4, <2>5 DEF Waiting
    <3>2. /\ \A k, l \in Turns' : free'[k] = free'[l] => k = l
          /\ \A k, l \in DOMAIN kept' : kept'[k] = kept'[l] => k = l
          /\ \A k \in Turns', l \in DOMAIN kept' : free'[k] # kept'[l]
      BY <1>10, <2>4, <2>5
    <3>3. /\ step' = "reduce" => current' <= Len(free')
          /\ step' \notin {"path", "find"}
          /\ step' = "done" => free' = <<>> /\ kept' = <<>>
      BY <2>1, <2>4, <2>5
    <3> QED BY <1>3, <3>1, <3>2, <3>3 DEF Queued
  <2> QED BY <1>9, <1>11, <1>12, <2>1, <2>6 DEF MatchInv
<1> QED BY <1>13, <1>14

\* The bid of a row: the column it takes is, at its new price, the cheapest for it, and
\* no other column has become cheaper or dearer.
LEMMA BidIs ==
    ASSUME MatchTypes, Matching!Reduce, NEW i \in Lines, i = free[current + 1]
    PROVE  \E j \in Lines, w \in [Lines -> Int] :
             /\ x' = [x EXCEPT ![i] = j] /\ y' = [y EXCEPT ![j] = i] /\ v' = w
             /\ \A k \in Lines : (k # j => w[k] = v[k]) /\ w[k] <= v[k]
             /\ \A k \in Lines : cost[i][j] - w[j] <= cost[i][k] - w[k]
             /\ \/ /\ y[j] # Nobody /\ current' = current /\ kept' = kept
                   /\ free' = [free EXCEPT ![current + 1] = y[j]]
                \/ /\ current' = current + 1 /\ free' = free
                   /\ kept' = IF y[j] = Nobody THEN kept ELSE Append(kept, y[j])
<1>1. /\ v \in [Lines -> Int] /\ y \in [Lines -> Lines \cup {Nobody}]
      /\ \A k, l \in Lines : cost[k][l] \in Int /\ Matching!Reduced(k, l) \in Int
      /\ \A k, l \in Lines : Matching!Reduced(k, l) = cost[k][l] - v[l]
  BY MatchAre
<1>2. PICK j1 \in Lines :
        /\ j1 = Matching!Best(Lines, i)
        /\ \A k \in Lines : Matching!Reduced(i, j1) <= Matching!Reduced(i, k)
  BY LinesAre, BestIs
<1>3. PICK j2 \in Lines \ {j1} :
        /\ j2 = Matching!Best(Lines \ {j1}, i)
        /\ \A k \in Lines \ {j1} : Matching!Reduced(i, j2) <= Matching!Reduced(i, k)
  <2>1. 0 \in Lines /\ 1 \in Lines
    BY LinesAre
  <2>2. Lines \ {j1} # {}
    BY <2>1
  <2>3. Matching!Best(Lines \ {j1}, i) \in Lines \ {j1}
    BY <2>2, BestIs
  <2> QED BY <2>2, <2>3, BestIs
<1>4. PICK e \in Int : e = Matching!Reduced(i, j2) - Matching!Reduced(i, j1) /\ e >= 0
  <2>1. /\ Matching!Reduced(i, j1) \in Int /\ Matching!Reduced(i, j2) \in Int
        /\ Matching!Reduced(i, j1) <= Matching!Reduced(i, j2)
    BY <1>1, <1>2
  <2>2. /\ Matching!Reduced(i, j2) - Matching!Reduced(i, j1) \in Int
        /\ Matching!Reduced(i, j2) - Matching!Reduced(i, j1) >= 0
    BY <2>1
  <2> QED BY <2>2
<1> DEFINE turns == reduced + 1 < (current + 1) * Matching!N
<1>5. PICK j \in {j1, j2} : j = IF turns /\ ~(e > 0) /\ y[j1] # Nobody THEN j2 ELSE j1
  OBVIOUS
<1>6. /\ v' = IF turns /\ e > 0 THEN [v EXCEPT ![j1] = @ - e] ELSE v
      /\ IF y[j] # Nobody /\ turns /\ e > 0
         THEN /\ current' = current /\ free' = [free EXCEPT ![current + 1] = y[j]]
              /\ kept' = kept
         ELSE /\ current' = current + 1 /\ free' = free
              /\ kept' = IF y[j] = Nobody THEN kept ELSE Append(kept, y[j])
      /\ x' = [x EXCEPT ![i] = j] /\ y' = [y EXCEPT ![j] = i]
  BY <1>2, <1>3, <1>4, <1>5 DEF Matching!Reduce, Lines, Nobody
<1> HIDE DEF turns
<1>7. PICK w \in [Lines -> Int] :
        /\ v' = w
        /\ \A k \in Lines : (k # j => w[k] = v[k]) /\ w[k] <= v[k]
        /\ \A k \in Lines : cost[i][j] - w[j] <= cost[i][k] - w[k]
  <2>1. CASE turns /\ e > 0
    <3>1. j = j1
      BY <1>5, <2>1
    <3>2. PICK w \in [Lines -> Int] : w = [v EXCEPT ![j] = @ - e]
      <4>1. v[j] - e \in Int
        BY <1>1
      <4>2. [v EXCEPT ![j] = @ - e] \in [Lines -> Int]
        BY <1>1, <4>1
      <4> QED BY <4>2
    <3>3. v' = w
      BY <1>6, <2>1, <3>1, <3>2
    <3>4. w[j] = v[j] - e /\ v[j] \in Int /\ \A k \in Lines : k # j => w[k] = v[k]
      BY <1>1, <3>2
    <3>5. \A k \in Lines : w[k] <= v[k]
      <4> SUFFICES ASSUME NEW k \in Lines PROVE w[k] <= v[k]
        OBVIOUS
      <4>1. v[k] \in Int
        BY <1>1
      <4>2. CASE k = j
        BY <1>4, <3>4, <4>1, <4>2
      <4>3. CASE k # j
        BY <3>4, <4>1, <4>3
      <4> QED BY <4>2, <4>3
    <3>6. ASSUME NEW k \in Lines PROVE cost[i][j] - w[j] <= cost[i][k] - w[k]
      <4>1. PICK a \in Int, b \in Int, c \in Int :
              /\ a = cost[i][j] /\ b = v[j] /\ c = Matching!Reduced(i, j2)
        BY <1>1
      <4>2. a - (b - e) = c /\ w[j] = b - e
        BY <1>1, <1>4, <3>1, <3>4, <4>1
      <4>3. CASE k = j
        BY <4>1, <4>2, <4>3
      <4>4. CASE k # j
        <5>1. c <= Matching!Reduced(i, k)
          BY ONLY k \in Lines, <1>3, <3>1, <4>1, <4>4
        <5>2. Matching!Reduced(i, k) = cost[i][k] - v[k] /\ w[k] = v[k]
          BY <1>1, <3>4, <4>4
        <5>3. PICK f \in Int, g \in Int : f = cost[i][k] /\ g = v[k]
          BY <1>1
        <5> QED BY ONLY <4>1, <4>2, <5>1, <5>2, <5>3
      <4> QED BY <4>3, <4>4
    <3> QED BY <3>3, <3>4, <3>5, <3>6
  <2>2. CASE ~(turns /\ e > 0)
    <3>1. v' = v /\ \A k \in Lines : v[k] <= v[k]
      BY <1>1, <1>6, <2>2
    <3>2. Matching!Reduced(i, j) = Matching!Reduced(i, j1)
      <4>1. CASE j = j1
        BY <4>1
      <4>2. CASE j # j1
        <5>1. j = j2 /\ ~(e > 0)
          BY <1>5, <4>2
        <5>2. PICK a \in Int, b \in Int :
                a = Matching!Reduced(i, j1) /\ b = Matching!Reduced(i, j2)
          BY <1>1
        <5>3. e = b - a /\ e = 0
          BY <1>4, <5>1, <5>2
        <5> QED BY <5>1, <5>2, <5>3
      <4> QED BY <4>1, <4>2
    <3>3. \A k \in Lines : cost[i][j] - v[j] <= cost[i][k] - v[k]
      BY <1>1, <1>2, <3>2
    <3> QED BY <1>1, <3>1, <3>3
  <2> QED BY <2>1, <2>2
<1>8. \/ /\ y[j] # Nobody /\ current' = current /\ kept' = kept
         /\ free' = [free EXCEPT ![current + 1] = y[j]]
      \/ /\ current' = current + 1 /\ free' = free
         /\ kept' = IF y[j] = Nobody THEN kept ELSE Append(kept, y[j])
  BY <1>6
<1> QED BY <1>6, <1>7, <1>8

LEMMA MatchReduces == ASSUME MatchInv, Matching!Reduce PROVE MatchInv'
<1>1. /\ MatchTypes /\ Extended /\ Content /\ Queued /\ step = "reduce" /\ step' = "reduce"
      /\ UNCHANGED <<rows, cols, cost>> /\ current < Len(free) /\ reduced' = reduced + 1
  BY DEF MatchInv, Matching!Reduce, Matching!input
<1>2. /\ x \in [Lines -> Lines \cup {Nobody}] /\ y \in [Lines -> Lines \cup {Nobody}]
      /\ v \in [Lines -> Int] /\ free \in Seq(Lines) /\ kept \in Seq(Lines)
      /\ Len(free) \in Nat /\ Len(kept) \in Nat /\ current \in Nat /\ reduced \in Nat
      /\ \A k, l \in Lines : cost[k][l] \in Int /\ Matching!Reduced(k, l) \in Int
      /\ \A k, l \in Lines : Matching!Reduced(k, l) = cost[k][l] - v[l]
  BY <1>1, MatchAre
<1>3. /\ Nobody \notin Lines /\ Lines' = Lines /\ Nobody' = Nobody
  BY <1>1, LinesAre DEF Matching!N, Matching!All, Lines, Nobody, Matching!Nobody
<1>4. /\ Waiting = {k \in Lines : ~Holds(k)}
      /\ \A k, l \in Turns : free[k] = free[l] => k = l
      /\ \A k, l \in DOMAIN kept : kept[k] = kept[l] => k = l
      /\ \A k \in Turns, l \in DOMAIN kept : free[k] # kept[l]
  BY <1>1 DEF Queued
<1>5. /\ Turns \subseteq DOMAIN free /\ current + 1 \in Turns /\ DOMAIN kept = 1..Len(kept)
      /\ Turns = (current + 1)..Len(free) /\ DOMAIN free = 1..Len(free)
  <2>1. Turns = (current + 1)..Len(free)
    BY DEF Turns
  <2>2. DOMAIN kept = 1..Len(kept) /\ DOMAIN free = 1..Len(free)
    BY <1>2
  <2>3. PICK a \in Nat, b \in Nat : a = current /\ b = Len(free) /\ a < b
    BY <1>1, <1>2
  <2> QED BY ONLY <2>1, <2>2, <2>3
<1>6. PICK i \in Lines : i = free[current + 1]
  BY <1>2, <1>5
<1>7. ~Holds(i)
  BY <1>4, <1>5, <1>6 DEF Waiting
<1>8. PICK j \in Lines, w \in [Lines -> Int] :
        /\ x' = [x EXCEPT ![i] = j] /\ y' = [y EXCEPT ![j] = i] /\ v' = w
        /\ \A k \in Lines : (k # j => w[k] = v[k]) /\ w[k] <= v[k]
        /\ \A k \in Lines : cost[i][j] - w[j] <= cost[i][k] - w[k]
        /\ \/ /\ y[j] # Nobody /\ current' = current /\ kept' = kept
              /\ free' = [free EXCEPT ![current + 1] = y[j]]
           \/ /\ current' = current + 1 /\ free' = free
              /\ kept' = IF y[j] = Nobody THEN kept ELSE Append(kept, y[j])
  BY <1>1, <1>6, BidIs
<1>9. PICK nx, ny : nx = x' /\ ny = y'
  OBVIOUS
<1>10. /\ nx \in [Lines -> Lines \cup {Nobody}] /\ ny \in [Lines -> Lines \cup {Nobody}]
       /\ nx[i] = j /\ ny[j] = i
       /\ \A k \in Lines : (k # i => nx[k] = x[k]) /\ (k # j => ny[k] = y[k])
  BY <1>2, <1>8, <1>9
<1>11. Content'
  <2>1. ASSUME NEW q \in Lines, ny[q] # Nobody, NEW k \in Lines
        PROVE  nx[ny[q]] = q /\ cost[ny[q]][q] - w[q] <= cost[ny[q]][k] - w[k]
    <3>1. CASE q = j
      BY <1>8, <1>10, <3>1
    <3>2. CASE q # j
      <4>1. PICK o \in Lines : o = y[q] /\ o = ny[q]
        BY <1>10, <1>2, <2>1, <3>2
      <4>2. o # i
        BY <1>7, <4>1 DEF Holds
      <4>3. x[o] = q /\ Matching!Reduced(o, q) <= Matching!Reduced(o, k)
        BY <1>1, <1>3, <4>1 DEF Content
      <4>4. PICK a \in Int, b \in Int, c \in Int, f \in Int, g \in Int :
              /\ a = cost[o][q] /\ b = v[q] /\ c = cost[o][k] /\ f = v[k] /\ g = w[k]
        BY <1>2
      <4>5. a - b <= c - f /\ w[q] = b /\ g <= f
        BY <1>2, <1>8, <3>2, <4>3, <4>4
      <4>6. a - b <= c - g
        BY <4>4, <4>5
      <4> QED BY <1>10, <4>1, <4>2, <4>3, <4>4, <4>5, <4>6
    <3> QED BY <3>1, <3>2
  <2>2. x' = nx /\ y' = ny /\ v' = w /\ UNCHANGED <<rows, cols, cost>>
    BY <1>1, <1>8, <1>9
  <2> QED BY ONLY <2>1, <2>2, ContentAfter
\* The row has a column now, the one it drove out has none.
<1>12. ASSUME NEW k \in Lines PROVE Holds(k)' <=> k = i \/ (Holds(k) /\ k # y[j])
  <2>1. Holds(k)' <=> \E q \in Lines : ny[q] = k
    BY <1>3, <1>9 DEF Holds
  <2>2. ASSUME NEW q \in Lines, ny[q] = k PROVE k = i \/ (Holds(k) /\ k # y[j])
    <3>1. CASE q = j
      BY <1>10, <2>2, <3>1
    <3>2. CASE q # j
      <4>1. y[q] = k /\ Holds(k)
        BY <1>10, <2>2, <3>2 DEF Holds
      <4>2. x[k] = q
        BY <1>1, <1>3, <4>1 DEF Content
      <4>3. k # y[j]
        BY <1>1, <1>3, <3>2, <4>2 DEF Content
      <4> QED BY <4>1, <4>3
    <3> QED BY <3>1, <3>2
  <2>3. ASSUME k = i PROVE \E q \in Lines : ny[q] = k
    BY <1>10, <2>3
  <2>4. ASSUME Holds(k), k # y[j] PROVE \E q \in Lines : ny[q] = k
    <3>1. PICK q \in Lines : y[q] = k
      BY <2>4 DEF Holds
    <3>2. q # j
      BY <2>4, <3>1
    <3> QED BY <1>10, <3>1, <3>2
  <2> QED BY <2>1, <2>2, <2>3, <2>4
<1>13. Extended'
  BY <1>1, ExtendedStays
<1>14. ASSUME y[j] # Nobody
       PROVE  /\ y[j] \in Lines /\ y[j] # i
              /\ \A k \in Turns : free[k] # y[j]
              /\ \A k \in DOMAIN kept : kept[k] # y[j]
  <2>1. y[j] \in Lines /\ Holds(y[j])
    BY <1>2, <1>14 DEF Holds
  <2>2. y[j] \notin Waiting
    BY <1>4, <2>1
  <2> QED BY <1>7, <2>1, <2>2 DEF Waiting
<1>15. CASE /\ y[j] # Nobody /\ current' = current /\ kept' = kept
            /\ free' = [free EXCEPT ![current + 1] = y[j]]
  <2>1. PICK q : q = free' /\ q = [free EXCEPT ![current + 1] = y[j]]
    BY <1>15
  <2>2. /\ q \in Seq(Lines) /\ Len(q) = Len(free) /\ q[current + 1] = y[j]
        /\ \A k \in Turns : k # current + 1 => q[k] = free[k]
    BY <1>2, <1>5, <1>14, <1>15, <2>1
  <2>3. Turns' = Turns
    BY <1>15, <2>1, <2>2 DEF Turns
  <2>4. /\ \A k, l \in Turns : q[k] = q[l] => k = l
        /\ \A k \in Turns, l \in DOMAIN kept : q[k] # kept[l]
    BY <1>4, <1>14, <1>15, <2>2
  <2>5. {q[k] : k \in Turns} \cup {kept[k] : k \in DOMAIN kept} = {k \in Lines : ~Holds(k)'}
    <3> DEFINE old == {free[k] : k \in Turns} \cup {kept[k] : k \in DOMAIN kept}
    <3>1. old = {k \in Lines : ~Holds(k)}
      BY <1>4 DEF Waiting
    <3>2. \A k \in Lines : ~Holds(k)' <=> (k \in old /\ k # i) \/ k = y[j]
      BY <1>12, <1>14, <1>15, <3>1
    <3>3. \A k \in Turns : k # current + 1 => free[k] # i
      BY <1>4, <1>5, <1>6
    <3>4. \A k \in DOMAIN kept : kept[k] # i
      BY <1>4, <1>5, <1>6
    <3>5. ASSUME NEW k PROVE k \in {q[l] : l \in Turns} <=>
                 k = y[j] \/ (k \in {free[l] : l \in Turns} /\ k # i)
      BY <1>5, <1>6, <2>2, <3>3
    <3>6. old \subseteq Lines
      BY <3>1
    <3>7. ASSUME NEW k PROVE k \in {q[l] : l \in Turns} \cup {kept[l] : l \in DOMAIN kept}
                             <=> (k \in old /\ k # i) \/ k = y[j]
      BY <3>4, <3>5
    <3> HIDE DEF old
    <3> QED BY <1>14, <1>15, <3>2, <3>6, <3>7
  <2>6. Waiting' = {q[k] : k \in Turns} \cup {kept[k] : k \in DOMAIN kept}
    BY <1>15, <2>1, <2>3 DEF Waiting
  <2>7. Queued'
    <3>1. Waiting' = {k \in Lines' : ~Holds(k)'}
      BY <1>3, <2>5, <2>6
    <3>2. /\ \A k, l \in Turns' : free'[k] = free'[l] => k = l
          /\ \A k, l \in DOMAIN kept' : kept'[k] = kept'[l] => k = l
          /\ \A k \in Turns', l \in DOMAIN kept' : free'[k] # kept'[l]
      BY <1>4, <1>15, <2>1, <2>3, <2>4
    <3>3. current' <= Len(free')
      BY <1>1, <1>2, <1>15, <2>1, <2>2
    <3> QED BY <1>1, <3>1, <3>2, <3>3 DEF Queued
  <2>8. MatchTypes'
    <3>1. x' \in [Lines -> Lines \cup {Nobody}] /\ y' \in [Lines -> Lines \cup {Nobody}]
          /\ v' \in [Lines -> Int]
      BY <1>8, <1>9, <1>10
    <3>2. free' \in Seq(Lines) /\ kept' \in Seq(Lines) /\ current' \in Nat /\ reduced' \in Nat
      BY <1>1, <1>2, <1>15, <2>1, <2>2
    <3> QED BY <1>1, <1>3, <3>1, <3>2 DEF MatchTypes
  <2> QED BY <1>1, <1>11, <1>13, <2>7, <2>8 DEF MatchInv
<1>16. CASE /\ current' = current + 1 /\ free' = free
            /\ kept' = IF y[j] = Nobody THEN kept ELSE Append(kept, y[j])
  <2>1. PICK q : q = kept' /\ q = IF y[j] = Nobody THEN kept ELSE Append(kept, y[j])
    BY <1>16
  <2>2. /\ q \in Seq(Lines) /\ (\A k \in DOMAIN kept : k \in DOMAIN q /\ q[k] = kept[k])
        /\ y[j] = Nobody => q = kept
        /\ y[j] # Nobody => /\ DOMAIN q = DOMAIN kept \cup {Len(kept) + 1}
                            /\ q[Len(kept) + 1] = y[j]
    <3>1. CASE y[j] = Nobody
      BY <1>2, <2>1, <3>1
    <3>2. CASE y[j] # Nobody
      <4>1. /\ q \in Seq(Lines) /\ DOMAIN q = 1..(Len(kept) + 1)
            /\ \A k \in 1..Len(kept) : q[k] = kept[k]
            /\ q[Len(kept) + 1] = y[j]
        BY <1>2, <1>14, <2>1, <3>2, AppendIs
      <4>2. 1..(Len(kept) + 1) = (1..Len(kept)) \cup {Len(kept) + 1}
        BY <1>2
      <4> QED BY <1>5, <3>2, <4>1, <4>2
    <3> QED BY <3>1, <3>2
  <2>3. Turns' = Turns \ {current + 1}
    <3>1. PICK a \in Int, b \in Int : a = current + 1 /\ b = Len(free)
      BY <1>2
    <3>2. Turns' = (a + 1)..b /\ Turns = a..b
      BY <1>16, <3>1 DEF Turns
    <3>3. (a + 1)..b = (a..b) \ {a}
      OBVIOUS
    <3> QED BY <3>1, <3>2, <3>3
  <2>4. /\ \A k, l \in DOMAIN q : q[k] = q[l] => k = l
        /\ \A k \in Turns', l \in DOMAIN q : free[k] # q[l]
    <3>1. CASE y[j] = Nobody
      BY <1>4, <2>2, <2>3, <3>1
    <3>2. CASE y[j] # Nobody
      <4>1. /\ \A k \in Turns : free[k] # y[j]
            /\ \A k \in DOMAIN kept : kept[k] # y[j]
        BY <1>14, <3>2
      <4>2. \A k \in DOMAIN q : (k \in DOMAIN kept /\ q[k] = kept[k])
                               \/ (k = Len(kept) + 1 /\ q[k] = y[j])
        BY ONLY <2>2, <3>2
      <4>3. \A k, l \in DOMAIN q : q[k] = q[l] => k = l
        BY ONLY <1>4, <4>1, <4>2
      <4>4. \A k \in Turns', l \in DOMAIN q : free[k] # q[l]
        BY ONLY <1>4, <2>3, <4>1, <4>2
      <4> QED BY <4>3, <4>4
    <3> QED BY <3>1, <3>2
  <2>5. Waiting' = {k \in Lines : ~Holds(k)'}
    <3> DEFINE old == {free[k] : k \in Turns} \cup {kept[k] : k \in DOMAIN kept}
    <3>1. old = {k \in Lines : ~Holds(k)}
      BY <1>4 DEF Waiting
    <3>2. \A k \in Lines : ~Holds(k)' <=> (k \in old /\ k # i) \/ k = y[j]
      <4>1. y[j] # i
        BY <1>3, <1>14
      <4> QED BY <1>12, <3>1, <4>1
    <3>3. \A k : k \in {free[l] : l \in Turns'} <=> k \in {free[l] : l \in Turns} /\ k # i
      BY <1>4, <1>5, <1>6, <2>3
    <3>4. \A k \in DOMAIN kept : kept[k] # i
      BY <1>4, <1>5, <1>6
    <3>5. ASSUME NEW k PROVE k \in {q[l] : l \in DOMAIN q} <=>
                 k \in {kept[l] : l \in DOMAIN kept} \/ (y[j] # Nobody /\ k = y[j])
      <4>1. CASE y[j] = Nobody
        BY <2>2, <4>1
      <4>2. CASE y[j] # Nobody
        BY <2>2, <4>2
      <4> QED BY <4>1, <4>2
    <3>6. ASSUME NEW k PROVE k \in {free[l] : l \in Turns'} \cup {q[l] : l \in DOMAIN q}
                             <=> (k \in old /\ k # i) \/ (y[j] # Nobody /\ k = y[j])
      BY <3>3, <3>4, <3>5
    <3>7. Waiting' = {free[l] : l \in Turns'} \cup {q[l] : l \in DOMAIN q}
      BY <1>16, <2>1 DEF Waiting
    <3>8. old \subseteq Lines
      BY <3>1
    <3> HIDE DEF old
    <3> QED BY <1>3, <1>14, <3>2, <3>6, <3>7, <3>8
  <2>6. current' <= Len(free')
    BY <1>1, <1>2, <1>16
  <2>7. Queued'
    BY <1>1, <1>3, <1>16, <2>1, <2>3, <2>4, <2>5, <2>6 DEF Queued
  <2>8. MatchTypes'
    <3>1. x' \in [Lines -> Lines \cup {Nobody}] /\ y' \in [Lines -> Lines \cup {Nobody}]
          /\ v' \in [Lines -> Int]
      BY <1>8, <1>9, <1>10
    <3>2. free' \in Seq(Lines) /\ kept' \in Seq(Lines) /\ current' \in Nat /\ reduced' \in Nat
      <4>1. free' = free /\ current' = current + 1 /\ kept' = q
        BY <1>16, <2>1
      <4>2. free \in Seq(Lines) /\ current \in Nat /\ reduced \in Nat /\ q \in Seq(Lines)
        BY <1>2, <2>2
      <4> QED BY ONLY <1>1, <4>1, <4>2
    <3> QED BY <1>1, <1>3, <3>1, <3>2 DEF MatchTypes
  <2> QED BY <1>1, <1>11, <1>13, <2>7, <2>8 DEF MatchInv
<1> QED BY <1>8, <1>15, <1>16

LEMMA MatchEndsRound == ASSUME MatchInv, Matching!EndRound PROVE MatchInv'
<1>1. /\ MatchTypes /\ Extended /\ Content /\ Queued /\ step = "reduce" /\ current = Len(free)
      /\ UNCHANGED <<rows, cols, cost, x, y, v>>
      /\ free' = kept /\ kept' = <<>> /\ current' = 0 /\ reduced' = 0
      /\ step' = IF kept = <<>> THEN "done" ELSE IF round = 0 THEN "reduce" ELSE "path"
  BY DEF MatchInv, Matching!EndRound, Matching!input
<1>2. /\ Lines' = Lines /\ Nobody' = Nobody /\ \A k \in Lines : Holds(k)' <=> Holds(k)
  BY <1>1 DEF Matching!N, Matching!All, Lines, Nobody, Matching!Nobody, Holds
<1>3. PICK q \in Seq(Lines) : q = kept /\ Len(q) \in Nat /\ DOMAIN q = 1..Len(q)
  BY <1>1, MatchAre
<1>4. Turns = {} /\ Turns' = DOMAIN q /\ DOMAIN kept' = {}
  <2>1. Len(free) \in Nat
    BY <1>1, MatchAre
  <2>2. Turns = (Len(free) + 1)..Len(free) /\ Turns' = (0 + 1)..Len(q)
    BY <1>1, <1>3 DEF Turns
  <2> QED BY <1>1, <1>3, <2>1, <2>2
<1>5. MatchTypes'
  <2>1. <<>> \in Seq(Lines)
    OBVIOUS
  <2>2. /\ free' \in Seq(Lines) /\ kept' \in Seq(Lines) /\ current' \in Nat /\ reduced' \in Nat
        /\ step' \in {"transfer", "reduce", "path", "find", "done"}
    BY <1>1, <1>3, <2>1
  <2> QED BY <1>1, <1>2, <2>2 DEF MatchTypes
<1>6. Extended' /\ Content'
  BY <1>1, <1>2 DEF Extended, Content, Matching!Reduced
<1>7. Queued'
  <2>1. Waiting' = {k \in Lines' : ~Holds(k)'}
    <3>1. Waiting = {q[k] : k \in DOMAIN q} /\ Waiting' = {q[k] : k \in DOMAIN q}
      BY <1>1, <1>3, <1>4 DEF Waiting
    <3> QED BY <1>1, <1>2, <3>1 DEF Queued
  <2>2. /\ \A k, l \in Turns' : free'[k] = free'[l] => k = l
        /\ \A k, l \in DOMAIN kept' : kept'[k] = kept'[l] => k = l
        /\ \A k \in Turns', l \in DOMAIN kept' : free'[k] # kept'[l]
    BY <1>1, <1>3, <1>4 DEF Queued
  <2>3. /\ step' = "reduce" => current' <= Len(free')
        /\ step' \in {"path", "find"} => free' # <<>> /\ kept' = <<>> /\ current' = 0
        /\ step' = "done" => free' = <<>> /\ kept' = <<>>
    BY <1>1, <1>3
  <2> QED BY <2>1, <2>2, <2>3 DEF Queued
<1>8. step' \notin {"transfer", "find"}
  BY <1>1
<1> QED BY <1>5, <1>6, <1>7, <1>8 DEF MatchInv

\* The row that the next path begins with.
LEMMA RootIs ==
    ASSUME MatchTypes, Queued, step \in {"path", "find"}
    PROVE  /\ free[1] \in Lines /\ ~Holds(free[1]) /\ kept = <<>> /\ current = 0
           /\ Turns = 1..Len(free) /\ Len(free) \in Nat /\ Len(free) >= 1
<1>1. /\ free # <<>> /\ kept = <<>> /\ current = 0 /\ free \in Seq(Lines) /\ Len(free) \in Nat
      /\ Waiting = {k \in Lines : ~Holds(k)}
  BY MatchAre DEF Queued
<1>2. Len(free) >= 1 /\ Turns = 1..Len(free)
  BY <1>1 DEF Turns
<1>3. free[1] \in Waiting
  BY <1>2 DEF Waiting
<1> QED BY <1>1, <1>2, <1>3

\* What the search for a path leaves alone.
LEMMA SearchKeeps ==
    ASSUME MatchTypes, Extended, Content, Queued, step \in {"path", "find"}, step' = "find",
           UNCHANGED <<rows, cols, cost, x, y, v, free, current, reduced, kept>>
    PROVE  MatchTypes' /\ Extended' /\ Content' /\ Queued' /\ Lines' = Lines
<1>1. /\ Lines' = Lines /\ Nobody' = Nobody
  BY DEF Matching!N, Matching!All, Lines, Nobody, Matching!Nobody
<1>2. MatchTypes' /\ Extended' /\ Content'
  BY <1>1 DEF MatchTypes, Extended, Content, Matching!Reduced
<1>3. Turns' = Turns /\ Waiting' = Waiting /\ \A k \in Lines : Holds(k)' <=> Holds(k)
  BY <1>1 DEF Turns, Waiting, Holds
<1>4. Queued'
  BY <1>1, <1>3 DEF Queued
<1> QED BY <1>1, <1>2, <1>4

LEMMA MatchStartsPath == ASSUME MatchInv, Matching!StartPath PROVE MatchInv'
<1>1. /\ MatchTypes /\ Extended /\ Content /\ Queued /\ step = "path" /\ step' = "find"
      /\ UNCHANGED <<rows, cols, cost, x, y, v, free, current, reduced, kept>>
      /\ ready' = {} /\ scan' = {}
      /\ d' = [j \in Lines |-> Matching!Reduced(free[1], j)]
      /\ pred' = [j \in Lines |-> free[1]]
  BY DEF MatchInv, Matching!StartPath, Matching!input, Matching!carr, Lines
<1>2. MatchTypes' /\ Extended' /\ Content' /\ Queued' /\ Lines' = Lines
  BY <1>1, SearchKeeps
<1>3. free[1] \in Lines /\ \A k \in Lines : Matching!Reduced(free[1], k) \in Int
  BY <1>1, RootIs, MatchAre
<1>4. Reached'
  <2>1. /\ d' \in [Lines -> Int] /\ pred' \in [Lines -> Lines]
        /\ \A k \in Lines : pred'[k] = free[1] /\ d'[k] = Matching!Reduced(free[1], k)
        /\ \A k \in Lines : d'[k] <= Matching!Reduced(free[1], k)
    BY <1>1, <1>3
  <2>2. \A k \in Lines : Matching!Reduced(free[1], k)' = Matching!Reduced(free[1], k)
    BY <1>1 DEF Matching!Reduced
  <2>3. LeadsBack(pred)'
    BY <1>1, <1>2, <2>1 DEF LeadsBack
  <2> QED BY <1>1, <1>2, <2>1, <2>2, <2>3 DEF Reached
<1> QED BY <1>1, <1>2, <1>4 DEF MatchInv
-------------------------------------------------------------------------------
(* The assignment: a path                                                        *)

\* Where a path may run: from column e, over columns that have rows, to the free row.
Reachable(D, from, e) ==
    /\ D \subseteq Lines /\ e \in Lines \ D /\ y[e] = Nobody
    /\ from \in [Lines -> Lines] /\ LeadsBack(from)
    /\ \A j \in D : y[j] # Nobody
    /\ \A k \in D \cup {e} : from[k] = free[1] \/ \E j \in D : from[k] = y[j]

LEMMA WayIs ==
    ASSUME MatchTypes, Content, NEW D, NEW from, NEW e, Reachable(D, from, e)
    PROVE  LET T == Matching!Way(from, e) IN
           /\ T \subseteq D \cup {e} /\ e \in T
           /\ \A k \in T : from[k] = free[1] \/ x[from[k]] \in T
           /\ \A k \in T \ {e} : \E c \in T : from[c] # free[1] /\ x[from[c]] = k
<1> DEFINE T == Matching!Way(from, e)
           Back(C) == e \in C /\ \A k \in C : from[k] = free[1] \/ x[from[k]] \in C
<1>1. /\ D \subseteq Lines /\ e \in Lines \ D
      /\ \A k \in D \cup {e} : from[k] = free[1] \/ \E j \in D : from[k] = y[j]
      /\ \A j \in D : x[y[j]] = j
  BY DEF Reachable, Content
<1>2. T = {k \in Lines : \A C \in SUBSET Lines : Back(C) => k \in C}
  BY DEF Matching!Way, Matching!Leads, Lines
<1> HIDE DEF T
<1>3. Back(D \cup {e})
  BY <1>1
<1>4. T \subseteq D \cup {e} /\ e \in T /\ T \subseteq Lines
  <2>1. D \cup {e} \in SUBSET Lines
    BY ONLY <1>1
  <2>2. T \subseteq D \cup {e} /\ T \subseteq Lines
    BY ONLY <1>2, <1>3, <2>1
  <2>3. \A C \in SUBSET Lines : Back(C) => e \in C
    OBVIOUS
  <2> HIDE DEF Back
  <2>4. e \in T
    BY ONLY <1>1, <1>2, <2>3
  <2> QED BY <2>2, <2>4
<1>5. ASSUME NEW k \in T, from[k] # free[1] PROVE x[from[k]] \in T
  <2>1. x[from[k]] \in Lines
    BY <1>1, <1>4, <1>5
  <2>2. ASSUME NEW C \in SUBSET Lines, Back(C) PROVE x[from[k]] \in C
    <3>1. k \in C
      BY <1>2, <2>2
    <3> QED BY <1>5, <2>2, <3>1
  <2> QED BY <1>2, <2>1, <2>2
<1>6. ASSUME NEW k \in T \ {e} PROVE \E c \in T : from[c] # free[1] /\ x[from[c]] = k
  <2>1. ~Back(T \ {k})
    <3>1. T \ {k} \in SUBSET Lines /\ k \notin T \ {k}
      BY <1>4
    <3> HIDE DEF Back
    <3> QED BY <1>2, <1>6, <3>1
  <2>2. PICK c \in T \ {k} : from[c] # free[1] /\ x[from[c]] \notin T \ {k}
    BY <1>4, <1>6, <2>1
  <2> QED BY <1>5, <2>2
<1> QED BY <1>4, <1>5, <1>6 DEF T

\* The rows that columns on the path were reached from are the free row and the rows that
\* hold them, each once.
LEMMA PathIs ==
    ASSUME MatchTypes, Content, Queued, step = "find",
           NEW D, NEW from, NEW e, Reachable(D, from, e),
           NEW T, T = Matching!Way(from, e)
    PROVE  /\ {from[k] : k \in T} = {free[1]} \cup {y[k] : k \in T \ {e}}
           /\ \A k, l \in T : from[k] = from[l] => k = l
<1> DEFINE F == {from[k] : k \in T}
           G == {free[1]} \cup {y[k] : k \in T \ {e}}
<1>1. /\ T \subseteq D \cup {e} /\ e \in T
      /\ \A k \in T : from[k] = free[1] \/ x[from[k]] \in T
      /\ \A k \in T \ {e} : \E c \in T : from[c] # free[1] /\ x[from[c]] = k
  BY WayIs
<1>2. /\ D \subseteq Lines /\ e \in Lines \ D /\ y[e] = Nobody
      /\ \A k \in D \cup {e} : from[k] = free[1] \/ \E j \in D : from[k] = y[j]
      /\ \A j \in D : x[y[j]] = j /\ y[j] \in Lines
      /\ from \in [Lines -> Lines] /\ LeadsBack(from)
  BY MatchAre DEF Reachable, Content
<1>3. free[1] \in Lines /\ ~Holds(free[1])
  BY RootIs
<1>4. T \subseteq Lines /\ IsFiniteSet(T) /\ T \ {e} \subseteq D
  <2>1. T \subseteq Lines /\ T \ {e} \subseteq D
    BY <1>1, <1>2
  <2> QED BY <2>1, LinesAre, FS_Subset
<1>5. F = G
  <2>1. ASSUME NEW k \in T PROVE from[k] \in G
    <3>1. CASE from[k] = free[1]
      BY <3>1
    <3>2. CASE from[k] # free[1]
      <4>1. PICK j \in D : from[k] = y[j]
        BY <1>1, <1>2, <3>2
      <4>2. j \in T \ {e}
        BY <1>1, <1>2, <3>2, <4>1
      <4> QED BY <4>1, <4>2
    <3> QED BY <3>1, <3>2
  <2>2. ASSUME NEW k \in T \ {e} PROVE y[k] \in F
    <3>1. PICK c \in T : from[c] # free[1] /\ x[from[c]] = k
      BY <1>1
    <3>2. PICK j \in D : from[c] = y[j]
      BY <1>1, <1>2, <3>1
    <3>3. j = k
      BY <1>2, <3>1, <3>2
    <3> QED BY <3>2, <3>3
  <2>3. free[1] \in F
    <3>1. T \in SUBSET Lines /\ T # {}
      BY <1>1, <1>4
    <3>2. PICK k \in T : from[k] = free[1] \/ x[from[k]] \notin T
      BY <1>2, <3>1 DEF LeadsBack
    <3>3. from[k] = free[1]
      BY <1>1, <3>2
    <3> QED BY <3>3
  <2> QED BY <2>1, <2>2, <2>3
<1>6. Cardinality(T) = Cardinality(G)
  <2> DEFINE g == [k \in T |-> IF k = e THEN free[1] ELSE y[k]]
  <2>1. g \in [T -> G] /\ \A o \in G : \E k \in T : g[k] = o
    BY <1>1
  <2>2. ASSUME NEW k \in T, NEW l \in T, g[k] = g[l] PROVE k = l
    <3>1. \A o \in T \ {e} : y[o] # free[1] /\ x[y[o]] = o
      BY <1>2, <1>3, <1>4 DEF Holds
    <3> QED BY <2>2, <3>1
  <2> HIDE DEF g, G
  <2>3. g \in Bijection(T, G)
    BY <2>1, <2>2, BijectionIs
  <2> QED BY <1>4, <2>3, FS_Bijection DEF ExistsBijection
<1>7. \A k, l \in T : from[k] = from[l] => k = l
  <2> DEFINE f == [k \in T |-> from[k]]
  <2>1. f \in Surjection(T, G)
    <3>1. f \in [T -> F] /\ \A o \in F : \E k \in T : f[k] = o
      OBVIOUS
    <3> QED BY <1>5, <3>1 DEF Surjection
  <2>2. \A k \in T : f[k] = from[k]
    OBVIOUS
  <2> HIDE DEF f, G
  <2>3. f \in Injection(T, G)
    BY <1>4, <1>6, <2>1, FS_SurjSameCardinalityImpliesInj
  <2>4. DOMAIN f = T
    BY <2>1 DEF Surjection
  <2> QED BY <2>2, <2>3, <2>4 DEF Injection, IsInjective
<1> QED BY <1>5, <1>7

\* When the prices suit the rows on the path with the columns they take, and the others with
\* those they keep, the path leaves a row less to wait.
LEMMA PathAugments ==
    ASSUME MatchTypes, Extended, Content, Queued, step = "find",
           NEW D, NEW from, NEW e, Reachable(D, from, e),
           NEW w \in [Lines -> Int],
           \A k \in D \cup {e}, l \in Lines :
             cost[from[k]][k] - w[k] <= cost[from[k]][l] - w[l],
           \A k, l \in Lines : y[k] # Nobody => cost[y[k]][k] - w[k] <= cost[y[k]][l] - w[l],
           Matching!Augment(from, e, w),
           UNCHANGED <<rows, cols, cost, current, reduced, kept>>
    PROVE  MatchInv'
<1>1. PICK T : T = Matching!Way(from, e)
  OBVIOUS
<1>2. /\ T \subseteq D \cup {e} /\ e \in T
      /\ {from[k] : k \in T} = {free[1]} \cup {y[k] : k \in T \ {e}}
      /\ \A k, l \in T : from[k] = from[l] => k = l
  <2>1. T \subseteq D \cup {e} /\ e \in T
    BY <1>1, WayIs
  <2>2. /\ {from[k] : k \in T} = {free[1]} \cup {y[k] : k \in T \ {e}}
        /\ \A k, l \in T : from[k] = from[l] => k = l
    BY <1>1, PathIs
  <2> QED BY <2>1, <2>2
<1>3. /\ D \subseteq Lines /\ e \in Lines \ D /\ y[e] = Nobody
      /\ from \in [Lines -> Lines]
  BY DEF Reachable
<1>4. /\ free[1] \in Lines /\ ~Holds(free[1]) /\ kept = <<>> /\ current = 0
      /\ Turns = 1..Len(free) /\ Len(free) \in Nat /\ Len(free) >= 1
  BY RootIs
<1>5. /\ x \in [Lines -> Lines \cup {Nobody}] /\ y \in [Lines -> Lines \cup {Nobody}]
      /\ free \in Seq(Lines) /\ reduced \in Nat /\ Nobody \notin Lines
  BY MatchAre, LinesAre
<1>6. Lines' = Lines /\ Nobody' = Nobody
  BY DEF Matching!N, Matching!All, Lines, Nobody, Matching!Nobody
<1>7. PICK nx, ny :
        /\ x' = nx /\ y' = ny
        /\ nx = [i \in Lines |-> IF \E k \in T : from[k] = i
                                 THEN CHOOSE k \in T : from[k] = i ELSE x[i]]
        /\ ny = [k \in Lines |-> IF k \in T THEN from[k] ELSE y[k]]
  BY <1>1 DEF Matching!Augment, Lines
<1>8. /\ v' = w /\ free' = Tail(free) /\ step' = IF Len(free) = 1 THEN "done" ELSE "path"
  BY DEF Matching!Augment
<1>9. T \subseteq Lines
  BY <1>2, <1>3
<1>10. /\ \A k \in T : ny[k] = from[k] /\ nx[from[k]] = k
       /\ \A k \in Lines \ T : ny[k] = y[k]
       /\ \A i \in Lines : (\A k \in T : from[k] # i) => nx[i] = x[i]
  <2>1. ASSUME NEW k \in T PROVE ny[k] = from[k] /\ nx[from[k]] = k
    <3>1. from[k] \in Lines /\ ny[k] = from[k]
      BY <1>3, <1>7, <1>9
    <3>2. nx[from[k]] = CHOOSE l \in T : from[l] = from[k]
      BY <1>7, <3>1
    <3> QED BY <1>2, <3>1, <3>2
  <2> QED BY <1>7, <2>1
<1>11. /\ nx \in [Lines -> Lines \cup {Nobody}] /\ ny \in [Lines -> Lines \cup {Nobody}]
  <2>1. ASSUME NEW i \in Lines PROVE nx[i] \in Lines \cup {Nobody}
    <3>1. CASE \E k \in T : from[k] = i
      BY <1>9, <1>10, <3>1
    <3>2. CASE \A k \in T : from[k] # i
      BY <1>5, <1>10, <3>2
    <3> QED BY <3>1, <3>2
  <2>2. \A k \in Lines : ny[k] \in Lines \cup {Nobody}
    BY <1>3, <1>5, <1>9, <1>10
  <2> QED BY <1>7, <2>1, <2>2
\* A column off the path keeps its row, which takes no other.
<1>12. ASSUME NEW q \in Lines \ T, y[q] # Nobody PROVE \A k \in T : from[k] # y[q]
  <2> SUFFICES ASSUME NEW k \in T, from[k] = y[q] PROVE FALSE
    OBVIOUS
  <2>1. from[k] # free[1]
    BY <1>4 DEF Holds
  <2>2. from[k] \in {free[1]} \cup {y[l] : l \in T \ {e}}
    BY ONLY <1>2, k \in T
  <2>3. y[q] \in {y[l] : l \in T \ {e}}
    BY ONLY <2>1, <2>2, from[k] = y[q]
  <2>4. PICK l \in T \ {e} : y[l] = y[q]
    BY ONLY <2>3
  <2>5. l = q
    BY <1>9, <1>12, <2>4 DEF Content
  <2> QED BY <1>12, <2>5
<1>13. Content'
  <2>1. ASSUME NEW q \in Lines, ny[q] # Nobody, NEW k \in Lines
        PROVE  nx[ny[q]] = q /\ cost[ny[q]][q] - w[q] <= cost[ny[q]][k] - w[k]
    <3>1. CASE q \in T
      BY <1>2, <1>10, <3>1
    <3>2. CASE q \notin T
      <4>1. ny[q] = y[q] /\ y[q] \in Lines /\ x[y[q]] = q
        BY <1>5, <1>10, <2>1, <3>2 DEF Content
      <4>2. nx[y[q]] = x[y[q]]
        BY <1>10, <1>12, <2>1, <3>2, <4>1
      <4> QED BY <2>1, <4>1, <4>2
    <3> QED BY <3>1, <3>2
  <2>2. x' = nx /\ y' = ny /\ v' = w /\ UNCHANGED <<rows, cols, cost>>
    BY <1>7, <1>8
  <2> QED BY ONLY <2>1, <2>2, ContentAfter
<1>14. ASSUME NEW i \in Lines PROVE Holds(i)' <=> i = free[1] \/ Holds(i)
  <2>1. Holds(i)' <=> \E q \in Lines : ny[q] = i
    BY <1>6, <1>7 DEF Holds
  <2>2. ASSUME NEW q \in Lines, ny[q] = i PROVE i = free[1] \/ Holds(i)
    <3>1. CASE q \in T
      BY <1>2, <1>9, <1>10, <2>2, <3>1 DEF Holds
    <3>2. CASE q \notin T
      BY <1>10, <2>2, <3>2 DEF Holds
    <3> QED BY <3>1, <3>2
  <2>3. ASSUME i \in {from[k] : k \in T} PROVE \E q \in Lines : ny[q] = i
    BY <1>9, <1>10, <2>3
  <2>4. ASSUME Holds(i) PROVE \E q \in Lines : ny[q] = i
    <3>1. PICK q \in Lines : y[q] = i
      BY <2>4 DEF Holds
    <3>2. CASE q \in T
      <4>1. q # e
        BY <1>3, <1>5, <3>1
      <4> QED BY <1>2, <2>3, <3>1, <3>2, <4>1
    <3>3. CASE q \notin T
      BY <1>10, <3>1, <3>3
    <3> QED BY <3>2, <3>3
  <2> QED BY <1>2, <2>1, <2>2, <2>3, <2>4
<1>15. PICK q : /\ q = Tail(free) /\ q \in Seq(Lines) /\ Len(q) = Len(free) - 1
                /\ \A k \in 1..Len(q) : q[k] = free[k + 1]
                /\ (q = <<>> <=> Len(free) = 1)
  <2>1. free # <<>>
    BY <1>4
  <2>2. /\ Tail(free) \in Seq(Lines) /\ Len(Tail(free)) = Len(free) - 1
        /\ \A k \in 1..Len(Tail(free)) : Tail(free)[k] = free[k + 1]
    BY <1>5, <2>1, HeadTailProperties
  <2>3. Tail(free) = <<>> <=> Len(free) = 1
    <3>1. PICK q : q = Tail(free) /\ q \in Seq(Lines) /\ Len(q) = Len(free) - 1
      BY <2>2
    <3>2. q = <<>> <=> Len(q) = 0
      BY <3>1, EmptySeq
    <3>3. Len(q) = 0 <=> Len(free) = 1
      BY ONLY <1>4, <3>1
    <3> QED BY <3>1, <3>2, <3>3
  <2> QED BY <2>2, <2>3
<1>16. MatchTypes'
  <2>1. /\ free' \in Seq(Lines) /\ kept' \in Seq(Lines) /\ current' \in Nat /\ reduced' \in Nat
        /\ step' \in {"transfer", "reduce", "path", "find", "done"}
    BY <1>4, <1>5, <1>8, <1>15
  <2> QED BY <1>6, <1>7, <1>8, <1>11, <2>1 DEF MatchTypes
<1>17. Extended'
  BY ExtendedStays
<1>18. Queued'
  <2>1. Turns' = 1..Len(q) /\ DOMAIN kept' = {} /\ Len(q) \in Nat
    BY <1>4, <1>8, <1>15 DEF Turns
  <2>2. \A k \in 1..Len(q) : k \in Turns /\ k + 1 \in Turns /\ k + 1 # 1 /\ k \in Int
    BY <1>4, <1>15, <2>1
  <2>3. \A k, l \in 1..Len(q) : q[k] = q[l] => k = l
    <3> SUFFICES ASSUME NEW k \in 1..Len(q), NEW l \in 1..Len(q), q[k] = q[l] PROVE k = l
      OBVIOUS
    <3>1. k + 1 \in Turns /\ l + 1 \in Turns /\ free[k + 1] = free[l + 1]
      BY <1>15, <2>2
    <3>2. k + 1 = l + 1
      BY <3>1 DEF Queued
    <3> QED BY <2>2, <3>2
  <2>4. {q[k] : k \in 1..Len(q)} = {i \in Lines : ~Holds(i) /\ i # free[1]}
    <3>1. {free[k] : k \in Turns} = {i \in Lines : ~Holds(i)}
      BY <1>4 DEF Queued, Waiting
    <3>2. ASSUME NEW k \in 1..Len(q) PROVE q[k] \in {free[l] : l \in Turns} /\ q[k] # free[1]
      <4>1. q[k] = free[k + 1] /\ k + 1 \in Turns /\ 1 \in Turns /\ k + 1 # 1
        BY <1>4, <1>15, <2>2
      <4> QED BY <4>1 DEF Queued
    <3>3. ASSUME NEW k \in Turns, free[k] # free[1] PROVE free[k] \in {q[l] : l \in 1..Len(q)}
      <4>1. k # 1
        BY <3>3
      <4>2. k - 1 \in 1..Len(q) /\ (k - 1) + 1 = k
        BY <1>4, <1>15, <4>1
      <4>3. q[k - 1] = free[k]
        BY <1>15, <4>2
      <4> QED BY <4>2, <4>3
    <3>4. ASSUME NEW i \in Lines, ~Holds(i), i # free[1] PROVE i \in {q[k] : k \in 1..Len(q)}
      BY <3>1, <3>3, <3>4
    <3> QED BY <3>1, <3>2, <3>4
  <2>5. Waiting' = {i \in Lines' : ~Holds(i)'}
    <3>1. Waiting' = {q[k] : k \in 1..Len(q)}
      BY <1>8, <1>15, <2>1 DEF Waiting
    <3> QED BY <1>6, <1>14, <2>4, <3>1
  <2>6. /\ \A k, l \in Turns' : free'[k] = free'[l] => k = l
        /\ \A k, l \in DOMAIN kept' : kept'[k] = kept'[l] => k = l
        /\ \A k \in Turns', l \in DOMAIN kept' : free'[k] # kept'[l]
    BY <1>8, <1>15, <2>1, <2>3
  <2>7. /\ step' # "reduce" /\ step' # "find" /\ kept' = <<>> /\ current' = 0
        /\ step' = "path" => free' # <<>>
        /\ step' = "done" => free' = <<>>
    BY <1>4, <1>8, <1>15
  <2> QED BY <2>5, <2>6, <2>7 DEF Queued
<1>19. step' \notin {"transfer", "find"}
  BY <1>8
<1> QED BY <1>13, <1>16, <1>17, <1>18, <1>19 DEF MatchInv

\* What the search has to know of the columns it has reached after a step.
LEMMA ReachedAfter ==
    ASSUME UNCHANGED <<rows, cols, cost, x, y, v, free>>,
           NEW nd, NEW np, NEW nr, NEW ns, d' = nd, pred' = np, ready' = nr, scan' = ns,
           nr \subseteq Lines, ns \subseteq Lines, nr \cap ns = {},
           nd \in [Lines -> Int], np \in [Lines -> Lines], LeadsBack(np),
           \A j \in nr \cup ns : y[j] # Nobody,
           \A j \in nr \cup ns, k \in Lines \ nr : nd[j] <= nd[k],
           \A k \in Lines :
             \/ np[k] = free[1] /\ nd[k] = Matching!Reduced(free[1], k)
             \/ \E j \in nr : /\ np[k] = y[j]
                              /\ nd[k] = nd[j] + Matching!Reduced(y[j], k)
                                               - Matching!Reduced(y[j], j),
           \A k \in Lines : nd[k] <= Matching!Reduced(free[1], k),
           \A j \in nr, k \in Lines :
             nd[k] <= nd[j] + Matching!Reduced(y[j], k) - Matching!Reduced(y[j], j)
    PROVE  Reached'
<1>1. /\ Lines' = Lines /\ Nobody' = Nobody
      /\ \A i, k : Matching!Reduced(i, k)' = Matching!Reduced(i, k)
  BY DEF Matching!N, Matching!All, Lines, Nobody, Matching!Nobody, Matching!Reduced
<1>2. LeadsBack(pred)'
  BY <1>1 DEF LeadsBack
<1>3. \A k \in Lines : Matching!Reduced(free[1], k)' = Matching!Reduced(free[1], k)
  BY <1>1
<1>4. \A j, k : /\ Matching!Reduced(y[j], k)' = Matching!Reduced(y[j], k)
                /\ Over(j, k)' = nd[j] + Matching!Reduced(y[j], k) - Matching!Reduced(y[j], j)
  BY DEF Over, Matching!Reduced
<1>5. \A k \in Lines : \/ np[k] = free[1] /\ nd[k] = Matching!Reduced(free[1], k)'
                       \/ \E j \in nr : np[k] = y[j] /\ nd[k] = Over(j, k)'
  BY <1>3, <1>4
<1>6. /\ \A k \in Lines : nd[k] <= Matching!Reduced(free[1], k)'
      /\ \A j \in nr, k \in Lines : nd[k] <= Over(j, k)'
  BY <1>3, <1>4
<1> QED BY <1>1, <1>2, <1>5, <1>6 DEF Reached

\* Columns that are reached over one more row lead back as the others do.
LEMMA LeadsBackOver ==
    ASSUME MatchTypes, Content, Reached, NEW j \in scan,
           NEW S, S \subseteq Lines \ (ready \cup scan),
           NEW from, \A k \in Lines : from[k] = IF k \in S THEN y[j] ELSE pred[k]
    PROVE  LeadsBack(from)
<1> SUFFICES ASSUME NEW C \in SUBSET Lines, C # {}
             PROVE  \E k \in C : from[k] = free[1] \/ x[from[k]] \notin C
  BY DEF LeadsBack
<1>1. j \in Lines /\ x[y[j]] = j /\ j \notin S
  BY DEF Reached, Content
<1>2. CASE C \subseteq S
  <2>1. PICK k \in C : TRUE
    OBVIOUS
  <2>2. from[k] = y[j]
    BY <1>2
  <2> QED BY <1>1, <1>2, <2>2
<1>3. CASE ~(C \subseteq S)
  <2>1. C \ S \in SUBSET Lines /\ C \ S # {}
    BY <1>3
  <2>2. PICK k \in C \ S : pred[k] = free[1] \/ x[pred[k]] \notin C \ S
    BY <2>1 DEF Reached, LeadsBack
  <2>3. from[k] = pred[k] /\ k \in Lines
    BY <2>2
  <2>4. CASE pred[k] = free[1]
    BY <2>3, <2>4
  <2>5. CASE pred[k] # free[1]
    <3>1. PICK o \in ready : pred[k] = y[o]
      BY <2>3, <2>5 DEF Reached
    <3>2. x[y[o]] = o /\ o \notin S
      BY <3>1 DEF Reached, Content
    <3> QED BY <2>2, <2>3, <2>5, <3>1, <3>2
  <2> QED BY <2>4, <2>5
<1> QED BY <1>2, <1>3

\* When the columns a path may run over are each h from the free row and no other is
\* nearer than the end of the path, the prices they go up to suit the rows on the path
\* with the columns they take, and the others with those they keep.
LEMMA PathEnds ==
    ASSUME MatchTypes, Extended, Content, Queued, step = "find",
           NEW D, NEW from, NEW e, Reachable(D, from, e),
           NEW h \in [Lines -> Int], NEW m \in Int, NEW w \in [Lines -> Int],
           \A k \in Lines : /\ h[k] <= m /\ h[k] <= Matching!Reduced(free[1], k)
                            /\ k \notin D => h[k] = m
                            /\ w[k] = v[k] + h[k] - m,
           \A j \in D, k \in Lines :
             h[k] <= h[j] + Matching!Reduced(y[j], k) - Matching!Reduced(y[j], j),
           \A k \in D \cup {e} :
             \/ from[k] = free[1] /\ h[k] = Matching!Reduced(free[1], k)
             \/ \E j \in D :
                  /\ from[k] = y[j]
                  /\ h[k] = h[j] + Matching!Reduced(y[j], k) - Matching!Reduced(y[j], j),
           Matching!Augment(from, e, w),
           UNCHANGED <<rows, cols, cost, current, reduced, kept>>
    PROVE  MatchInv'
<1>1. /\ D \subseteq Lines /\ e \in Lines /\ free[1] \in Lines /\ Nobody \notin Lines
      /\ y \in [Lines -> Lines \cup {Nobody}]
      /\ \A j \in D : y[j] \in Lines
  <2>1. D \subseteq Lines /\ e \in Lines /\ \A j \in D : y[j] # Nobody
    BY DEF Reachable
  <2>2. free[1] \in Lines /\ Nobody \notin Lines
    BY LinesAre, RootIs
  <2>3. y \in [Lines -> Lines \cup {Nobody}]
    BY MatchAre
  <2>4. \A j \in D : y[j] \in Lines
    BY ONLY <2>1, <2>3
  <2> QED BY <2>1, <2>2, <2>3, <2>4
<1>2. \A i, k \in Lines :
        /\ Matching!Reduced(i, k) \in Int /\ cost[i][k] \in Int /\ v[k] \in Int
        /\ Matching!Reduced(i, k) = cost[i][k] - v[k]
  BY MatchAre
<1>3. ASSUME NEW i \in Lines, NEW k \in Lines
      PROVE  cost[i][k] - w[k] = Matching!Reduced(i, k) - h[k] + m
  <2>1. PICK a \in Int, b \in Int, c \in Int, f \in Int :
          a = cost[i][k] /\ b = v[k] /\ c = h[k] /\ f = w[k]
    BY <1>2
  <2>2. f = b + c - m /\ Matching!Reduced(i, k) = a - b
    BY <1>2, <2>1
  <2> QED BY ONLY <2>1, <2>2, m \in Int
\* For a row that lies between, every column of D or the end that it leads to, and its
\* own, cost it the same.
<1>4. ASSUME NEW j \in D, NEW k \in Lines
      PROVE  /\ cost[y[j]][j] - w[j] <= cost[y[j]][k] - w[k]
             /\ h[k] = h[j] + Matching!Reduced(y[j], k) - Matching!Reduced(y[j], j)
                => cost[y[j]][k] - w[k] = cost[y[j]][j] - w[j]
  <2>1. j \in Lines /\ y[j] \in Lines
    BY <1>1
  <2>2. PICK a \in Int, b \in Int, s \in Int, t \in Int :
          /\ a = Matching!Reduced(y[j], j) /\ b = Matching!Reduced(y[j], k)
          /\ s = h[j] /\ t = h[k]
    BY <1>2, <2>1
  <2>3. t <= s + b - a
    BY <2>2
  <2>4. cost[y[j]][j] - w[j] = a - s + m /\ cost[y[j]][k] - w[k] = b - t + m
    BY <1>3, <2>1, <2>2
  <2> QED BY ONLY <2>2, <2>3, <2>4, m \in Int
<1>5. ASSUME NEW k \in Lines
      PROVE  /\ m <= cost[free[1]][k] - w[k]
             /\ h[k] = Matching!Reduced(free[1], k) => cost[free[1]][k] - w[k] = m
  <2>1. PICK a \in Int, t \in Int : a = Matching!Reduced(free[1], k) /\ t = h[k]
    BY <1>1, <1>2
  <2>2. t <= a
    BY <2>1
  <2>3. cost[free[1]][k] - w[k] = a - t + m
    BY <1>1, <1>3, <2>1
  <2> QED BY ONLY <2>1, <2>2, <2>3, m \in Int
<1>6. ASSUME NEW k \in D \cup {e}, NEW l \in Lines
      PROVE  cost[from[k]][k] - w[k] <= cost[from[k]][l] - w[l]
  <2>0. k \in Lines
    BY <1>1
  <2>1. CASE from[k] = free[1] /\ h[k] = Matching!Reduced(free[1], k)
    BY <1>5, <2>0, <2>1
  <2>2. ASSUME NEW j \in D, from[k] = y[j],
               h[k] = h[j] + Matching!Reduced(y[j], k) - Matching!Reduced(y[j], j)
        PROVE  cost[from[k]][k] - w[k] <= cost[from[k]][l] - w[l]
    BY <1>4, <2>0, <2>2
  <2> QED BY <2>1, <2>2
<1>7. ASSUME NEW k \in Lines, y[k] # Nobody, NEW l \in Lines
      PROVE  cost[y[k]][k] - w[k] <= cost[y[k]][l] - w[l]
  <2>1. CASE k \in D
    BY <1>4, <2>1
  <2>2. CASE k \notin D
    <3>1. y[k] \in Lines
      BY <1>1, <1>7
    <3>2. PICK a \in Int, b \in Int, t \in Int :
            a = Matching!Reduced(y[k], k) /\ b = Matching!Reduced(y[k], l) /\ t = h[l]
      BY <1>2, <3>1
    <3>3. a <= b /\ t <= m /\ h[k] = m
      BY <1>7, <2>2, <3>2 DEF Content
    <3>4. cost[y[k]][k] - w[k] = a - m + m /\ cost[y[k]][l] - w[l] = b - t + m
      BY <1>3, <3>1, <3>2, <3>3
    <3> QED BY ONLY <3>2, <3>3, <3>4, m \in Int
  <2> QED BY <2>1, <2>2
<1>8. /\ \A k \in D \cup {e}, l \in Lines :
           cost[from[k]][k] - w[k] <= cost[from[k]][l] - w[l]
      /\ \A k, l \in Lines : y[k] # Nobody => cost[y[k]][k] - w[k] <= cost[y[k]][l] - w[l]
  BY <1>6, <1>7
<1> QED BY <1>8, PathAugments

LEMMA SearchIs ==
    ASSUME MatchTypes, Reached
    PROVE  /\ ready \subseteq Lines /\ scan \subseteq Lines /\ ready \cap scan = {}
           /\ d \in [Lines -> Int] /\ pred \in [Lines -> Lines]
           /\ \A j \in ready \cup scan : y[j] # Nobody /\ y[j] \in Lines
           /\ \A j \in ready \cup scan, k \in Lines \ ready : d[j] <= d[k]
           /\ \A k \in Lines :
                \/ pred[k] = free[1] /\ d[k] = Matching!Reduced(free[1], k)
                \/ \E j \in ready :
                     /\ pred[k] = y[j]
                     /\ d[k] = d[j] + Matching!Reduced(y[j], k) - Matching!Reduced(y[j], j)
           /\ \A k \in Lines : d[k] <= Matching!Reduced(free[1], k)
           /\ \A j \in ready, k \in Lines :
                d[k] <= d[j] + Matching!Reduced(y[j], k) - Matching!Reduced(y[j], j)
           /\ LeadsBack(pred)
           /\ Matching!Todo = Lines \ (ready \cup scan)
<1>1. \A j \in ready \cup scan : y[j] # Nobody /\ y[j] \in Lines
  BY MatchAre DEF Reached
<1> QED BY <1>1 DEF Reached, Over, Matching!Todo, Lines

\* Once a column is the end of a path, the search is over: what lies before it is ready,
\* at no greater distance.
LEMMA SearchEnds ==
    ASSUME MatchTypes, Extended, Content, Queued, Reached, step = "find",
           NEW m \in Int, NEW D, ready \subseteq D, D \subseteq ready \cup scan,
           \A k \in ready : d[k] <= m, \A k \in Lines \ ready : m <= d[k],
           \A j \in D \ ready : d[j] = m,
           NEW e \in Lines \ (ready \cup scan), y[e] = Nobody,
           NEW from \in [Lines -> Lines], LeadsBack(from),
           \A k \in D : from[k] = pred[k],
           \/ from[e] = pred[e] /\ d[e] = m
           \/ \E j \in D \ ready :
                from[e] = y[j] /\ Matching!Reduced(y[j], e) = Matching!Reduced(y[j], j),
           NEW c \in Lines, d[c] = m, c \notin ready,
           Matching!Augment(from, e, Matching!Price(ready, c)),
           UNCHANGED <<rows, cols, cost, current, reduced, kept>>
    PROVE  MatchInv'
<1>1. /\ ready \subseteq Lines /\ scan \subseteq Lines /\ d \in [Lines -> Int]
      /\ v \in [Lines -> Int] /\ free[1] \in Lines
      /\ \A j \in ready \cup scan : y[j] # Nobody /\ y[j] \in Lines
      /\ \A i, k \in Lines : Matching!Reduced(i, k) \in Int
  BY MatchAre, SearchIs, RootIs
<1>2. PICK h : h = [k \in Lines |-> IF k \in ready THEN d[k] ELSE m]
  OBVIOUS
<1>3. h \in [Lines -> Int] /\ \A k \in Lines : h[k] = IF k \in ready THEN d[k] ELSE m
  BY <1>1, <1>2
<1>4. \A k \in Lines : /\ h[k] <= m /\ h[k] <= d[k] /\ h[k] \in Int /\ d[k] \in Int
                       /\ k \notin D => h[k] = m
                       /\ k \in D => h[k] = d[k]
  <2> SUFFICES ASSUME NEW k \in Lines
               PROVE  /\ h[k] <= m /\ h[k] <= d[k] /\ h[k] \in Int /\ d[k] \in Int
                      /\ k \notin D => h[k] = m
                      /\ k \in D => h[k] = d[k]
    OBVIOUS
  <2>1. d[k] \in Int
    BY <1>1
  <2>2. CASE k \in ready
    BY <1>3, <2>1, <2>2
  <2>3. CASE k \notin ready
    BY <1>3, <2>1, <2>3
  <2> QED BY <2>2, <2>3
<1>5. PICK w : w = Matching!Price(ready, c)
  OBVIOUS
<1>6. w \in [Lines -> Int] /\ \A k \in Lines : w[k] = v[k] + h[k] - m
  <2>1. w = [k \in Lines |-> IF k \in ready THEN v[k] + d[k] - m ELSE v[k]]
    BY <1>5 DEF Matching!Price, Lines
  <2>2. ASSUME NEW k \in Lines
        PROVE  w[k] = v[k] + h[k] - m /\ w[k] \in Int
    <3>1. PICK a \in Int, b \in Int : a = v[k] /\ b = d[k]
      BY <1>1
    <3>2. CASE k \in ready
      BY <1>3, <2>1, <3>1, <3>2
    <3>3. CASE k \notin ready
      <4>1. w[k] = a /\ h[k] = m
        BY <1>3, <2>1, <3>1, <3>3
      <4> QED BY <3>1, <4>1
    <3> QED BY <3>2, <3>3
  <2> QED BY <2>1, <2>2
<1>7. \A k \in Lines : h[k] <= Matching!Reduced(free[1], k)
  <2> SUFFICES ASSUME NEW k \in Lines PROVE h[k] <= Matching!Reduced(free[1], k)
    OBVIOUS
  <2>1. d[k] <= Matching!Reduced(free[1], k) /\ Matching!Reduced(free[1], k) \in Int
    BY <1>1, SearchIs
  <2> QED BY <1>4, <2>1
<1>8. ASSUME NEW j \in D, NEW k \in Lines
      PROVE  h[k] <= h[j] + Matching!Reduced(y[j], k) - Matching!Reduced(y[j], j)
  <2>1. j \in Lines /\ y[j] # Nobody /\ y[j] \in Lines
    BY <1>1
  <2>2. PICK a \in Int, b \in Int, s \in Int, t \in Int :
          /\ a = Matching!Reduced(y[j], j) /\ b = Matching!Reduced(y[j], k)
          /\ s = h[j] /\ t = h[k]
    BY <1>1, <1>4, <2>1
  <2>3. CASE j \in ready
    <3>1. d[k] <= s + b - a
      BY <1>4, <2>2, <2>3, SearchIs
    <3> QED BY <1>4, <2>2, <3>1
  <2>4. CASE j \notin ready
    <3>1. s = m /\ t <= m /\ a <= b
      BY <1>3, <1>4, <2>1, <2>2, <2>4 DEF Content
    <3> QED BY ONLY <2>2, <3>1, m \in Int
  <2> QED BY <2>3, <2>4
<1>9. ASSUME NEW k \in Lines, h[k] = d[k], from[k] = pred[k]
      PROVE  \/ from[k] = free[1] /\ h[k] = Matching!Reduced(free[1], k)
             \/ \E j \in D :
                  /\ from[k] = y[j]
                  /\ h[k] = h[j] + Matching!Reduced(y[j], k) - Matching!Reduced(y[j], j)
  <2>1. CASE pred[k] = free[1] /\ d[k] = Matching!Reduced(free[1], k)
    BY <1>9, <2>1
  <2>2. ASSUME NEW j \in ready, pred[k] = y[j],
               d[k] = d[j] + Matching!Reduced(y[j], k) - Matching!Reduced(y[j], j)
        PROVE  \E o \in D :
                 /\ from[k] = y[o]
                 /\ h[k] = h[o] + Matching!Reduced(y[o], k) - Matching!Reduced(y[o], o)
    <3>1. j \in D /\ h[j] = d[j]
      BY <1>1, <1>3
    <3> QED BY <1>9, <2>2, <3>1
  <2> QED BY <2>1, <2>2, SearchIs
<1>10. ASSUME NEW k \in D \cup {e}
       PROVE  \/ from[k] = free[1] /\ h[k] = Matching!Reduced(free[1], k)
              \/ \E j \in D :
                   /\ from[k] = y[j]
                   /\ h[k] = h[j] + Matching!Reduced(y[j], k) - Matching!Reduced(y[j], j)
  <2>1. CASE k \in D
    <3>1. k \in Lines /\ h[k] = d[k]
      BY <1>1, <1>4, <2>1
    <3> QED BY <1>9, <2>1, <3>1
  <2>2. CASE k = e /\ from[e] = pred[e] /\ d[e] = m
    <3>1. k \in Lines /\ h[k] = d[k]
      BY <1>3, <2>2
    <3> QED BY <1>9, <2>2, <3>1
  <2>3. ASSUME k = e, NEW j \in D \ ready, from[e] = y[j],
               Matching!Reduced(y[j], e) = Matching!Reduced(y[j], j)
        PROVE  \E o \in D :
                 /\ from[k] = y[o]
                 /\ h[k] = h[o] + Matching!Reduced(y[o], k) - Matching!Reduced(y[o], o)
    <3>1. j \in Lines /\ y[j] \in Lines /\ h[j] = m /\ h[e] = m
      BY <1>1, <1>3
    <3>2. PICK a \in Int : a = Matching!Reduced(y[j], j) /\ a = Matching!Reduced(y[j], e)
      BY <1>1, <2>3, <3>1
    <3>3. m = m + a - a
      BY <3>2
    <3> QED BY <2>3, <3>1, <3>2, <3>3
  <2> QED BY <2>1, <2>2, <2>3
<1>11. Reachable(D, from, e)
  <2>1. D \subseteq Lines /\ e \in Lines \ D /\ \A j \in D : y[j] # Nobody
    BY <1>1
  <2>2. \A k \in D \cup {e} : from[k] = free[1] \/ \E j \in D : from[k] = y[j]
    BY <1>10
  <2> QED BY <2>1, <2>2 DEF Reachable
<1>12. \A k \in Lines : /\ h[k] <= m /\ h[k] <= Matching!Reduced(free[1], k)
                        /\ k \notin D => h[k] = m
                        /\ w[k] = v[k] + h[k] - m
  BY <1>4, <1>6, <1>7
<1>13. w \in [Lines -> Int] /\ Matching!Augment(from, e, w)
  BY <1>5, <1>6
<1> QED BY <1>3, <1>8, <1>10, <1>11, <1>12, <1>13, PathEnds

LEMMA MatchFinds == ASSUME MatchInv, Matching!Find PROVE MatchInv'
<1>1. /\ MatchTypes /\ Extended /\ Content /\ Queued /\ Reached /\ step = "find"
      /\ scan = {} /\ UNCHANGED <<rows, cols, cost, current, reduced, kept>>
  BY DEF MatchInv, Matching!Find, Matching!input, Matching!carr
<1>2. /\ ready \subseteq Lines /\ d \in [Lines -> Int] /\ pred \in [Lines -> Lines]
      /\ LeadsBack(pred) /\ Matching!Todo = Lines \ ready
      /\ \A j \in ready, k \in Lines \ ready : d[j] <= d[k]
  BY <1>1, SearchIs
<1>3. PICK near : /\ near = {j \in Lines \ ready : \A k \in Lines \ ready : d[j] <= d[k]}
                  /\ near = Matching!Cheapest(Matching!Todo, d)
  BY <1>2 DEF Matching!Cheapest
<1>4. CASE {j \in near : y[j] = Nobody} = {}
  <2>1. /\ scan' = near /\ step' = "find"
        /\ UNCHANGED <<x, y, v, free, d, pred, ready>>
    BY <1>1, <1>3, <1>4 DEF Matching!Find, Nobody
  <2>2. MatchTypes' /\ Extended' /\ Content' /\ Queued' /\ Lines' = Lines
    BY <1>1, <2>1, SearchKeeps
  <2>3. /\ near \subseteq Lines /\ ready \cap near = {} /\ \A j \in near : y[j] # Nobody
        /\ \A j \in near, k \in Lines \ ready : d[j] <= d[k]
    BY <1>3, <1>4
  <2>4. /\ \A j \in ready \cup near : y[j] # Nobody
        /\ \A j \in ready \cup near, k \in Lines \ ready : d[j] <= d[k]
    BY <1>1, <1>2, <2>3, SearchIs
  <2>5. /\ d' = d /\ pred' = pred /\ ready' = ready /\ scan' = near
        /\ UNCHANGED <<rows, cols, cost, x, y, v, free>>
    BY <1>1, <2>1
  <2>6. Reached'
    BY <1>1, <1>2, <2>3, <2>4, <2>5, SearchIs, ReachedAfter
  <2> QED BY <2>1, <2>2, <2>6 DEF MatchInv
<1>5. CASE {j \in near : y[j] = Nobody} # {}
  <2>1. PICK e \in near :
          y[e] = Nobody /\ Matching!Augment(pred, e, Matching!Price(ready, e))
    BY <1>1, <1>3, <1>5 DEF Matching!Find, Nobody
  <2>2. PICK m \in Int : m = d[e]
    BY <1>2, <1>3
  <2>3. e \in Lines \ (ready \cup scan) /\ \A k \in Lines \ ready : m <= d[k]
    BY <1>1, <1>3, <2>2
  <2>4. \A k \in ready : d[k] <= m
    BY <1>2, <2>2, <2>3
  <2>5. ready \subseteq ready \cup scan /\ ready \ ready = {}
    OBVIOUS
  <2> QED BY <1>1, <1>2, <2>1, <2>2, <2>3, <2>4, <2>5, SearchEnds
<1> QED BY <1>4, <1>5

LEMMA MatchScans == ASSUME MatchInv, Matching!Scan PROVE MatchInv'
<1>1. /\ MatchTypes /\ Extended /\ Content /\ Queued /\ Reached /\ step = "find"
      /\ UNCHANGED <<rows, cols, cost, current, reduced, kept>>
  BY DEF MatchInv, Matching!Scan, Matching!input, Matching!carr
<1>2. /\ ready \subseteq Lines /\ scan \subseteq Lines /\ ready \cap scan = {}
      /\ d \in [Lines -> Int] /\ pred \in [Lines -> Lines]
      /\ LeadsBack(pred) /\ Matching!Todo = Lines \ (ready \cup scan)
      /\ \A j \in ready \cup scan : y[j] # Nobody /\ y[j] \in Lines
      /\ \A j \in ready \cup scan, k \in Lines \ ready : d[j] <= d[k]
      /\ \A i, k \in Lines : Matching!Reduced(i, k) \in Int
  BY <1>1, SearchIs, MatchAre
<1> DEFINE To(j, k) == Matching!Reduced(y[j], k) - (Matching!Reduced(y[j], j) - d[j])
           Shorter(j) == {k \in Lines \ (ready \cup scan) : To(j, k) < d[k]}
           Level(j) == {k \in Shorter(j) : To(j, k) = d[j]}
           Ends(j) == {k \in Level(j) : y[k] = Nobody}
<1>3. PICK j \in scan :
        IF Ends(j) = {}
        THEN /\ d' = [k \in Lines |-> IF k \in Shorter(j) THEN To(j, k) ELSE d[k]]
             /\ pred' = [k \in Lines |-> IF k \in Shorter(j) THEN y[j] ELSE pred[k]]
             /\ scan' = (scan \ {j}) \cup Level(j) /\ ready' = ready \cup {j}
             /\ UNCHANGED <<step, x, y, v, free>>
        ELSE \E k \in Ends(j) :
               Matching!Augment([pred EXCEPT ![k] = y[j]], k, Matching!Price(ready, j))
  BY <1>2 DEF Matching!Scan, Lines, Nobody
<1>4. PICK S, L : /\ S = Shorter(j) /\ L = Level(j)
                  /\ S \subseteq Lines \ (ready \cup scan) /\ L \subseteq S
  OBVIOUS
<1>5. PICK m \in Int : m = d[j]
  BY <1>2
<1>6. j \in Lines /\ j \notin ready /\ j \notin S /\ y[j] \in Lines
  BY <1>2, <1>4
<1>7. \A k \in Lines : /\ To(j, k) = d[j] + Matching!Reduced(y[j], k) - Matching!Reduced(y[j], j)
                       /\ To(j, k) \in Int /\ d[k] \in Int /\ m <= To(j, k)
                       /\ k \in S <=> k \in Lines \ (ready \cup scan) /\ To(j, k) < d[k]
                       /\ k \in L <=> k \in S /\ To(j, k) = m
  <2> SUFFICES ASSUME NEW k \in Lines
               PROVE  /\ To(j, k) = d[j] + Matching!Reduced(y[j], k)
                                         - Matching!Reduced(y[j], j)
                      /\ To(j, k) \in Int /\ d[k] \in Int /\ m <= To(j, k)
                      /\ k \in S <=> k \in Lines \ (ready \cup scan) /\ To(j, k) < d[k]
                      /\ k \in L <=> k \in S /\ To(j, k) = m
    OBVIOUS
  <2>1. PICK a \in Int, b \in Int :
          a = Matching!Reduced(y[j], j) /\ b = Matching!Reduced(y[j], k)
    BY <1>2, <1>6
  <2>2. a <= b
    BY <1>1, <1>2, <1>6, <2>1 DEF Content
  <2>3. To(j, k) = b - (a - m)
    BY <1>5, <2>1
  <2>4. /\ k \in S <=> k \in Lines \ (ready \cup scan) /\ To(j, k) < d[k]
        /\ k \in L <=> k \in S /\ To(j, k) = m
    BY <1>4, <1>5
  <2>5. d[k] \in Int
    BY <1>2
  <2> HIDE DEF To, Shorter, Level
  <2>6. To(j, k) \in Int /\ m <= To(j, k) /\ To(j, k) = m + b - a
    BY <2>1, <2>2, <2>3
  <2> QED BY <1>5, <2>1, <2>4, <2>5, <2>6
<1>8. \A k \in ready \cup scan : d[k] <= m
  BY <1>2, <1>5, <1>6
<1>9. \A k \in Lines \ ready : m <= d[k]
  BY <1>2, <1>5
<1> HIDE DEF To, Shorter, Level
<1>10. CASE Ends(j) = {}
  <2>1. PICK nd, np, nr, ns :
          /\ nd = [k \in Lines |-> IF k \in S THEN To(j, k) ELSE d[k]]
          /\ np = [k \in Lines |-> IF k \in S THEN y[j] ELSE pred[k]]
          /\ ns = (scan \ {j}) \cup L /\ nr = ready \cup {j}
          /\ d' = nd /\ pred' = np /\ scan' = ns /\ ready' = nr
    BY <1>3, <1>4, <1>10
  <2>2. UNCHANGED <<step, x, y, v, free>> /\ step' = "find"
    BY <1>1, <1>3, <1>10
  <2>3. MatchTypes' /\ Extended' /\ Content' /\ Queued' /\ Lines' = Lines
    BY <1>1, <2>2, SearchKeeps
  <2>4. /\ nd \in [Lines -> Int] /\ np \in [Lines -> Lines]
        /\ \A k \in Lines : /\ nd[k] = IF k \in S THEN To(j, k) ELSE d[k]
                            /\ np[k] = IF k \in S THEN y[j] ELSE pred[k]
    <3>1. \A k \in Lines : To(j, k) \in Int /\ d[k] \in Int /\ pred[k] \in Lines
      BY <1>2, <1>7
    <3> QED BY <1>6, <2>1, <3>1
  <2>5. /\ nr \subseteq Lines /\ ns \subseteq Lines /\ nr \cap ns = {}
        /\ \A k \in nr \cup ns : y[k] # Nobody
    <3>1. \A k \in L : y[k] # Nobody
      BY <1>4, <1>10
    <3> QED BY <1>2, <1>4, <1>6, <2>1, <3>1
  <2>6. LeadsBack(np)
    BY <1>1, <1>4, <2>4, LeadsBackOver
  <2>7. ASSUME NEW k \in nr \cup ns PROVE nd[k] <= m
    <3>1. CASE k \in L
      BY <1>4, <1>7, <2>4, <3>1
    <3>2. CASE k \in ready \cup scan
      BY <1>2, <1>4, <1>8, <2>4, <3>2
    <3>3. k \in L \/ k \in ready \cup scan
      BY <2>1
    <3> QED BY <3>1, <3>2, <3>3
  <2>8. ASSUME NEW k \in Lines PROVE nd[k] <= d[k] /\ nd[k] \in Int /\ d[k] \in Int
    BY <1>7, <2>4
  <2>9. ASSUME NEW k \in nr \cup ns, NEW l \in Lines \ nr PROVE nd[k] <= nd[l]
    <3>1. l \in Lines /\ l \notin ready /\ k \in Lines
      BY <2>1, <2>5
    <3>2. m <= nd[l]
      BY <1>7, <1>9, <2>4, <3>1
    <3> QED BY <2>7, <2>8, <3>1, <3>2
  <2>10. \A k \in nr : nd[k] = d[k] /\ k \in Lines
    BY <1>2, <1>4, <1>6, <2>1, <2>4
  <2>11. ASSUME NEW k \in Lines
         PROVE  \/ np[k] = free[1] /\ nd[k] = Matching!Reduced(free[1], k)
                \/ \E l \in nr : /\ np[k] = y[l]
                                 /\ nd[k] = nd[l] + Matching!Reduced(y[l], k)
                                                  - Matching!Reduced(y[l], l)
    <3>1. CASE k \in S
      <4>1. j \in nr /\ nd[j] = d[j]
        BY <2>1, <2>10
      <4> QED BY <1>7, <2>4, <3>1, <4>1
    <3>2. CASE k \notin S
      <4>1. np[k] = pred[k] /\ nd[k] = d[k]
        BY <2>4, <3>2
      <4>2. \A l \in ready : l \in nr /\ nd[l] = d[l]
        BY <2>1, <2>10
      <4>3. \/ pred[k] = free[1] /\ d[k] = Matching!Reduced(free[1], k)
            \/ \E l \in ready :
                 /\ pred[k] = y[l]
                 /\ d[k] = d[l] + Matching!Reduced(y[l], k) - Matching!Reduced(y[l], l)
        BY <1>1, SearchIs
      <4> QED BY <4>1, <4>2, <4>3
    <3> QED BY <3>1, <3>2
  <2>12. ASSUME NEW k \in Lines PROVE nd[k] <= Matching!Reduced(free[1], k)
    <3>1. d[k] <= Matching!Reduced(free[1], k) /\ Matching!Reduced(free[1], k) \in Int
      BY <1>1, <1>2, SearchIs, RootIs
    <3> QED BY <2>8, <3>1
  <2>13. ASSUME NEW l \in nr, NEW k \in Lines
         PROVE  nd[k] <= nd[l] + Matching!Reduced(y[l], k) - Matching!Reduced(y[l], l)
    <3>1. CASE l \in ready
      <4>1. PICK a \in Int, b \in Int :
              a = Matching!Reduced(y[l], l) /\ b = Matching!Reduced(y[l], k)
        BY <1>2, <3>1
      <4>2. d[k] <= d[l] + b - a
        BY <1>1, <3>1, <4>1, SearchIs
      <4>3. nd[l] = d[l] /\ d[l] \in Int
        BY <2>8, <2>10
      <4> QED BY <2>8, <4>1, <4>2, <4>3
    <3>2. CASE l = j
      <4>1. nd[l] + Matching!Reduced(y[l], k) - Matching!Reduced(y[l], l) = To(j, k)
        BY <1>7, <2>10, <3>2
      <4>2. nd[k] <= To(j, k)
        <5>1. CASE k \in S
          BY <1>7, <2>4, <5>1
        <5>2. CASE k \in ready \cup scan
          BY <1>4, <1>7, <1>8, <2>4, <5>2
        <5>3. CASE k \notin S /\ k \notin ready \cup scan
          BY <1>7, <2>4, <5>3
        <5> QED BY <5>1, <5>2, <5>3
      <4> QED BY <4>1, <4>2
    <3> QED BY <2>1, <3>1, <3>2
  <2>14. UNCHANGED <<rows, cols, cost, x, y, v, free>>
    BY <1>1, <2>2
  <2>15. Reached'
    <3>1. d' = nd /\ pred' = np /\ ready' = nr /\ scan' = ns
      BY <2>1
    <3>2. nd \in [Lines -> Int] /\ np \in [Lines -> Lines]
      BY <2>4
    <3> QED BY ONLY <2>5, <2>6, <2>9, <2>11, <2>12, <2>13, <2>14, <3>1, <3>2, ReachedAfter
  <2> QED BY <2>2, <2>3, <2>15 DEF MatchInv
<1>11. CASE Ends(j) # {}
  <2>1. PICK e \in L :
          /\ y[e] = Nobody
          /\ Matching!Augment([pred EXCEPT ![e] = y[j]], e, Matching!Price(ready, j))
    BY <1>3, <1>4, <1>11
  <2>2. e \in Lines \ (ready \cup scan) /\ To(j, e) = m
    BY <1>4, <1>7
  <2>3. PICK from :
          /\ from = [pred EXCEPT ![e] = y[j]]
          /\ Matching!Augment(from, e, Matching!Price(ready, j))
    BY <2>1
  <2>4. from \in [Lines -> Lines] /\ \A k \in Lines : from[k] = IF k = e THEN y[j] ELSE pred[k]
    BY <1>2, <1>6, <2>3
  <2>5. LeadsBack(from)
    <3>1. {e} \subseteq Lines \ (ready \cup scan)
      BY <2>2
    <3>2. \A k \in Lines : from[k] = IF k \in {e} THEN y[j] ELSE pred[k]
      BY <2>4
    <3> QED BY <1>1, <3>1, <3>2, LeadsBackOver
  <2>6. PICK D : D = ready \cup {j}
    OBVIOUS
  <2>7. /\ ready \subseteq D /\ D \subseteq ready \cup scan /\ D \ ready = {j}
        /\ \A k \in D : from[k] = pred[k]
    BY <1>2, <1>6, <2>2, <2>4, <2>6
  <2>8. from[e] = y[j] /\ Matching!Reduced(y[j], e) = Matching!Reduced(y[j], j)
    <3>1. PICK a \in Int, b \in Int :
            a = Matching!Reduced(y[j], j) /\ b = Matching!Reduced(y[j], e)
      BY <1>2, <1>6, <2>2
    <3>2. m + b - a = m
      BY <1>5, <1>7, <2>2, <3>1
    <3>3. b = a
      BY ONLY <3>1, <3>2, m \in Int
    <3> QED BY <2>2, <2>4, <3>1, <3>3
  <2>9. /\ \A k \in ready : d[k] <= m
        /\ \A k \in D \ ready : d[k] = m
        /\ \E k \in D \ ready :
             from[e] = y[k] /\ Matching!Reduced(y[k], e) = Matching!Reduced(y[k], k)
        /\ j \in Lines /\ d[j] = m /\ j \notin ready
    BY <1>5, <1>6, <1>8, <2>7, <2>8
  <2>10. y[e] = Nobody /\ e \in Lines \ (ready \cup scan) /\ from \in [Lines -> Lines]
    BY <2>1, <2>2, <2>4
  <2>11. PICK c \in Lines : c = j /\ d[c] = m /\ c \notin ready
    BY <2>9
  <2>12. Matching!Augment(from, e, Matching!Price(ready, c))
    BY <2>3, <2>11
  <2>13. ready \subseteq D /\ D \subseteq ready \cup scan /\ \A k \in D : from[k] = pred[k]
    BY <2>7
  <2>14. /\ \A k \in ready : d[k] <= m
         /\ \A k \in D \ ready : d[k] = m
         /\ \/ from[e] = pred[e] /\ d[e] = m
            \/ \E k \in D \ ready :
                 from[e] = y[k] /\ Matching!Reduced(y[k], e) = Matching!Reduced(y[k], k)
    BY <2>9
  <2>15. d[c] = m /\ c \notin ready
    BY <2>11
  <2> QED
    BY ONLY <1>1, <1>9, <2>5, <2>10, <2>12, <2>13, <2>14, <2>15, m \in Int, c \in Lines, SearchEnds
<1> QED BY <1>10, <1>11
-------------------------------------------------------------------------------
(* The assignment: what it ends with                                             *)

LEMMA MatchStep == ASSUME MatchInv, [Matching!Next]_matchingVars PROVE MatchInv'
<1>1. CASE UNCHANGED matchingVars
  <2>1. UNCHANGED <<rows, cols, cost, step, x, y, v, free, current, reduced, kept, d, pred,
                    ready, scan>>
    BY <1>1 DEF matchingVars
  <2>2. Lines' = Lines /\ Nobody' = Nobody /\ \A k \in Lines : Holds(k)' <=> Holds(k)
    BY <2>1 DEF Matching!N, Matching!All, Lines, Nobody, Matching!Nobody, Holds
  <2>3. MatchTypes' = MatchTypes /\ Extended' = Extended /\ Content' = Content
    BY <2>1, <2>2 DEF MatchTypes, Extended, Content, Matching!Reduced
  <2>4. Transfers' = Transfers
    BY <2>1, <2>2 DEF Transfers, Matching!Reduced, Matching!N
  <2>5. Queued' = Queued
    BY <2>1, <2>2 DEF Queued, Turns, Waiting
  <2>6. Reached' = Reached
    BY <2>1, <2>2 DEF Reached, Over, LeadsBack, Matching!Reduced
  <2> QED BY <2>1, <2>3, <2>4, <2>5, <2>6 DEF MatchInv
<1>2. CASE Matching!Next
  BY <1>2, MatchTransfers, MatchReduces, MatchEndsRound, MatchStartsPath, MatchFinds,
     MatchScans DEF Matching!Next
<1> QED BY <1>1, <1>2

LEMMA MatchHolds == PartsSpec => [](part = "matching" => MatchInv)
<1> DEFINE Inv == part = "matching" => MatchInv
<1>1. PartsInit => Inv
  BY MatchBegins DEF PartsInit
<1>2. ASSUME Inv, [PartsNext]_<<part, vars, operatorVars, trackerVars, matchingVars, dualVars,
                                othersVars>>
      PROVE  Inv'
  <2> SUFFICES ASSUME part' = "matching" PROVE MatchInv'
    OBVIOUS
  <2>1. part = "matching" /\ [Matching!Next]_matchingVars
    BY <1>2 DEF PartsNext, Sends, Operates, Tracks, Matches, Captures, Shares, Exposes,
                Assigns, othersVars
  <2> QED BY <1>2, <2>1, MatchStep
<1> QED BY <1>1, <1>2, PTL DEF PartsSpec

\* The assignment is a matching, and no matching is cheaper (linear_assignment, lapjv_internal):
\* once no row waits, every row holds a column that is its cheapest at the prices, which no
\* other permutation can better.
THEOREM AssignmentOptimal == PartsSpec => []Optimal
<1>1. MatchInv => Matching!Optimal
  <2> SUFFICES ASSUME MatchInv PROVE Matching!Optimal
    OBVIOUS
  <2>1. CASE step = "done"
    <3>1. free = <<>> /\ kept = <<>> /\ Waiting = {i \in Lines : ~Holds(i)}
      BY <2>1 DEF MatchInv, Queued
    <3>2. Waiting = {}
      <4>1. current \in Nat /\ Len(free) = 0
        BY <3>1 DEF MatchInv, MatchTypes
      <4>2. Turns = {} /\ DOMAIN kept = {}
        BY <3>1, <4>1 DEF Turns
      <4> QED BY <4>2 DEF Waiting
    <3> QED BY <3>1, <3>2, AllHeldIsOptimal DEF MatchInv
  <2>2. CASE step # "done"
    BY <2>2 DEF Matching!Optimal
  <2> QED BY <2>1, <2>2
<1>2. (part = "matching" => MatchInv) => Optimal
  BY <1>1 DEF Optimal
<1> QED BY <1>2, MatchHolds, PTL
===============================================================================
