---------------------------- MODULE Ledgers_proofs ----------------------------
(* Personal points, merging accounts and referral rewards: the safety         *)
(* properties of the run of MCLedgers, for every value of the constants.      *)
EXTENDS MCLedgers, Sequences, TLAPS, FiniteSetTheorems

-----------------------------------------------------------------------------
(* Sums of points are cardinalities.                                        *)

LEMMA PointsCardinality ==
  /\ \A S : Points!Cardinality(S) = Cardinality(S)
  /\ \A S : Points!IsFiniteSet(S) <=> IsFiniteSet(S)
  BY DEF Points!Cardinality, Cardinality, Points!IsFiniteSet, IsFiniteSet

\* A sum is the number of its points.
LEMMA UnitsOf ==
  ASSUME NEW f, NEW p
  PROVE  p \in Points!Units(f) <=> \E x \in DOMAIN f : \E i \in 1 .. f[x] : p = <<x, i>>
  BY DEF Points!Units

LEMMA TotalType ==
  ASSUME NEW S, IsFiniteSet(S), NEW f \in [S -> Nat]
  PROVE  /\ IsFiniteSet(Points!Units(f))
         /\ Points!Total(f) = Cardinality(Points!Units(f))
         /\ Points!Total(f) \in Nat
<1> DEFINE column == [x \in S |-> {x} \X (1 .. f[x])]
           columns == {{x} \X (1 .. f[x]) : x \in S}
<1>1. IsFiniteSet(columns)
  <2>1. column \in Surjection(S, columns)
    BY DEF Surjection
  <2> QED
    BY <2>1, FS_Surjection
<1>2. \A c \in columns : IsFiniteSet(c)
  <2> SUFFICES ASSUME NEW x \in S PROVE IsFiniteSet({x} \X (1 .. f[x]))
    OBVIOUS
  <2>1. IsFiniteSet({x})
    BY FS_Singleton
  <2>2. f[x] \in Int /\ 1 \in Int
    OBVIOUS
  <2>3. IsFiniteSet(1 .. f[x])
    BY <2>2, FS_Interval
  <2> QED
    BY <2>1, <2>3, FS_Product
<1>3. Points!Units(f) = UNION columns
  BY DEF Points!Units
<1>4. IsFiniteSet(Points!Units(f))
  BY <1>1, <1>2, <1>3, FS_UNION
<1> QED
  BY <1>4, FS_CardinalityType, PointsCardinality DEF Points!Total

\* Sums of two columns.
LEMMA TotalAdds ==
  ASSUME NEW S, IsFiniteSet(S), NEW f \in [S -> Nat], NEW g \in [S -> Nat],
         NEW h \in [S -> Nat], \A x \in S : h[x] = f[x] + g[x]
  PROVE  Points!Total(h) = Points!Total(f) + Points!Total(g)
<1> DEFINE F == Points!Units(f)
           G == Points!Units(g)
           H == Points!Units(h)
           shifted == [p \in G |-> <<p[1], f[p[1]] + p[2]>>]
<1>1. IsFiniteSet(F) /\ IsFiniteSet(G) /\ IsFiniteSet(H)
  BY TotalType
<1>2. /\ \A p : p \in F <=> \E x \in S : \E i \in 1 .. f[x] : p = <<x, i>>
      /\ \A p : p \in G <=> \E x \in S : \E i \in 1 .. g[x] : p = <<x, i>>
      /\ \A p : p \in H <=> \E x \in S : \E i \in 1 .. h[x] : p = <<x, i>>
  <2>1. DOMAIN f = S /\ DOMAIN g = S /\ DOMAIN h = S
    OBVIOUS
  <2> QED
    BY <2>1, UnitsOf
<1>3. F \subseteq H
  <2> SUFFICES ASSUME NEW x \in S, NEW i \in 1 .. f[x] PROVE <<x, i>> \in H
    BY <1>2
  <2>1. f[x] \in Nat /\ g[x] \in Nat /\ h[x] = f[x] + g[x]
    OBVIOUS
  <2>2. i \in 1 .. h[x]
    BY <2>1
  <2> QED
    BY <1>2, <2>2
<1>4. shifted \in Bijection(G, H \ F)
  <2>1. ASSUME NEW x \in S, NEW i \in 1 .. g[x]
        PROVE  <<x, i>> \in G /\ shifted[<<x, i>>] = <<x, f[x] + i>>
    BY <1>2
  <2>2. ASSUME NEW x \in S, NEW i \in 1 .. g[x]
        PROVE  <<x, f[x] + i>> \in H \ F
    <3>1. f[x] \in Nat /\ g[x] \in Nat /\ h[x] = f[x] + g[x] /\ i \in Nat /\ i >= 1
      OBVIOUS
    <3>2. f[x] + i \in 1 .. h[x] /\ f[x] + i \notin 1 .. f[x]
      BY <3>1
    <3>3. <<x, f[x] + i>> \in H
      BY <1>2, <3>2
    <3>4. <<x, f[x] + i>> \notin F
      BY <1>2, <3>2
    <3> QED
      BY <3>3, <3>4
  <2>3. shifted \in [G -> H \ F]
    <3> SUFFICES ASSUME NEW p \in G PROVE shifted[p] \in H \ F
      OBVIOUS
    <3>10. PICK x \in S : \E i \in 1 .. g[x] : p = <<x, i>>
      BY <1>2
    <3>1. PICK i \in 1 .. g[x] : p = <<x, i>>
      BY <3>10
    <3> QED
      BY <2>1, <2>2, <3>1
  <2>4. ASSUME NEW p \in G, NEW q \in G, shifted[p] = shifted[q] PROVE p = q
    <3>10. PICK x \in S : \E i \in 1 .. g[x] : p = <<x, i>>
      BY <1>2
    <3>1. PICK i \in 1 .. g[x] : p = <<x, i>>
      BY <3>10
    <3>20. PICK y \in S : \E k \in 1 .. g[y] : q = <<y, k>>
      BY <1>2
    <3>2. PICK k \in 1 .. g[y] : q = <<y, k>>
      BY <3>20
    <3>3. <<x, f[x] + i>> = <<y, f[y] + k>>
      BY <2>1, <2>4, <3>1, <3>2
    <3>4. x = y /\ f[x] + i = f[x] + k
      BY <3>3
    <3>5. i \in Int /\ k \in Int /\ f[x] \in Int
      OBVIOUS
    <3> HIDE DEF shifted
    <3> QED
      BY <3>1, <3>2, <3>4, <3>5
  <2>5. ASSUME NEW q \in H \ F PROVE \E p \in G : shifted[p] = q
    <3>10. PICK x \in S : \E k \in 1 .. h[x] : q = <<x, k>>
      BY <1>2
    <3>1. PICK k \in 1 .. h[x] : q = <<x, k>>
      BY <3>10
    <3>2. k \notin 1 .. f[x]
      BY <1>2, <3>1
    <3>3. f[x] \in Nat /\ g[x] \in Nat /\ h[x] = f[x] + g[x]
      OBVIOUS
    <3>4. k - f[x] \in 1 .. g[x] /\ f[x] + (k - f[x]) = k
      BY <3>2, <3>3
    <3> QED
      BY <2>1, <3>1, <3>4
  <2> HIDE DEF shifted, F, G, H
  <2>6. IsInjective(shifted)
    BY <2>3, <2>4 DEF IsInjective
  <2> QED
    BY <2>3, <2>5, <2>6 DEF Bijection, Injection, Surjection
<1>5. IsFiniteSet(H \ F) /\ Cardinality(H \ F) = Cardinality(H) - Cardinality(F)
  <2> HIDE DEF F, G, H
  <2>1. H \cap F = F
    BY <1>3
  <2>2. IsFiniteSet(H \ F) /\ Cardinality(H \ F) = Cardinality(H) - Cardinality(H \cap F)
    BY <1>1, FS_Difference
  <2> QED
    BY <2>1, <2>2
<1>6. Cardinality(H \ F) = Cardinality(G)
  BY <1>1, <1>4, FS_Bijection DEF ExistsBijection
<1>7. /\ Points!Total(h) = Cardinality(H) /\ Points!Total(f) = Cardinality(F)
      /\ Points!Total(g) = Cardinality(G)
      /\ Cardinality(H) \in Nat /\ Cardinality(F) \in Nat /\ Cardinality(G) \in Nat
  BY TotalType
<1> HIDE DEF F, G, H
<1> QED
  BY <1>5, <1>6, <1>7

LEMMA TotalBalance ==
  ASSUME NEW S, IsFiniteSet(S), NEW f \in [S -> Nat], NEW g \in [S -> Nat],
         NEW h \in [S -> Nat], NEW k \in [S -> Nat], \A x \in S : f[x] + g[x] = h[x] + k[x]
  PROVE  Points!Total(f) + Points!Total(g) = Points!Total(h) + Points!Total(k)
<1> DEFINE both == [x \in S |-> f[x] + g[x]]
<1>1. both \in [S -> Nat] /\ (\A x \in S : both[x] = f[x] + g[x]) /\ (\A x \in S : both[x] = h[x] + k[x])
  OBVIOUS
<1> HIDE DEF both
<1>2. Points!Total(both) = Points!Total(f) + Points!Total(g)
  BY <1>1, TotalAdds
<1>3. Points!Total(both) = Points!Total(h) + Points!Total(k)
  BY <1>1, TotalAdds
<1> QED
  BY <1>2, <1>3

\* Entries of zero do not count.
LEMMA TotalSame ==
  ASSUME NEW S, NEW T, NEW f \in [S -> Nat], NEW g \in [T -> Nat],
         \A x \in S : f[x] > 0 => x \in T /\ g[x] = f[x],
         \A x \in T : g[x] > 0 => x \in S /\ f[x] = g[x]
  PROVE  Points!Total(f) = Points!Total(g)
<1>1. ASSUME NEW p PROVE p \in Points!Units(f) <=> p \in Points!Units(g)
  <2>1. ASSUME NEW x \in S, NEW i \in 1 .. f[x] PROVE x \in T /\ i \in 1 .. g[x]
    BY f[x] \in Nat, f[x] > 0
  <2>2. ASSUME NEW x \in T, NEW i \in 1 .. g[x] PROVE x \in S /\ i \in 1 .. f[x]
    BY g[x] \in Nat, g[x] > 0
  <2>3. DOMAIN f = S /\ DOMAIN g = T
    OBVIOUS
  <2> QED
    BY <2>1, <2>2, <2>3, UnitsOf
<1>2. Points!Units(f) = Points!Units(g)
  BY <1>1
<1> QED
  BY <1>2 DEF Points!Total

LEMMA TotalZero ==
  ASSUME NEW S, NEW f \in [S -> Nat], \A x \in S : f[x] = 0
  PROVE  Points!Total(f) = 0
<1>1. Points!Units(f) = {}
  <2>1. DOMAIN f = S
    OBVIOUS
  <2> QED
    BY <2>1, UnitsOf
<1> QED
  BY <1>1, FS_EmptySet, PointsCardinality DEF Points!Total

LEMMA TotalPoint ==
  ASSUME NEW S, NEW f \in [S -> Nat], NEW y \in S, \A x \in S \ {y} : f[x] = 0
  PROVE  Points!Total(f) = f[y]
<1> DEFINE n == f[y]
<1>1. n \in Nat /\ n \in Int /\ 1 \in Int
  OBVIOUS
<1>2. Points!Units(f) = {y} \X (1 .. n)
  <2>1. DOMAIN f = S
    OBVIOUS
  <2>2. ASSUME NEW p PROVE p \in Points!Units(f) <=> \E i \in 1 .. n : p = <<y, i>>
    <3>1. ASSUME NEW x \in S, NEW i \in 1 .. f[x] PROVE x = y
      BY f[x] \in Nat, f[x] > 0
    <3> QED
      BY <2>1, <3>1, UnitsOf
  <2>3. ASSUME NEW p PROVE p \in {y} \X (1 .. n) <=> \E i \in 1 .. n : p = <<y, i>>
    OBVIOUS
  <2> QED
    BY <2>2, <2>3
<1> HIDE DEF n
<1>3. IsFiniteSet(1 .. n) /\ Cardinality(1 .. n) = n
  BY <1>1, FS_Interval
<1>4. IsFiniteSet({y}) /\ Cardinality({y}) = 1
  BY FS_Singleton
<1>5. Cardinality({y} \X (1 .. n)) = n
  <2> DEFINE Y == {y}
             I == 1 .. n
  <2>1. IsFiniteSet(Y) /\ IsFiniteSet(I) /\ Cardinality(Y) = 1 /\ Cardinality(I) = n
    BY <1>3, <1>4
  <2> HIDE DEF Y, I
  <2>2. Cardinality(Y \X I) = Cardinality(Y) * Cardinality(I)
    BY <2>1, FS_Product
  <2>3. Cardinality(Y \X I) = n
    BY <1>1, <2>1, <2>2
  <2> QED
    BY <2>3 DEF Y, I
<1>6. Points!Total(f) = n
  BY <1>1, <1>2, <1>5, PointsCardinality DEF Points!Total
<1> QED
  BY <1>6 DEF n

LEMMA TotalMonotonic ==
  ASSUME NEW S, IsFiniteSet(S), NEW f \in [S -> Nat], NEW g \in [S -> Nat],
         \A x \in S : f[x] <= g[x]
  PROVE  Points!Total(f) <= Points!Total(g)
<1> DEFINE rest == [x \in S |-> g[x] - f[x]]
<1>1. ASSUME NEW x \in S PROVE g[x] - f[x] \in Nat /\ g[x] = f[x] + (g[x] - f[x])
  BY f[x] \in Nat, g[x] \in Nat, f[x] <= g[x]
<1>2. rest \in [S -> Nat] /\ \A x \in S : g[x] = f[x] + rest[x]
  BY <1>1
<1> HIDE DEF rest
<1>3. Points!Total(g) = Points!Total(f) + Points!Total(rest)
  BY <1>2, TotalAdds
<1>4. Points!Total(g) \in Nat /\ Points!Total(f) \in Nat /\ Points!Total(rest) \in Nat
  BY <1>2, TotalType
<1> QED
  BY <1>3, <1>4

LEMMA TotalAtLeast ==
  ASSUME NEW S, IsFiniteSet(S), NEW f \in [S -> Nat], NEW y \in S
  PROVE  f[y] <= Points!Total(f)
<1> DEFINE only == [x \in S |-> IF x = y THEN f[y] ELSE 0]
<1>1. only \in [S -> Nat] /\ (\A x \in S \ {y} : only[x] = 0) /\ only[y] = f[y]
  OBVIOUS
<1>2. ASSUME NEW x \in S PROVE only[x] <= f[x]
  <2>1. f[x] \in Nat
    OBVIOUS
  <2>2. only[x] = f[x] \/ only[x] = 0
    BY <1>1
  <2> HIDE DEF only
  <2> QED
    BY <2>1, <2>2
<1> HIDE DEF only
<1>3. Points!Total(only) = f[y]
  BY <1>1, TotalPoint
<1>4. Points!Total(only) <= Points!Total(f)
  BY <1>1, <1>2, TotalMonotonic
<1> QED
  BY <1>3, <1>4

LEMMA TotalRenamed ==
  ASSUME NEW S, NEW T, IsFiniteSet(S), NEW b \in Bijection(S, T),
         NEW f \in [S -> Nat], NEW g \in [T -> Nat], \A x \in S : f[x] = g[b[x]]
  PROVE  Points!Total(f) = Points!Total(g)
<1> DEFINE F == Points!Units(f)
           G == Points!Units(g)
           renamed == [p \in F |-> <<b[p[1]], p[2]>>]
<1>1. IsFiniteSet(F)
  BY TotalType
<1>2. /\ \A p : p \in F <=> \E x \in S : \E i \in 1 .. f[x] : p = <<x, i>>
      /\ \A p : p \in G <=> \E x \in T : \E i \in 1 .. g[x] : p = <<x, i>>
  <2>1. DOMAIN f = S /\ DOMAIN g = T
    OBVIOUS
  <2> QED
    BY <2>1, UnitsOf
<1>3. /\ b \in [S -> T]
      /\ \A x, y \in S : b[x] = b[y] => x = y
      /\ \A y \in T : \E x \in S : b[x] = y
  BY DEF Bijection, Injection, Surjection, IsInjective
<1>4. renamed \in Bijection(F, G)
  <2>1. ASSUME NEW x \in S, NEW i \in 1 .. f[x]
        PROVE  <<x, i>> \in F /\ renamed[<<x, i>>] = <<b[x], i>> /\ <<b[x], i>> \in G
    BY <1>2, <1>3
  <2>2. renamed \in [F -> G]
    <3> SUFFICES ASSUME NEW p \in F PROVE renamed[p] \in G
      OBVIOUS
    <3>10. PICK x \in S : \E i \in 1 .. f[x] : p = <<x, i>>
      BY <1>2
    <3>1. PICK i \in 1 .. f[x] : p = <<x, i>>
      BY <3>10
    <3> QED
      BY <2>1, <3>1
  <2>3. ASSUME NEW p \in F, NEW q \in F, renamed[p] = renamed[q] PROVE p = q
    <3>10. PICK x \in S : \E i \in 1 .. f[x] : p = <<x, i>>
      BY <1>2
    <3>1. PICK i \in 1 .. f[x] : p = <<x, i>>
      BY <3>10
    <3>20. PICK y \in S : \E k \in 1 .. f[y] : q = <<y, k>>
      BY <1>2
    <3>2. PICK k \in 1 .. f[y] : q = <<y, k>>
      BY <3>20
    <3>3. <<b[x], i>> = <<b[y], k>>
      BY <2>1, <2>3, <3>1, <3>2
    <3> HIDE DEF renamed
    <3> QED
      BY <1>3, <3>1, <3>2, <3>3
  <2>4. ASSUME NEW q \in G PROVE \E p \in F : renamed[p] = q
    <3>1. PICK y \in T : \E k \in 1 .. g[y] : q = <<y, k>>
      BY <1>2
    <3>2. PICK k \in 1 .. g[y] : q = <<y, k>>
      BY <3>1
    <3>3. PICK x \in S : b[x] = y
      BY <1>3
    <3>4. k \in 1 .. f[x]
      BY <3>3
    <3> QED
      BY <2>1, <3>2, <3>3, <3>4
  <2> HIDE DEF renamed, F, G
  <2>5. IsInjective(renamed)
    BY <2>2, <2>3 DEF IsInjective
  <2> QED
    BY <2>2, <2>4, <2>5 DEF Bijection, Injection, Surjection
<1> HIDE DEF renamed
<1>5. Cardinality(G) = Cardinality(F)
  BY <1>1, <1>4, FS_Bijection DEF ExistsBijection
<1> QED
  BY <1>5, PointsCardinality DEF Points!Total

-----------------------------------------------------------------------------
(* Lots, and what the lots of an account add up to.                         *)

LotRecord ==
    [account : Accounts, original : Nat, available : Nat, reserved : Nat, consumed : Nat,
     expired : Nat, reversed : Nat, grantedAt : Nat, expiresAt : Nat]
Ids == 1 .. MaxLots
LotLists == {L \in Seq(LotRecord) : Len(L) <= MaxLots}

\* The part of f, points by lot, that is in lots of account a.
Part(L, f, a) ==
    [l \in Ids |-> IF l \in DOMAIN L /\ L[l].account = a THEN f[l] ELSE 0]
Of(L, f, a) == Points!Total(Part(L, f, a))

FreeIn(L) == [l \in DOMAIN L |-> L[l].available]
FrozenIn(L) == [l \in DOMAIN L |-> L[l].reserved]
LostIn(L) == [l \in DOMAIN L |-> L[l].expired + L[l].reversed]

LEMMA LotsOfList ==
  ASSUME NEW L \in LotLists
  PROVE  /\ Len(L) \in Nat /\ Len(L) <= MaxLots /\ DOMAIN L = 1 .. Len(L)
         /\ L \in [1 .. Len(L) -> LotRecord] /\ L \in Seq(LotRecord)
         /\ \A l \in DOMAIN L : L[l] \in LotRecord
  BY DEF LotLists

LEMMA IdsFinite ==
  ASSUME MaxLots \in Nat
  PROVE  /\ IsFiniteSet(Ids)
         /\ \A L \in LotLists : DOMAIN L \subseteq Ids /\ IsFiniteSet(DOMAIN L)
<1>1. 1 \in Int /\ MaxLots \in Int
  OBVIOUS
<1>2. IsFiniteSet(Ids)
  BY <1>1, FS_Interval DEF Ids
<1>3. \A L \in LotLists : DOMAIN L \subseteq Ids
  BY LotsOfList DEF Ids
<1> QED
  BY <1>2, <1>3, FS_Subset

LEMMA FieldTypes ==
  ASSUME NEW L \in LotLists
  PROVE  /\ FreeIn(L) \in [DOMAIN L -> Nat]
         /\ FrozenIn(L) \in [DOMAIN L -> Nat]
         /\ LostIn(L) \in [DOMAIN L -> Nat]
<1>1. \A l \in DOMAIN L : L[l] \in LotRecord
  BY LotsOfList
<1>2. \A l \in DOMAIN L : L[l].available \in Nat /\ L[l].reserved \in Nat
                          /\ L[l].expired + L[l].reversed \in Nat
  BY <1>1 DEF LotRecord
<1> QED
  BY <1>2 DEF FreeIn, FrozenIn, LostIn

LEMMA PartType ==
  ASSUME MaxLots \in Nat, NEW L \in LotLists, NEW f \in [DOMAIN L -> Nat], NEW a
  PROVE  Part(L, f, a) \in [Ids -> Nat] /\ Of(L, f, a) \in Nat
<1>1. Part(L, f, a) \in [Ids -> Nat]
  BY DEF Part
<1> QED
  BY <1>1, IdsFinite, TotalType DEF Of

\* It is the sum over the lots of the account, ...
LEMMA PartSum ==
  ASSUME MaxLots \in Nat, NEW L \in LotLists, NEW f \in [DOMAIN L -> Nat], NEW a
  PROVE  Points!Total([l \in {k \in DOMAIN L : L[k].account = a} |-> f[l]]) = Of(L, f, a)
<1> DEFINE S == {k \in DOMAIN L : L[k].account = a}
           g == [l \in S |-> f[l]]
           h == Part(L, f, a)
<1>1. g \in [S -> Nat] /\ h \in [Ids -> Nat] /\ S \subseteq Ids
  BY IdsFinite, PartType
<1>2. (\A l \in S : h[l] = g[l]) /\ (\A l \in Ids : h[l] > 0 => l \in S)
  BY <1>1 DEF Part
<1> HIDE DEF g, h, S
<1>3. Points!Total(g) = Points!Total(h)
  BY <1>1, <1>2, TotalSame
<1> QED
  BY <1>3 DEF g, h, S, Of

\* ... and everything, when only lots of the account count.
LEMMA PartWhole ==
  ASSUME MaxLots \in Nat, NEW L \in LotLists, NEW f \in [DOMAIN L -> Nat], NEW a,
         \A l \in DOMAIN L : f[l] > 0 => L[l].account = a
  PROVE  /\ Of(L, f, a) = Points!Total(f)
         /\ \A b : b # a => Of(L, f, b) = 0
<1>1. Of(L, f, a) = Points!Total(f)
  <2> DEFINE h == Part(L, f, a)
  <2>1. h \in [Ids -> Nat] /\ DOMAIN L \subseteq Ids
    BY IdsFinite, PartType
  <2>2. /\ \A l \in DOMAIN L : f[l] > 0 => h[l] = f[l]
        /\ \A l \in Ids : h[l] > 0 => l \in DOMAIN L /\ h[l] = f[l]
    BY <2>1 DEF Part
  <2> HIDE DEF h
  <2>3. Points!Total(f) = Points!Total(h)
    BY <2>1, <2>2, TotalSame
  <2> QED
    BY <2>3 DEF h, Of
<1>2. ASSUME NEW b, b # a PROVE Of(L, f, b) = 0
  <2>1. \A l \in DOMAIN L : L[l].account = b => f[l] = 0
    <3> SUFFICES ASSUME NEW l \in DOMAIN L, L[l].account = b PROVE f[l] = 0
      OBVIOUS
    <3>1. f[l] \in Nat /\ ~(f[l] > 0)
      BY <1>2
    <3> QED
      BY <3>1
  <2>2. \A l \in Ids : Part(L, f, b)[l] = 0
    BY <2>1 DEF Part
  <2> QED
    BY <2>2, PartType, TotalZero DEF Of
<1> QED
  BY <1>1, <1>2

LEMMA PartZero ==
  ASSUME MaxLots \in Nat, NEW L \in LotLists, NEW a
  PROVE  Of(L, [l \in DOMAIN L |-> 0], a) = 0
<1> DEFINE zero == [l \in DOMAIN L |-> 0]
<1>1. zero \in [DOMAIN L -> Nat] /\ \A l \in Ids : Part(L, zero, a)[l] = 0
  BY DEF Part
<1> HIDE DEF zero
<1>2. Of(L, zero, a) = 0
  BY <1>1, PartType, TotalZero DEF Of
<1> QED
  BY <1>2 DEF zero

\* Points that move between kinds without leaving the lots of an account.
SameOwners(L, M) ==
    DOMAIN M = DOMAIN L /\ \A l \in DOMAIN L : M[l].account = L[l].account

Balanced(L, f, g, h, k) == \A l \in DOMAIN L : f[l] + g[l] = h[l] + k[l]

LEMMA PartBalance ==
  ASSUME MaxLots \in Nat, NEW L \in LotLists, NEW M \in LotLists, SameOwners(L, M),
         NEW f \in [DOMAIN L -> Nat], NEW g \in [DOMAIN L -> Nat],
         NEW h \in [DOMAIN L -> Nat], NEW k \in [DOMAIN L -> Nat],
         Balanced(L, f, g, h, k), NEW a
  PROVE  Of(M, f, a) + Of(L, g, a) = Of(L, h, a) + Of(L, k, a)
<1> DEFINE pf == Part(M, f, a)
           pg == Part(L, g, a)
           ph == Part(L, h, a)
           pk == Part(L, k, a)
<1>1. pf \in [Ids -> Nat] /\ pg \in [Ids -> Nat] /\ ph \in [Ids -> Nat] /\ pk \in [Ids -> Nat]
  BY PartType DEF SameOwners
<1>2. \A l \in Ids : pf[l] + pg[l] = ph[l] + pk[l]
  <2> SUFFICES ASSUME NEW l \in Ids PROVE pf[l] + pg[l] = ph[l] + pk[l]
    OBVIOUS
  <2>1. CASE l \in DOMAIN L /\ L[l].account = a
    <3>1. pf[l] = f[l] /\ pg[l] = g[l] /\ ph[l] = h[l] /\ pk[l] = k[l]
      BY <2>1 DEF Part, SameOwners
    <3>2. f[l] + g[l] = h[l] + k[l]
      BY <2>1 DEF Balanced
    <3> QED
      BY <3>1, <3>2
  <2>2. CASE ~(l \in DOMAIN L /\ L[l].account = a)
    BY <2>2 DEF Part, SameOwners
  <2> QED
    BY <2>1, <2>2
<1>3. IsFiniteSet(Ids)
  BY IdsFinite
<1> HIDE DEF pf, pg, ph, pk
<1>4. Points!Total(pf) + Points!Total(pg) = Points!Total(ph) + Points!Total(pk)
  BY <1>1, <1>2, <1>3, TotalBalance
<1> QED
  BY <1>4 DEF pf, pg, ph, pk, Of

-----------------------------------------------------------------------------
FreePoints(L, a) == Of(L, FreeIn(L), a)
FrozenPoints(L, a) == Of(L, FrozenIn(L), a)
LostPoints(L, a) == Of(L, LostIn(L), a)

LEMMA PointsType ==
  ASSUME MaxLots \in Nat, NEW L \in LotLists, NEW a
  PROVE  FreePoints(L, a) \in Nat /\ FrozenPoints(L, a) \in Nat /\ LostPoints(L, a) \in Nat
  BY FieldTypes, PartType DEF FreePoints, FrozenPoints, LostPoints

LEMMA SumsOfAccount ==
  ASSUME MaxLots \in Nat, NEW a, lots \in LotLists
  PROVE  /\ Points!Available(lots, Points!LotsOf(a)) = FreePoints(lots, a)
         /\ Points!Total([l \in Points!LotsOf(a) |-> lots[l].reserved]) = FrozenPoints(lots, a)
         /\ Points!Lost(a) = LostPoints(lots, a)
<1> DEFINE S == {k \in DOMAIN lots : lots[k].account = a}
<1>1. Points!LotsOf(a) = S
  BY DEF Points!LotsOf
<1>2. /\ [l \in S |-> lots[l].available] = [l \in S |-> FreeIn(lots)[l]]
      /\ [l \in S |-> lots[l].reserved] = [l \in S |-> FrozenIn(lots)[l]]
      /\ [l \in S |-> lots[l].expired + lots[l].reversed] = [l \in S |-> LostIn(lots)[l]]
  BY DEF FreeIn, FrozenIn, LostIn
<1>3. /\ Points!Total([l \in S |-> FreeIn(lots)[l]]) = FreePoints(lots, a)
      /\ Points!Total([l \in S |-> FrozenIn(lots)[l]]) = FrozenPoints(lots, a)
      /\ Points!Total([l \in S |-> LostIn(lots)[l]]) = LostPoints(lots, a)
  BY FieldTypes, PartSum DEF FreePoints, FrozenPoints, LostPoints
<1> HIDE DEF S
<1> QED
  BY <1>1, <1>2, <1>3 DEF Points!Available, Points!Lost

\* Points that only arrive.
LEMMA PartGain ==
  ASSUME MaxLots \in Nat, NEW L \in LotLists, NEW M \in LotLists, SameOwners(L, M),
         NEW f \in [DOMAIN L -> Nat], NEW h \in [DOMAIN L -> Nat], NEW k \in [DOMAIN L -> Nat],
         \A l \in DOMAIN L : f[l] = h[l] + k[l], NEW a
  PROVE  Of(M, f, a) = Of(L, h, a) + Of(L, k, a)
<1> DEFINE zero == [l \in DOMAIN L |-> 0]
<1>1. zero \in [DOMAIN L -> Nat] /\ \A l \in DOMAIN L : zero[l] = 0
  OBVIOUS
<1>2. Of(L, zero, a) = 0
  BY PartZero
<1> HIDE DEF zero
<1>3. Balanced(L, f, zero, h, k)
  <2> SUFFICES ASSUME NEW l \in DOMAIN L PROVE f[l] + zero[l] = h[l] + k[l]
    BY DEF Balanced
  <2>1. f[l] \in Nat /\ zero[l] = 0 /\ f[l] = h[l] + k[l]
    BY <1>1
  <2> QED
    BY <2>1
<1>4. Of(M, f, a) + Of(L, zero, a) = Of(L, h, a) + Of(L, k, a)
  BY <1>1, <1>3, PartBalance
<1>5. Of(M, f, a) \in Nat
  BY PartType DEF SameOwners
<1> QED
  BY <1>2, <1>4, <1>5

\* What a list of writes does to each lot ...
Rewrites(L, M, taken, freed, settled, held, gone) ==
    /\ DOMAIN M = DOMAIN L
    /\ \A l \in DOMAIN L :
          /\ M[l].account = L[l].account
          /\ M[l].available + taken[l] = L[l].available + freed[l]
          /\ M[l].reserved + settled[l] = L[l].reserved + held[l]
          /\ M[l].expired + M[l].reversed = L[l].expired + L[l].reversed + gone[l]

\* ... it does to the account.
LEMMA Rewritten ==
  ASSUME MaxLots \in Nat, NEW L \in LotLists, NEW M \in LotLists,
         NEW taken \in [DOMAIN L -> Nat], NEW freed \in [DOMAIN L -> Nat],
         NEW settled \in [DOMAIN L -> Nat], NEW held \in [DOMAIN L -> Nat],
         NEW gone \in [DOMAIN L -> Nat],
         Rewrites(L, M, taken, freed, settled, held, gone), NEW a
  PROVE  /\ FreePoints(M, a) + Of(L, taken, a) = FreePoints(L, a) + Of(L, freed, a)
         /\ FrozenPoints(M, a) + Of(L, settled, a) = FrozenPoints(L, a) + Of(L, held, a)
         /\ LostPoints(M, a) = LostPoints(L, a) + Of(L, gone, a)
<1>1. /\ FreeIn(M) \in [DOMAIN L -> Nat] /\ FreeIn(L) \in [DOMAIN L -> Nat]
      /\ FrozenIn(M) \in [DOMAIN L -> Nat] /\ FrozenIn(L) \in [DOMAIN L -> Nat]
      /\ LostIn(M) \in [DOMAIN L -> Nat] /\ LostIn(L) \in [DOMAIN L -> Nat]
  BY FieldTypes DEF Rewrites
<1>2. \A l \in DOMAIN L :
        /\ FreeIn(M)[l] + taken[l] = FreeIn(L)[l] + freed[l]
        /\ FrozenIn(M)[l] + settled[l] = FrozenIn(L)[l] + held[l]
        /\ LostIn(M)[l] = LostIn(L)[l] + gone[l]
  BY DEF Rewrites, FreeIn, FrozenIn, LostIn
<1>3. SameOwners(L, M)
  BY DEF Rewrites, SameOwners
<1>4. FreePoints(M, a) + Of(L, taken, a) = FreePoints(L, a) + Of(L, freed, a)
  <2> DEFINE f == FreeIn(M)
             h == FreeIn(L)
  <2>1. f \in [DOMAIN L -> Nat] /\ h \in [DOMAIN L -> Nat] /\ taken \in [DOMAIN L -> Nat]
    BY <1>1
  <2>2. Balanced(L, f, taken, h, freed)
    BY <1>2 DEF Balanced
  <2> HIDE DEF f, h
  <2>3. Of(M, f, a) + Of(L, taken, a) = Of(L, h, a) + Of(L, freed, a)
    BY <1>3, <2>1, <2>2, PartBalance
  <2> QED
    BY <2>3 DEF f, h, FreePoints
<1>5. FrozenPoints(M, a) + Of(L, settled, a) = FrozenPoints(L, a) + Of(L, held, a)
  <2> DEFINE f == FrozenIn(M)
             h == FrozenIn(L)
  <2>1. f \in [DOMAIN L -> Nat] /\ h \in [DOMAIN L -> Nat] /\ settled \in [DOMAIN L -> Nat]
    BY <1>1
  <2>2. Balanced(L, f, settled, h, held)
    BY <1>2 DEF Balanced
  <2> HIDE DEF f, h
  <2>3. Of(M, f, a) + Of(L, settled, a) = Of(L, h, a) + Of(L, held, a)
    BY <1>3, <2>1, <2>2, PartBalance
  <2> QED
    BY <2>3 DEF f, h, FrozenPoints
<1>6. LostPoints(M, a) = LostPoints(L, a) + Of(L, gone, a)
  <2> DEFINE f == LostIn(M)
             h == LostIn(L)
  <2>1. f \in [DOMAIN L -> Nat] /\ h \in [DOMAIN L -> Nat]
    BY <1>1
  <2>2. \A l \in DOMAIN L : f[l] = h[l] + gone[l]
    BY <1>2
  <2> HIDE DEF f, h
  <2>3. Of(M, f, a) = Of(L, h, a) + Of(L, gone, a)
    BY <1>3, <2>1, <2>2, PartGain
  <2> QED
    BY <2>3 DEF f, h, LostPoints
<1> QED
  BY <1>4, <1>5, <1>6

\* A new lot adds its points.
Unused(r) == r \in LotRecord /\ r.reserved = 0 /\ r.expired = 0 /\ r.reversed = 0

LEMMA Appended ==
  ASSUME MaxLots \in Nat, NEW L \in LotLists, NEW r, Unused(r), Append(L, r) \in LotLists, NEW a
  PROVE  /\ FreePoints(Append(L, r), a) = FreePoints(L, a) + IF a = r.account THEN r.available ELSE 0
         /\ FrozenPoints(Append(L, r), a) = FrozenPoints(L, a)
         /\ LostPoints(Append(L, r), a) = LostPoints(L, a)
<1> DEFINE M == Append(L, r)
           n == Len(L) + 1
<1>1. M \in LotLists /\ r \in LotRecord
  BY DEF Unused
<1>2. /\ n \in Ids /\ DOMAIN M = DOMAIN L \cup {n} /\ n \notin DOMAIN L /\ M[n] = r
      /\ \A l \in DOMAIN L : M[l] = L[l]
  <2>1. Len(L) \in Nat /\ DOMAIN L = 1 .. Len(L) /\ L \in Seq(LotRecord)
    BY LotsOfList
  <2>a. Len(M) = n
    BY <1>1, <2>1
  <2>b. M \in LotLists
    BY <1>1
  <2>c. Len(M) <= MaxLots
    <3> HIDE DEF M
    <3> QED
      BY <2>b, LotsOfList
  <2>2. Len(M) = n /\ Len(M) <= MaxLots
    BY <2>a, <2>c
  <2>3. DOMAIN M = 1 .. n /\ M[n] = r /\ \A l \in 1 .. Len(L) : M[l] = L[l]
    BY <1>1, <2>1
  <2>4. n \in Ids
    BY <2>1, <2>2 DEF Ids
  <2>5. DOMAIN M = DOMAIN L \cup {n} /\ n \notin DOMAIN L
    BY <2>1, <2>3
  <2> QED
    BY <2>1, <2>3, <2>4, <2>5
<1>3. r.available \in Nat
  BY <1>1 DEF LotRecord
<1> DEFINE new == [l \in Ids |-> IF l = n /\ a = r.account THEN r.available ELSE 0]
<1>4. new \in [Ids -> Nat] /\ (\A l \in Ids \ {n} : new[l] = 0)
      /\ new[n] = IF a = r.account THEN r.available ELSE 0
  BY <1>2, <1>3
<1> HIDE DEF M, n
<1>5. /\ Part(M, FreeIn(M), a) \in [Ids -> Nat] /\ Part(L, FreeIn(L), a) \in [Ids -> Nat]
      /\ Part(M, FrozenIn(M), a) \in [Ids -> Nat] /\ Part(L, FrozenIn(L), a) \in [Ids -> Nat]
      /\ Part(M, LostIn(M), a) \in [Ids -> Nat] /\ Part(L, LostIn(L), a) \in [Ids -> Nat]
  BY <1>1, FieldTypes, PartType
<1>6. ASSUME NEW l \in Ids
      PROVE  Part(M, FreeIn(M), a)[l] = Part(L, FreeIn(L), a)[l] + new[l]
  <2>1. CASE l = n
    BY <1>2, <1>3, <1>4, <2>1 DEF Part, FreeIn
  <2>2. CASE l # n
    <3>1. Part(M, FreeIn(M), a)[l] = Part(L, FreeIn(L), a)[l] /\ new[l] = 0
      BY <1>2, <1>4, <2>2 DEF Part, FreeIn
    <3>2. Part(L, FreeIn(L), a)[l] \in Nat
      BY <1>5
    <3> QED
      BY <3>1, <3>2
  <2> QED
    BY <2>1, <2>2
<1>7. ASSUME NEW l \in Ids
      PROVE  /\ Part(M, FrozenIn(M), a)[l] = Part(L, FrozenIn(L), a)[l]
             /\ Part(M, LostIn(M), a)[l] = Part(L, LostIn(L), a)[l]
  <2>1. CASE l = n
    BY <1>2, <2>1 DEF Unused, Part, FrozenIn, LostIn
  <2>2. CASE l # n
    BY <1>2, <2>2 DEF Part, FrozenIn, LostIn
  <2> QED
    BY <2>1, <2>2
<1>8. Points!Total(new) = IF a = r.account THEN r.available ELSE 0
  BY <1>2, <1>4, TotalPoint
<1> HIDE DEF new
<1>9. FreePoints(M, a) = FreePoints(L, a) + Points!Total(new)
  <2> DEFINE f == Part(L, FreeIn(L), a)
             h == Part(M, FreeIn(M), a)
  <2>1. f \in [Ids -> Nat] /\ h \in [Ids -> Nat] /\ \A l \in Ids : h[l] = f[l] + new[l]
    BY <1>5, <1>6
  <2> HIDE DEF f, h
  <2>2. Points!Total(h) = Points!Total(f) + Points!Total(new)
    BY <1>4, <2>1, IdsFinite, TotalAdds
  <2> QED
    BY <2>2 DEF f, h, FreePoints, Of
<1>10. FrozenPoints(M, a) = FrozenPoints(L, a) /\ LostPoints(M, a) = LostPoints(L, a)
  <2>1. Part(M, FrozenIn(M), a) = Part(L, FrozenIn(L), a)
    BY <1>5, <1>7
  <2>2. Part(M, LostIn(M), a) = Part(L, LostIn(L), a)
    BY <1>5, <1>7
  <2> QED
    BY <2>1, <2>2 DEF FrozenPoints, LostPoints, Of
<1> QED
  BY <1>1, <1>8, <1>9, <1>10 DEF M

Leaves(r, q, available, reserved, lost) ==
    /\ q \in LotRecord
    /\ q.account = r.account /\ q.grantedAt = r.grantedAt /\ q.expiresAt = r.expiresAt
    /\ q.available = available /\ q.reserved = reserved
    /\ q.expired + q.reversed = r.expired + r.reversed + lost
LEMMA LotWrites ==
  ASSUME NEW r \in LotRecord, NEW x \in Nat, x <= r.available, NEW y \in Nat, y <= r.reserved
  PROVE  /\ Leaves(r, [r EXCEPT !.available = 0, !.expired = @ + r.available], 0, r.reserved, r.available)
         /\ Leaves(r, [r EXCEPT !.available = @ - x, !.reversed = @ + x],
                   r.available - x, r.reserved, x)
         /\ Leaves(r, [r EXCEPT !.available = @ - x, !.reserved = @ + x],
                   r.available - x, r.reserved + x, 0)
         /\ Leaves(r, [r EXCEPT !.available = 0, !.reversed = @ + r.available],
                   0, r.reserved, r.available)
         /\ Leaves(r, [r EXCEPT !.reserved = @ - y, !.consumed = @ + y], r.available, r.reserved - y, 0)
         /\ Leaves(r, [r EXCEPT !.reserved = @ - y, !.available = r.available + y],
                   r.available + y, r.reserved - y, 0)
         /\ Leaves(r, [r EXCEPT !.reserved = @ - y, !.available = 0, !.expired = @ + (r.available + y)],
                   0, r.reserved - y, r.available + y)
<1>0. /\ r.account \in Accounts /\ r.original \in Nat /\ r.available \in Nat
      /\ r.reserved \in Nat /\ r.consumed \in Nat /\ r.expired \in Nat
      /\ r.reversed \in Nat /\ r.grantedAt \in Nat /\ r.expiresAt \in Nat
  BY DEF LotRecord
<1>1. /\ r.available - x \in Nat /\ r.reserved - y \in Nat /\ r.available + y \in Nat
      /\ r.reserved + x \in Nat /\ r.reversed + x \in Nat /\ r.consumed + y \in Nat
      /\ r.expired + r.available \in Nat /\ r.reversed + r.available \in Nat
      /\ r.expired + (r.available + y) \in Nat
  BY <1>0
<1>2. ASSUME NEW v \in Nat, NEW w \in Nat
      PROVE  /\ [r EXCEPT !.available = v, !.expired = w] \in LotRecord
             /\ [r EXCEPT !.available = v, !.reversed = w] \in LotRecord
             /\ [r EXCEPT !.available = v, !.reserved = w] \in LotRecord
             /\ [r EXCEPT !.reserved = v, !.consumed = w] \in LotRecord
             /\ [r EXCEPT !.reserved = v, !.available = w] \in LotRecord
             /\ \A u \in Nat : [r EXCEPT !.reserved = v, !.available = w, !.expired = u] \in LotRecord
  <2>1. [r EXCEPT !.available = v, !.expired = w] \in LotRecord
    BY DEF LotRecord
  <2>2. [r EXCEPT !.available = v, !.reversed = w] \in LotRecord
    BY DEF LotRecord
  <2>3. [r EXCEPT !.available = v, !.reserved = w] \in LotRecord
    BY DEF LotRecord
  <2>4. [r EXCEPT !.reserved = v, !.consumed = w] \in LotRecord
    BY DEF LotRecord
  <2>5. [r EXCEPT !.reserved = v, !.available = w] \in LotRecord
    BY DEF LotRecord
  <2>6. \A u \in Nat : [r EXCEPT !.reserved = v, !.available = w, !.expired = u] \in LotRecord
    BY DEF LotRecord
  <2> QED
    BY <2>1, <2>2, <2>3, <2>4, <2>5, <2>6
<1>3. Leaves(r, [r EXCEPT !.available = 0, !.expired = @ + r.available], 0, r.reserved, r.available)
  <2> DEFINE q == [r EXCEPT !.available = 0, !.expired = r.expired + r.available]
  <2>1. q \in LotRecord
    BY <1>1, <1>2, Zenon
  <2>2. /\ q.available = 0 /\ q.expired = r.expired + r.available
        /\ q.account = r.account /\ q.grantedAt = r.grantedAt
        /\ q.expiresAt = r.expiresAt /\ q.reserved = r.reserved /\ q.reversed = r.reversed
    BY DEF LotRecord
  <2> HIDE DEF q
  <2>3. Leaves(r, q, 0, r.reserved, r.available)
    BY <1>0, <2>1, <2>2 DEF Leaves
  <2> QED
    BY <2>3, Zenon DEF q
<1>4. Leaves(r, [r EXCEPT !.available = @ - x, !.reversed = @ + x], r.available - x, r.reserved, x)
  <2> DEFINE q == [r EXCEPT !.available = r.available - x, !.reversed = r.reversed + x]
  <2>1. q \in LotRecord
    BY <1>1, <1>2, Zenon
  <2>2. /\ q.available = r.available - x /\ q.reversed = r.reversed + x
        /\ q.account = r.account /\ q.grantedAt = r.grantedAt
        /\ q.expiresAt = r.expiresAt /\ q.reserved = r.reserved /\ q.expired = r.expired
    BY DEF LotRecord
  <2> HIDE DEF q
  <2>3. Leaves(r, q, r.available - x, r.reserved, x)
    BY <1>0, <2>1, <2>2 DEF Leaves
  <2> QED
    BY <2>3, Zenon DEF q
<1>5. Leaves(r, [r EXCEPT !.available = @ - x, !.reserved = @ + x], r.available - x, r.reserved + x, 0)
  <2> DEFINE q == [r EXCEPT !.available = r.available - x, !.reserved = r.reserved + x]
  <2>1. q \in LotRecord
    BY <1>1, <1>2, Zenon
  <2>2. /\ q.available = r.available - x /\ q.reserved = r.reserved + x
        /\ q.account = r.account /\ q.grantedAt = r.grantedAt
        /\ q.expiresAt = r.expiresAt /\ q.expired = r.expired /\ q.reversed = r.reversed
    BY DEF LotRecord
  <2> HIDE DEF q
  <2>3. Leaves(r, q, r.available - x, r.reserved + x, 0)
    BY <1>0, <2>1, <2>2 DEF Leaves
  <2> QED
    BY <2>3, Zenon DEF q
<1>6. Leaves(r, [r EXCEPT !.available = 0, !.reversed = @ + r.available], 0, r.reserved, r.available)
  <2> DEFINE q == [r EXCEPT !.available = 0, !.reversed = r.reversed + r.available]
  <2>1. q \in LotRecord
    BY <1>1, <1>2, Zenon
  <2>2. /\ q.available = 0 /\ q.reversed = r.reversed + r.available
        /\ q.account = r.account /\ q.grantedAt = r.grantedAt
        /\ q.expiresAt = r.expiresAt /\ q.reserved = r.reserved /\ q.expired = r.expired
    BY DEF LotRecord
  <2> HIDE DEF q
  <2>3. Leaves(r, q, 0, r.reserved, r.available)
    BY <1>0, <2>1, <2>2 DEF Leaves
  <2> QED
    BY <2>3, Zenon DEF q
<1>7. Leaves(r, [r EXCEPT !.reserved = @ - y, !.consumed = @ + y], r.available, r.reserved - y, 0)
  <2> DEFINE q == [r EXCEPT !.reserved = r.reserved - y, !.consumed = r.consumed + y]
  <2>1. q \in LotRecord
    BY <1>1, <1>2, Zenon
  <2>2. /\ q.reserved = r.reserved - y
        /\ q.account = r.account /\ q.grantedAt = r.grantedAt
        /\ q.expiresAt = r.expiresAt /\ q.available = r.available /\ q.expired = r.expired /\ q.reversed = r.reversed
    BY DEF LotRecord
  <2> HIDE DEF q
  <2>3. Leaves(r, q, r.available, r.reserved - y, 0)
    BY <1>0, <2>1, <2>2 DEF Leaves
  <2> QED
    BY <2>3, Zenon DEF q
<1>8. Leaves(r, [r EXCEPT !.reserved = @ - y, !.available = r.available + y],
             r.available + y, r.reserved - y, 0)
  <2> DEFINE q == [r EXCEPT !.reserved = r.reserved - y, !.available = r.available + y]
  <2>1. q \in LotRecord
    BY <1>1, <1>2, Zenon
  <2>2. /\ q.reserved = r.reserved - y /\ q.available = r.available + y
        /\ q.account = r.account /\ q.grantedAt = r.grantedAt
        /\ q.expiresAt = r.expiresAt /\ q.expired = r.expired /\ q.reversed = r.reversed
    BY DEF LotRecord
  <2> HIDE DEF q
  <2>3. Leaves(r, q, r.available + y, r.reserved - y, 0)
    BY <1>0, <2>1, <2>2 DEF Leaves
  <2> QED
    BY <2>3, Zenon DEF q
<1>9. Leaves(r, [r EXCEPT !.reserved = @ - y, !.available = 0, !.expired = @ + (r.available + y)],
             0, r.reserved - y, r.available + y)
  <2> DEFINE q == [r EXCEPT !.reserved = r.reserved - y, !.available = 0,
                           !.expired = r.expired + (r.available + y)]
  <2>1. q \in LotRecord
    BY <1>1, <1>2, Zenon
  <2>2. /\ q.account = r.account /\ q.grantedAt = r.grantedAt /\ q.expiresAt = r.expiresAt
        /\ q.available = 0 /\ q.reserved = r.reserved - y
        /\ q.expired = r.expired + (r.available + y) /\ q.reversed = r.reversed
    BY DEF LotRecord
  <2> HIDE DEF q
  <2>3. Leaves(r, q, 0, r.reserved - y, r.available + y)
    BY <1>0, <2>1, <2>2 DEF Leaves
  <2> QED
    BY <2>3, Zenon DEF q
<1> QED
  BY <1>3, <1>4, <1>5, <1>6, <1>7, <1>8, <1>9

-----------------------------------------------------------------------------
(* What a command changes of the lots.                                      *)

\* From L to M account a gains these points of each kind; the others gain nothing.
Gains(L, M, a, freed, frozen, lost) ==
    \A b \in Accounts :
       /\ FreePoints(M, b) = FreePoints(L, b) + IF b = a THEN freed ELSE 0
       /\ FrozenPoints(M, b) = FrozenPoints(L, b) + IF b = a THEN frozen ELSE 0
       /\ LostPoints(M, b) = LostPoints(L, b) + IF b = a THEN lost ELSE 0

\* Only lots of account a have points of f.
Within(L, f, a) == \A l \in DOMAIN L : f[l] > 0 => L[l].account = a

LEMMA RewriteGains ==
  ASSUME MaxLots \in Nat, NEW L \in LotLists, NEW M \in LotLists, NEW a \in Accounts,
         NEW taken \in [DOMAIN L -> Nat], NEW freed \in [DOMAIN L -> Nat],
         NEW settled \in [DOMAIN L -> Nat], NEW held \in [DOMAIN L -> Nat],
         NEW gone \in [DOMAIN L -> Nat],
         Rewrites(L, M, taken, freed, settled, held, gone),
         Within(L, taken, a), Within(L, freed, a), Within(L, settled, a), Within(L, held, a),
         Within(L, gone, a)
  PROVE  Gains(L, M, a, Points!Total(freed) - Points!Total(taken),
                        Points!Total(held) - Points!Total(settled), Points!Total(gone))
<1>1. ASSUME NEW f \in [DOMAIN L -> Nat], Within(L, f, a), NEW b
      PROVE  Of(L, f, b) = IF b = a THEN Points!Total(f) ELSE 0
  BY <1>1, PartWhole DEF Within
<1>2. ASSUME NEW f \in [DOMAIN L -> Nat]
      PROVE  Points!Total(f) \in Nat
  BY IdsFinite, TotalType
<1>3. SUFFICES ASSUME NEW b \in Accounts
      PROVE  /\ FreePoints(M, b) = FreePoints(L, b)
                   + IF b = a THEN Points!Total(freed) - Points!Total(taken) ELSE 0
             /\ FrozenPoints(M, b) = FrozenPoints(L, b)
                   + IF b = a THEN Points!Total(held) - Points!Total(settled) ELSE 0
             /\ LostPoints(M, b) = LostPoints(L, b) + IF b = a THEN Points!Total(gone) ELSE 0
  BY DEF Gains
<1>4. /\ FreePoints(M, b) + Of(L, taken, b) = FreePoints(L, b) + Of(L, freed, b)
      /\ FrozenPoints(M, b) + Of(L, settled, b) = FrozenPoints(L, b) + Of(L, held, b)
      /\ LostPoints(M, b) = LostPoints(L, b) + Of(L, gone, b)
  BY Rewritten
<1>5. /\ FreePoints(M, b) \in Nat /\ FreePoints(L, b) \in Nat
      /\ FrozenPoints(M, b) \in Nat /\ FrozenPoints(L, b) \in Nat
      /\ LostPoints(M, b) \in Nat /\ LostPoints(L, b) \in Nat
  BY PointsType
<1>6. /\ Points!Total(taken) \in Nat /\ Points!Total(freed) \in Nat /\ Points!Total(held) \in Nat
      /\ Points!Total(settled) \in Nat /\ Points!Total(gone) \in Nat
  BY <1>2
<1>7. /\ Of(L, taken, b) = IF b = a THEN Points!Total(taken) ELSE 0
      /\ Of(L, freed, b) = IF b = a THEN Points!Total(freed) ELSE 0
      /\ Of(L, held, b) = IF b = a THEN Points!Total(held) ELSE 0
      /\ Of(L, settled, b) = IF b = a THEN Points!Total(settled) ELSE 0
      /\ Of(L, gone, b) = IF b = a THEN Points!Total(gone) ELSE 0
  BY <1>1
<1> QED
  BY <1>4, <1>5, <1>6, <1>7

LEMMA GainsTwice ==
  ASSUME MaxLots \in Nat, NEW K \in LotLists, NEW L \in LotLists, NEW M \in LotLists, NEW a,
         NEW x \in Int, NEW y \in Int, NEW z \in Int, NEW u \in Int, NEW v \in Int, NEW w \in Int,
         Gains(K, L, a, x, y, z), Gains(L, M, a, u, v, w)
  PROVE  Gains(K, M, a, x + u, y + v, z + w)
<1>1. SUFFICES ASSUME NEW b \in Accounts
      PROVE  /\ FreePoints(M, b) = FreePoints(K, b) + IF b = a THEN x + u ELSE 0
             /\ FrozenPoints(M, b) = FrozenPoints(K, b) + IF b = a THEN y + v ELSE 0
             /\ LostPoints(M, b) = LostPoints(K, b) + IF b = a THEN z + w ELSE 0
  BY DEF Gains
<1>2. /\ FreePoints(K, b) \in Nat /\ FrozenPoints(K, b) \in Nat /\ LostPoints(K, b) \in Nat
      /\ FreePoints(L, b) \in Nat /\ FrozenPoints(L, b) \in Nat /\ LostPoints(L, b) \in Nat
  BY PointsType
<1> QED
  BY <1>1, <1>2 DEF Gains

LEMMA Mapped ==
  ASSUME NEW L \in LotLists, NEW M, M = [l \in DOMAIN L |-> M[l]],
         \A l \in DOMAIN L : M[l] \in LotRecord
  PROVE  M \in LotLists /\ DOMAIN M = DOMAIN L /\ Len(M) = Len(L)
<1>1. DOMAIN L = 1 .. Len(L) /\ Len(L) \in Nat /\ Len(L) <= MaxLots
  BY LotsOfList
<1>2. M \in [1 .. Len(L) -> LotRecord] /\ DOMAIN M = 1 .. Len(L)
  BY <1>1
<1>3. M \in Seq(LotRecord) /\ Len(M) = Len(L)
  BY <1>1, <1>2
<1> QED
  BY <1>1, <1>2, <1>3 DEF LotLists

-----------------------------------------------------------------------------
\* Expiring lots.
SameLot(r, q) == /\ q.account = r.account /\ q.reserved = r.reserved
                 /\ q.grantedAt = r.grantedAt /\ q.expiresAt = r.expiresAt

LEMMA LapsedLots ==
  ASSUME MaxLots \in Nat, lots \in LotLists, NEW D \in SUBSET DOMAIN lots
  PROVE  /\ Points!Lapsed(D) \in LotLists
         /\ DOMAIN Points!Lapsed(D) = DOMAIN lots /\ Len(Points!Lapsed(D)) = Len(lots)
         /\ \A l \in DOMAIN lots :
              /\ SameLot(lots[l], Points!Lapsed(D)[l])
              /\ l \in D => Leaves(lots[l], Points!Lapsed(D)[l], 0, lots[l].reserved, lots[l].available)
              /\ l \notin D => Points!Lapsed(D)[l] = lots[l]
<1> DEFINE M == Points!Lapsed(D)
           E(r) == [r EXCEPT !.available = 0, !.expired = @ + r.available]
<1>1. M = [l \in DOMAIN lots |-> IF l \in D THEN E(lots[l]) ELSE lots[l]]
  BY DEF Points!Lapsed
<1>2. ASSUME NEW r \in LotRecord
      PROVE  Leaves(r, E(r), 0, r.reserved, r.available)
  <2>1. 0 \in Nat /\ 0 <= r.available /\ 0 <= r.reserved
    BY DEF LotRecord
  <2> QED
    BY <2>1, LotWrites, Zenon
<1>3. \A l \in DOMAIN lots : lots[l] \in LotRecord
  BY LotsOfList
<1> HIDE DEF E
<1>4. ASSUME NEW l \in DOMAIN lots
      PROVE  /\ M[l] \in LotRecord /\ SameLot(lots[l], M[l])
             /\ l \in D => Leaves(lots[l], M[l], 0, lots[l].reserved, lots[l].available)
             /\ l \notin D => M[l] = lots[l]
  <2>1. CASE l \in D
    <3>1. M[l] = E(lots[l])
      BY <1>1, <2>1
    <3> HIDE DEF M
    <3>2. Leaves(lots[l], M[l], 0, lots[l].reserved, lots[l].available)
      BY <1>2, <1>3, <3>1
    <3> QED
      BY <2>1, <3>2 DEF Leaves, SameLot
  <2>2. CASE l \notin D
    <3>1. M[l] = lots[l]
      BY <1>1, <2>2
    <3> HIDE DEF M
    <3> QED
      BY <1>3, <2>2, <3>1 DEF SameLot
  <2> QED
    BY <2>1, <2>2
<1>5. M = [l \in DOMAIN lots |-> M[l]]
  BY <1>1
<1> HIDE DEF M
<1>6. M \in LotLists /\ DOMAIN M = DOMAIN lots /\ Len(M) = Len(lots)
  BY <1>4, <1>5, Mapped
<1> QED
  BY <1>4, <1>6 DEF M

LEMMA LapsedPoints ==
  ASSUME MaxLots \in Nat, lots \in LotLists, NEW D \in SUBSET DOMAIN lots, NEW a
  PROVE  /\ Points!Available(lots, D \cap Points!LotsOf(a)) \in Nat
         /\ FreePoints(Points!Lapsed(D), a) + Points!Available(lots, D \cap Points!LotsOf(a))
               = FreePoints(lots, a)
         /\ FrozenPoints(Points!Lapsed(D), a) = FrozenPoints(lots, a)
         /\ LostPoints(Points!Lapsed(D), a)
               = LostPoints(lots, a) + Points!Available(lots, D \cap Points!LotsOf(a))
<1> DEFINE M == Points!Lapsed(D)
           due == [l \in DOMAIN lots |-> IF l \in D THEN lots[l].available ELSE 0]
           zero == [l \in DOMAIN lots |-> 0]
           S == D \cap Points!LotsOf(a)
<1>0. \A l \in DOMAIN lots : lots[l] \in LotRecord
  BY LotsOfList
<1>1. \A l \in DOMAIN lots : lots[l].available \in Nat /\ lots[l].reserved \in Nat
                             /\ lots[l].expired \in Nat /\ lots[l].reversed \in Nat
  BY <1>0 DEF LotRecord
<1>2. due \in [DOMAIN lots -> Nat] /\ zero \in [DOMAIN lots -> Nat]
  BY <1>1
<1>3. Rewrites(lots, M, due, zero, zero, zero, due)
  <2> SUFFICES ASSUME NEW l \in DOMAIN lots
               PROVE  /\ M[l].account = lots[l].account
                      /\ M[l].available + due[l] = lots[l].available + zero[l]
                      /\ M[l].reserved + zero[l] = lots[l].reserved + zero[l]
                      /\ M[l].expired + M[l].reversed = lots[l].expired + lots[l].reversed + due[l]
    BY LapsedLots DEF Rewrites
  <2>1. CASE l \in D
    <3>1. Leaves(lots[l], M[l], 0, lots[l].reserved, lots[l].available)
      BY <2>1, LapsedLots
    <3>2. due[l] = lots[l].available /\ zero[l] = 0
      BY <2>1
    <3> HIDE DEF M, due, zero
    <3> QED
      BY <1>1, <3>1, <3>2 DEF Leaves
  <2>2. CASE l \notin D
    <3>1. M[l] = lots[l]
      BY <2>2, LapsedLots
    <3>2. due[l] = 0 /\ zero[l] = 0
      BY <2>2
    <3> HIDE DEF M, due, zero
    <3> QED
      BY <1>1, <3>1, <3>2
  <2> QED
    BY <2>1, <2>2
<1>4. M \in LotLists
  BY LapsedLots
<1>5. Of(lots, zero, a) = 0
  BY PartZero
<1>6. Of(lots, due, a) = Points!Available(lots, S)
  <2> DEFINE T == {k \in DOMAIN lots : lots[k].account = a}
             g == [l \in T |-> due[l]]
             h == [l \in S |-> lots[l].available]
  <2>1. Points!Total(g) = Of(lots, due, a)
    <3> HIDE DEF due
    <3> QED
      BY <1>2, PartSum
  <2>2. T = Points!LotsOf(a) /\ S \subseteq T /\ T \subseteq DOMAIN lots
    BY DEF Points!LotsOf
  <2>3. g \in [T -> Nat] /\ h \in [S -> Nat]
    BY <1>1, <2>2
  <2>4. (\A l \in T : g[l] > 0 => l \in S /\ h[l] = g[l]) /\ (\A l \in S : l \in T /\ g[l] = h[l])
    BY <2>2
  <2> HIDE DEF g, h, S, T
  <2>5. Points!Total(g) = Points!Total(h)
    BY <2>3, <2>4, TotalSame
  <2> QED
    BY <2>1, <2>5 DEF h, Points!Available
<1>7. Of(lots, due, a) \in Nat
  BY <1>2, PartType
<1> HIDE DEF M, due, zero, S
<1>8. /\ FreePoints(M, a) + Of(lots, due, a) = FreePoints(lots, a) + Of(lots, zero, a)
      /\ FrozenPoints(M, a) + Of(lots, zero, a) = FrozenPoints(lots, a) + Of(lots, zero, a)
      /\ LostPoints(M, a) = LostPoints(lots, a) + Of(lots, due, a)
  BY <1>2, <1>3, <1>4, Rewritten
<1>9. FreePoints(lots, a) \in Nat /\ FrozenPoints(lots, a) \in Nat /\ FrozenPoints(M, a) \in Nat
  BY <1>4, PointsType
<1> QED
  BY <1>5, <1>6, <1>7, <1>8, <1>9 DEF M, S

LEMMA LapsedGains ==
  ASSUME MaxLots \in Nat, lots \in LotLists, NEW a, NEW D \in SUBSET Points!LotsOf(a)
  PROVE  /\ Points!Available(lots, D) \in 0 .. FreePoints(lots, a)
         /\ Gains(lots, Points!Lapsed(D), a, -Points!Available(lots, D), 0, Points!Available(lots, D))
<1> DEFINE x == Points!Available(lots, D)
           M == Points!Lapsed(D)
<1>1. D \subseteq DOMAIN lots /\ D \cap Points!LotsOf(a) = D
      /\ \A b : b # a => D \cap Points!LotsOf(b) = {}
  BY DEF Points!LotsOf
<1>2. Points!Available(lots, {}) = 0
  <2> DEFINE none == [l \in {} |-> lots[l].available]
  <2>1. none \in [{} -> Nat] /\ \A l \in {} : none[l] = 0
    OBVIOUS
  <2> HIDE DEF none
  <2>2. Points!Total(none) = 0
    BY <2>1, TotalZero
  <2> QED
    BY <2>2 DEF none, Points!Available
<1>3. ASSUME NEW b
      PROVE  LET y == Points!Available(lots, D \cap Points!LotsOf(b))
             IN /\ y \in Nat /\ FreePoints(M, b) + y = FreePoints(lots, b)
                /\ FrozenPoints(M, b) = FrozenPoints(lots, b)
                /\ LostPoints(M, b) = LostPoints(lots, b) + y
  BY <1>1, LapsedPoints
<1>4. /\ x \in Nat /\ FreePoints(M, a) + x = FreePoints(lots, a)
      /\ FrozenPoints(M, a) = FrozenPoints(lots, a) /\ LostPoints(M, a) = LostPoints(lots, a) + x
  BY <1>1, <1>3
<1>5. M \in LotLists
  BY <1>1, LapsedLots
<1>6. \A b : FreePoints(M, b) \in Nat /\ FrozenPoints(M, b) \in Nat /\ LostPoints(M, b) \in Nat
             /\ FreePoints(lots, b) \in Nat /\ FrozenPoints(lots, b) \in Nat /\ LostPoints(lots, b) \in Nat
  BY <1>5, PointsType
<1>7. ASSUME NEW b, b # a
      PROVE  /\ FreePoints(M, b) = FreePoints(lots, b) /\ FrozenPoints(M, b) = FrozenPoints(lots, b)
             /\ LostPoints(M, b) = LostPoints(lots, b)
  BY <1>1, <1>2, <1>3, <1>6, <1>7
<1> HIDE DEF M, x
<1>8. Gains(lots, M, a, -x, 0, x)
  <2> SUFFICES ASSUME NEW b \in Accounts
               PROVE  /\ FreePoints(M, b) = FreePoints(lots, b) + IF b = a THEN -x ELSE 0
                      /\ FrozenPoints(M, b) = FrozenPoints(lots, b) + IF b = a THEN 0 ELSE 0
                      /\ LostPoints(M, b) = LostPoints(lots, b) + IF b = a THEN x ELSE 0
    BY DEF Gains
  <2>1. CASE b = a
    BY <1>4, <1>6, <2>1
  <2>2. CASE b # a
    BY <1>6, <1>7, <2>2
  <2> QED
    BY <2>1, <2>2
<1>9. x \in 0 .. FreePoints(lots, a)
  BY <1>4, <1>6
<1> QED
  BY <1>8, <1>9 DEF M, x

-----------------------------------------------------------------------------
(* Taking points and giving them back.                                      *)

\* Taking points from lots, and giving them back.
Debited(L, s) ==
    [l \in DOMAIN L |-> [L[l] EXCEPT !.available = @ - s[l], !.reversed = @ + s[l]]]
SetAside(L, s) ==
    [l \in DOMAIN L |-> [L[l] EXCEPT !.available = @ - s[l], !.reserved = @ + s[l]]]
Consumed(L, s) ==
    [l \in DOMAIN L |-> [L[l] EXCEPT !.reserved = @ - s[l], !.consumed = @ + s[l]]]

\* s takes n points of lots of account a, of every lot at most what it has.
Takeable(L, s, a, n) ==
    /\ s \in [DOMAIN L -> Nat] /\ Points!Total(s) = n
    /\ \A l \in DOMAIN L : s[l] <= L[l].available
    /\ Within(L, s, a)

LEMMA TakesTakeable ==
  ASSUME NEW L \in LotLists, NEW a, NEW n \in Nat, NEW s \in Points!Takes(L, a, n)
  PROVE  Takeable(L, s, a, n)
<1>1. /\ s \in [DOMAIN L -> 0 .. n] /\ Points!Total(s) = n
      /\ \A l \in DOMAIN L : s[l] > 0 => L[l].account = a /\ s[l] <= L[l].available
  BY DEF Points!Takes
<1>2. s \in [DOMAIN L -> Nat]
  BY <1>1
<1>3. ASSUME NEW l \in DOMAIN L PROVE s[l] <= L[l].available
  <2>1. L[l] \in LotRecord
    BY LotsOfList
  <2>2. L[l].available \in Nat /\ s[l] \in Nat
    BY <1>2, <2>1 DEF LotRecord
  <2>3. CASE s[l] > 0
    BY <1>1, <2>3
  <2>4. CASE ~(s[l] > 0)
    BY <2>2, <2>4
  <2> QED
    BY <2>3, <2>4
<1> QED
  BY <1>1, <1>2, <1>3 DEF Takeable, Within

LEMMA DebitedGains ==
  ASSUME MaxLots \in Nat, NEW L \in LotLists, NEW a \in Accounts, NEW n \in Nat, NEW s,
         Takeable(L, s, a, n)
  PROVE  /\ Debited(L, s) \in LotLists /\ DOMAIN Debited(L, s) = DOMAIN L
         /\ Len(Debited(L, s)) = Len(L)
         /\ \A l \in DOMAIN L : Leaves(L[l], Debited(L, s)[l], L[l].available - s[l], L[l].reserved, s[l])
         /\ Gains(L, Debited(L, s), a, -n, 0, n)
<1> DEFINE M == Debited(L, s)
           zero == [l \in DOMAIN L |-> 0]
<1>1. s \in [DOMAIN L -> Nat] /\ Points!Total(s) = n /\ Within(L, s, a)
      /\ \A l \in DOMAIN L : s[l] <= L[l].available
  BY DEF Takeable
<1>2. \A l \in DOMAIN L : L[l] \in LotRecord
  BY LotsOfList
<1>3. ASSUME NEW l \in DOMAIN L
      PROVE  Leaves(L[l], M[l], L[l].available - s[l], L[l].reserved, s[l])
  <2>1. M[l] = [L[l] EXCEPT !.available = @ - s[l], !.reversed = @ + s[l]]
    BY DEF Debited
  <2>2. L[l] \in LotRecord /\ s[l] \in Nat /\ s[l] <= L[l].available /\ 0 \in Nat /\ 0 <= L[l].reserved
    BY <1>1, <1>2 DEF LotRecord
  <2> HIDE DEF M
  <2>3. Leaves(L[l], [L[l] EXCEPT !.available = @ - s[l], !.reversed = @ + s[l]],
               L[l].available - s[l], L[l].reserved, s[l])
    BY <2>2, LotWrites, Zenon
  <2> QED
    BY <2>1, <2>3
<1>4. M = [l \in DOMAIN L |-> M[l]] /\ \A l \in DOMAIN L : M[l] \in LotRecord
  <2>1. \A l \in DOMAIN L : M[l] \in LotRecord
    BY <1>3 DEF Leaves
  <2> QED
    BY <2>1 DEF Debited
<1> HIDE DEF M
<1>5. M \in LotLists /\ DOMAIN M = DOMAIN L /\ Len(M) = Len(L)
  BY <1>4, Mapped
<1>6. zero \in [DOMAIN L -> Nat] /\ Within(L, zero, a) /\ \A l \in DOMAIN L : zero[l] = 0
  BY DEF Within
<1> HIDE DEF zero
<1>7. Points!Total(zero) = 0
  BY <1>6, TotalZero
<1>8. Rewrites(L, M, s, zero, zero, zero, s)
  <2> SUFFICES ASSUME NEW l \in DOMAIN L
               PROVE  /\ M[l].account = L[l].account
                      /\ M[l].available + s[l] = L[l].available + zero[l]
                      /\ M[l].reserved + zero[l] = L[l].reserved + zero[l]
                      /\ M[l].expired + M[l].reversed = L[l].expired + L[l].reversed + s[l]
    BY <1>5 DEF Rewrites
  <2>1. L[l].available \in Nat /\ L[l].reserved \in Nat /\ s[l] \in Nat /\ zero[l] = 0
    BY <1>1, <1>2, <1>6 DEF LotRecord
  <2> QED
    BY <1>3, <2>1 DEF Leaves
<1>9. Gains(L, M, a, Points!Total(zero) - Points!Total(s), Points!Total(zero) - Points!Total(zero),
            Points!Total(s))
  BY <1>1, <1>5, <1>6, <1>8, RewriteGains
<1>10. 0 - n = -n /\ 0 - 0 = 0
  OBVIOUS
<1>11. Gains(L, M, a, -n, 0, n)
  BY <1>1, <1>7, <1>9, <1>10
<1> QED
  BY <1>3, <1>5, <1>11 DEF M

LEMMA SetAsideGains ==
  ASSUME MaxLots \in Nat, NEW L \in LotLists, NEW a \in Accounts, NEW n \in Nat, NEW s,
         Takeable(L, s, a, n)
  PROVE  /\ SetAside(L, s) \in LotLists /\ DOMAIN SetAside(L, s) = DOMAIN L
         /\ Len(SetAside(L, s)) = Len(L)
         /\ \A l \in DOMAIN L :
              Leaves(L[l], SetAside(L, s)[l], L[l].available - s[l], L[l].reserved + s[l], 0)
         /\ Gains(L, SetAside(L, s), a, -n, n, 0)
<1> DEFINE M == SetAside(L, s)
           zero == [l \in DOMAIN L |-> 0]
<1>1. s \in [DOMAIN L -> Nat] /\ Points!Total(s) = n /\ Within(L, s, a)
      /\ \A l \in DOMAIN L : s[l] <= L[l].available
  BY DEF Takeable
<1>2. \A l \in DOMAIN L : L[l] \in LotRecord
  BY LotsOfList
<1>3. ASSUME NEW l \in DOMAIN L
      PROVE  Leaves(L[l], M[l], L[l].available - s[l], L[l].reserved + s[l], 0)
  <2>1. M[l] = [L[l] EXCEPT !.available = @ - s[l], !.reserved = @ + s[l]]
    BY DEF SetAside
  <2>2. L[l] \in LotRecord /\ s[l] \in Nat /\ s[l] <= L[l].available /\ 0 \in Nat /\ 0 <= L[l].reserved
    BY <1>1, <1>2 DEF LotRecord
  <2> HIDE DEF M
  <2>3. Leaves(L[l], [L[l] EXCEPT !.available = @ - s[l], !.reserved = @ + s[l]],
               L[l].available - s[l], L[l].reserved + s[l], 0)
    BY <2>2, LotWrites, Zenon
  <2> QED
    BY <2>1, <2>3
<1>4. M = [l \in DOMAIN L |-> M[l]] /\ \A l \in DOMAIN L : M[l] \in LotRecord
  <2>1. \A l \in DOMAIN L : M[l] \in LotRecord
    BY <1>3 DEF Leaves
  <2> QED
    BY <2>1 DEF SetAside
<1> HIDE DEF M
<1>5. M \in LotLists /\ DOMAIN M = DOMAIN L /\ Len(M) = Len(L)
  BY <1>4, Mapped
<1>6. zero \in [DOMAIN L -> Nat] /\ Within(L, zero, a) /\ \A l \in DOMAIN L : zero[l] = 0
  BY DEF Within
<1> HIDE DEF zero
<1>7. Points!Total(zero) = 0
  BY <1>6, TotalZero
<1>8. Rewrites(L, M, s, zero, zero, s, zero)
  <2> SUFFICES ASSUME NEW l \in DOMAIN L
               PROVE  /\ M[l].account = L[l].account
                      /\ M[l].available + s[l] = L[l].available + zero[l]
                      /\ M[l].reserved + zero[l] = L[l].reserved + s[l]
                      /\ M[l].expired + M[l].reversed = L[l].expired + L[l].reversed + zero[l]
    BY <1>5 DEF Rewrites
  <2>1. L[l].available \in Nat /\ L[l].reserved \in Nat /\ s[l] \in Nat /\ zero[l] = 0
    BY <1>1, <1>2, <1>6 DEF LotRecord
  <2> QED
    BY <1>3, <2>1 DEF Leaves
<1>9. Gains(L, M, a, Points!Total(zero) - Points!Total(s), Points!Total(s) - Points!Total(zero),
            Points!Total(zero))
  BY <1>1, <1>5, <1>6, <1>8, RewriteGains
<1>10. 0 - n = -n /\ n - 0 = n
  OBVIOUS
<1>11. Gains(L, M, a, -n, n, 0)
  BY <1>1, <1>7, <1>9, <1>10
<1> QED
  BY <1>3, <1>5, <1>11 DEF M

\* s takes n of the reserved points of account a.
Payable(L, s, a, n) ==
    /\ s \in [DOMAIN L -> Nat] /\ Points!Total(s) = n
    /\ \A l \in DOMAIN L : s[l] <= L[l].reserved
    /\ Within(L, s, a)

LEMMA ConsumedGains ==
  ASSUME MaxLots \in Nat, NEW L \in LotLists, NEW a \in Accounts, NEW n \in Nat, NEW s,
         Payable(L, s, a, n)
  PROVE  /\ Consumed(L, s) \in LotLists /\ DOMAIN Consumed(L, s) = DOMAIN L
         /\ \A l \in DOMAIN L : Leaves(L[l], Consumed(L, s)[l], L[l].available, L[l].reserved - s[l], 0)
         /\ Gains(L, Consumed(L, s), a, 0, -n, 0)
<1> DEFINE M == Consumed(L, s)
           zero == [l \in DOMAIN L |-> 0]
<1>1. s \in [DOMAIN L -> Nat] /\ Points!Total(s) = n /\ Within(L, s, a)
      /\ \A l \in DOMAIN L : s[l] <= L[l].reserved
  BY DEF Payable
<1>2. \A l \in DOMAIN L : L[l] \in LotRecord
  BY LotsOfList
<1>3. ASSUME NEW l \in DOMAIN L
      PROVE  Leaves(L[l], M[l], L[l].available, L[l].reserved - s[l], 0)
  <2>1. M[l] = [L[l] EXCEPT !.reserved = @ - s[l], !.consumed = @ + s[l]]
    BY DEF Consumed
  <2>2. L[l] \in LotRecord /\ s[l] \in Nat /\ s[l] <= L[l].reserved /\ 0 \in Nat /\ 0 <= L[l].available
    BY <1>1, <1>2 DEF LotRecord
  <2> HIDE DEF M
  <2>3. Leaves(L[l], [L[l] EXCEPT !.reserved = @ - s[l], !.consumed = @ + s[l]],
               L[l].available, L[l].reserved - s[l], 0)
    BY <2>2, LotWrites, Zenon
  <2> QED
    BY <2>1, <2>3
<1>4. M = [l \in DOMAIN L |-> M[l]] /\ \A l \in DOMAIN L : M[l] \in LotRecord
  <2>1. \A l \in DOMAIN L : M[l] \in LotRecord
    BY <1>3 DEF Leaves
  <2> QED
    BY <2>1 DEF Consumed
<1> HIDE DEF M
<1>5. M \in LotLists /\ DOMAIN M = DOMAIN L
  BY <1>4, Mapped
<1>6. zero \in [DOMAIN L -> Nat] /\ Within(L, zero, a) /\ \A l \in DOMAIN L : zero[l] = 0
  BY DEF Within
<1> HIDE DEF zero
<1>7. Points!Total(zero) = 0
  BY <1>6, TotalZero
<1>8. Rewrites(L, M, zero, zero, s, zero, zero)
  <2> SUFFICES ASSUME NEW l \in DOMAIN L
               PROVE  /\ M[l].account = L[l].account
                      /\ M[l].available + zero[l] = L[l].available + zero[l]
                      /\ M[l].reserved + s[l] = L[l].reserved + zero[l]
                      /\ M[l].expired + M[l].reversed = L[l].expired + L[l].reversed + zero[l]
    BY <1>5 DEF Rewrites
  <2>1. L[l].available \in Nat /\ L[l].reserved \in Nat /\ s[l] \in Nat /\ zero[l] = 0
    BY <1>1, <1>2, <1>6 DEF LotRecord
  <2> QED
    BY <1>3, <2>1 DEF Leaves
<1>9. Gains(L, M, a, Points!Total(zero) - Points!Total(zero), Points!Total(zero) - Points!Total(s),
            Points!Total(zero))
  BY <1>1, <1>5, <1>6, <1>8, RewriteGains
<1>10. 0 - n = -n /\ 0 - 0 = 0
  OBVIOUS
<1>11. Gains(L, M, a, 0, -n, 0)
  BY <1>1, <1>7, <1>9, <1>10
<1> QED
  BY <1>3, <1>5, <1>11 DEF M

\* A release: what comes back to a lot that has expired is lost, with everything
\* else in the lot.
\* The lots a release leaves, the lots that lapse in it, and the points lost with them.
GivenBack(s, t) == [l \in DOMAIN lots |-> Points!Returned(l, s, t)]
LapsedBack(s, t) == {l \in DOMAIN lots : Points!Lapses(l, s, t)}
LostBack(s, t) == Points!Total([l \in LapsedBack(s, t) |-> lots[l].available + s[l]])

LEMMA ReturnedGains ==
  ASSUME MaxLots \in Nat, lots \in LotLists, NEW a \in Accounts, NEW n \in Nat, NEW s,
         Payable(lots, s, a, n), NEW t
  PROVE  /\ GivenBack(s, t) \in LotLists /\ DOMAIN GivenBack(s, t) = DOMAIN lots
         /\ \A l \in DOMAIN lots :
              /\ GivenBack(s, t)[l].account = lots[l].account
              /\ GivenBack(s, t)[l].expiresAt = lots[l].expiresAt
              /\ GivenBack(s, t)[l].reserved = lots[l].reserved - s[l]
              /\ l \in LapsedBack(s, t) => GivenBack(s, t)[l].available = 0
              /\ s[l] = 0 => GivenBack(s, t)[l].available = lots[l].available
         /\ LostBack(s, t) \in 0 .. FreePoints(lots, a) + n
         /\ Gains(lots, GivenBack(s, t), a, n - LostBack(s, t), -n, LostBack(s, t))
<1> DEFINE M == [l \in DOMAIN lots |-> Points!Returned(l, s, t)]
           lapsed == {l \in DOMAIN lots : Points!Lapses(l, s, t)}
           h == [l \in lapsed |-> lots[l].available + s[l]]
           lost == Points!Total(h)
           zero == [l \in DOMAIN lots |-> 0]
           gone == [l \in DOMAIN lots |-> IF l \in lapsed THEN lots[l].available + s[l] ELSE 0]
<1>1. s \in [DOMAIN lots -> Nat] /\ Points!Total(s) = n /\ Within(lots, s, a)
      /\ \A l \in DOMAIN lots : s[l] <= lots[l].reserved
  BY DEF Payable
<1>2. \A l \in DOMAIN lots : lots[l] \in LotRecord
  BY LotsOfList
<1>3. \A l \in DOMAIN lots : lots[l].available \in Nat /\ lots[l].reserved \in Nat
                             /\ lots[l].expired \in Nat /\ lots[l].reversed \in Nat /\ s[l] \in Nat
  BY <1>1, <1>2 DEF LotRecord
<1>4. /\ zero \in [DOMAIN lots -> Nat] /\ gone \in [DOMAIN lots -> Nat] /\ h \in [lapsed -> Nat]
      /\ lapsed \subseteq DOMAIN lots
  BY <1>3
<1>5. ASSUME NEW l \in DOMAIN lots
      PROVE  /\ l \in lapsed => Leaves(lots[l], M[l], 0, lots[l].reserved - s[l],
                                       lots[l].available + s[l])
             /\ l \notin lapsed => Leaves(lots[l], M[l], lots[l].available + s[l],
                                          lots[l].reserved - s[l], 0)
  <2> DEFINE E == [lots[l] EXCEPT !.reserved = @ - s[l], !.available = 0,
                                  !.expired = @ + (lots[l].available + s[l])]
             R == [lots[l] EXCEPT !.reserved = @ - s[l], !.available = lots[l].available + s[l]]
  <2>1. (l \in lapsed => M[l] = E) /\ (l \notin lapsed => M[l] = R)
    BY DEF Points!Returned
  <2>2. lots[l] \in LotRecord /\ s[l] \in Nat /\ s[l] <= lots[l].reserved /\ 0 \in Nat
        /\ 0 <= lots[l].available
    BY <1>1, <1>2, <1>3
  <2>3. /\ Leaves(lots[l], E, 0, lots[l].reserved - s[l], lots[l].available + s[l])
        /\ Leaves(lots[l], R, lots[l].available + s[l], lots[l].reserved - s[l], 0)
    BY <2>2, LotWrites, Zenon
  <2> HIDE DEF M, E, R, lapsed
  <2> QED
    BY <2>1, <2>3
<1>6. M = [l \in DOMAIN lots |-> M[l]]
  OBVIOUS
<1>7. \A l \in DOMAIN lots : gone[l] = IF l \in lapsed THEN lots[l].available + s[l] ELSE 0
  OBVIOUS
<1>8. \A l \in DOMAIN lots : zero[l] = 0
  OBVIOUS
<1>9. Points!Total(gone) = lost
  <2>1. (\A l \in DOMAIN lots : gone[l] > 0 => l \in lapsed /\ h[l] = gone[l])
        /\ (\A l \in lapsed : l \in DOMAIN lots /\ gone[l] = h[l])
    BY <1>4
  <2> HIDE DEF gone, h, lapsed
  <2> QED
    BY <1>4, <2>1, TotalSame
<1>10. Within(lots, gone, a)
  <2>1. \A l \in lapsed : s[l] > 0
    BY DEF Points!Lapses
  <2> QED
    BY <1>1, <1>7, <2>1 DEF Within
<1>11. lost \in Nat
  <2> HIDE DEF gone
  <2> QED
    BY <1>4, <1>9, IdsFinite, TotalType
<1>12. \A l \in lapsed : s[l] > 0
  BY DEF Points!Lapses
<1> HIDE DEF M, zero, gone, h, lapsed
<1>13. M \in LotLists /\ DOMAIN M = DOMAIN lots
  <2>1. \A l \in DOMAIN lots : M[l] \in LotRecord
    BY <1>5 DEF Leaves
  <2> QED
    BY <1>6, <2>1, Mapped
<1>14. Rewrites(lots, M, gone, s, s, zero, gone)
  <2> SUFFICES ASSUME NEW l \in DOMAIN lots
               PROVE  /\ M[l].account = lots[l].account
                      /\ M[l].available + gone[l] = lots[l].available + s[l]
                      /\ M[l].reserved + s[l] = lots[l].reserved + zero[l]
                      /\ M[l].expired + M[l].reversed = lots[l].expired + lots[l].reversed + gone[l]
    BY <1>13 DEF Rewrites
  <2>1. CASE l \in lapsed
    BY <1>3, <1>5, <1>7, <1>8, <2>1 DEF Leaves
  <2>2. CASE l \notin lapsed
    BY <1>3, <1>5, <1>7, <1>8, <2>2 DEF Leaves
  <2> QED
    BY <2>1, <2>2
<1>15. Within(lots, zero, a)
  BY <1>8 DEF Within
<1>16. Points!Total(zero) = 0
  BY <1>4, <1>8, TotalZero
<1>17. Gains(lots, M, a, Points!Total(s) - Points!Total(gone), Points!Total(zero) - Points!Total(s),
             Points!Total(gone))
  BY <1>1, <1>4, <1>10, <1>13, <1>14, <1>15, RewriteGains
<1>18. Gains(lots, M, a, n - lost, -n, lost)
  <2>1. 0 - n = -n
    OBVIOUS
  <2> HIDE DEF lost
  <2> QED
    BY <1>1, <1>9, <1>16, <1>17, <2>1
<1>19. lost \in 0 .. FreePoints(lots, a) + n
  <2>1. FreePoints(M, a) \in Nat /\ FreePoints(lots, a) \in Nat
    BY <1>13, PointsType
  <2>2. FreePoints(M, a) = FreePoints(lots, a) + (n - lost)
    BY <1>18 DEF Gains
  <2> HIDE DEF lost
  <2> QED
    BY <1>11, <2>1, <2>2
<1>20. \A l \in DOMAIN lots : /\ M[l].account = lots[l].account
                              /\ M[l].expiresAt = lots[l].expiresAt
                              /\ M[l].reserved = lots[l].reserved - s[l]
                              /\ l \in lapsed => M[l].available = 0
                              /\ s[l] = 0 => M[l].available = lots[l].available
  <2> SUFFICES ASSUME NEW l \in DOMAIN lots
               PROVE  /\ M[l].account = lots[l].account
                      /\ M[l].expiresAt = lots[l].expiresAt
                      /\ M[l].reserved = lots[l].reserved - s[l]
                      /\ l \in lapsed => M[l].available = 0
                      /\ s[l] = 0 => M[l].available = lots[l].available
    OBVIOUS
  <2>1. CASE l \in lapsed
    BY <1>5, <1>12, <2>1 DEF Leaves
  <2>2. CASE l \notin lapsed
    BY <1>3, <1>5, <2>2 DEF Leaves
  <2> QED
    BY <2>1, <2>2
<1>21. M = GivenBack(s, t) /\ lapsed = LapsedBack(s, t) /\ lost = LostBack(s, t)
  BY DEF M, lapsed, h, lost, GivenBack, LapsedBack, LostBack
<1> QED
  BY <1>13, <1>18, <1>19, <1>20, <1>21

-----------------------------------------------------------------------------
(* The inductive invariant of personal points.                              *)

LEMMA PointsConstants ==
  ASSUME Points!PointsAssumption
  PROVE  /\ NoAccount \notin Accounts /\ IsFiniteSet(Jobs)
         /\ Amounts \subseteq Nat \ {0} /\ Reservations \subseteq Nat \ {0}
         /\ Validity \subseteq 1 .. MaxTime
         /\ MaxLots \in Nat /\ MaxGrants \in Nat /\ MaxGrants <= MaxLots
         /\ MaxTime \in Nat /\ Skew \in Nat
  BY PointsCardinality DEF Points!PointsAssumption

Books == [Accounts -> [available : Int, frozen : Int]]

JobRecord == [account : Accounts \cup {NoAccount}, requested : Nat, reserved : Nat,
              captured : Nat, released : Nat]

PointsShape ==
    /\ lots \in LotLists
    /\ account \in Books
    /\ reservation \in [Jobs -> JobRecord]
    /\ allocated \in [Jobs -> [Ids -> Nat]]
    /\ now \in Nat

\* Books that say what the lots of each account hold.
Booked(L, books) ==
    \A a \in Accounts : /\ books[a].available = FreePoints(L, a)
                        /\ books[a].frozen = FrozenPoints(L, a)

\* A job holds points of lots of one account, and without an account it holds and
\* has spent none.
Placed ==
    \A j \in Jobs :
       /\ reservation[j].account = NoAccount =>
             reservation[j].reserved = 0 /\ reservation[j].captured = 0
       /\ \A l \in Ids : allocated[j][l] > 0 =>
             l \in DOMAIN lots /\ lots[l].account = reservation[j].account

Column(A, l) == [j \in Jobs |-> A[j][l]]

LotsAgree == \A l \in DOMAIN lots : lots[l].reserved = Points!Total(Column(allocated, l))
JobsAgree == \A j \in Jobs : reservation[j].reserved = Points!Total(allocated[j])

AllocationInv == Placed /\ LotsAgree /\ JobsAgree

PointsInv == PointsShape /\ Booked(lots, account) /\ AllocationInv

LEMMA BalanceBooks ==
  ASSUME NEW books \in Books, NEW a \in Accounts, NEW x \in Int, NEW y \in Int
  PROVE  /\ Points!Balance(books, a, x, y) \in Books
         /\ \A b \in Accounts :
              /\ Points!Balance(books, a, x, y)[b].available
                    = books[b].available + IF b = a THEN x ELSE 0
              /\ Points!Balance(books, a, x, y)[b].frozen
                    = books[b].frozen + IF b = a THEN y ELSE 0
<1> DEFINE new == [available |-> books[a].available + x, frozen |-> books[a].frozen + y]
<1>1. \A b \in Accounts : books[b].available \in Int /\ books[b].frozen \in Int
  BY DEF Books
<1>2. Points!Balance(books, a, x, y) = [books EXCEPT ![a] = new]
  BY DEF Points!Balance
<1>3. /\ new \in [available : Int, frozen : Int]
      /\ new.available = books[a].available + x /\ new.frozen = books[a].frozen + y
  BY <1>1
<1> HIDE DEF new
<1>4. \A b \in Accounts : [books EXCEPT ![a] = new][b] = IF b = a THEN new ELSE books[b]
  BY DEF Books
<1>5. [books EXCEPT ![a] = new] \in Books
  BY <1>3 DEF Books
<1>6. ASSUME NEW b \in Accounts
      PROVE  /\ [books EXCEPT ![a] = new][b].available = books[b].available + IF b = a THEN x ELSE 0
             /\ [books EXCEPT ![a] = new][b].frozen = books[b].frozen + IF b = a THEN y ELSE 0
  <2>1. CASE b = a
    BY <1>3, <1>4, <2>1
  <2>2. CASE b # a
    BY <1>1, <1>4, <2>2
  <2> QED
    BY <2>1, <2>2
<1> QED
  BY <1>2, <1>5, <1>6

LEMMA BookedGains ==
  ASSUME NEW L, NEW M, NEW books \in Books, NEW a \in Accounts,
         NEW x \in Int, NEW y \in Int, NEW z, Booked(L, books), Gains(L, M, a, x, y, z)
  PROVE  /\ Points!Balance(books, a, x, y) \in Books
         /\ Booked(M, Points!Balance(books, a, x, y))
  BY BalanceBooks DEF Booked, Gains

LEMMA AppendList ==
  ASSUME NEW L \in LotLists, Len(L) < MaxLots, MaxLots \in Nat, NEW r \in LotRecord
  PROVE  Append(L, r) \in LotLists
<1>1. L \in Seq(LotRecord) /\ Len(L) \in Nat
  BY LotsOfList
<1>2. Append(L, r) \in Seq(LotRecord) /\ Len(Append(L, r)) = Len(L) + 1
  BY <1>1
<1> QED
  BY <1>1, <1>2 DEF LotLists

LEMMA NewLot ==
  ASSUME NEW a \in Accounts, NEW n \in Nat, NEW t \in Nat, NEW e \in Nat
  PROVE  /\ Unused(Points!Lot(a, n, t, e)) /\ Points!Lot(a, n, t, e) \in LotRecord
         /\ Points!Lot(a, n, t, e).account = a /\ Points!Lot(a, n, t, e).available = n
         /\ Points!Lot(a, n, t, e).expiresAt = e /\ Points!Lot(a, n, t, e).reserved = 0
  BY DEF Points!Lot, Unused, LotRecord

LEMMA AppendGains ==
  ASSUME MaxLots \in Nat, NEW L \in LotLists, NEW r, Unused(r), Append(L, r) \in LotLists
  PROVE  Gains(L, Append(L, r), r.account, r.available, 0, 0)
<1> DEFINE M == Append(L, r)
<1>1. ASSUME NEW b \in Accounts
      PROVE  /\ FreePoints(M, b) = FreePoints(L, b) + IF b = r.account THEN r.available ELSE 0
             /\ FrozenPoints(M, b) = FrozenPoints(L, b) + IF b = r.account THEN 0 ELSE 0
             /\ LostPoints(M, b) = LostPoints(L, b) + IF b = r.account THEN 0 ELSE 0
  <2>1. FrozenPoints(L, b) \in Nat /\ LostPoints(L, b) \in Nat
    BY PointsType
  <2>2. /\ FreePoints(M, b) = FreePoints(L, b) + IF b = r.account THEN r.available ELSE 0
        /\ FrozenPoints(M, b) = FrozenPoints(L, b) /\ LostPoints(M, b) = LostPoints(L, b)
    BY Appended
  <2> HIDE DEF M
  <2> QED
    BY <2>1, <2>2
<1> QED
  BY <1>1 DEF Gains

-----------------------------------------------------------------------------
\* Commands that leave the reserved points of every lot alone.
Extends(L, M) ==
    /\ DOMAIN L \subseteq DOMAIN M
    /\ \A l \in DOMAIN L : M[l].account = L[l].account /\ M[l].reserved = L[l].reserved
    /\ \A l \in DOMAIN M \ DOMAIN L : M[l].reserved = 0

LEMMA Untouched ==
  ASSUME Points!PointsAssumption, PointsShape, AllocationInv, lots' \in LotLists,
         Extends(lots, lots'), UNCHANGED <<reservation, allocated>>
  PROVE  AllocationInv'
<1> USE DEF AllocationInv
<1>1. Placed'
  BY DEF Placed, Extends
<1>2. JobsAgree'
  BY DEF JobsAgree
<1>3. ASSUME NEW l \in DOMAIN lots' PROVE lots'[l].reserved = Points!Total(Column(allocated', l))
  <2>1. CASE l \in DOMAIN lots
    <3>1. lots[l].reserved = Points!Total(Column(allocated, l))
      BY <2>1 DEF LotsAgree
    <3> QED
      BY <2>1, <3>1 DEF Extends
  <2>2. CASE l \notin DOMAIN lots
    <3>0. l \in Ids
      BY PointsConstants, IdsFinite
    <3>1. \A j \in Jobs : allocated[j][l] \in Nat /\ ~(allocated[j][l] > 0)
      BY <2>2, <3>0 DEF Placed, PointsShape
    <3>2. Column(allocated, l) \in [Jobs -> Nat] /\ \A j \in Jobs : Column(allocated, l)[j] = 0
      BY <3>1 DEF Column
    <3>3. Points!Total(Column(allocated, l)) = 0
      BY <3>2, TotalZero
    <3> QED
      BY <2>2, <3>3 DEF Extends
  <2> QED
    BY <2>1, <2>2
<1> QED
  BY <1>1, <1>2, <1>3 DEF LotsAgree

\* What changes in one place changes the sum by as much.
LEMMA TotalChange ==
  ASSUME NEW S, IsFiniteSet(S), NEW f \in [S -> Nat], NEW g \in [S -> Nat], NEW y \in S,
         \A x \in S \ {y} : g[x] = f[x]
  PROVE  Points!Total(g) + f[y] = Points!Total(f) + g[y]
<1> DEFINE F == [x \in S |-> IF x = y THEN f[y] ELSE 0]
           G == [x \in S |-> IF x = y THEN g[y] ELSE 0]
<1>1. /\ F \in [S -> Nat] /\ G \in [S -> Nat] /\ F[y] = f[y] /\ G[y] = g[y]
      /\ \A x \in S \ {y} : F[x] = 0 /\ G[x] = 0
  OBVIOUS
<1> HIDE DEF F, G
<1>2. ASSUME NEW x \in S PROVE g[x] + F[x] = f[x] + G[x]
  <2>1. f[x] \in Nat /\ g[x] \in Nat
    OBVIOUS
  <2>2. CASE x = y
    BY <1>1, <2>1, <2>2
  <2>3. CASE x # y
    BY <1>1, <2>1, <2>3
  <2> QED
    BY <2>2, <2>3
<1>3. Points!Total(F) = f[y] /\ Points!Total(G) = g[y]
  BY <1>1, TotalPoint
<1>4. Points!Total(g) + Points!Total(F) = Points!Total(f) + Points!Total(G)
  BY <1>1, <1>2, TotalBalance
<1> QED
  BY <1>3, <1>4

\* Points by lot, over all ids.
Wide(L, s) == [l \in Ids |-> IF l \in DOMAIN L THEN s[l] ELSE 0]

LEMMA WideTotal ==
  ASSUME MaxLots \in Nat, NEW L \in LotLists, NEW s \in [DOMAIN L -> Nat]
  PROVE  /\ Wide(L, s) \in [Ids -> Nat] /\ Points!Total(Wide(L, s)) = Points!Total(s)
         /\ \A l \in Ids : Wide(L, s)[l] = IF l \in DOMAIN L THEN s[l] ELSE 0
<1>1. Wide(L, s) \in [Ids -> Nat] /\ DOMAIN L \subseteq Ids
      /\ \A l \in Ids : Wide(L, s)[l] = IF l \in DOMAIN L THEN s[l] ELSE 0
  BY IdsFinite DEF Wide
<1>2. \A l \in DOMAIN L : s[l] > 0 => Wide(L, s)[l] = s[l]
  BY <1>1
<1>3. \A l \in Ids : Wide(L, s)[l] > 0 => l \in DOMAIN L /\ s[l] = Wide(L, s)[l]
  BY <1>1
<1>4. Points!Total(s) = Points!Total(Wide(L, s))
  BY <1>1, <1>2, <1>3, TotalSame
<1> QED
  BY <1>1, <1>4

\* What a job holds of a lot is reserved in it.
LEMMA AllocatedReserved ==
  ASSUME Points!PointsAssumption, PointsShape, AllocationInv, NEW j \in Jobs, NEW l \in DOMAIN lots
  PROVE  allocated[j][l] <= lots[l].reserved
<1>1. l \in Ids /\ IsFiniteSet(Jobs)
  BY PointsConstants, IdsFinite DEF PointsShape
<1>2. Column(allocated, l) \in [Jobs -> Nat] /\ Column(allocated, l)[j] = allocated[j][l]
  BY <1>1 DEF Column, PointsShape
<1>3. Column(allocated, l)[j] <= Points!Total(Column(allocated, l))
  BY <1>1, <1>2, TotalAtLeast
<1> QED
  BY <1>2, <1>3 DEF AllocationInv, LotsAgree

LEMMA SplitPayable ==
  ASSUME Points!PointsAssumption, PointsShape, AllocationInv, NEW j \in Jobs, NEW n \in Nat,
         NEW s \in Points!Splits(j, n)
  PROVE  /\ Payable(lots, s, reservation[j].account, n)
         /\ s \in [DOMAIN lots -> Nat] /\ \A l \in DOMAIN lots : s[l] <= allocated[j][l]
<1>1. s \in [DOMAIN lots -> 0 .. n] /\ Points!Total(s) = n
      /\ \A l \in DOMAIN lots : s[l] <= allocated[j][l]
  BY DEF Points!Splits
<1>2. s \in [DOMAIN lots -> Nat]
  BY <1>1
<1>3. DOMAIN lots \subseteq Ids
  BY PointsConstants, IdsFinite DEF PointsShape
<1>4. ASSUME NEW l \in DOMAIN lots
      PROVE  /\ s[l] <= lots[l].reserved
             /\ s[l] > 0 => lots[l].account = reservation[j].account
  <2>1. allocated[j][l] \in Nat /\ s[l] \in Nat
    BY <1>2, <1>3 DEF PointsShape
  <2>2. lots[l] \in LotRecord
    BY LotsOfList DEF PointsShape
  <2>3. lots[l].reserved \in Nat
    BY <2>2 DEF LotRecord
  <2>4. s[l] <= allocated[j][l] /\ allocated[j][l] <= lots[l].reserved
    BY <1>1, AllocatedReserved
  <2>5. s[l] > 0 => allocated[j][l] > 0
    BY <2>1, <2>4
  <2> QED
    BY <1>3, <2>1, <2>3, <2>4, <2>5 DEF AllocationInv, Placed
<1> QED
  BY <1>1, <1>2, <1>4 DEF Payable, Within

LEMMA PointsFacts ==
  ASSUME Points!PointsAssumption, PointsInv
  PROVE  /\ MaxLots \in Nat /\ MaxTime \in Nat /\ IsFiniteSet(Jobs) /\ lots \in LotLists
         /\ now \in Nat /\ PointsShape /\ \A n \in Amounts \cup Reservations : n \in Nat /\ n >= 1
<1>1. MaxLots \in Nat /\ MaxTime \in Nat /\ IsFiniteSet(Jobs)
  BY PointsConstants
<1>2. PointsShape
  BY DEF PointsInv
<1>3. lots \in LotLists /\ now \in Nat
  BY <1>2 DEF PointsShape
<1>4. \A n \in Amounts \cup Reservations : n \in Nat /\ n >= 1
  BY PointsConstants
<1> QED
  BY <1>1, <1>2, <1>3, <1>4

-----------------------------------------------------------------------------
(* Its preservation: grants, corrections and expiry.                        *)

\* Captures and releases take the same points from the reservation, from the
\* allocations of the job and from the reserved points of the lots.
LEMMA Settled ==
  ASSUME Points!PointsAssumption, PointsShape, AllocationInv, NEW j \in Jobs,
         NEW n \in 1 .. reservation[j].reserved, NEW s \in Points!Splits(j, n),
         allocated' = Points!Deallocated(j, s),
         reservation' \in [Jobs -> JobRecord],
         reservation'[j].reserved = reservation[j].reserved - n,
         \A i \in Jobs : /\ reservation'[i].account = reservation[i].account
                         /\ i # j => reservation'[i] = reservation[i],
         lots' \in LotLists, DOMAIN lots' = DOMAIN lots,
         \A l \in DOMAIN lots : /\ lots'[l].account = lots[l].account
                                /\ lots'[l].reserved = lots[l].reserved - s[l]
  PROVE  allocated' \in [Jobs -> [Ids -> Nat]] /\ AllocationInv'
<1> DEFINE rest == [l \in Ids |-> allocated[j][l] - IF l \in DOMAIN lots THEN s[l] ELSE 0]
<1>0. reservation[j].reserved \in Nat /\ n \in Nat /\ n >= 1
  BY DEF PointsShape, JobRecord
<1>1. /\ s \in [DOMAIN lots -> Nat] /\ Points!Total(s) = n
      /\ \A l \in DOMAIN lots : s[l] <= allocated[j][l]
      /\ \A l \in DOMAIN lots : s[l] > 0 => lots[l].account = reservation[j].account
  BY <1>0, SplitPayable DEF Payable, Within
<1>2. MaxLots \in Nat /\ lots \in LotLists /\ DOMAIN lots \subseteq Ids /\ IsFiniteSet(Ids)
      /\ IsFiniteSet(Jobs)
  BY PointsConstants, IdsFinite DEF PointsShape
<1>3. allocated' = [allocated EXCEPT ![j] = rest]
  BY DEF Points!Deallocated, PointsShape, Ids
<1>4. ASSUME NEW l \in Ids
      PROVE  /\ rest[l] \in Nat /\ rest[l] + Wide(lots, s)[l] = allocated[j][l]
             /\ rest[l] <= allocated[j][l]
  <2>1. allocated[j][l] \in Nat
    BY DEF PointsShape
  <2>2. CASE l \in DOMAIN lots
    <3>1. s[l] \in Nat /\ s[l] <= allocated[j][l] /\ rest[l] = allocated[j][l] - s[l]
          /\ Wide(lots, s)[l] = s[l]
      BY <1>1, <2>2 DEF Wide
    <3> HIDE DEF rest
    <3> QED
      BY <2>1, <3>1
  <2>3. CASE l \notin DOMAIN lots
    <3>1. rest[l] = allocated[j][l] - 0 /\ Wide(lots, s)[l] = 0
      BY <2>3 DEF Wide
    <3> HIDE DEF rest
    <3> QED
      BY <2>1, <3>1
  <2> QED
    BY <2>2, <2>3
<1>5. rest \in [Ids -> Nat] /\ \A l \in DOMAIN lots : rest[l] = allocated[j][l] - s[l]
  BY <1>2, <1>4
<1> HIDE DEF rest
<1>6. /\ allocated' \in [Jobs -> [Ids -> Nat]] /\ allocated'[j] = rest
      /\ \A i \in Jobs \ {j} : allocated'[i] = allocated[i]
  BY <1>3, <1>5 DEF PointsShape
<1>7. JobsAgree'
  <2>1. Points!Total(allocated[j]) = Points!Total(rest) + Points!Total(Wide(lots, s))
    <3>1. allocated[j] \in [Ids -> Nat] /\ Wide(lots, s) \in [Ids -> Nat]
      BY <1>1, <1>2, WideTotal DEF PointsShape
    <3> QED
      BY <1>2, <1>4, <1>5, <3>1, TotalAdds
  <2>2. Points!Total(Wide(lots, s)) = n
    BY <1>1, <1>2, WideTotal
  <2>3. Points!Total(rest) \in Nat
    BY <1>2, <1>5, TotalType
  <2>4. reservation'[j].reserved = Points!Total(rest)
    BY <1>0, <2>1, <2>2, <2>3 DEF AllocationInv, JobsAgree
  <2> QED
    BY <1>6, <2>4 DEF AllocationInv, JobsAgree
<1>8. LotsAgree'
  <2> SUFFICES ASSUME NEW l \in DOMAIN lots
               PROVE  lots'[l].reserved = Points!Total(Column(allocated', l))
    BY DEF LotsAgree
  <2>1. l \in Ids
    BY <1>2
  <2>2. /\ Column(allocated, l) \in [Jobs -> Nat] /\ Column(allocated', l) \in [Jobs -> Nat]
        /\ \A i \in Jobs \ {j} : Column(allocated', l)[i] = Column(allocated, l)[i]
        /\ Column(allocated, l)[j] = allocated[j][l] /\ Column(allocated', l)[j] = rest[l]
    BY <1>6, <2>1 DEF Column, PointsShape
  <2>3. Points!Total(Column(allocated', l)) + allocated[j][l]
           = Points!Total(Column(allocated, l)) + rest[l]
    <3> DEFINE f == Column(allocated, l)
               g == Column(allocated', l)
    <3>1. f \in [Jobs -> Nat] /\ g \in [Jobs -> Nat] /\ \A i \in Jobs \ {j} : g[i] = f[i]
      BY <2>2
    <3> HIDE DEF f, g
    <3>2. Points!Total(g) + f[j] = Points!Total(f) + g[j]
      BY <1>2, <3>1, TotalChange
    <3> QED
      BY <2>2, <3>2 DEF f, g
  <2>4. Points!Total(Column(allocated', l)) \in Nat /\ Points!Total(Column(allocated, l)) \in Nat
    BY <1>2, <2>2, TotalType
  <2>5. rest[l] = allocated[j][l] - s[l] /\ s[l] \in Nat /\ allocated[j][l] \in Nat
    BY <1>1, <1>5, <2>1 DEF PointsShape
  <2>6. lots[l].reserved = Points!Total(Column(allocated, l))
    BY DEF AllocationInv, LotsAgree
  <2> QED
    BY <2>3, <2>4, <2>5, <2>6
<1>9. Placed'
  <2>1. ASSUME NEW i \in Jobs, NEW l \in Ids, allocated'[i][l] > 0
        PROVE  l \in DOMAIN lots' /\ lots'[l].account = reservation'[i].account
    <3>1. allocated[i][l] > 0
      <4>1. allocated[j][l] \in Nat
        BY DEF PointsShape
      <4> QED
        BY <1>4, <1>6, <2>1, <4>1
    <3> QED
      BY <3>1 DEF AllocationInv, Placed
  <2>2. ASSUME NEW i \in Jobs, reservation'[i].account = NoAccount
        PROVE  reservation'[i].reserved = 0 /\ reservation'[i].captured = 0
    <3>1. reservation[i].reserved = 0 /\ reservation[i].captured = 0
      BY <2>2 DEF AllocationInv, Placed
    <3>2. i # j
      BY <1>0, <3>1
    <3> QED
      BY <3>1, <3>2
  <2> QED
    BY <2>1, <2>2 DEF Placed
<1> QED
  BY <1>6, <1>7, <1>8, <1>9 DEF AllocationInv

ReservedLess(R, j, n) ==
    /\ R \in [Jobs -> JobRecord]
    /\ R[j].reserved = reservation[j].reserved - n
    /\ \A i \in Jobs : /\ R[i].account = reservation[i].account
                       /\ i # j => R[i] = reservation[i]

LEMMA JobWrites ==
  ASSUME PointsShape, NEW j \in Jobs, NEW n \in 1 .. reservation[j].reserved
  PROVE  /\ ReservedLess([reservation EXCEPT ![j].reserved = @ - n, ![j].captured = @ + n], j, n)
         /\ [reservation EXCEPT ![j].reserved = @ - n, ![j].captured = @ + n][j].captured
               = reservation[j].captured + n
         /\ ReservedLess([reservation EXCEPT ![j].reserved = @ - n, ![j].released = @ + n], j, n)
         /\ [reservation EXCEPT ![j].reserved = @ - n, ![j].released = @ + n][j].captured
               = reservation[j].captured
<1> DEFINE r == reservation[j]
<1>1. r \in JobRecord /\ reservation \in [Jobs -> JobRecord]
  BY DEF PointsShape
<1>2. r.reserved - n \in Nat /\ r.captured + n \in Nat /\ r.released + n \in Nat
  BY <1>1 DEF JobRecord
<1> DEFINE CC(v, w) == [r EXCEPT !.reserved = v, !.captured = w]
           LL(v, w) == [r EXCEPT !.reserved = v, !.released = w]
<1>3. ASSUME NEW v \in Nat, NEW w \in Nat
      PROVE  /\ CC(v, w) \in JobRecord /\ CC(v, w).reserved = v /\ CC(v, w).captured = w
             /\ CC(v, w).account = r.account
             /\ LL(v, w) \in JobRecord /\ LL(v, w).reserved = v
             /\ LL(v, w).captured = r.captured /\ LL(v, w).account = r.account
  BY <1>1 DEF JobRecord
<1> DEFINE C == CC(r.reserved - n, r.captured + n)
           L == LL(r.reserved - n, r.released + n)
<1>5. /\ [reservation EXCEPT ![j].reserved = @ - n, ![j].captured = @ + n] = [reservation EXCEPT ![j] = C]
      /\ [reservation EXCEPT ![j].reserved = @ - n, ![j].released = @ + n] = [reservation EXCEPT ![j] = L]
  BY <1>1
<1> HIDE DEF CC, LL
<1>4. /\ C \in JobRecord /\ C.reserved = r.reserved - n /\ C.captured = r.captured + n
      /\ C.account = r.account
      /\ L \in JobRecord /\ L.reserved = r.reserved - n /\ L.captured = r.captured
      /\ L.account = r.account
  BY <1>2, <1>3
<1> HIDE DEF C, L
<1>6. \A R \in {C, L} : /\ [reservation EXCEPT ![j] = R] \in [Jobs -> JobRecord]
                        /\ [reservation EXCEPT ![j] = R][j] = R
                        /\ \A i \in Jobs : i # j => [reservation EXCEPT ![j] = R][i] = reservation[i]
  BY <1>1, <1>4
<1> DEFINE RC == [reservation EXCEPT ![j] = C]
           RL == [reservation EXCEPT ![j] = L]
<1>7. /\ RC \in [Jobs -> JobRecord] /\ RC[j] = C /\ \A i \in Jobs : i # j => RC[i] = reservation[i]
      /\ RL \in [Jobs -> JobRecord] /\ RL[j] = L /\ \A i \in Jobs : i # j => RL[i] = reservation[i]
  BY <1>6
<1> HIDE DEF RC, RL
<1>8. /\ RC \in [Jobs -> JobRecord] /\ RC[j].reserved = reservation[j].reserved - n
      /\ RC[j].captured = reservation[j].captured + n
      /\ \A i \in Jobs : RC[i].account = reservation[i].account /\ (i # j => RC[i] = reservation[i])
      /\ RL \in [Jobs -> JobRecord] /\ RL[j].reserved = reservation[j].reserved - n
      /\ RL[j].captured = reservation[j].captured
      /\ \A i \in Jobs : RL[i].account = reservation[i].account /\ (i # j => RL[i] = reservation[i])
  BY <1>4, <1>7
<1> QED
  BY <1>5, <1>8 DEF RC, RL, ReservedLess

-----------------------------------------------------------------------------
\* What each command does to the account it is about.
LEMMA DueLots ==
  ASSUME NEW a, NEW t
  PROVE  Points!Due(a, t) \in SUBSET Points!LotsOf(a) /\ Points!Due(a, t) \in SUBSET DOMAIN lots
  BY DEF Points!Due, Points!LotsOf

LEMMA NothingAvailable ==
  Points!Available(lots, {}) = 0
<1> DEFINE none == [l \in {} |-> lots[l].available]
<1>1. none \in [{} -> Nat] /\ \A l \in {} : none[l] = 0
  OBVIOUS
<1> HIDE DEF none
<1>2. Points!Total(none) = 0
  BY <1>1, TotalZero
<1> QED
  BY <1>2 DEF none, Points!Available

LEMMA GrantStep ==
  ASSUME Points!PointsAssumption, PointsInv, NEW a \in Accounts, NEW n \in Amounts,
         NEW e \in Nat, NEW t \in Nat, Points!Grant(a, n, e, t)
  PROVE  PointsInv' /\ Gains(lots, lots', a, n, 0, 0)
<1>1. n \in Nat /\ MaxLots \in Nat /\ lots \in LotLists /\ PointsShape
  BY PointsFacts
<1> DEFINE r == Points!Lot(a, n, t, e)
<1>2. lots' = Append(lots, r) /\ Len(lots) < MaxLots /\ UNCHANGED <<reservation, allocated, now>>
  <2>1. Len(lots) \in Nat /\ Len(lots) < MaxGrants
    BY <1>1, LotsOfList DEF Points!Grant
  <2> QED
    BY <2>1, PointsConstants DEF Points!Grant
<1>3. Unused(r) /\ r \in LotRecord /\ r.account = a /\ r.available = n /\ r.reserved = 0
  BY <1>1, NewLot
<1> HIDE DEF r
<1>4. lots' \in LotLists
  BY <1>1, <1>2, <1>3, AppendList
<1>5. Gains(lots, lots', a, n, 0, 0)
  <2>1. Gains(lots, Append(lots, r), r.account, r.available, 0, 0)
    BY <1>1, <1>2, <1>3, <1>4, AppendGains
  <2> QED
    BY <1>2, <1>3, <2>1
<1>6. account' = Points!Balance(account, a, n, 0)
  <2>1. n - 0 = n
    BY <1>1
  <2> QED
    BY <2>1, NothingAvailable DEF Points!Grant, Points!Book
<1>7. account' \in Books /\ Booked(lots', account')
  BY <1>1, <1>5, <1>6, BookedGains DEF PointsInv, PointsShape
<1>8. Extends(lots, lots')
  <2>1. lots \in Seq(LotRecord) /\ DOMAIN lots = 1 .. Len(lots) /\ Len(lots) \in Nat
    BY <1>1, LotsOfList
  <2> QED
    BY <1>2, <1>3, <2>1 DEF Extends
<1>9. AllocationInv'
  BY <1>1, <1>2, <1>4, <1>8, Untouched DEF PointsInv
<1> QED
  BY <1>2, <1>4, <1>5, <1>7, <1>9 DEF PointsInv, PointsShape

LEMMA CorrectUpStep ==
  ASSUME Points!PointsAssumption, PointsInv, NEW a \in Accounts, NEW n \in Amounts,
         NEW t \in Nat, Points!CorrectUp(a, n, t)
  PROVE  /\ PointsInv'
         /\ \E x \in 0 .. FreePoints(lots, a) : Gains(lots, lots', a, -x + n, 0, x)
<1>1. n \in Nat /\ MaxLots \in Nat /\ MaxTime \in Nat /\ lots \in LotLists /\ PointsShape
  BY PointsFacts
<1> DEFINE r == Points!Lot(a, n, t, Points!Never)
           D == Points!Due(a, t)
           L == Points!Lapsed(D)
           x == Points!Available(lots, D)
<1>2. lots' = Append(L, r) /\ Len(lots) < MaxLots /\ UNCHANGED <<reservation, allocated, now>>
      /\ account' = Points!Balance(account, a, n - x, 0)
  <2>1. Len(lots) \in Nat /\ Len(lots) < MaxGrants
    BY <1>1, LotsOfList DEF Points!CorrectUp
  <2> QED
    BY <2>1, PointsConstants DEF Points!CorrectUp, Points!Book
<1>3. Unused(r) /\ r \in LotRecord /\ r.account = a /\ r.available = n /\ r.reserved = 0
  <2>1. Points!Never \in Nat
    BY <1>1 DEF Points!Never
  <2> QED
    BY <1>1, <2>1, NewLot
<1>4. /\ L \in LotLists /\ DOMAIN L = DOMAIN lots /\ Len(L) = Len(lots)
      /\ \A l \in DOMAIN lots : SameLot(lots[l], L[l])
  BY <1>1, DueLots, LapsedLots
<1>5. x \in 0 .. FreePoints(lots, a) /\ Gains(lots, L, a, -x, 0, x)
  BY <1>1, DueLots, LapsedGains
<1>6. FreePoints(lots, a) \in Nat
  BY <1>1, PointsType
<1> HIDE DEF r, D, L, x
<1>7. lots' \in LotLists
  BY <1>1, <1>2, <1>3, <1>4, AppendList
<1>8. Gains(L, lots', a, n, 0, 0)
  <2>1. Gains(L, Append(L, r), r.account, r.available, 0, 0)
    BY <1>1, <1>2, <1>3, <1>4, <1>7, AppendGains
  <2> QED
    BY <1>2, <1>3, <2>1
<1>9. x \in Int /\ -x \in Int /\ -x + n \in Int /\ n - x = -x + n /\ 0 + 0 = 0 /\ x + 0 = x
  BY <1>1, <1>5, <1>6
<1>10. Gains(lots, lots', a, -x + n, 0, x)
  <2>1. Gains(lots, lots', a, -x + n, 0 + 0, x + 0)
    BY <1>1, <1>4, <1>5, <1>7, <1>8, <1>9, GainsTwice
  <2> QED
    BY <1>9, <2>1
<1>11. account' \in Books /\ Booked(lots', account')
  BY <1>1, <1>2, <1>9, <1>10, BookedGains DEF PointsInv, PointsShape
<1>12. Extends(lots, lots')
  <2>1. L \in Seq(LotRecord) /\ DOMAIN L = 1 .. Len(L) /\ Len(L) \in Nat
    BY <1>4, LotsOfList
  <2> QED
    BY <1>2, <1>3, <1>4, <2>1 DEF Extends, SameLot
<1>13. AllocationInv'
  BY <1>1, <1>2, <1>7, <1>12, Untouched DEF PointsInv
<1> QED
  BY <1>2, <1>5, <1>7, <1>10, <1>11, <1>13 DEF PointsInv, PointsShape

LEMMA CorrectDownStep ==
  ASSUME Points!PointsAssumption, PointsInv, NEW a \in Accounts, NEW n \in Amounts,
         NEW t \in Nat, Points!CorrectDown(a, n, t)
  PROVE  /\ PointsInv'
         /\ \E x \in 1 .. FreePoints(lots, a) : Gains(lots, lots', a, -x, 0, x)
<1>1. n \in Nat /\ n >= 1 /\ MaxLots \in Nat /\ lots \in LotLists /\ PointsShape
  BY PointsFacts, ZenonT(60)
<1> DEFINE D == Points!Due(a, t)
           L == Points!Lapsed(D)
           x == Points!Available(lots, D)
<1>2. PICK s \in Points!Takes(L, a, n) :
        lots' = [l \in DOMAIN lots |->
                   [L[l] EXCEPT !.available = @ - s[l], !.reversed = @ + s[l]]]
  BY DEF Points!CorrectDown
<1>3. /\ account' = Points!Balance(account, a, -n - x, 0)
      /\ account[a].available - x >= n
      /\ UNCHANGED <<reservation, allocated, now>>
  BY DEF Points!CorrectDown, Points!Book, Points!Covers
<1>4. /\ L \in LotLists /\ DOMAIN L = DOMAIN lots
      /\ \A l \in DOMAIN lots : SameLot(lots[l], L[l])
  BY <1>1, DueLots, LapsedLots
<1>5. x \in 0 .. FreePoints(lots, a) /\ Gains(lots, L, a, -x, 0, x)
  BY <1>1, DueLots, LapsedGains
<1>6. FreePoints(lots, a) \in Nat /\ account[a].available = FreePoints(lots, a)
  BY <1>1, PointsType DEF PointsInv, Booked
<1> HIDE DEF D, L, x
<1>7. lots' = Debited(L, s)
  BY <1>2, <1>4 DEF Debited
<1>8. Takeable(L, s, a, n)
  BY <1>1, <1>4, TakesTakeable
<1>9. /\ lots' \in LotLists /\ DOMAIN lots' = DOMAIN lots
      /\ \A l \in DOMAIN lots : Leaves(L[l], lots'[l], L[l].available - s[l], L[l].reserved, s[l])
      /\ Gains(L, lots', a, -n, 0, n)
  BY <1>1, <1>4, <1>7, <1>8, DebitedGains
<1>10. /\ x \in Int /\ -x \in Int /\ -n \in Int /\ -x + -n \in Int /\ -n - x = -x + -n
       /\ -x + -n = -(x + n) /\ 0 + 0 = 0 /\ x + n \in 1 .. FreePoints(lots, a)
  BY <1>1, <1>3, <1>5, <1>6
<1>11. Gains(lots, lots', a, -x + -n, 0, x + n)
  <2>1. Gains(lots, lots', a, -x + -n, 0 + 0, x + n)
    BY <1>1, <1>4, <1>5, <1>9, <1>10, GainsTwice
  <2> QED
    BY <1>10, <2>1
<1>12. account' \in Books /\ Booked(lots', account')
  BY <1>1, <1>3, <1>10, <1>11, BookedGains DEF PointsInv, PointsShape
<1>13. Extends(lots, lots')
  BY <1>4, <1>9 DEF Extends, SameLot, Leaves
<1>14. AllocationInv'
  BY <1>1, <1>3, <1>9, <1>13, Untouched DEF PointsInv
<1>15. PointsInv'
  BY <1>3, <1>9, <1>12, <1>14 DEF PointsInv, PointsShape
<1>16. Gains(lots, lots', a, -(x + n), 0, x + n)
  BY <1>10, <1>11
<1> QED
  BY <1>10, <1>15, <1>16

LEMMA ExpireStep ==
  ASSUME Points!PointsAssumption, PointsInv, NEW a \in Accounts, NEW t \in Nat, Points!Expire(a, t)
  PROVE  /\ PointsInv'
         /\ \E x \in 0 .. FreePoints(lots, a) : Gains(lots, lots', a, -x, 0, x)
<1>1. MaxLots \in Nat /\ lots \in LotLists /\ PointsShape
  BY PointsFacts
<1> DEFINE D == Points!Due(a, t)
           x == Points!Available(lots, D)
<1>2. /\ lots' = Points!Lapsed(D) /\ account' = Points!Balance(account, a, 0 - x, 0)
      /\ UNCHANGED <<reservation, allocated, now>>
  BY DEF Points!Expire, Points!Book
<1>3. /\ lots' \in LotLists /\ DOMAIN lots' = DOMAIN lots
      /\ \A l \in DOMAIN lots : SameLot(lots[l], lots'[l])
  BY <1>1, <1>2, DueLots, LapsedLots
<1>4. x \in 0 .. FreePoints(lots, a) /\ Gains(lots, lots', a, -x, 0, x)
  BY <1>1, <1>2, DueLots, LapsedGains
<1>5. FreePoints(lots, a) \in Nat
  BY <1>1, PointsType
<1> HIDE DEF D, x
<1>6. -x \in Int /\ 0 - x = -x
  BY <1>4, <1>5
<1>7. account' \in Books /\ Booked(lots', account')
  BY <1>1, <1>2, <1>4, <1>6, BookedGains DEF PointsInv, PointsShape
<1>8. Extends(lots, lots')
  BY <1>3 DEF Extends, SameLot
<1>9. AllocationInv'
  BY <1>1, <1>2, <1>3, <1>8, Untouched DEF PointsInv
<1> QED
  BY <1>2, <1>3, <1>4, <1>7, <1>9 DEF PointsInv, PointsShape

-----------------------------------------------------------------------------
(* Reservations, captures and releases.                                     *)

LEMMA ReserveStep ==
  ASSUME Points!PointsAssumption, PointsInv, NEW j \in Jobs, NEW a \in Accounts,
         NEW n \in Reservations, NEW t \in Nat, Points!Reserve(j, a, n, t)
  PROVE  /\ PointsInv'
         /\ n \in 1 .. FreePoints(lots, a)
         /\ reservation[j].account = NoAccount /\ reservation'[j].captured = reservation[j].captured
         /\ reservation'[j].account = a /\ reservation'[j].reserved = n
         /\ \A i \in Jobs \ {j} : reservation'[i] = reservation[i]
         /\ \E x \in 0 .. FreePoints(lots, a) - n : Gains(lots, lots', a, -(x + n), n, x)
<1>1. n \in Nat /\ n >= 1 /\ MaxLots \in Nat /\ lots \in LotLists /\ PointsShape /\ IsFiniteSet(Jobs)
  BY PointsFacts, ZenonT(60)
<1> DEFINE D == Points!Due(a, t)
           L == Points!Lapsed(D)
           x == Points!Available(lots, D)
           held == [account |-> a, requested |-> n, reserved |-> n, captured |-> 0, released |-> 0]
<1>2. PICK s \in Points!Takes(L, a, n) :
        /\ lots' = [l \in DOMAIN lots |->
                      [L[l] EXCEPT !.available = @ - s[l], !.reserved = @ + s[l]]]
        /\ allocated' = [allocated EXCEPT ![j] =
                           [l \in 1 .. MaxLots |-> IF l \in DOMAIN lots THEN s[l] ELSE 0]]
  BY DEF Points!Reserve
<1>3. /\ account' = Points!Balance(account, a, -n - x, n)
      /\ account[a].available - x >= n /\ reservation[j].account = NoAccount
      /\ reservation' = [reservation EXCEPT ![j] = held] /\ now' = now
  BY DEF Points!Reserve, Points!Book, Points!Covers
<1>4. /\ L \in LotLists /\ DOMAIN L = DOMAIN lots
      /\ \A l \in DOMAIN lots : SameLot(lots[l], L[l])
  BY <1>1, DueLots, LapsedLots
<1>5. x \in 0 .. FreePoints(lots, a) /\ Gains(lots, L, a, -x, 0, x)
  BY <1>1, DueLots, LapsedGains
<1>6. FreePoints(lots, a) \in Nat /\ account[a].available = FreePoints(lots, a)
  BY <1>1, PointsType DEF PointsInv, Booked
<1>7. /\ held \in JobRecord /\ held.account = a /\ held.reserved = n /\ held.captured = 0
  BY <1>1 DEF JobRecord
<1> HIDE DEF D, L, x, held
<1>8. lots' = SetAside(L, s) /\ allocated' = [allocated EXCEPT ![j] = Wide(lots, s)]
  BY <1>2, <1>4 DEF SetAside, Wide, Ids
<1>9. Takeable(L, s, a, n)
  BY <1>1, <1>4, TakesTakeable
<1>10. /\ lots' \in LotLists /\ DOMAIN lots' = DOMAIN lots
       /\ \A l \in DOMAIN lots : Leaves(L[l], lots'[l], L[l].available - s[l], L[l].reserved + s[l], 0)
       /\ Gains(L, lots', a, -n, n, 0)
  BY <1>1, <1>4, <1>8, <1>9, SetAsideGains
<1>11. /\ x \in Int /\ -x \in Int /\ -n \in Int /\ -n - x = -x + -n /\ -x + -n \in Int
       /\ -x + -n = -(x + n) /\ 0 + n = n /\ x + 0 = x /\ n \in Int
       /\ n \in 1 .. FreePoints(lots, a) /\ x \in 0 .. FreePoints(lots, a) - n
  BY <1>1, <1>3, <1>5, <1>6
<1>12. Gains(lots, lots', a, -x + -n, n, x)
  <2>1. Gains(lots, lots', a, -x + -n, 0 + n, x + 0)
    BY <1>1, <1>4, <1>5, <1>10, <1>11, GainsTwice
  <2> QED
    BY <1>11, <2>1
<1>13. account' \in Books /\ Booked(lots', account')
  BY <1>1, <1>3, <1>11, <1>12, BookedGains DEF PointsInv, PointsShape
<1>14. /\ s \in [DOMAIN lots -> Nat] /\ Points!Total(s) = n /\ DOMAIN lots \subseteq Ids
       /\ IsFiniteSet(Ids) /\ \A l \in DOMAIN lots : s[l] > 0 => lots[l].account = a
  BY <1>1, <1>4, <1>9, IdsFinite DEF Takeable, Within, SameLot
<1>15. /\ Wide(lots, s) \in [Ids -> Nat] /\ Points!Total(Wide(lots, s)) = n
       /\ \A l \in Ids : Wide(lots, s)[l] = IF l \in DOMAIN lots THEN s[l] ELSE 0
  BY <1>1, <1>14, WideTotal
<1>16. /\ reservation' \in [Jobs -> JobRecord] /\ reservation'[j] = held
       /\ \A i \in Jobs \ {j} : reservation'[i] = reservation[i]
       /\ allocated' \in [Jobs -> [Ids -> Nat]] /\ allocated'[j] = Wide(lots, s)
       /\ \A i \in Jobs \ {j} : allocated'[i] = allocated[i]
  BY <1>1, <1>3, <1>7, <1>8, <1>15 DEF PointsShape
<1>17. \A l \in Ids : allocated[j][l] = 0
  <2> SUFFICES ASSUME NEW l \in Ids PROVE allocated[j][l] = 0
    OBVIOUS
  <2>1. Points!Total(allocated[j]) = 0
    BY <1>3 DEF PointsInv, AllocationInv, Placed, JobsAgree
  <2>2. allocated[j] \in [Ids -> Nat]
    BY <1>1 DEF PointsShape
  <2>3. allocated[j][l] <= Points!Total(allocated[j])
    BY <1>14, <2>2, TotalAtLeast
  <2> QED
    BY <2>1, <2>2, <2>3
<1>18. LotsAgree'
  <2> SUFFICES ASSUME NEW l \in DOMAIN lots
               PROVE  lots'[l].reserved = Points!Total(Column(allocated', l))
    BY <1>10 DEF LotsAgree
  <2>1. l \in Ids
    BY <1>14
  <2>2. /\ Column(allocated, l) \in [Jobs -> Nat] /\ Column(allocated', l) \in [Jobs -> Nat]
        /\ \A i \in Jobs \ {j} : Column(allocated', l)[i] = Column(allocated, l)[i]
        /\ Column(allocated, l)[j] = 0 /\ Column(allocated', l)[j] = s[l]
    BY <1>1, <1>15, <1>16, <1>17, <2>1 DEF Column, PointsShape
  <2>3. Points!Total(Column(allocated', l)) + 0 = Points!Total(Column(allocated, l)) + s[l]
    <3> DEFINE f == Column(allocated, l)
               g == Column(allocated', l)
    <3>1. f \in [Jobs -> Nat] /\ g \in [Jobs -> Nat] /\ \A i \in Jobs \ {j} : g[i] = f[i]
      BY <2>2
    <3> HIDE DEF f, g
    <3>2. Points!Total(g) + f[j] = Points!Total(f) + g[j]
      BY <1>1, <3>1, TotalChange
    <3> QED
      BY <2>2, <3>2 DEF f, g
  <2>4. Points!Total(Column(allocated', l)) \in Nat /\ Points!Total(Column(allocated, l)) \in Nat
    BY <1>1, <2>2, TotalType
  <2>5. lots[l].reserved = Points!Total(Column(allocated, l))
    BY DEF PointsInv, AllocationInv, LotsAgree
  <2>6. lots'[l].reserved = lots[l].reserved + s[l] /\ s[l] \in Nat
    BY <1>4, <1>10, <1>14 DEF Leaves, SameLot
  <2> QED
    BY <2>3, <2>4, <2>5, <2>6
<1>19. JobsAgree'
  BY <1>7, <1>15, <1>16 DEF PointsInv, AllocationInv, JobsAgree
<1>20. Placed'
  <2>1. \A l \in DOMAIN lots : lots'[l].account = lots[l].account
    BY <1>4, <1>10 DEF Leaves, SameLot
  <2>2. a # NoAccount
    BY PointsConstants
  <2>3. ASSUME NEW i \in Jobs, NEW l \in Ids, allocated'[i][l] > 0
        PROVE  l \in DOMAIN lots' /\ lots'[l].account = reservation'[i].account
    <3>1. CASE i = j
      <4>1. l \in DOMAIN lots /\ s[l] > 0
        BY <1>15, <1>16, <2>3, <3>1
      <4> QED
        BY <1>7, <1>10, <1>14, <1>16, <2>1, <3>1, <4>1
    <3>2. CASE i # j
      BY <1>10, <1>16, <2>1, <2>3, <3>2 DEF PointsInv, AllocationInv, Placed
    <3> QED
      BY <3>1, <3>2
  <2>4. ASSUME NEW i \in Jobs, reservation'[i].account = NoAccount
        PROVE  reservation'[i].reserved = 0 /\ reservation'[i].captured = 0
    <3>1. i # j
      BY <1>7, <1>16, <2>2, <2>4
    <3> QED
      BY <1>16, <2>4, <3>1 DEF PointsInv, AllocationInv, Placed
  <2> QED
    BY <2>3, <2>4 DEF Placed
<1>21. PointsInv'
  BY <1>1, <1>3, <1>10, <1>13, <1>16, <1>18, <1>19, <1>20 DEF PointsInv, PointsShape, AllocationInv
<1>22. reservation[j].captured = 0
  BY <1>3 DEF PointsInv, AllocationInv, Placed
<1>23. Gains(lots, lots', a, -(x + n), n, x)
  BY <1>11, <1>12
<1> QED
  BY <1>3, <1>7, <1>11, <1>16, <1>21, <1>22, <1>23

\* A job that holds points has an account.
LEMMA HolderKnown ==
  ASSUME Points!PointsAssumption, PointsInv, NEW j \in Jobs, NEW n \in 1 .. reservation[j].reserved
  PROVE  /\ reservation[j].account \in Accounts /\ n \in Nat /\ n >= 1
         /\ reservation[j].reserved \in Nat /\ MaxLots \in Nat /\ lots \in LotLists /\ PointsShape
<1>1. reservation[j] \in JobRecord
  BY DEF PointsInv, PointsShape
<1>2. reservation[j].reserved \in Nat /\ reservation[j].account \in Accounts \cup {NoAccount}
  BY <1>1 DEF JobRecord
<1>3. n \in Nat /\ n >= 1 /\ reservation[j].reserved # 0
  BY <1>2
<1>4. reservation[j].account # NoAccount
  BY <1>3 DEF PointsInv, AllocationInv, Placed
<1> QED
  BY <1>2, <1>3, <1>4, PointsConstants DEF PointsInv, PointsShape

LEMMA CaptureStep ==
  ASSUME Points!PointsAssumption, PointsInv, NEW j \in Jobs,
         NEW n \in 1 .. reservation[j].reserved, NEW key, Points!Capture(j, n, key)
  PROVE  /\ PointsInv'
         /\ reservation'[j].reserved = reservation[j].reserved - n
         /\ reservation'[j].captured = reservation[j].captured + n
         /\ \A i \in Jobs : /\ reservation'[i].account = reservation[i].account
                            /\ i # j => reservation'[i] = reservation[i]
         /\ Gains(lots, lots', reservation[j].account, 0, -n, 0)
<1> DEFINE a == reservation[j].account
<1>1. /\ a \in Accounts /\ n \in Nat /\ n >= 1 /\ MaxLots \in Nat /\ lots \in LotLists /\ PointsShape
  BY HolderKnown, ZenonT(60)
<1>2. PICK s \in Points!Splits(j, n) :
        /\ lots' = [l \in DOMAIN lots |->
                      [lots[l] EXCEPT !.reserved = @ - s[l], !.consumed = @ + s[l]]]
        /\ allocated' = Points!Deallocated(j, s)
  BY DEF Points!Capture
<1>3. /\ reservation' = [reservation EXCEPT ![j].reserved = @ - n, ![j].captured = @ + n]
      /\ account' = Points!Balance(account, a, 0, -n) /\ now' = now
  BY DEF Points!Capture, Points!Recorded
<1>4. Payable(lots, s, a, n)
  BY <1>1, SplitPayable DEF PointsInv
<1>5. lots' = Consumed(lots, s)
  BY <1>2 DEF Consumed
<1>6. /\ lots' \in LotLists /\ DOMAIN lots' = DOMAIN lots /\ Gains(lots, lots', a, 0, -n, 0)
      /\ \A l \in DOMAIN lots : Leaves(lots[l], lots'[l], lots[l].available, lots[l].reserved - s[l], 0)
  <2> HIDE DEF a
  <2> QED
    BY <1>1, <1>4, <1>5, ConsumedGains
<1>7. /\ reservation' \in [Jobs -> JobRecord]
      /\ reservation'[j].reserved = reservation[j].reserved - n
      /\ reservation'[j].captured = reservation[j].captured + n
      /\ \A i \in Jobs : /\ reservation'[i].account = reservation[i].account
                         /\ i # j => reservation'[i] = reservation[i]
  <2>1. ReservedLess(reservation', j, n) /\ reservation'[j].captured = reservation[j].captured + n
    BY <1>1, <1>3, JobWrites, Zenon
  <2> QED
    BY <2>1 DEF ReservedLess
<1>8. account' \in Books /\ Booked(lots', account')
  <2>1. -n \in Int /\ 0 \in Int
    BY <1>1
  <2> HIDE DEF a
  <2> QED
    BY <1>1, <1>3, <1>6, <2>1, BookedGains DEF PointsInv, PointsShape
<1>9. \A l \in DOMAIN lots : /\ lots'[l].account = lots[l].account
                             /\ lots'[l].reserved = lots[l].reserved - s[l]
  BY <1>6 DEF Leaves
<1>10. allocated' \in [Jobs -> [Ids -> Nat]] /\ AllocationInv'
  BY <1>1, <1>2, <1>6, <1>7, <1>9, Settled DEF PointsInv
<1> QED
  BY <1>1, <1>3, <1>6, <1>7, <1>8, <1>10 DEF PointsInv, PointsShape

LEMMA ReleaseStep ==
  ASSUME Points!PointsAssumption, PointsInv, NEW j \in Jobs,
         NEW n \in 1 .. reservation[j].reserved, NEW key, NEW t, Points!Release(j, n, key, t)
  PROVE  /\ PointsInv'
         /\ reservation'[j].reserved = reservation[j].reserved - n
         /\ reservation'[j].captured = reservation[j].captured
         /\ \A i \in Jobs : /\ reservation'[i].account = reservation[i].account
                            /\ i # j => reservation'[i] = reservation[i]
         /\ \E x \in 0 .. FreePoints(lots, reservation[j].account) + n :
               Gains(lots, lots', reservation[j].account, n - x, -n, x)
<1> DEFINE a == reservation[j].account
<1>1. /\ a \in Accounts /\ n \in Nat /\ n >= 1 /\ MaxLots \in Nat /\ lots \in LotLists /\ PointsShape
  BY HolderKnown, Zenon
<1>2. PICK s \in Points!Splits(j, n) :
        /\ lots' = GivenBack(s, t)
        /\ allocated' = Points!Deallocated(j, s)
        /\ account' = Points!Balance(account, a, n - LostBack(s, t), -n)
  BY DEF Points!Release, Points!Recorded, GivenBack, LapsedBack, LostBack
<1>3. /\ reservation' = [reservation EXCEPT ![j].reserved = @ - n, ![j].released = @ + n]
      /\ now' = now
  BY DEF Points!Release
<1>4. Payable(lots, s, a, n)
  BY <1>1, SplitPayable DEF PointsInv
<1> DEFINE x == LostBack(s, t)
<1>5. /\ lots' \in LotLists /\ DOMAIN lots' = DOMAIN lots /\ Gains(lots, lots', a, n - x, -n, x)
      /\ \A l \in DOMAIN lots : /\ lots'[l].account = lots[l].account
                                /\ lots'[l].reserved = lots[l].reserved - s[l]
      /\ x \in 0 .. FreePoints(lots, a) + n
  <2> HIDE DEF a
  <2> QED
    BY <1>1, <1>2, <1>4, ReturnedGains
<1>6. account' = Points!Balance(account, a, n - x, -n)
  BY <1>2
<1> HIDE DEF x
<1>7. /\ reservation' \in [Jobs -> JobRecord]
      /\ reservation'[j].reserved = reservation[j].reserved - n
      /\ reservation'[j].captured = reservation[j].captured
      /\ \A i \in Jobs : /\ reservation'[i].account = reservation[i].account
                         /\ i # j => reservation'[i] = reservation[i]
  <2>1. ReservedLess(reservation', j, n) /\ reservation'[j].captured = reservation[j].captured
    BY <1>1, <1>3, JobWrites, Zenon
  <2> QED
    BY <2>1 DEF ReservedLess
<1>8. account' \in Books /\ Booked(lots', account')
  <2>1. FreePoints(lots, a) \in Nat
    BY <1>1, PointsType
  <2>2. -n \in Int /\ n - x \in Int
    BY <1>1, <1>5, <2>1
  <2> HIDE DEF a
  <2> QED
    BY <1>1, <1>5, <1>6, <2>2, BookedGains DEF PointsInv, PointsShape
<1>9. allocated' \in [Jobs -> [Ids -> Nat]] /\ AllocationInv'
  BY <1>1, <1>2, <1>5, <1>7, Settled DEF PointsInv
<1> QED
  BY <1>1, <1>3, <1>5, <1>7, <1>8, <1>9 DEF PointsInv, PointsShape

-----------------------------------------------------------------------------
(* New lots.                                                                *)

\* New lots of one account add their points.
NewLots(L, C, m, a) ==
    /\ C \in [1 .. m -> LotRecord] /\ Len(L) + m <= MaxLots
    /\ \A i \in 1 .. m : Unused(C[i]) /\ C[i].account = a

LEMMA ConcatGains ==
  ASSUME MaxLots \in Nat, NEW L \in LotLists, NEW m \in Nat, NEW C, NEW a,
         NewLots(L, C, m, a)
  PROVE  /\ L \o C \in LotLists
         /\ \A l \in DOMAIN L : l \in DOMAIN (L \o C) /\ (L \o C)[l] = L[l]
         /\ \A i \in 1 .. m : Len(L) + i \in DOMAIN (L \o C) /\ (L \o C)[Len(L) + i] = C[i]
         /\ \A l \in DOMAIN (L \o C) \ DOMAIN L : (L \o C)[l].reserved = 0
         /\ Gains(L, L \o C, a, Points!Total([i \in 1 .. m |-> C[i].available]), 0, 0)
<1> DEFINE M == L \o C
           k == Len(L)
           values == [i \in 1 .. m |-> C[i].available]
<1>1. k \in Nat /\ L \in Seq(LotRecord) /\ DOMAIN L = 1 .. k /\ C \in Seq(LotRecord) /\ Len(C) = m
      /\ k + m <= MaxLots
  BY LotsOfList DEF NewLots
<1>2. /\ M \in Seq(LotRecord) /\ Len(M) = k + m
      /\ \A l \in 1 .. k : M[l] = L[l]
      /\ \A i \in 1 .. m : M[k + i] = C[i]
  BY <1>1
<1>3. M \in LotLists
  BY <1>1, <1>2 DEF LotLists
<1>4. DOMAIN M = 1 .. k + m
  <2> HIDE DEF M
  <2> QED
    BY <1>2
<1>5. \A i \in 1 .. m : C[i] \in LotRecord /\ Unused(C[i]) /\ C[i].account = a
  BY DEF NewLots
<1>6. values \in [1 .. m -> Nat] /\ \A i \in 1 .. m : values[i] = C[i].available
  BY <1>5 DEF LotRecord
<1> HIDE DEF M, k, values
<1>7. \A l \in DOMAIN M \ DOMAIN L : \E i \in 1 .. m : l = k + i
  <2> SUFFICES ASSUME NEW l \in k + 1 .. k + m PROVE \E i \in 1 .. m : l = k + i
    BY <1>1, <1>4
  <2>1. l - k \in 1 .. m /\ l = k + (l - k)
    BY <1>1
  <2> QED
    BY <2>1
<1>8. ASSUME NEW b \in Accounts
      PROVE  /\ FreePoints(M, b) = FreePoints(L, b) + IF b = a THEN Points!Total(values) ELSE 0
             /\ FrozenPoints(M, b) = FrozenPoints(L, b)
             /\ LostPoints(M, b) = LostPoints(L, b)
  <2> DEFINE new == [l \in Ids |-> IF b = a /\ l \in DOMAIN M \ DOMAIN L THEN values[l - k] ELSE 0]
             pf == Part(M, FreeIn(M), b)
             qf == Part(L, FreeIn(L), b)
  <2>1. IsFiniteSet(Ids) /\ DOMAIN M \subseteq Ids
    BY <1>3, IdsFinite
  <2>2. /\ pf \in [Ids -> Nat] /\ qf \in [Ids -> Nat]
        /\ Part(M, FrozenIn(M), b) \in [Ids -> Nat] /\ Part(L, FrozenIn(L), b) \in [Ids -> Nat]
        /\ Part(M, LostIn(M), b) \in [Ids -> Nat] /\ Part(L, LostIn(L), b) \in [Ids -> Nat]
    BY <1>3, FieldTypes, PartType
  <2>3. ASSUME NEW i \in 1 .. m
        PROVE  k + i \in DOMAIN M \ DOMAIN L /\ (k + i) - k = i
               /\ k + i \in Ids /\ M[k + i] = C[i]
    BY <1>1, <1>2, <1>4, <2>1
  <2>4. /\ new \in [Ids -> Nat]
        /\ \A l \in DOMAIN L : l \in Ids => new[l] = 0
        /\ \A i \in 1 .. m : new[k + i] = IF b = a THEN values[i] ELSE 0
        /\ \A l \in Ids \ DOMAIN M : new[l] = 0
        /\ b # a => \A l \in Ids : new[l] = 0
    <3>1. \A l \in DOMAIN M \ DOMAIN L : values[l - k] \in Nat
      BY <1>6, <1>7, <2>3
    <3> QED
      BY <2>3, <3>1
  <2> HIDE DEF new
  <2>5. ASSUME NEW l \in Ids
        PROVE  /\ pf[l] = qf[l] + new[l]
               /\ Part(M, FrozenIn(M), b)[l] = Part(L, FrozenIn(L), b)[l]
               /\ Part(M, LostIn(M), b)[l] = Part(L, LostIn(L), b)[l]
    <3>1. CASE l \in DOMAIN L
      <4>1. l \in DOMAIN M /\ M[l] = L[l] /\ new[l] = 0
        BY <1>1, <1>2, <1>4, <2>4, <3>1
      <4>2. pf[l] = qf[l]
        BY <3>1, <4>1 DEF Part, FreeIn
      <4>3. qf[l] \in Nat
        BY <2>2
      <4>4. qf[l] + new[l] = qf[l]
        <5> HIDE DEF qf
        <5> QED
          BY <4>1, <4>3
      <4> QED
        BY <3>1, <4>1, <4>2, <4>4 DEF Part, FrozenIn, LostIn
    <3>2. CASE l \in DOMAIN M \ DOMAIN L
      <4>1. PICK i \in 1 .. m : l = k + i
        BY <1>7, <3>2
      <4>2. M[l] = C[i] /\ Unused(C[i]) /\ C[i].account = a /\ new[l] = IF b = a THEN values[i] ELSE 0
        BY <1>5, <2>3, <2>4, <4>1
      <4>3. qf[l] = 0 /\ pf[l] = IF b = a THEN C[i].available ELSE 0
        BY <3>2, <4>2 DEF Part, FreeIn
      <4>4. values[i] = C[i].available /\ values[i] \in Nat
        BY <1>6
      <4>5. pf[l] = qf[l] + new[l]
        <5> HIDE DEF pf, qf
        <5> QED
          BY <4>2, <4>3, <4>4
      <4> QED
        BY <3>2, <4>2, <4>5 DEF Part, FrozenIn, LostIn, Unused
    <3>3. CASE l \notin DOMAIN M
      <4>1. l \notin DOMAIN L
        BY <1>1, <1>4, <3>3
      <4>2. new[l] = 0
        BY <2>4, <3>3
      <4> QED
        BY <3>3, <4>1, <4>2 DEF Part
    <3> QED
      BY <3>1, <3>2, <3>3
  <2>6. Points!Total(new) = IF b = a THEN Points!Total(values) ELSE 0
    <3>1. CASE b # a
      BY <2>4, <3>1, TotalZero
    <3>2. CASE b = a
      <4> DEFINE fresh == {l \in Ids : l \in DOMAIN M \ DOMAIN L}
                 tail == [l \in fresh |-> new[l]]
                 shift == [i \in 1 .. m |-> k + i]
      <4>1. tail \in [fresh -> Nat] /\ \A l \in fresh : tail[l] = new[l]
        BY <2>4
      <4>2. Points!Total(new) = Points!Total(tail)
        <5>1. \A l \in Ids : new[l] > 0 => l \in fresh
          BY <2>4
        <5> HIDE DEF tail, fresh
        <5> QED
          BY <2>4, <4>1, <5>1, TotalSame DEF fresh
      <4>3. shift \in Bijection(1 .. m, fresh)
        <5>1. shift \in [1 .. m -> fresh]
          BY <2>3
        <5>2. \A l \in fresh : \E i \in 1 .. m : shift[i] = l
          BY <1>7
        <5>3. ASSUME NEW i \in 1 .. m, NEW h \in 1 .. m, shift[i] = shift[h] PROVE i = h
          <6>1. k + i = k + h
            BY <5>3
          <6> QED
            BY <1>1, <6>1
        <5> HIDE DEF shift, fresh
        <5> QED
          BY <5>1, <5>2, <5>3 DEF Bijection, Injection, Surjection, IsInjective
      <4>4. \A i \in 1 .. m : values[i] = tail[shift[i]]
        BY <2>3, <2>4, <3>2
      <4>5. IsFiniteSet(1 .. m)
        BY 1 \in Int, m \in Int, FS_Interval
      <4> HIDE DEF tail, shift, fresh
      <4>6. Points!Total(values) = Points!Total(tail)
        BY <1>6, <4>1, <4>3, <4>4, <4>5, TotalRenamed
      <4> QED
        BY <3>2, <4>2, <4>6
    <3> QED
      BY <3>1, <3>2
  <2> HIDE DEF pf, qf
  <2>7. Points!Total(pf) = Points!Total(qf) + Points!Total(new)
    BY <2>1, <2>2, <2>4, <2>5, TotalAdds
  <2>8. FreePoints(M, b) = Points!Total(pf) /\ FreePoints(L, b) = Points!Total(qf)
    BY DEF pf, qf, FreePoints, Of
  <2>9. /\ Part(M, FrozenIn(M), b) = Part(L, FrozenIn(L), b)
        /\ Part(M, LostIn(M), b) = Part(L, LostIn(L), b)
    BY <2>2, <2>5
  <2> QED
    BY <2>6, <2>7, <2>8, <2>9 DEF FrozenPoints, LostPoints, Of
<1>9. Gains(L, M, a, Points!Total(values), 0, 0)
  <2> SUFFICES ASSUME NEW b \in Accounts
               PROVE  /\ FreePoints(M, b) = FreePoints(L, b) + IF b = a THEN Points!Total(values) ELSE 0
                      /\ FrozenPoints(M, b) = FrozenPoints(L, b) + IF b = a THEN 0 ELSE 0
                      /\ LostPoints(M, b) = LostPoints(L, b) + IF b = a THEN 0 ELSE 0
    BY DEF Gains
  <2>1. FrozenPoints(L, b) \in Nat /\ LostPoints(L, b) \in Nat
    BY PointsType
  <2> QED
    BY <1>8, <2>1
<1>10. \A l \in DOMAIN M \ DOMAIN L : M[l].reserved = 0
  BY <1>2, <1>5, <1>7 DEF Unused
<1> QED
  BY <1>1, <1>2, <1>3, <1>4, <1>9, <1>10 DEF M, k, values

-----------------------------------------------------------------------------
(* Merging accounts: two accounts change at once.                           *)

\* Two accounts of the books change at once.
BooksMoved(books, B, from, to, x, y, z, k) ==
    /\ B \in Books
    /\ \A b \in Accounts :
         /\ B[b].available = IF b = from THEN books[from].available - x - z
                             ELSE IF b = to THEN books[to].available - y + k
                             ELSE books[b].available
         /\ B[b].frozen = books[b].frozen

LEMMA BooksMove ==
  ASSUME NEW books \in Books, NEW from \in Accounts, NEW to \in Accounts, from # to,
         NEW x \in Int, NEW y \in Int, NEW z \in Int, NEW k \in Int
  PROVE  BooksMoved(books, [books EXCEPT ![from].available = @ - x - z, ![to].available = @ - y + k],
                    from, to, x, y, z, k)
<1> DEFINE F(v) == [books[from] EXCEPT !.available = v]
           T(v) == [books[to] EXCEPT !.available = v]
           u == books[from].available - x - z
           w == books[to].available - y + k
           B == [books EXCEPT ![from].available = @ - x - z, ![to].available = @ - y + k]
<1>1. \A b \in Accounts : books[b] \in [available : Int, frozen : Int]
  BY DEF Books
<1>2. u \in Int /\ w \in Int
  <2>1. books[from].available \in Int /\ books[to].available \in Int
    BY <1>1
  <2> QED
    BY <2>1
<1>3. B = [books EXCEPT ![from] = F(u), ![to] = T(w)]
  BY DEF Books
<1>4. ASSUME NEW v \in Int
      PROVE  /\ F(v) \in [available : Int, frozen : Int] /\ F(v).available = v
             /\ F(v).frozen = books[from].frozen
             /\ T(v) \in [available : Int, frozen : Int] /\ T(v).available = v
             /\ T(v).frozen = books[to].frozen
  BY <1>1
<1> DEFINE f == F(u)
           g == T(w)
<1>5. /\ f \in [available : Int, frozen : Int] /\ f.available = u /\ f.frozen = books[from].frozen
      /\ g \in [available : Int, frozen : Int] /\ g.available = w /\ g.frozen = books[to].frozen
  <2> HIDE DEF F, T, u, w
  <2> QED
    BY <1>2, <1>4
<1>6. B = [books EXCEPT ![from] = f, ![to] = g]
  BY <1>3
<1> HIDE DEF f, g, B, F, T
<1>7. /\ B \in Books /\ B[from] = f /\ B[to] = g
      /\ \A b \in Accounts : b # from /\ b # to => B[b] = books[b]
  BY <1>1, <1>5, <1>6 DEF Books
<1>8. ASSUME NEW b \in Accounts
      PROVE  /\ B[b].available = IF b = from THEN u ELSE IF b = to THEN w ELSE books[b].available
             /\ B[b].frozen = books[b].frozen
  <2> HIDE DEF u, w
  <2>1. CASE b = from
    BY <1>5, <1>7, <2>1
  <2>2. CASE b = to /\ b # from
    BY <1>5, <1>7, <2>2
  <2>3. CASE b # to /\ b # from
    BY <1>7, <2>3
  <2> QED
    BY <2>1, <2>2, <2>3
<1> QED
  BY <1>7, <1>8 DEF B, BooksMoved

Sorted(s) == \A i, k \in DOMAIN s : i < k => s[i] < s[k]

LEMMA Increasing ==
  ASSUME NEW S, S \subseteq Nat, IsFiniteSet(S), NEW s \in [1 .. Cardinality(S) -> S], Sorted(s)
  PROVE  s \in Bijection(1 .. Cardinality(S), S)
<1> DEFINE m == Cardinality(S)
           I == 1 .. m
<1>1. m \in Nat /\ 1 \in Int /\ m \in Int
  BY FS_CardinalityType
<1>2. IsFiniteSet(I) /\ Cardinality(I) = m
  BY <1>1, FS_Interval
<1>3. ASSUME NEW i \in I, NEW k \in I, s[i] = s[k] PROVE i = k
  <2>0. s[i] \in S /\ s[k] \in S /\ i \in DOMAIN s /\ k \in DOMAIN s
    OBVIOUS
  <2>1. s[i] \in Nat /\ s[k] \in Nat /\ ~(s[i] < s[k]) /\ ~(s[k] < s[i])
    <3>1. s[i] \in Nat /\ s[k] \in Nat
      BY <2>0
    <3> DEFINE u == s[i]
               v == s[k]
    <3>2. u \in Nat /\ v \in Nat /\ u = v
      BY <1>3, <3>1
    <3> HIDE DEF u, v
    <3>3. ~(u < v) /\ ~(v < u)
      BY <3>2
    <3> QED
      BY <3>1, <3>3 DEF u, v
  <2>2. ~(i < k) /\ ~(k < i)
    BY <2>0, <2>1 DEF Sorted
  <2> QED
    BY <1>1, <2>2
<1>4. s \in [I -> S]
  OBVIOUS
<1> HIDE DEF I
<1>5. s \in Injection(I, S)
  BY <1>3, <1>4 DEF Injection, IsInjective
<1>6. s \in Surjection(I, S)
  BY <1>2, <1>5, FS_Injection
<1>7. s \in Bijection(I, S)
  BY <1>5, <1>6 DEF Bijection
<1> QED
  BY <1>7 DEF I

\* What a merge does to the two accounts.
Moves(L, M, from, to, x, y) ==
    \A b \in Accounts :
       /\ FreePoints(M, b) = IF b = from THEN 0
                             ELSE IF b = to THEN FreePoints(L, to) - y + (FreePoints(L, from) - x)
                             ELSE FreePoints(L, b)
       /\ FrozenPoints(M, b) = FrozenPoints(L, b)
       /\ LostPoints(M, b) = LostPoints(L, b) + IF b = from THEN FreePoints(L, from)
                                                ELSE IF b = to THEN y ELSE 0

BothDue(from, to, t) == Points!Due(from, t) \cup Points!Due(to, t)

LEMMA MergeLapses ==
  ASSUME MaxLots \in Nat, lots \in LotLists, NEW from \in Accounts, NEW to \in Accounts,
         from # to, NEW t
  PROVE  LET D == BothDue(from, to, t)
             lap(b) == Points!Available(lots, D \cap Points!LotsOf(b))
             L == Points!Lapsed(D)
         IN  /\ L \in LotLists /\ DOMAIN L = DOMAIN lots /\ Len(L) = Len(lots)
             /\ \A l \in DOMAIN lots : SameLot(lots[l], L[l])
             /\ \A b \in Accounts :
                  /\ lap(b) \in 0 .. FreePoints(lots, b)
                  /\ b # from /\ b # to => lap(b) = 0
                  /\ FreePoints(L, b) = FreePoints(lots, b) - lap(b)
                  /\ FrozenPoints(L, b) = FrozenPoints(lots, b)
                  /\ LostPoints(L, b) = LostPoints(lots, b) + lap(b)
<1> DEFINE D == BothDue(from, to, t)
           lap(b) == Points!Available(lots, D \cap Points!LotsOf(b))
           L == Points!Lapsed(D)
<1>1. D \in SUBSET DOMAIN lots /\ D \subseteq Points!LotsOf(from) \cup Points!LotsOf(to)
  BY DueLots DEF BothDue
<1>2. /\ L \in LotLists /\ DOMAIN L = DOMAIN lots /\ Len(L) = Len(lots)
      /\ \A l \in DOMAIN lots : SameLot(lots[l], L[l])
  <2> HIDE DEF D
  <2> QED
    BY <1>1, LapsedLots
<1>3. ASSUME NEW b \in Accounts
      PROVE  /\ lap(b) \in Nat
             /\ FreePoints(L, b) + lap(b) = FreePoints(lots, b)
             /\ FrozenPoints(L, b) = FrozenPoints(lots, b)
             /\ LostPoints(L, b) = LostPoints(lots, b) + lap(b)
  <2> HIDE DEF D
  <2> QED
    BY <1>1, LapsedPoints
<1>4. ASSUME NEW b \in Accounts, b # from, b # to PROVE lap(b) = 0
  <2>1. D \cap Points!LotsOf(b) = {}
    BY <1>1, <1>4 DEF Points!LotsOf
  <2> HIDE DEF D
  <2> QED
    BY <2>1, NothingAvailable
<1> HIDE DEF L, lap, D
<1>5. \A b \in Accounts : FreePoints(L, b) \in Nat /\ FreePoints(lots, b) \in Nat
  BY <1>2, PointsType
<1>6. \A b \in Accounts : /\ lap(b) \in 0 .. FreePoints(lots, b)
                          /\ FreePoints(L, b) = FreePoints(lots, b) - lap(b)
  BY <1>3, <1>5
<1> QED
  BY <1>2, <1>3, <1>4, <1>6 DEF D, L, lap

\* What is left of the lots of an account moves to new lots of the other.
MergedLots(L, N, moving, s, from, to) ==
    /\ moving = {l \in DOMAIN L : L[l].account = from /\ L[l].available > 0}
    /\ s \in [1 .. Cardinality(moving) -> moving] /\ Sorted(s)
    /\ Len(L) + Cardinality(moving) <= MaxLots
    /\ N = [l \in DOMAIN L |-> IF l \in moving
                               THEN [L[l] EXCEPT !.available = 0, !.reversed = @ + L[l].available]
                               ELSE L[l]]
           \o [i \in DOMAIN s |-> Points!Lot(to, L[s[i]].available, L[s[i]].grantedAt,
                                             L[s[i]].expiresAt)]

LEMMA MergeMoves ==
  ASSUME MaxLots \in Nat, NEW L \in LotLists, NEW from \in Accounts, NEW to \in Accounts,
         from # to, NEW N, NEW moving, NEW s, MergedLots(L, N, moving, s, from, to)
  PROVE  /\ N \in LotLists /\ Extends(L, N)
         /\ Points!Available(L, moving) = FreePoints(L, from)
         /\ \A b \in Accounts :
              /\ FreePoints(N, b) = FreePoints(L, b)
                   + IF b = from THEN -FreePoints(L, from)
                     ELSE IF b = to THEN FreePoints(L, from) ELSE 0
              /\ FrozenPoints(N, b) = FrozenPoints(L, b)
              /\ LostPoints(N, b) = LostPoints(L, b) + IF b = from THEN FreePoints(L, from) ELSE 0
         /\ \A l \in DOMAIN L : N[l].expiresAt = L[l].expiresAt /\ N[l].available <= L[l].available
         /\ \A l \in moving : N[l].available = 0
<1> DEFINE m == Cardinality(moving)
           E(r) == [r EXCEPT !.available = 0, !.reversed = @ + r.available]
           K == [l \in DOMAIN L |-> IF l \in moving THEN E(L[l]) ELSE L[l]]
           C == [i \in DOMAIN s |-> Points!Lot(to, L[s[i]].available, L[s[i]].grantedAt,
                                               L[s[i]].expiresAt)]
           taken == [l \in DOMAIN L |-> IF l \in moving THEN L[l].available ELSE 0]
           zero == [l \in DOMAIN L |-> 0]
           g == [l \in moving |-> L[l].available]
           p == FreePoints(L, from)
<1>1. /\ Len(L) \in Nat /\ DOMAIN L = 1 .. Len(L) /\ \A l \in DOMAIN L : L[l] \in LotRecord
      /\ IsFiniteSet(DOMAIN L)
  BY LotsOfList, IdsFinite
<1>2. /\ moving \subseteq DOMAIN L /\ IsFiniteSet(moving) /\ moving \subseteq Nat /\ m \in Nat
      /\ \A l \in DOMAIN L : l \in moving <=> L[l].account = from /\ L[l].available > 0
  <2>1. moving \subseteq DOMAIN L
        /\ \A l \in DOMAIN L : l \in moving <=> L[l].account = from /\ L[l].available > 0
    BY DEF MergedLots
  <2>2. IsFiniteSet(moving)
    BY <1>1, <2>1, FS_Subset, Zenon
  <2>3. moving \subseteq Nat
    BY <1>1, <2>1
  <2>4. m \in Nat
    BY <2>2, FS_CardinalityType, ZenonT(60)
  <2> QED
    BY <2>1, <2>2, <2>3, <2>4, ZenonT(60)
<1>3. s \in Bijection(1 .. m, moving) /\ s \in [1 .. m -> moving] /\ DOMAIN s = 1 .. m
  BY <1>2, Increasing DEF MergedLots
<1>4. \A l \in DOMAIN L : /\ L[l].available \in Nat /\ L[l].reserved \in Nat /\ L[l].expired \in Nat
                          /\ L[l].reversed \in Nat /\ L[l].grantedAt \in Nat /\ L[l].expiresAt \in Nat
  BY <1>1 DEF LotRecord
<1>5. N = K \o C
  BY Zenon DEF MergedLots
<1>6. /\ taken \in [DOMAIN L -> Nat] /\ zero \in [DOMAIN L -> Nat] /\ g \in [moving -> Nat]
      /\ \A l \in DOMAIN L : taken[l] = IF l \in moving THEN L[l].available ELSE 0
      /\ \A l \in DOMAIN L : zero[l] = 0
      /\ \A l \in moving : g[l] = L[l].available /\ taken[l] = g[l]
  BY <1>2, <1>4
<1>7. ASSUME NEW l \in DOMAIN L
      PROVE  /\ l \in moving => Leaves(L[l], K[l], 0, L[l].reserved, L[l].available)
             /\ l \notin moving => K[l] = L[l]
             /\ K[l] \in LotRecord
  <2>1. CASE l \in moving
    <3>1. K[l] = E(L[l])
      BY <2>1
    <3>2. L[l] \in LotRecord /\ 0 \in Nat /\ 0 <= L[l].available /\ 0 <= L[l].reserved
      BY <1>1, <1>4
    <3> HIDE DEF K
    <3>3. Leaves(L[l], E(L[l]), 0, L[l].reserved, L[l].available)
      <4>1. \A r \in LotRecord : 0 <= r.available /\ 0 <= r.reserved
                => Leaves(r, E(r), 0, r.reserved, r.available)
        BY LotWrites
      <4> HIDE DEF E
      <4> QED
        BY <3>2, <4>1
    <3> HIDE DEF E
    <3>4. Leaves(L[l], K[l], 0, L[l].reserved, L[l].available)
      BY <3>1, <3>3
    <3> QED
      BY <2>1, <3>4 DEF Leaves
  <2>2. CASE l \notin moving
    BY <1>1, <2>2
  <2> QED
    BY <2>1, <2>2
<1>8. K = [l \in DOMAIN L |-> K[l]]
  OBVIOUS
<1>9. C = [i \in 1 .. m |-> C[i]]
      /\ \A i \in 1 .. m : /\ C[i] \in LotRecord /\ Unused(C[i]) /\ C[i].account = to
                           /\ C[i].available = g[s[i]]
  <2>1. ASSUME NEW i \in 1 .. m
        PROVE  /\ C[i] \in LotRecord /\ Unused(C[i]) /\ C[i].account = to
               /\ C[i].available = g[s[i]]
    <3>1. s[i] \in moving /\ s[i] \in DOMAIN L
      BY <1>2, <1>3
    <3>2. L[s[i]].available \in Nat /\ L[s[i]].grantedAt \in Nat /\ L[s[i]].expiresAt \in Nat
      BY <1>4, <3>1
    <3>3. C[i] = Points!Lot(to, L[s[i]].available, L[s[i]].grantedAt, L[s[i]].expiresAt)
      BY <1>3
    <3>4. g[s[i]] = L[s[i]].available
      BY <1>6, <3>1
    <3> DEFINE v == L[s[i]].available
               u == L[s[i]].grantedAt
               e == L[s[i]].expiresAt
               q == Points!Lot(to, v, u, e)
    <3>5. q \in LotRecord /\ Unused(q) /\ q.account = to /\ q.available = v
      <4> HIDE DEF v, u, e
      <4>1. v \in Nat /\ u \in Nat /\ e \in Nat
        BY <3>2 DEF v, u, e
      <4> QED
        BY <4>1, NewLot
    <3> HIDE DEF q
    <3>6. C[i] = q /\ g[s[i]] = v
      BY <3>3, <3>4 DEF q
    <3> HIDE DEF v, C, g
    <3>7. C[i] \in LotRecord /\ Unused(C[i])
      BY <3>5, <3>6, Zenon
    <3>8. C[i].account = to /\ C[i].available = g[s[i]]
      BY <3>5, <3>6, Zenon
    <3> QED
      BY <3>7, <3>8, Zenon
  <2>2. C = [i \in 1 .. m |-> C[i]]
    <3>1. C = [i \in DOMAIN s |-> C[i]]
      BY ZenonT(60)
    <3> HIDE DEF C, m
    <3> QED
      BY <1>3, <3>1, Zenon
  <2> QED
    BY <2>1, <2>2
<1>10. Len(L) + m <= MaxLots
  BY DEF MergedLots
<1> HIDE DEF K, C, E, taken, zero, g, m
<1>11. K \in LotLists /\ DOMAIN K = DOMAIN L /\ Len(K) = Len(L)
  BY <1>7, <1>8, Mapped
<1>12. Within(L, taken, from) /\ Within(L, zero, from)
  BY <1>2, <1>6 DEF Within
<1>13. Points!Total(zero) = 0 /\ Points!Total(taken) = p /\ Points!Total(g) = p /\ p \in Nat
  <2>1. Points!Total(zero) = 0
    BY <1>6, TotalZero
  <2>2. Points!Total(taken) = p
    <3>1. Of(L, taken, from) = Points!Total(taken)
      BY <1>6, <1>12, PartWhole DEF Within
    <3>2. ASSUME NEW l \in DOMAIN L, L[l].account = from PROVE taken[l] = FreeIn(L)[l]
      <4>1. FreeIn(L)[l] = L[l].available
        BY DEF FreeIn
      <4>2. l \notin moving => L[l].available = 0
        BY <1>2, <1>4, <3>2
      <4> QED
        BY <1>6, <4>1, <4>2
    <3>3. Part(L, taken, from) = Part(L, FreeIn(L), from)
      BY <3>2 DEF Part
    <3> QED
      BY <3>1, <3>3 DEF FreePoints, Of
  <2>3. Points!Total(g) = Points!Total(taken)
    <3>1. \A l \in moving : l \in DOMAIN L /\ taken[l] = g[l]
      BY <1>2, <1>6
    <3>2. \A l \in DOMAIN L : taken[l] > 0 => l \in moving /\ g[l] = taken[l]
      BY <1>6
    <3> QED
      BY <1>6, <3>1, <3>2, TotalSame
  <2> QED
    BY <2>1, <2>2, <2>3, PointsType
<1>14. Rewrites(L, K, taken, zero, zero, zero, taken)
  <2> SUFFICES ASSUME NEW l \in DOMAIN L
               PROVE  /\ K[l].account = L[l].account
                      /\ K[l].available + taken[l] = L[l].available + zero[l]
                      /\ K[l].reserved + zero[l] = L[l].reserved + zero[l]
                      /\ K[l].expired + K[l].reversed = L[l].expired + L[l].reversed + taken[l]
    BY <1>11 DEF Rewrites
  <2>1. CASE l \in moving
    BY <1>4, <1>6, <1>7, <2>1 DEF Leaves
  <2>2. CASE l \notin moving
    BY <1>4, <1>6, <1>7, <2>2
  <2> QED
    BY <2>1, <2>2
<1>15. Gains(L, K, from, 0 - p, 0 - 0, p)
  <2>1. Gains(L, K, from, Points!Total(zero) - Points!Total(taken),
              Points!Total(zero) - Points!Total(zero), Points!Total(taken))
    BY <1>6, <1>11, <1>12, <1>14, RewriteGains
  <2> QED
    BY <1>13, <2>1
<1>16. NewLots(K, C, m, to)
  BY <1>9, <1>10, <1>11 DEF NewLots
<1>17. Points!Total([i \in 1 .. m |-> C[i].available]) = p
  <2> DEFINE f == [i \in 1 .. m |-> C[i].available]
  <2>1. f \in [1 .. m -> Nat] /\ \A i \in 1 .. m : f[i] = g[s[i]]
    BY <1>3, <1>6, <1>9
  <2>a. 1 \in Int /\ m \in Int
    BY <1>2
  <2>2. IsFiniteSet(1 .. m)
    BY <2>a, FS_Interval
  <2> HIDE DEF f
  <2>3. Points!Total(f) = Points!Total(g)
    <3>1. g \in [moving -> Nat] /\ s \in Bijection(1 .. m, moving)
      BY <1>3, <1>6
    <3> DEFINE I == 1 .. m
    <3>2. /\ f \in [I -> Nat] /\ s \in Bijection(I, moving) /\ IsFiniteSet(I)
          /\ \A i \in I : f[i] = g[s[i]]
      BY <2>1, <2>2, <3>1
    <3> HIDE DEF I
    <3> QED
      BY <3>1, <3>2, TotalRenamed
  <2> QED
    BY <1>13, <2>3 DEF f
<1>18. /\ N \in LotLists
       /\ \A l \in DOMAIN K : l \in DOMAIN N /\ N[l] = K[l]
       /\ \A l \in DOMAIN N \ DOMAIN K : N[l].reserved = 0
       /\ Gains(K, N, to, p, 0, 0)
  BY <1>2, <1>5, <1>11, <1>16, <1>17, ConcatGains
<1>19. ASSUME NEW l \in DOMAIN L
       PROVE  /\ l \in DOMAIN N /\ N[l].account = L[l].account /\ N[l].reserved = L[l].reserved
              /\ N[l].expiresAt = L[l].expiresAt /\ N[l].available <= L[l].available
              /\ l \in moving => N[l].available = 0
  <2>1. CASE l \in moving
    BY <1>4, <1>7, <1>11, <1>18, <2>1 DEF Leaves
  <2>2. CASE l \notin moving
    BY <1>4, <1>7, <1>11, <1>18, <2>2
  <2> QED
    BY <2>1, <2>2
<1>20. Extends(L, N)
  BY <1>11, <1>18, <1>19 DEF Extends
<1>21. Points!Available(L, moving) = p
  BY <1>13 DEF Points!Available, g
<1>22. ASSUME NEW b \in Accounts
       PROVE  /\ FreePoints(N, b) = FreePoints(L, b)
                   + IF b = from THEN -p ELSE IF b = to THEN p ELSE 0
              /\ FrozenPoints(N, b) = FrozenPoints(L, b)
              /\ LostPoints(N, b) = LostPoints(L, b) + IF b = from THEN p ELSE 0
  <2>1. /\ FreePoints(L, b) \in Nat /\ FrozenPoints(L, b) \in Nat /\ LostPoints(L, b) \in Nat
        /\ FreePoints(K, b) \in Nat /\ FrozenPoints(K, b) \in Nat /\ LostPoints(K, b) \in Nat
    BY <1>11, PointsType
  <2>2. /\ FreePoints(K, b) = FreePoints(L, b) + IF b = from THEN 0 - p ELSE 0
        /\ FrozenPoints(K, b) = FrozenPoints(L, b) + IF b = from THEN 0 - 0 ELSE 0
        /\ LostPoints(K, b) = LostPoints(L, b) + IF b = from THEN p ELSE 0
    BY <1>15 DEF Gains
  <2>3. /\ FreePoints(N, b) = FreePoints(K, b) + IF b = to THEN p ELSE 0
        /\ FrozenPoints(N, b) = FrozenPoints(K, b) + IF b = to THEN 0 ELSE 0
        /\ LostPoints(N, b) = LostPoints(K, b) + IF b = to THEN 0 ELSE 0
    BY <1>18 DEF Gains
  <2> HIDE DEF p
  <2> QED
    BY <1>13, <2>1, <2>2, <2>3
<1> QED
  BY <1>2, <1>18, <1>19, <1>20, <1>21, <1>22

-----------------------------------------------------------------------------
(* The merge of points, the initial state, the steps.                       *)

LEMMA MergeStep ==
  ASSUME Points!PointsAssumption, PointsInv, NEW from \in Accounts, NEW to \in Accounts,
         NEW q, NEW t, Points!Merge(from, to, q, t)
  PROVE  /\ PointsInv'
         /\ from # to
         /\ \A j \in Jobs : reservation[j].account \in {from, to} => reservation[j].reserved = 0
         /\ \E x \in 0 .. FreePoints(lots, from), y \in 0 .. FreePoints(lots, to) :
               Moves(lots, lots', from, to, x, y)
<1>1. /\ MaxLots \in Nat /\ lots \in LotLists /\ PointsShape /\ from # to
      /\ \A j \in Jobs : reservation[j].account \in {from, to} => reservation[j].reserved = 0
  <2>1. /\ from # to
        /\ \A j \in Jobs : reservation[j].account \in {from, to} => reservation[j].reserved = 0
    BY Zenon DEF Points!Merge, Points!Mergeable
  <2> QED
    BY <2>1, PointsFacts
<1> DEFINE D == BothDue(from, to, t)
           lap(b) == Points!Available(lots, D \cap Points!LotsOf(b))
           L == Points!Lapsed(D)
           moving == {l \in Points!LotsOf(from) : L[l].available > 0}
           moved == Points!Available(L, moving)
<1>2. /\ L \in LotLists /\ DOMAIN L = DOMAIN lots /\ Len(L) = Len(lots)
      /\ \A l \in DOMAIN lots : SameLot(lots[l], L[l])
      /\ \A b \in Accounts :
           /\ lap(b) \in 0 .. FreePoints(lots, b)
           /\ b # from /\ b # to => lap(b) = 0
           /\ FreePoints(L, b) = FreePoints(lots, b) - lap(b)
           /\ FrozenPoints(L, b) = FrozenPoints(lots, b)
           /\ LostPoints(L, b) = LostPoints(lots, b) + lap(b)
  BY <1>1, MergeLapses
<1>3. PICK s \in [1 .. Points!Cardinality(moving) -> moving] :
        /\ \A i, k \in DOMAIN s : i < k => s[i] < s[k]
        /\ lots' = [l \in DOMAIN lots |->
                      IF l \in moving THEN [L[l] EXCEPT !.available = 0,
                                                        !.reversed = @ + L[l].available]
                                      ELSE L[l]]
                   \o [i \in DOMAIN s |-> Points!Lot(to, L[s[i]].available, L[s[i]].grantedAt,
                                                     L[s[i]].expiresAt)]
  BY Zenon DEF Points!Merge, BothDue
<1>4. /\ Len(lots) + Points!Cardinality(moving) <= MaxLots
      /\ account' = [account EXCEPT ![from].available = @ - lap(from) - moved,
                                    ![to].available = @ - lap(to) + moved]
      /\ UNCHANGED <<reservation, allocated, now>>
  BY Zenon DEF Points!Merge, BothDue
<1>5. moving = {l \in DOMAIN L : L[l].account = from /\ L[l].available > 0}
  <2> HIDE DEF D
  <2>1. \A l \in DOMAIN lots : L[l].account = lots[l].account
    BY <1>2 DEF SameLot
  <2> HIDE DEF L
  <2> QED
    BY <1>2, <2>1 DEF Points!LotsOf
<1> HIDE DEF D, L, moving
<1>6. MergedLots(L, lots', moving, s, from, to)
  <2>1. s \in [1 .. Cardinality(moving) -> moving] /\ Len(L) + Cardinality(moving) <= MaxLots
    BY <1>2, <1>3, <1>4, PointsCardinality
  <2>2. Sorted(s)
    BY <1>3 DEF Sorted
  <2> QED
    BY <1>2, <1>3, <1>5, <2>1, <2>2, ZenonT(60) DEF MergedLots
<1>7. /\ lots' \in LotLists /\ Extends(L, lots') /\ moved = FreePoints(L, from)
      /\ \A b \in Accounts :
           /\ FreePoints(lots', b) = FreePoints(L, b)
                + IF b = from THEN -FreePoints(L, from)
                  ELSE IF b = to THEN FreePoints(L, from) ELSE 0
           /\ FrozenPoints(lots', b) = FrozenPoints(L, b)
           /\ LostPoints(lots', b) = LostPoints(L, b) + IF b = from THEN FreePoints(L, from) ELSE 0
  BY <1>1, <1>2, <1>6, MergeMoves
<1> DEFINE x == lap(from)
           y == lap(to)
<1>8. x \in 0 .. FreePoints(lots, from) /\ y \in 0 .. FreePoints(lots, to)
      /\ moved = FreePoints(lots, from) - x
  BY <1>2, <1>7
<1>9. \A b \in Accounts : FreePoints(lots, b) \in Nat /\ LostPoints(lots, b) \in Nat
  BY <1>1, PointsType
<1>10. Moves(lots, lots', from, to, x, y)
  <2> SUFFICES ASSUME NEW b \in Accounts
               PROVE  /\ FreePoints(lots', b) = IF b = from THEN 0
                           ELSE IF b = to THEN FreePoints(lots, to) - y + (FreePoints(lots, from) - x)
                           ELSE FreePoints(lots, b)
                      /\ FrozenPoints(lots', b) = FrozenPoints(lots, b)
                      /\ LostPoints(lots', b) = LostPoints(lots, b)
                           + IF b = from THEN FreePoints(lots, from) ELSE IF b = to THEN y ELSE 0
    BY DEF Moves
  <2>1. /\ FreePoints(L, from) = FreePoints(lots, from) - x
        /\ FreePoints(L, to) = FreePoints(lots, to) - y
        /\ LostPoints(L, from) = LostPoints(lots, from) + x
        /\ LostPoints(L, to) = LostPoints(lots, to) + y
        /\ FreePoints(lots, from) \in Nat /\ FreePoints(lots, to) \in Nat
        /\ FreePoints(lots, b) \in Nat /\ LostPoints(lots, b) \in Nat
        /\ LostPoints(lots, from) \in Nat /\ LostPoints(lots, to) \in Nat
    BY <1>2, <1>9
  <2>2. FrozenPoints(lots', b) = FrozenPoints(lots, b)
    BY <1>2, <1>7
  <2>3. CASE b = from
    <3>1. /\ FreePoints(lots', from) = FreePoints(L, from) + -FreePoints(L, from)
          /\ LostPoints(lots', from) = LostPoints(L, from) + FreePoints(L, from)
      BY <1>7
    <3> HIDE DEF x, y
    <3> QED
      BY <1>1, <1>8, <2>1, <2>2, <2>3, <3>1
  <2>4. CASE b = to
    <3>1. /\ FreePoints(lots', to) = FreePoints(L, to) + FreePoints(L, from)
          /\ LostPoints(lots', to) = LostPoints(L, to) + 0
      BY <1>1, <1>7
    <3> HIDE DEF x, y
    <3> QED
      BY <1>1, <1>8, <2>1, <2>2, <2>4, <3>1
  <2>5. CASE b # from /\ b # to
    <3>1. /\ FreePoints(lots', b) = FreePoints(L, b) + 0
          /\ LostPoints(lots', b) = LostPoints(L, b) + 0
          /\ FreePoints(L, b) = FreePoints(lots, b) - 0
          /\ LostPoints(L, b) = LostPoints(lots, b) + 0
      BY <1>2, <1>7, <2>5
    <3> HIDE DEF x, y
    <3> QED
      BY <2>1, <2>2, <2>5, <3>1
  <2> QED
    BY <2>3, <2>4, <2>5
<1>11. account' \in Books /\ Booked(lots', account')
  <2>1. account \in Books /\ Booked(lots, account)
    BY <1>1 DEF PointsInv, PointsShape
  <2>2. x \in Int /\ y \in Int /\ moved \in Int /\ FreePoints(lots, from) \in Nat
        /\ FreePoints(lots, to) \in Nat
    BY <1>8, <1>9
  <2> DEFINE z == moved
  <2>3. account' = [account EXCEPT ![from].available = @ - x - z, ![to].available = @ - y + z]
    BY <1>4
  <2> HIDE DEF x, y, z
  <2>4. /\ account' \in Books
        /\ \A b \in Accounts :
             /\ account'[b].available = IF b = from THEN account[from].available - x - z
                                        ELSE IF b = to THEN account[to].available - y + z
                                        ELSE account[b].available
             /\ account'[b].frozen = account[b].frozen
    <3>1. z \in Int
      BY <2>2 DEF z
    <3>2. BooksMoved(account, account', from, to, x, y, z, z)
      BY <1>1, <2>1, <2>2, <2>3, <3>1, BooksMove, Zenon
    <3> QED
      BY <3>2 DEF BooksMoved
  <2>5. z = FreePoints(lots, from) - x
    BY <1>8 DEF z
  <2>6. ASSUME NEW b \in Accounts
        PROVE  account'[b].available = FreePoints(lots', b) /\ account'[b].frozen = FrozenPoints(lots', b)
    <3>1. /\ account[b].available = FreePoints(lots, b) /\ account[b].frozen = FrozenPoints(lots, b)
          /\ account[from].available = FreePoints(lots, from)
          /\ account[to].available = FreePoints(lots, to)
      BY <2>1 DEF Booked
    <3>2. /\ FreePoints(lots', b) = IF b = from THEN 0
                ELSE IF b = to THEN FreePoints(lots, to) - y + (FreePoints(lots, from) - x)
                ELSE FreePoints(lots, b)
          /\ FrozenPoints(lots', b) = FrozenPoints(lots, b)
      BY <1>10 DEF Moves
    <3> QED
      BY <2>2, <2>4, <2>5, <3>1, <3>2
  <2> QED
    BY <2>4, <2>6 DEF Booked
<1>12. Extends(lots, lots')
  BY <1>2, <1>7 DEF Extends, SameLot
<1>13. AllocationInv'
  BY <1>1, <1>4, <1>7, <1>12, Untouched DEF PointsInv
<1>14. PointsInv'
  BY <1>1, <1>4, <1>7, <1>11, <1>13 DEF PointsInv, PointsShape
<1> HIDE DEF x, y
<1> QED
  BY <1>1, <1>8, <1>10, <1>14

-----------------------------------------------------------------------------
LEMMA PointsInit ==
  ASSUME Points!PointsAssumption, Points!Init
  PROVE  PointsInv /\ \A b \in Accounts : FreePoints(lots, b) = 0 /\ LostPoints(lots, b) = 0
<1>1. /\ MaxLots \in Nat /\ IsFiniteSet(Jobs) /\ lots = << >>
      /\ reservation = [j \in Jobs |-> [account |-> NoAccount, requested |-> 0, reserved |-> 0,
                                        captured |-> 0, released |-> 0]]
      /\ account = [a \in Accounts |-> [available |-> 0, frozen |-> 0]]
      /\ allocated = [j \in Jobs |-> [l \in Ids |-> 0]] /\ now = 1
  BY PointsConstants DEF Points!Init, Ids
<1>2. lots \in LotLists /\ DOMAIN lots = {}
  BY <1>1 DEF LotLists
<1>3. PointsShape
  BY <1>1, <1>2 DEF PointsShape, Books, JobRecord
<1>4. ASSUME NEW b
      PROVE  FreePoints(lots, b) = 0 /\ FrozenPoints(lots, b) = 0 /\ LostPoints(lots, b) = 0
  <2>1. FreeIn(lots) \in [DOMAIN lots -> Nat] /\ FrozenIn(lots) \in [DOMAIN lots -> Nat]
        /\ LostIn(lots) \in [DOMAIN lots -> Nat]
    BY <1>2, FieldTypes
  <2>2. ASSUME NEW f \in [DOMAIN lots -> Nat] PROVE Of(lots, f, b) = 0
    <3>1. Part(lots, f, b) \in [Ids -> Nat] /\ \A l \in Ids : Part(lots, f, b)[l] = 0
      BY <1>2 DEF Part
    <3> QED
      BY <3>1, TotalZero DEF Of
  <2> QED
    BY <2>1, <2>2 DEF FreePoints, FrozenPoints, LostPoints
<1>5. Booked(lots, account)
  BY <1>1, <1>4 DEF Booked
<1>6. ASSUME NEW j \in Jobs PROVE Points!Total(allocated[j]) = 0
  <2>1. allocated[j] \in [Ids -> Nat] /\ \A l \in Ids : allocated[j][l] = 0
    BY <1>1
  <2> QED
    BY <2>1, TotalZero
<1>7. AllocationInv
  BY <1>1, <1>2, <1>6 DEF AllocationInv, Placed, LotsAgree, JobsAgree
<1> QED
  BY <1>3, <1>4, <1>5, <1>7 DEF PointsInv

LEMMA CommandTime ==
  ASSUME Points!PointsAssumption, PointsShape, NEW t \in Points!CommandTimes
  PROVE  t \in Nat /\ t <= now /\ now <= t + Skew
  BY PointsConstants DEF PointsShape, Points!CommandTimes

\* What a step of an account may be.
LEMMA PointsCases ==
  ASSUME Points!PointsAssumption, PointsInv, [Points!Next]_(Points!vars)
  PROVE  \/ \E a \in Accounts, n \in Amounts, t \in Points!CommandTimes, e \in Nat :
               Points!Grant(a, n, e, t)
         \/ \E a \in Accounts, n \in Amounts, t \in Points!CommandTimes :
               Points!CorrectUp(a, n, t) \/ Points!CorrectDown(a, n, t)
         \/ \E j \in Jobs, a \in Accounts, n \in Reservations, t \in Points!CommandTimes :
               Points!Reserve(j, a, n, t)
         \/ \E a \in Accounts, t \in Points!CommandTimes : Points!Expire(a, t)
         \/ \E from \in Accounts, to \in Accounts, q \in Requests, t \in Points!CommandTimes :
               Points!Merge(from, to, q, t)
         \/ \E j \in Jobs : \E key \in Keys : \E n \in 1 .. reservation[j].reserved :
               \/ Points!Capture(j, n, key)
               \/ \E t \in Points!CommandTimes : Points!Release(j, n, key, t)
         \/ Points!Tick
         \/ UNCHANGED Points!vars
<1>1. MaxTime \in Nat /\ Validity \subseteq 1 .. MaxTime /\ now \in Nat /\ PointsShape
  BY PointsConstants DEF PointsInv, PointsShape
<1>2. ASSUME NEW a \in Accounts, NEW t \in Points!CommandTimes, NEW n \in Amounts,
             \/ Points!Grant(a, n, Points!Never, t)
             \/ \E v \in Validity : Points!Grant(a, n, t + v, t)
      PROVE  \E e \in Nat : Points!Grant(a, n, e, t)
  <2>1. t \in Nat
    BY <1>1, CommandTime
  <2>2. Points!Never \in Nat
    BY <1>1 DEF Points!Never
  <2>3. \A v \in Validity : t + v \in Nat
    BY <1>1, <2>1
  <2> QED
    BY <1>2, <2>2, <2>3
<1>3. CASE UNCHANGED Points!vars
  BY <1>3
<1>4. CASE Points!Next
  <2>1. CASE Points!Tick
    BY <2>1
  <2>2. CASE \E j \in Jobs, key \in Keys : \E n \in 1 .. reservation[j].reserved :
                \/ Points!Capture(j, n, key)
                \/ \E t \in Points!CommandTimes : Points!Release(j, n, key, t)
    BY <2>2
  <2>3. ASSUME NEW a \in Accounts, NEW t \in Points!CommandTimes,
               \/ \E n \in Amounts :
                     \/ Points!Grant(a, n, Points!Never, t)
                     \/ \E v \in Validity : Points!Grant(a, n, t + v, t)
                     \/ Points!CorrectUp(a, n, t)
                     \/ Points!CorrectDown(a, n, t)
               \/ \E j \in Jobs, n \in Reservations : Points!Reserve(j, a, n, t)
               \/ Points!Expire(a, t)
               \/ \E b \in Accounts, q \in Requests : Points!Merge(a, b, q, t)
        PROVE  \/ \E n \in Amounts, e \in Nat : Points!Grant(a, n, e, t)
               \/ \E n \in Amounts : Points!CorrectUp(a, n, t) \/ Points!CorrectDown(a, n, t)
               \/ \E j \in Jobs, n \in Reservations : Points!Reserve(j, a, n, t)
               \/ Points!Expire(a, t)
               \/ \E b \in Accounts, q \in Requests : Points!Merge(a, b, q, t)
    BY <1>2, <2>3
  <2> QED
    BY <1>4, <2>1, <2>2, <2>3 DEF Points!Next
<1> QED
  BY <1>3, <1>4

-----------------------------------------------------------------------------
(* The projections agree.                                                   *)

LEMMA PointsNext ==
  ASSUME Points!PointsAssumption, PointsInv, [Points!Next]_(Points!vars)
  PROVE  PointsInv'
<1>0. PointsShape
  BY DEF PointsInv
<1>1. CASE \E a \in Accounts, n \in Amounts, t \in Points!CommandTimes, e \in Nat :
              Points!Grant(a, n, e, t)
  BY <1>0, <1>1, CommandTime, GrantStep
<1>2. CASE \E a \in Accounts, n \in Amounts, t \in Points!CommandTimes :
              Points!CorrectUp(a, n, t) \/ Points!CorrectDown(a, n, t)
  BY <1>0, <1>2, CommandTime, CorrectUpStep, CorrectDownStep
<1>3. CASE \E j \in Jobs, a \in Accounts, n \in Reservations, t \in Points!CommandTimes :
              Points!Reserve(j, a, n, t)
  BY <1>0, <1>3, CommandTime, ReserveStep
<1>4. CASE \E a \in Accounts, t \in Points!CommandTimes : Points!Expire(a, t)
  BY <1>0, <1>4, CommandTime, ExpireStep
<1>5. CASE \E from \in Accounts, to \in Accounts, q \in Requests, t \in Points!CommandTimes :
              Points!Merge(from, to, q, t)
  BY <1>5, MergeStep
<1>6. CASE \E j \in Jobs : \E key \in Keys : \E n \in 1 .. reservation[j].reserved :
              \/ Points!Capture(j, n, key)
              \/ \E t \in Points!CommandTimes : Points!Release(j, n, key, t)
  BY <1>6, CaptureStep, ReleaseStep
<1>7. CASE Points!Tick
  BY <1>0, <1>7 DEF Points!Tick, PointsInv, PointsShape, AllocationInv, Placed, LotsAgree, JobsAgree
<1>8. CASE UNCHANGED Points!vars
  BY <1>0, <1>8 DEF Points!vars, PointsInv, PointsShape, AllocationInv, Placed, LotsAgree, JobsAgree
<1> QED
  BY <1>1, <1>2, <1>3, <1>4, <1>5, <1>6, <1>7, <1>8, PointsCases

\* Balance, lots, allocations and reservations always agree, however many accounts,
\* jobs and lots there are and however late a command acts.
THEOREM ProjectionsAgreeTheorem ==
  ASSUME Points!PointsAssumption
  PROVE  Points!Spec => []ProjectionsAgree
<1>1. Points!Init => PointsInv
  BY PointsInit
<1>2. PointsInv /\ [Points!Next]_(Points!vars) => PointsInv'
  BY PointsNext
<1>3. PointsInv => ProjectionsAgree
  <2> SUFFICES ASSUME PointsInv PROVE Points!ProjectionsAgree
    BY DEF ProjectionsAgree
  <2>1. MaxLots \in Nat /\ lots \in LotLists
    BY PointsConstants DEF PointsInv, PointsShape
  <2>2. \A a \in Accounts :
          /\ account[a].available = Points!Available(lots, Points!LotsOf(a))
          /\ account[a].frozen = Points!Total([l \in Points!LotsOf(a) |-> lots[l].reserved])
    BY <2>1, SumsOfAccount DEF PointsInv, Booked
  <2>3. \A l \in DOMAIN lots : lots[l].reserved = Points!Total([j \in Jobs |-> allocated[j][l]])
    BY DEF PointsInv, AllocationInv, LotsAgree, Column
  <2>4. \A j \in Jobs : reservation[j].reserved = Points!Total(allocated[j])
    BY DEF PointsInv, AllocationInv, JobsAgree
  <2> QED
    BY <2>2, <2>3, <2>4 DEF Points!ProjectionsAgree
<1> QED
  BY <1>1, <1>2, <1>3, PTL DEF Points!Spec

-----------------------------------------------------------------------------
\* The abstract ledger.
LEMMA LostSum ==
  ASSUME MaxLots \in Nat, NEW a, NEW L \in LotLists
  PROVE  Points!Total([l \in {k \in DOMAIN L : L[k].account = a} |-> L[l].expired + L[l].reversed])
            = LostPoints(L, a)
<1> DEFINE S == {k \in DOMAIN L : L[k].account = a}
<1>1. [l \in S |-> L[l].expired + L[l].reversed] = [l \in S |-> LostIn(L)[l]]
  BY DEF LostIn
<1>2. Points!Total([l \in S |-> LostIn(L)[l]]) = LostPoints(L, a)
  BY FieldTypes, PartSum DEF LostPoints
<1> HIDE DEF S
<1> QED
  BY <1>1, <1>2 DEF S

FreeAll(L) == [a \in Accounts |-> FreePoints(L, a)]
LostAll(L) == [a \in Accounts |-> LostPoints(L, a)]

LEMMA LedgerVars ==
  ASSUME Points!PointsAssumption, PointsInv, PointsInv'
  PROVE  /\ [a \in Accounts |-> account[a].available] = FreeAll(lots)
         /\ [a \in Accounts |-> account[a].available]' = FreeAll(lots')
         /\ [a \in Accounts |-> Points!Lost(a)] = LostAll(lots)
         /\ [a \in Accounts |-> Points!Lost(a)]' = LostAll(lots')
         /\ MaxLots \in Nat /\ lots \in LotLists /\ lots' \in LotLists
<1>1. MaxLots \in Nat /\ lots \in LotLists /\ lots' \in LotLists
  BY PointsConstants DEF PointsInv, PointsShape
<1>2. \A a \in Accounts : account[a].available = FreePoints(lots, a)
  BY DEF PointsInv, Booked
<1>3. \A a \in Accounts : account'[a].available = FreePoints(lots', a)
  BY DEF PointsInv, Booked
<1>4. \A a \in Accounts : Points!Lost(a) = LostPoints(lots, a)
  BY <1>1, LostSum DEF Points!Lost, Points!LotsOf
<1>5. \A a \in Accounts : Points!Lost(a)' = LostPoints(lots', a)
  <2> SUFFICES ASSUME NEW a \in Accounts PROVE Points!Lost(a)' = LostPoints(lots', a)
    OBVIOUS
  <2>1. Points!Total([l \in {k \in DOMAIN lots' : lots'[k].account = a}
                        |-> lots'[l].expired + lots'[l].reversed]) = LostPoints(lots', a)
    BY <1>1, LostSum
  <2> QED
    BY <2>1 DEF Points!Lost, Points!LotsOf
<1> QED
  BY <1>1, <1>2, <1>3, <1>4, <1>5 DEF FreeAll, LostAll

LEMMA GainsAll ==
  ASSUME MaxLots \in Nat, NEW L \in LotLists, NEW M \in LotLists, NEW a \in Accounts,
         NEW x \in Int, NEW y \in Int, NEW z \in Int, Gains(L, M, a, x, y, z)
  PROVE  /\ FreeAll(M) = [FreeAll(L) EXCEPT ![a] = @ + x]
         /\ LostAll(M) = [LostAll(L) EXCEPT ![a] = @ + z]
         /\ FreeAll(L)[a] = FreePoints(L, a) /\ FreePoints(L, a) \in Nat
         /\ LostAll(L)[a] = LostPoints(L, a) /\ LostPoints(L, a) \in Nat
<1>1. \A b \in Accounts : FreePoints(L, b) \in Nat /\ LostPoints(L, b) \in Nat
  BY PointsType
<1>2. \A b \in Accounts : /\ FreePoints(M, b) = IF b = a THEN FreePoints(L, b) + x ELSE FreePoints(L, b)
                          /\ LostPoints(M, b) = IF b = a THEN LostPoints(L, b) + z ELSE LostPoints(L, b)
  BY <1>1 DEF Gains
<1> QED
  BY <1>1, <1>2 DEF FreeAll, LostAll

-----------------------------------------------------------------------------
(* The abstract ledger: what every command does to it.                      *)

HoldersOf(R) == [j \in Jobs |-> R[j].account]
HeldOf(R) == [j \in Jobs |-> R[j].reserved]
SpentOf(R) == [j \in Jobs |-> R[j].captured]

\* The variables of the abstract ledger before and after a step.
LEMMA JobVars ==
  /\ [j \in Jobs |-> reservation[j].account] = HoldersOf(reservation)
  /\ [j \in Jobs |-> reservation[j].account]' = HoldersOf(reservation')
  /\ [j \in Jobs |-> reservation[j].reserved] = HeldOf(reservation)
  /\ [j \in Jobs |-> reservation[j].reserved]' = HeldOf(reservation')
  /\ [j \in Jobs |-> reservation[j].captured] = SpentOf(reservation)
  /\ [j \in Jobs |-> reservation[j].captured]' = SpentOf(reservation')
BY DEF HoldersOf, HeldOf, SpentOf

LEMMA JobsSame ==
  ASSUME reservation' = reservation
  PROVE  /\ HoldersOf(reservation') = HoldersOf(reservation)
         /\ HeldOf(reservation') = HeldOf(reservation)
         /\ SpentOf(reservation') = SpentOf(reservation)
BY DEF HoldersOf, HeldOf, SpentOf

LEMMA CreditMaps ==
  ASSUME Points!PointsAssumption, PointsInv, PointsInv', reservation' = reservation,
         NEW a \in Accounts, NEW n \in Amounts, NEW x \in 0 .. FreePoints(lots, a),
         Gains(lots, lots', a, -x + n, 0, x)
  PROVE  Points!Abstract!Credit(a)
<1>1. MaxLots \in Nat /\ lots \in LotLists /\ lots' \in LotLists
  BY LedgerVars
<1>2. n \in Nat /\ FreePoints(lots, a) \in Nat
  BY <1>1, PointsType, PointsConstants
<1>3. /\ FreeAll(lots') = [FreeAll(lots) EXCEPT ![a] = @ + (-x + n)]
      /\ LostAll(lots') = [LostAll(lots) EXCEPT ![a] = @ + x]
      /\ FreeAll(lots)[a] = FreePoints(lots, a)
  BY <1>1, <1>2, GainsAll
<1>4. [FreeAll(lots) EXCEPT ![a] = @ + (-x + n)] = [FreeAll(lots) EXCEPT ![a] = @ - x + n]
  <2>1. FreeAll(lots)[a] + (-x + n) = FreeAll(lots)[a] - x + n
    BY <1>2, <1>3
  <2> QED
    BY <2>1
<1>5. x \in 0 .. FreeAll(lots)[a]
  BY <1>3
<1>6. \E m \in Amounts, lapsed \in 0 .. FreeAll(lots)[a] :
        /\ FreeAll(lots') = [FreeAll(lots) EXCEPT ![a] = @ - lapsed + m]
        /\ LostAll(lots') = [LostAll(lots) EXCEPT ![a] = @ + lapsed]
  <2> WITNESS n \in Amounts, x \in 0 .. FreeAll(lots)[a]
  <2> QED
    BY <1>3, <1>4
<1> QED
  BY <1>6, LedgerVars, JobVars, JobsSame, Zenon DEF Points!Abstract!Credit

LEMMA LoseMaps ==
  ASSUME Points!PointsAssumption, PointsInv, PointsInv', reservation' = reservation,
         NEW a \in Accounts, NEW x \in 0 .. FreePoints(lots, a),
         Gains(lots, lots', a, -x, 0, x)
  PROVE  Points!Abstract!Lose(a) \/ UNCHANGED Points!Abstract!vars
<1>1. MaxLots \in Nat /\ lots \in LotLists /\ lots' \in LotLists
  BY LedgerVars
<1>2. FreePoints(lots, a) \in Nat
  BY <1>1, PointsType
<1>3. /\ FreeAll(lots') = [FreeAll(lots) EXCEPT ![a] = @ + (-x)]
      /\ LostAll(lots') = [LostAll(lots) EXCEPT ![a] = @ + x]
      /\ FreeAll(lots)[a] = FreePoints(lots, a)
      /\ LostAll(lots)[a] \in Nat
  BY <1>1, <1>2, GainsAll
<1>4. CASE x = 0
  <2>1. FreeAll(lots') = FreeAll(lots) /\ LostAll(lots') = LostAll(lots)
    <3>1. FreeAll(lots)[a] + (-x) = FreeAll(lots)[a] /\ LostAll(lots)[a] + x = LostAll(lots)[a]
      BY <1>2, <1>3, <1>4
    <3> QED
      BY <1>3, <3>1 DEF FreeAll, LostAll
  <2> QED
    BY <2>1, LedgerVars, JobVars, JobsSame DEF Points!Abstract!vars
<1>5. CASE x # 0
  <2>1. [FreeAll(lots) EXCEPT ![a] = @ + (-x)] = [FreeAll(lots) EXCEPT ![a] = @ - x]
    <3>1. FreeAll(lots)[a] + (-x) = FreeAll(lots)[a] - x
      BY <1>2, <1>3
    <3> QED
      BY <3>1
  <2>2. x \in 1 .. FreeAll(lots)[a]
    BY <1>2, <1>3, <1>5
  <2> QED
    BY <1>3, <2>1, <2>2, LedgerVars, JobVars, JobsSame DEF Points!Abstract!Lose
<1> QED
  BY <1>4, <1>5

LEMMA HoldMaps ==
  ASSUME Points!PointsAssumption, PointsInv, PointsInv', NEW j \in Jobs, NEW a \in Accounts,
         NEW n \in Reservations, NEW t \in Nat, Points!Reserve(j, a, n, t)
  PROVE  Points!Abstract!Hold(j, a)
<1>1. MaxLots \in Nat /\ lots \in LotLists /\ lots' \in LotLists
  BY LedgerVars
<1>2. /\ n \in 1 .. FreePoints(lots, a)
      /\ reservation[j].account = NoAccount /\ reservation'[j].captured = reservation[j].captured
      /\ reservation'[j].account = a /\ reservation'[j].reserved = n
      /\ \A i \in Jobs \ {j} : reservation'[i] = reservation[i]
  BY ReserveStep
<1>3. PICK x \in 0 .. FreePoints(lots, a) - n : Gains(lots, lots', a, -(x + n), n, x)
  BY ReserveStep
<1>4. FreePoints(lots, a) \in Nat /\ n \in Nat
  BY <1>1, <1>2, PointsType, PointsConstants
<1>5. /\ FreeAll(lots') = [FreeAll(lots) EXCEPT ![a] = @ + (-(x + n))]
      /\ LostAll(lots') = [LostAll(lots) EXCEPT ![a] = @ + x]
      /\ FreeAll(lots)[a] = FreePoints(lots, a)
  <2>1. x \in Int /\ n \in Int /\ -(x + n) \in Int
    BY <1>4
  <2> QED
    BY <1>1, <1>3, <2>1, GainsAll
<1>6. [FreeAll(lots) EXCEPT ![a] = @ + (-(x + n))] = [FreeAll(lots) EXCEPT ![a] = @ - n - x]
  <2>1. FreeAll(lots)[a] + (-(x + n)) = FreeAll(lots)[a] - n - x
    BY <1>4, <1>5
  <2> QED
    BY <2>1
<1>7. n \in 1 .. FreeAll(lots)[a] /\ x \in 0 .. FreeAll(lots)[a] - n
  BY <1>2, <1>5
<1>8. /\ HoldersOf(reservation)[j] = NoAccount
      /\ HoldersOf(reservation') = [HoldersOf(reservation) EXCEPT ![j] = a]
      /\ HeldOf(reservation') = [HeldOf(reservation) EXCEPT ![j] = n]
      /\ SpentOf(reservation') = SpentOf(reservation)
  BY <1>2 DEF HoldersOf, HeldOf, SpentOf
<1>9. \E m \in 1 .. FreeAll(lots)[a] : \E lapsed \in 0 .. FreeAll(lots)[a] - m :
        /\ FreeAll(lots') = [FreeAll(lots) EXCEPT ![a] = @ - m - lapsed]
        /\ LostAll(lots') = [LostAll(lots) EXCEPT ![a] = @ + lapsed]
        /\ HeldOf(reservation') = [HeldOf(reservation) EXCEPT ![j] = m]
  <2>1. n \in 1 .. FreeAll(lots)[a]
    BY <1>7
  <2>2. x \in 0 .. FreeAll(lots)[a] - n
    BY <1>7
  <2> WITNESS n \in 1 .. FreeAll(lots)[a]
  <2> WITNESS x \in 0 .. FreeAll(lots)[a] - n
  <2> QED
    BY <1>5, <1>6, <1>8
<1> QED
  BY <1>8, <1>9, LedgerVars, JobVars, Zenon DEF Points!Abstract!Hold

LEMMA SpendMaps ==
  ASSUME Points!PointsAssumption, PointsInv, PointsInv', NEW j \in Jobs,
         NEW n \in 1 .. reservation[j].reserved, NEW key, Points!Capture(j, n, key)
  PROVE  Points!Abstract!Spend(j)
<1>1. MaxLots \in Nat /\ lots \in LotLists /\ lots' \in LotLists
  BY LedgerVars
<1>2. /\ reservation'[j].reserved = reservation[j].reserved - n
      /\ reservation'[j].captured = reservation[j].captured + n
      /\ \A i \in Jobs : /\ reservation'[i].account = reservation[i].account
                         /\ i # j => reservation'[i] = reservation[i]
      /\ Gains(lots, lots', reservation[j].account, 0, -n, 0)
  BY CaptureStep
<1>3. reservation[j].account \in Accounts /\ n \in Nat
  BY HolderKnown
<1>4. FreeAll(lots') = FreeAll(lots) /\ LostAll(lots') = LostAll(lots)
  <2> DEFINE a == reservation[j].account
  <2>1. /\ FreeAll(lots') = [FreeAll(lots) EXCEPT ![a] = @ + 0]
        /\ LostAll(lots') = [LostAll(lots) EXCEPT ![a] = @ + 0]
        /\ FreeAll(lots)[a] \in Nat /\ LostAll(lots)[a] \in Nat
    BY <1>1, <1>2, <1>3, GainsAll
  <2>2. FreeAll(lots)[a] + 0 = FreeAll(lots)[a] /\ LostAll(lots)[a] + 0 = LostAll(lots)[a]
    BY <2>1
  <2> HIDE DEF a
  <2> QED
    BY <2>1, <2>2 DEF FreeAll, LostAll
<1>5. /\ n \in 1 .. HeldOf(reservation)[j]
      /\ HoldersOf(reservation') = HoldersOf(reservation)
      /\ HeldOf(reservation') = [HeldOf(reservation) EXCEPT ![j] = @ - n]
      /\ SpentOf(reservation') = [SpentOf(reservation) EXCEPT ![j] = @ + n]
  BY <1>2 DEF HoldersOf, HeldOf, SpentOf
<1> QED
  BY <1>4, <1>5, LedgerVars, JobVars DEF Points!Abstract!Spend

LEMMA GiveBackMaps ==
  ASSUME Points!PointsAssumption, PointsInv, PointsInv', NEW j \in Jobs,
         NEW n \in 1 .. reservation[j].reserved, NEW key, NEW t, Points!Release(j, n, key, t)
  PROVE  Points!Abstract!GiveBack(j)
<1> DEFINE a == reservation[j].account
<1>1. MaxLots \in Nat /\ lots \in LotLists /\ lots' \in LotLists
  BY LedgerVars
<1>2. /\ reservation'[j].reserved = reservation[j].reserved - n
      /\ reservation'[j].captured = reservation[j].captured
      /\ \A i \in Jobs : /\ reservation'[i].account = reservation[i].account
                         /\ i # j => reservation'[i] = reservation[i]
  BY ReleaseStep
<1>3. PICK x \in 0 .. FreePoints(lots, a) + n : Gains(lots, lots', a, n - x, -n, x)
  BY ReleaseStep
<1>4. a \in Accounts /\ n \in Nat /\ n >= 1
  BY HolderKnown
<1> HIDE DEF a
<1>5. FreePoints(lots, a) \in Nat
  BY <1>1, <1>4, PointsType
<1>6. /\ FreeAll(lots') = [FreeAll(lots) EXCEPT ![a] = @ + (n - x)]
      /\ LostAll(lots') = [LostAll(lots) EXCEPT ![a] = @ + x]
      /\ FreeAll(lots)[a] = FreePoints(lots, a)
  <2>1. x \in Int /\ n - x \in Int /\ -n \in Int
    BY <1>4, <1>5
  <2> QED
    BY <1>1, <1>3, <1>4, <2>1, GainsAll
<1>7. [FreeAll(lots) EXCEPT ![a] = @ + (n - x)] = [FreeAll(lots) EXCEPT ![a] = @ + n - x]
  <2>1. FreeAll(lots)[a] + (n - x) = FreeAll(lots)[a] + n - x
    BY <1>4, <1>5, <1>6
  <2> QED
    BY <2>1
<1>8. /\ n \in 1 .. HeldOf(reservation)[j] /\ x \in 0 .. FreeAll(lots)[a] + n
      /\ HoldersOf(reservation)[j] = a
      /\ HoldersOf(reservation') = HoldersOf(reservation)
      /\ HeldOf(reservation') = [HeldOf(reservation) EXCEPT ![j] = @ - n]
      /\ SpentOf(reservation') = SpentOf(reservation)
  BY <1>2, <1>6 DEF HoldersOf, HeldOf, SpentOf, a
<1>9. \E m \in 1 .. HeldOf(reservation)[j] : \E lapsed \in 0 .. FreeAll(lots)[a] + m :
        /\ HeldOf(reservation') = [HeldOf(reservation) EXCEPT ![j] = @ - m]
        /\ FreeAll(lots') = [FreeAll(lots) EXCEPT ![a] = @ + m - lapsed]
        /\ LostAll(lots') = [LostAll(lots) EXCEPT ![a] = @ + lapsed]
  <2>1. n \in 1 .. HeldOf(reservation)[j]
    BY <1>8
  <2>2. x \in 0 .. FreeAll(lots)[a] + n
    BY <1>8
  <2> WITNESS n \in 1 .. HeldOf(reservation)[j]
  <2> WITNESS x \in 0 .. FreeAll(lots)[a] + n
  <2> QED
    BY <1>6, <1>7, <1>8
<1> QED
  <2> DEFINE b == HoldersOf(reservation)[j]
  <2>1. \E m \in 1 .. HeldOf(reservation)[j] : \E lapsed \in 0 .. FreeAll(lots)[b] + m :
          /\ HeldOf(reservation') = [HeldOf(reservation) EXCEPT ![j] = @ - m]
          /\ FreeAll(lots') = [FreeAll(lots) EXCEPT ![b] = @ + m - lapsed]
          /\ LostAll(lots') = [LostAll(lots) EXCEPT ![b] = @ + lapsed]
    BY <1>8, <1>9
  <2>2. HoldersOf(reservation') = HoldersOf(reservation) /\ SpentOf(reservation') = SpentOf(reservation)
    BY <1>8
  <2> QED
    BY <2>1, <2>2, LedgerVars, JobVars, ZenonT(60) DEF Points!Abstract!GiveBack

LEMMA MoveMaps ==
  ASSUME Points!PointsAssumption, PointsInv, PointsInv', NEW from \in Accounts, NEW to \in Accounts,
         NEW q, NEW t, Points!Merge(from, to, q, t)
  PROVE  Points!Abstract!Move(from, to)
<1>1. MaxLots \in Nat /\ lots \in LotLists /\ lots' \in LotLists
  BY LedgerVars
<1>2. /\ from # to /\ reservation' = reservation
      /\ \A j \in Jobs : HoldersOf(reservation)[j] \in {from, to} => HeldOf(reservation)[j] = 0
  <2>1. reservation' = reservation
    BY Zenon DEF Points!Merge
  <2>2. /\ from # to
        /\ \A j \in Jobs : reservation[j].account \in {from, to} => reservation[j].reserved = 0
    BY MergeStep, Zenon
  <2> QED
    BY <2>1, <2>2 DEF HoldersOf, HeldOf
<1>3. PICK x \in 0 .. FreePoints(lots, from), y \in 0 .. FreePoints(lots, to) :
             Moves(lots, lots', from, to, x, y)
  BY MergeStep, Zenon
<1>4. \A b \in Accounts : FreePoints(lots, b) \in Nat /\ LostPoints(lots, b) \in Nat
  BY <1>1, PointsType
<1>5. /\ FreeAll(lots)[from] = FreePoints(lots, from) /\ FreeAll(lots)[to] = FreePoints(lots, to)
      /\ FreePoints(lots, from) \in Nat /\ FreePoints(lots, to) \in Nat
      /\ x \in 0 .. FreeAll(lots)[from] /\ y \in 0 .. FreeAll(lots)[to]
  BY <1>3, <1>4 DEF FreeAll
<1>6. FreeAll(lots') = [FreeAll(lots) EXCEPT ![from] = 0,
                                             ![to] = @ - y + FreeAll(lots)[from] - x]
  <2>1. FreePoints(lots, to) - y + (FreePoints(lots, from) - x)
           = FreeAll(lots)[to] - y + FreeAll(lots)[from] - x
    BY <1>5
  <2>2. \A b \in Accounts : FreePoints(lots', b) =
           IF b = from THEN 0 ELSE IF b = to THEN FreeAll(lots)[to] - y + FreeAll(lots)[from] - x
           ELSE FreePoints(lots, b)
    BY <1>3, <2>1 DEF Moves
  <2> DEFINE v == FreeAll(lots)[to] - y + FreeAll(lots)[from] - x
  <2>3. \A b \in Accounts : FreePoints(lots', b) =
           IF b = from THEN 0 ELSE IF b = to THEN v ELSE FreePoints(lots, b)
    BY <2>2
  <2>4. [FreeAll(lots) EXCEPT ![from] = 0, ![to] = @ - y + FreeAll(lots)[from] - x]
           = [FreeAll(lots) EXCEPT ![from] = 0, ![to] = v]
    BY <1>2
  <2> HIDE DEF v
  <2>5. FreeAll(lots') = [FreeAll(lots) EXCEPT ![from] = 0, ![to] = v]
    BY <1>2, <2>3 DEF FreeAll
  <2> QED
    BY <2>4, <2>5
<1>7. LostAll(lots') = [LostAll(lots) EXCEPT ![from] = @ + FreeAll(lots)[from], ![to] = @ + y]
  <2> DEFINE u == FreePoints(lots, from)
  <2>1. \A b \in Accounts : LostPoints(lots', b) =
           IF b = from THEN LostPoints(lots, from) + u ELSE IF b = to THEN LostPoints(lots, to) + y
           ELSE LostPoints(lots, b)
    <3>1. \A b \in Accounts : LostPoints(lots', b) = LostPoints(lots, b)
             + IF b = from THEN u ELSE IF b = to THEN y ELSE 0
      BY <1>3 DEF Moves
    <3> HIDE DEF u
    <3>2. \A b \in Accounts : LostPoints(lots, b) + 0 = LostPoints(lots, b)
      BY <1>4
    <3> QED
      BY <3>1, <3>2
  <2>2. FreeAll(lots)[from] = u
    BY <1>5
  <2> HIDE DEF u
  <2> QED
    BY <1>2, <2>1, <2>2 DEF LostAll
<1> QED
  BY <1>2, <1>5, <1>6, <1>7, LedgerVars, JobVars, JobsSame DEF Points!Abstract!Move

-----------------------------------------------------------------------------
(* The lots implement the abstract ledger.                                  *)

LEMMA StepMaps ==
  ASSUME Points!PointsAssumption, PointsInv, [Points!Next]_(Points!vars)
  PROVE  [Points!Abstract!Next]_(Points!Abstract!vars)
<1>1. PointsInv' /\ PointsShape
  BY PointsNext DEF PointsInv
<1>3. ASSUME NEW a \in Accounts, NEW n \in Amounts, NEW t \in Points!CommandTimes, NEW e \in Nat,
             Points!Grant(a, n, e, t)
      PROVE  Points!Abstract!Credit(a)
  <2>1. reservation' = reservation /\ t \in Nat
    BY <1>1, <1>3, CommandTime DEF Points!Grant
  <2>2. Gains(lots, lots', a, n, 0, 0)
    BY <1>3, <2>1, GrantStep
  <2>3. MaxLots \in Nat /\ lots \in LotLists /\ n \in Nat
    BY <1>1, PointsConstants DEF PointsShape
  <2>4. FreePoints(lots, a) \in Nat /\ -0 + n = n
    BY <2>3, PointsType
  <2>5. 0 \in 0 .. FreePoints(lots, a) /\ Gains(lots, lots', a, -0 + n, 0, 0)
    BY <2>2, <2>4
  <2> QED
    BY <1>1, <2>1, <2>5, CreditMaps
<1>4. ASSUME NEW a \in Accounts, NEW n \in Amounts, NEW t \in Points!CommandTimes,
             Points!CorrectUp(a, n, t)
      PROVE  Points!Abstract!Credit(a)
  <2>1. reservation' = reservation /\ t \in Nat
    BY <1>1, <1>4, CommandTime DEF Points!CorrectUp
  <2> QED
    BY <1>1, <1>4, <2>1, CorrectUpStep, CreditMaps
<1>5. ASSUME NEW a \in Accounts, NEW t \in Points!CommandTimes,
             Points!Expire(a, t) \/ \E n \in Amounts : Points!CorrectDown(a, n, t)
      PROVE  Points!Abstract!Lose(a) \/ UNCHANGED Points!Abstract!vars
  <2>1. reservation' = reservation /\ t \in Nat
    BY <1>1, <1>5, CommandTime DEF Points!CorrectDown, Points!Expire
  <2>2. \E x \in 0 .. FreePoints(lots, a) : Gains(lots, lots', a, -x, 0, x)
    <3>1. CASE Points!Expire(a, t)
      BY <2>1, <3>1, ExpireStep
    <3>2. CASE \E n \in Amounts : Points!CorrectDown(a, n, t)
      <4>1. PICK x \in 1 .. FreePoints(lots, a) : Gains(lots, lots', a, -x, 0, x)
        BY <2>1, <3>2, CorrectDownStep
      <4> QED
        BY <4>1
    <3> QED
      BY <1>5, <3>1, <3>2
  <2> QED
    BY <1>1, <2>1, <2>2, LoseMaps
<1>6. ASSUME NEW j \in Jobs, NEW a \in Accounts, NEW n \in Reservations, NEW t \in Points!CommandTimes,
             Points!Reserve(j, a, n, t)
      PROVE  Points!Abstract!Hold(j, a)
  BY <1>1, <1>6, CommandTime, HoldMaps
<1>7. ASSUME NEW from \in Accounts, NEW to \in Accounts, NEW q \in Requests,
             NEW t \in Points!CommandTimes, Points!Merge(from, to, q, t)
      PROVE  Points!Abstract!Move(from, to)
  BY <1>1, <1>7, MoveMaps
<1>8. ASSUME NEW j \in Jobs, NEW key \in Keys, NEW n \in 1 .. reservation[j].reserved,
             Points!Capture(j, n, key) \/ \E t \in Points!CommandTimes : Points!Release(j, n, key, t)
      PROVE  Points!Abstract!Spend(j) \/ Points!Abstract!GiveBack(j)
  BY <1>1, <1>8, SpendMaps, GiveBackMaps
<1>9. ASSUME Points!Tick \/ UNCHANGED Points!vars
      PROVE  UNCHANGED Points!Abstract!vars
  <2>1. account' = account /\ lots' = lots /\ reservation' = reservation
    BY <1>9 DEF Points!Tick, Points!vars
  <2> QED
    BY <1>1, <2>1, LedgerVars, JobVars, JobsSame DEF Points!Abstract!vars
<1> QED
  BY <1>3, <1>4, <1>5, <1>6, <1>7, <1>8, <1>9, PointsCases DEF Points!Abstract!Next

\* Lots, allocations and wallet rows implement the ledger that knows no lots: a point
\* is free, held, spent or gone, and only the promised steps move it.
THEOREM ImplementsLedgerTheorem ==
  ASSUME Points!PointsAssumption
  PROVE  Points!Spec => ImplementsLedger
<1>1. Points!Init => PointsInv /\ Points!Abstract!Init
  <2> SUFFICES ASSUME Points!Init PROVE PointsInv /\ Points!Abstract!Init
    OBVIOUS
  <2>1. PointsInv /\ MaxLots \in Nat /\ lots \in LotLists
    BY PointsInit, PointsConstants DEF PointsInv, PointsShape
  <2>2. \A a \in Accounts : account[a].available = 0
    BY DEF Points!Init
  <2>3. \A a \in Accounts : Points!Lost(a) = 0
    BY <2>1, PointsInit, LostSum DEF Points!Lost, Points!LotsOf
  <2>4. \A j \in Jobs : /\ reservation[j].account = NoAccount
                        /\ reservation[j].reserved = 0 /\ reservation[j].captured = 0
    BY DEF Points!Init
  <2> QED
    BY <2>1, <2>2, <2>3, <2>4 DEF Points!Abstract!Init
<1>2. PointsInv /\ [Points!Next]_(Points!vars) => PointsInv'
  BY PointsNext
<1>3. PointsInv /\ [Points!Next]_(Points!vars) => [Points!Abstract!Next]_(Points!Abstract!vars)
  BY StepMaps
<1>4. Points!Spec => Points!Abstract!Spec
  BY <1>1, <1>2, <1>3, PTL DEF Points!Spec, Points!Abstract!Spec
<1> QED
  BY <1>4 DEF ImplementsLedger, Points!ImplementsLedger

-----------------------------------------------------------------------------
(* Time: lots age, and the wallet rows follow.                              *)

\* A command acts at a time t that it read before it got the lock of the account.

\* From L to M only lots of R, not expired by time t, have gained available points, no lot
\* expired by then has gained reserved ones, and the lots D, expired by then, have lost what
\* they had available.
Aged(L, M, D, R, t) ==
    /\ DOMAIN L \subseteq DOMAIN M
    /\ \A l \in DOMAIN L :
          /\ M[l].expiresAt = L[l].expiresAt /\ M[l].account = L[l].account
          /\ \/ M[l].available <= L[l].available
             \/ l \in R /\ L[l].expiresAt > t
          /\ L[l].expiresAt <= t => M[l].reserved <= L[l].reserved
    /\ \A l \in D : /\ l \in DOMAIN L /\ L[l].expiresAt <= t /\ L[l].available > 0
                    /\ M[l].available = 0

\* A lot whose expiry is in the wallet ledger has expired, and has something to expire only
\* when a late command gave it back.
Lapsing ==
    \A l : <<"expire", l>> \in recorded =>
       /\ l \in DOMAIN lots /\ lots[l].expiresAt <= now
       /\ lots[l].available = 0 \/ l \in refilled

\* No row of the account is missing.
Complete(a) == a \notin remerged /\ \A l \in Points!LotsOf(a) : l \notin refilled

Explained(a) ==
    /\ ledger[a].frozen = account[a].frozen
    /\ Complete(a) => ledger[a].available = account[a].available

LedgerInv == /\ ledger \in Books /\ Lapsing
             /\ \A a \in Accounts : Explained(a)

LEMMA LotNumbers ==
  ASSUME NEW L \in LotLists, NEW l \in DOMAIN L
  PROVE  L[l].available \in Nat /\ L[l].reserved \in Nat /\ L[l].expiresAt \in Nat
<1>1. L[l] \in LotRecord
  BY LotsOfList
<1> QED
  BY <1>1 DEF LotRecord

LEMMA AgedTwice ==
  ASSUME NEW K \in LotLists, NEW L \in LotLists, NEW M \in LotLists, NEW D, NEW t \in Nat,
         Aged(K, L, D, {}, t), Aged(L, M, {}, {}, t)
  PROVE  Aged(K, M, D, {}, t)
<1>1. DOMAIN K \subseteq DOMAIN L /\ DOMAIN L \subseteq DOMAIN M
  BY DEF Aged
<1>2. ASSUME NEW l \in DOMAIN K
      PROVE  /\ M[l].expiresAt = K[l].expiresAt /\ M[l].account = K[l].account
             /\ M[l].available <= K[l].available
             /\ K[l].expiresAt <= t => M[l].reserved <= K[l].reserved
  <2>1. l \in DOMAIN L /\ l \in DOMAIN M
    BY <1>1
  <2>2. /\ K[l].available \in Nat /\ K[l].reserved \in Nat
        /\ L[l].available \in Nat /\ L[l].reserved \in Nat
        /\ M[l].available \in Nat /\ M[l].reserved \in Nat
    BY <2>1, LotNumbers
  <2>3. /\ L[l].expiresAt = K[l].expiresAt /\ M[l].expiresAt = L[l].expiresAt
        /\ L[l].account = K[l].account /\ M[l].account = L[l].account
        /\ L[l].available <= K[l].available /\ M[l].available <= L[l].available
        /\ K[l].expiresAt <= t => L[l].reserved <= K[l].reserved
        /\ L[l].expiresAt <= t => M[l].reserved <= L[l].reserved
    BY <2>1 DEF Aged
  <2> QED
    BY <2>2, <2>3
<1>3. ASSUME NEW l \in D
      PROVE  l \in DOMAIN K /\ K[l].expiresAt <= t /\ K[l].available > 0 /\ M[l].available = 0
  <2>1. l \in DOMAIN K /\ K[l].expiresAt <= t /\ K[l].available > 0 /\ L[l].available = 0
    BY DEF Aged
  <2>2. l \in DOMAIN L /\ l \in DOMAIN M
    BY <1>1, <2>1
  <2>3. M[l].available \in Nat
    BY <2>2, LotNumbers
  <2>4. M[l].available <= L[l].available
    BY <2>2 DEF Aged
  <2> QED
    BY <2>1, <2>3, <2>4
<1> QED
  BY <1>1, <1>2, <1>3 DEF Aged

\* Expiring lots that are due.
LEMMA LapsedAge ==
  ASSUME MaxLots \in Nat, lots \in LotLists, NEW t \in Nat, NEW D,
         \A l \in D : l \in DOMAIN lots /\ lots[l].expiresAt <= t /\ lots[l].available > 0
  PROVE  Aged(lots, Points!Lapsed(D), D, {}, t)
<1> DEFINE M == Points!Lapsed(D)
<1>1. D \in SUBSET DOMAIN lots
  OBVIOUS
<1>2. /\ M \in LotLists /\ DOMAIN M = DOMAIN lots
      /\ \A l \in DOMAIN lots :
           /\ SameLot(lots[l], M[l])
           /\ l \in D => Leaves(lots[l], M[l], 0, lots[l].reserved, lots[l].available)
           /\ l \notin D => M[l] = lots[l]
  BY <1>1, LapsedLots
<1> HIDE DEF M
<1>3. ASSUME NEW l \in DOMAIN lots
      PROVE  /\ M[l].expiresAt = lots[l].expiresAt /\ M[l].account = lots[l].account
             /\ M[l].available <= lots[l].available /\ M[l].reserved <= lots[l].reserved
             /\ l \in D => M[l].available = 0
  <2>1. lots[l].available \in Nat /\ lots[l].reserved \in Nat
    BY LotNumbers
  <2>2. CASE l \in D
    BY <1>2, <2>1, <2>2 DEF Leaves
  <2>3. CASE l \notin D
    BY <1>2, <2>1, <2>3
  <2> QED
    BY <2>2, <2>3
<1> QED
  BY <1>1, <1>2, <1>3 DEF Aged, M

LEMMA DueAge ==
  ASSUME MaxLots \in Nat, lots \in LotLists, NEW a, NEW t \in Nat
  PROVE  Aged(lots, Points!Lapsed(Points!Due(a, t)), Points!Due(a, t), {}, t)
<1>1. \A l \in Points!Due(a, t) : l \in DOMAIN lots /\ lots[l].expiresAt <= t /\ lots[l].available > 0
  BY DEF Points!Due, Points!LotsOf
<1> QED
  BY <1>1, LapsedAge

LEMMA AppendAge ==
  ASSUME NEW L \in LotLists, NEW r, NEW t
  PROVE  Aged(L, Append(L, r), {}, {}, t)
<1>1. L \in Seq(LotRecord) /\ DOMAIN L = 1 .. Len(L) /\ Len(L) \in Nat
  BY LotsOfList
<1>2. DOMAIN L \subseteq DOMAIN Append(L, r) /\ \A l \in DOMAIN L : Append(L, r)[l] = L[l]
  BY <1>1
<1>3. \A l \in DOMAIN L : L[l].available \in Nat /\ L[l].reserved \in Nat
  BY LotNumbers
<1> QED
  BY <1>2, <1>3 DEF Aged

LEMMA RecordedAge ==
  ASSUME PointsShape, lots' \in LotLists, now' \in Nat, now <= now', Lapsing, NEW D, NEW R,
         NEW t \in Nat, t <= now, Aged(lots, lots', D, R, t), refilled \subseteq refilled',
         \A l \in R : l \in DOMAIN lots /\ lots[l].expiresAt <= now => l \in refilled',
         \A l : <<"expire", l>> \in recorded' => <<"expire", l>> \in recorded \/ l \in D
  PROVE  Lapsing'
<1> SUFFICES ASSUME NEW l, <<"expire", l>> \in recorded'
             PROVE  /\ l \in DOMAIN lots' /\ lots'[l].expiresAt <= now'
                    /\ lots'[l].available = 0 \/ l \in refilled'
  BY DEF Lapsing
<1>0. lots \in LotLists /\ now \in Nat
  BY DEF PointsShape
<1>1. l \in DOMAIN lots /\ lots[l].expiresAt <= now
  <2>1. CASE l \in D
    <3>1. l \in DOMAIN lots /\ lots[l].expiresAt <= t
      BY <2>1 DEF Aged
    <3>2. lots[l].expiresAt \in Nat
      BY <1>0, <3>1, LotNumbers
    <3> QED
      BY <1>0, <3>1, <3>2
  <2>2. CASE <<"expire", l>> \in recorded
    BY <2>2 DEF Lapsing
  <2> QED
    BY <2>1, <2>2
<1>2. /\ l \in DOMAIN lots' /\ lots'[l].expiresAt = lots[l].expiresAt
      /\ lots'[l].available <= lots[l].available \/ l \in R
  BY <1>1 DEF Aged
<1>3. /\ lots'[l].available \in Nat /\ lots[l].available \in Nat /\ lots[l].expiresAt \in Nat
  BY <1>0, <1>1, <1>2, LotNumbers
<1>4. lots'[l].available = 0 \/ l \in refilled'
  <2>1. CASE l \in D
    BY <2>1 DEF Aged
  <2>2. CASE l \in R
    BY <1>1, <2>2
  <2>3. CASE l \notin R /\ <<"expire", l>> \in recorded
    <3>1. lots[l].available = 0 \/ l \in refilled
      BY <2>3 DEF Lapsing
    <3> QED
      BY <1>2, <1>3, <2>3, <3>1
  <2> QED
    BY <2>1, <2>2, <2>3
<1> QED
  BY <1>0, <1>1, <1>2, <1>3, <1>4

LEMMA RecordedKeys ==
  ASSUME NEW D, recorded' = recorded \cup Points!ExpiryKeys(D)
  PROVE  \A l : <<"expire", l>> \in recorded' => <<"expire", l>> \in recorded \/ l \in D
BY DEF Points!ExpiryKeys

\* The rows of an account that are missing stay missing.
LEMMA CompleteBefore ==
  ASSUME NEW D, NEW R, NEW t, Aged(lots, lots', D, R, t),
         refilled \subseteq refilled', remerged \subseteq remerged', NEW a, Complete(a)'
  PROVE  Complete(a)
<1>1. ASSUME NEW l \in Points!LotsOf(a) PROVE l \notin refilled
  <2>1. l \in DOMAIN lots' /\ lots'[l].account = a
    BY DEF Aged, Points!LotsOf
  <2> QED
    BY <2>1 DEF Complete, Points!LotsOf
<1> QED
  BY <1>1 DEF Complete

\* All expiries of an account with complete rows get their row.
LEMMA UnrecordedDue ==
  ASSUME Lapsing, NEW a, Complete(a), NEW D,
         \A l \in D : l \in Points!LotsOf(a) /\ lots[l].available > 0
  PROVE  Points!Unrecorded(D) = D
<1>1. ASSUME NEW l \in D PROVE <<"expire", l>> \notin recorded
  BY DEF Lapsing, Complete
<1> QED
  BY <1>1 DEF Points!Unrecorded

LEMMA ExpiredPoints ==
  ASSUME Points!PointsAssumption, PointsShape, NEW a, NEW D \in SUBSET Points!LotsOf(a)
  PROVE  Points!Available(lots, D) \in Int
<1>1. MaxLots \in Nat /\ lots \in LotLists
  BY PointsConstants DEF PointsShape
<1>2. FreePoints(lots, a) \in Nat
  BY <1>1, PointsType
<1>3. Points!Available(lots, D) \in 0 .. FreePoints(lots, a)
  BY <1>1, LapsedGains
<1> QED
  BY <1>2, <1>3

\* The balance and the ledger change by the same where no row is missing.
LEMMA BookedAlike ==
  ASSUME Points!PointsAssumption, PointsShape, LedgerInv,
         NEW a \in Accounts, NEW x \in Int, NEW y \in Int, NEW D \in SUBSET Points!LotsOf(a),
         \A l \in D : lots[l].available > 0, Points!Book(a, D, x, y),
         NEW K, NEW R, NEW t, Aged(lots, lots', K, R, t), refilled' = refilled, remerged' = remerged
  PROVE  ledger' \in Books /\ \A b \in Accounts : Explained(b)'
<1> DEFINE U == Points!Unrecorded(D)
           v == x - Points!Available(lots, D)
           w == x - Points!Available(lots, U)
<1>1. v \in Int /\ w \in Int
  <2>1. U \in SUBSET Points!LotsOf(a)
    BY DEF Points!Unrecorded
  <2>2. Points!Available(lots, D) \in Int /\ Points!Available(lots, U) \in Int
    BY <2>1, ExpiredPoints
  <2> QED
    BY <2>2
<1>2. account' = Points!Balance(account, a, v, y) /\ ledger' = Points!Balance(ledger, a, w, y)
  BY DEF Points!Book
<1>3. Complete(a) => w = v
  BY UnrecordedDue DEF LedgerInv
<1> HIDE DEF U, v, w
<1>4. account \in Books /\ ledger \in Books
  BY DEF PointsShape, LedgerInv
<1>5. /\ ledger' \in Books
      /\ \A b \in Accounts :
           /\ account'[b].available = account[b].available + IF b = a THEN v ELSE 0
           /\ account'[b].frozen = account[b].frozen + IF b = a THEN y ELSE 0
           /\ ledger'[b].available = ledger[b].available + IF b = a THEN w ELSE 0
           /\ ledger'[b].frozen = ledger[b].frozen + IF b = a THEN y ELSE 0
  BY <1>1, <1>2, <1>4, BalanceBooks
<1>6. ASSUME NEW b \in Accounts
      PROVE  /\ ledger'[b].frozen = account'[b].frozen
             /\ Complete(b)' => ledger'[b].available = account'[b].available
  <2>1. ledger[b].frozen = account[b].frozen
    BY DEF LedgerInv, Explained
  <2>2. ledger'[b].frozen = account'[b].frozen
    BY <1>5, <2>1
  <2>3. ASSUME Complete(b)' PROVE ledger'[b].available = account'[b].available
    <3>1. Complete(b)
      BY <2>3, CompleteBefore
    <3>2. ledger[b].available = account[b].available
      BY <3>1 DEF LedgerInv, Explained
    <3> QED
      BY <1>3, <1>5, <3>1, <3>2
  <2> QED
    BY <2>2, <2>3
<1> QED
  BY <1>5, <1>6 DEF Explained

\* A command that expires what is due and moves points of one account.
LEMMA CommandAge ==
  ASSUME Points!PointsAssumption, PointsInv, PointsInv', LedgerInv,
         NEW a \in Accounts, NEW x \in Int, NEW y \in Int, NEW t \in Nat, t <= now,
         NEW D \in SUBSET Points!LotsOf(a), \A l \in D : lots[l].available > 0,
         Points!Book(a, D, x, y), Aged(lots, lots', D, {}, t),
         recorded' = recorded \cup Points!ExpiryKeys(D),
         refilled' = refilled, remerged' = remerged, now' = now
  PROVE  LedgerInv'
<1>1. PointsShape /\ lots' \in LotLists /\ now \in Nat
  BY DEF PointsInv, PointsShape
<1>2. ledger' \in Books /\ \A b \in Accounts : Explained(b)'
  BY <1>1, BookedAlike
<1>3. Lapsing'
  BY <1>1, RecordedAge, RecordedKeys DEF LedgerInv
<1> QED
  BY <1>2, <1>3 DEF LedgerInv

\* A command with a key of its own that expires nothing.
LEMMA RecordedAlike ==
  ASSUME Points!PointsAssumption, PointsShape, LedgerInv,
         NEW a \in Accounts, NEW x \in Int, NEW y \in Int, NEW key, key \notin recorded,
         Points!Recorded(a, key, x, y),
         NEW K, NEW R, NEW t, Aged(lots, lots', K, R, t),
         refilled \subseteq refilled', remerged \subseteq remerged'
  PROVE  ledger' \in Books /\ \A b \in Accounts : Explained(b)'
<1>1. account' = Points!Balance(account, a, x, y) /\ ledger' = Points!Balance(ledger, a, x, y)
  BY DEF Points!Recorded
<1>2. account \in Books /\ ledger \in Books
  BY DEF PointsShape, LedgerInv
<1>3. /\ ledger' \in Books
      /\ \A b \in Accounts :
           /\ account'[b].available = account[b].available + IF b = a THEN x ELSE 0
           /\ account'[b].frozen = account[b].frozen + IF b = a THEN y ELSE 0
           /\ ledger'[b].available = ledger[b].available + IF b = a THEN x ELSE 0
           /\ ledger'[b].frozen = ledger[b].frozen + IF b = a THEN y ELSE 0
  BY <1>1, <1>2, BalanceBooks
<1>4. ASSUME NEW b \in Accounts
      PROVE  /\ ledger'[b].frozen = account'[b].frozen
             /\ Complete(b)' => ledger'[b].available = account'[b].available
  <2>1. ledger[b].frozen = account[b].frozen
    BY DEF LedgerInv, Explained
  <2>2. Complete(b)' => ledger[b].available = account[b].available
    BY CompleteBefore DEF LedgerInv, Explained
  <2> QED
    BY <1>3, <2>1, <2>2
<1> QED
  BY <1>3, <1>4 DEF Explained

-----------------------------------------------------------------------------
(* Every command ages the lots.                                             *)

\* Every command ages the lots and keeps the balances explained.
LEMMA CorrectUpAge ==
  ASSUME Points!PointsAssumption, PointsInv, PointsInv', LedgerInv,
         NEW a \in Accounts, NEW n \in Amounts, NEW t \in Nat, t <= now, Points!CorrectUp(a, n, t)
  PROVE  LedgerInv' /\ Aged(lots, lots', Points!Due(a, t), {}, t)
<1> DEFINE D == Points!Due(a, t)
           L == Points!Lapsed(D)
           r == Points!Lot(a, n, t, Points!Never)
<1>1. /\ MaxLots \in Nat /\ lots \in LotLists /\ lots' \in LotLists /\ now' = now
      /\ PointsShape /\ now \in Nat
  <2>1. lots' \in LotLists
    BY DEF PointsInv, PointsShape
  <2>2. now' = now
    BY Zenon DEF Points!CorrectUp
  <2> QED
    BY <2>1, <2>2, PointsFacts
<1>2. /\ lots' = Append(L, r) /\ Points!Book(a, D, n, 0)
      /\ recorded' = recorded \cup Points!ExpiryKeys(D)
  BY DEF Points!CorrectUp
<1>3. Aged(lots, L, D, {}, t) /\ L \in LotLists
  BY <1>1, DueAge, DueLots, LapsedLots
<1>4. /\ D \in SUBSET Points!LotsOf(a) /\ \A l \in D : lots[l].available > 0
      /\ refilled' = refilled /\ remerged' = remerged
  BY DEF Points!Due, Points!CorrectUp, Points!histories
<1> HIDE DEF D, L, r
<1>5. Aged(L, lots', {}, {}, t)
  BY <1>2, <1>3, AppendAge
<1>6. Aged(lots, lots', D, {}, t)
  BY <1>1, <1>3, <1>5, AgedTwice
<1>7. LedgerInv'
  <2>1. n \in Int /\ 0 \in Int
    BY PointsFacts
  <2> QED
    BY <1>1, <1>2, <1>4, <1>6, <2>1, CommandAge
<1> QED
  BY <1>6, <1>7 DEF D

LEMMA CorrectDownAge ==
  ASSUME Points!PointsAssumption, PointsInv, PointsInv', LedgerInv,
         NEW a \in Accounts, NEW n \in Amounts, NEW t \in Nat, t <= now, Points!CorrectDown(a, n, t)
  PROVE  LedgerInv' /\ Aged(lots, lots', Points!Due(a, t), {}, t)
<1> DEFINE D == Points!Due(a, t)
           L == Points!Lapsed(D)
<1>1. /\ MaxLots \in Nat /\ lots \in LotLists /\ lots' \in LotLists /\ now' = now
      /\ PointsShape /\ now \in Nat /\ n \in Nat
  <2>1. lots' \in LotLists
    BY DEF PointsInv, PointsShape
  <2>2. now' = now
    BY ZenonT(60) DEF Points!CorrectDown
  <2> QED
    BY <2>1, <2>2, PointsFacts
<1>2. PICK s \in Points!Takes(L, a, n) :
        lots' = [l \in DOMAIN lots |->
                   [L[l] EXCEPT !.available = @ - s[l], !.reversed = @ + s[l]]]
  BY DEF Points!CorrectDown
<1>3. Points!Book(a, D, -n, 0) /\ recorded' = recorded \cup Points!ExpiryKeys(D)
  BY DEF Points!CorrectDown
<1>4. Aged(lots, L, D, {}, t) /\ L \in LotLists /\ DOMAIN L = DOMAIN lots
  BY <1>1, DueAge, DueLots, LapsedLots
<1>5. /\ D \in SUBSET Points!LotsOf(a) /\ \A l \in D : lots[l].available > 0
      /\ refilled' = refilled /\ remerged' = remerged
  BY DEF Points!Due, Points!CorrectDown, Points!histories
<1> HIDE DEF D, L
<1>6. lots' = Debited(L, s) /\ Takeable(L, s, a, n)
  BY <1>1, <1>2, <1>4, TakesTakeable DEF Debited
<1>7. /\ DOMAIN lots' = DOMAIN L
      /\ \A l \in DOMAIN L : Leaves(L[l], lots'[l], L[l].available - s[l], L[l].reserved, s[l])
  BY <1>1, <1>4, <1>6, DebitedGains
<1>8. Aged(L, lots', {}, {}, t)
  <2> SUFFICES ASSUME NEW l \in DOMAIN L
               PROVE  /\ lots'[l].expiresAt = L[l].expiresAt /\ lots'[l].account = L[l].account
                      /\ lots'[l].available <= L[l].available /\ lots'[l].reserved <= L[l].reserved
    BY <1>7 DEF Aged
  <2>1. s[l] \in Nat /\ L[l].available \in Nat /\ L[l].reserved \in Nat
    BY <1>4, <1>6, LotNumbers DEF Takeable
  <2>2. /\ lots'[l].expiresAt = L[l].expiresAt /\ lots'[l].account = L[l].account
        /\ lots'[l].available = L[l].available - s[l]
        /\ lots'[l].reserved = L[l].reserved
    BY <1>7 DEF Leaves
  <2> QED
    BY <2>1, <2>2
<1>9. Aged(lots, lots', D, {}, t)
  BY <1>1, <1>4, <1>8, AgedTwice
<1>10. LedgerInv'
  <2>1. -n \in Int /\ 0 \in Int
    BY <1>1
  <2> QED
    BY <1>1, <1>3, <1>5, <1>9, <2>1, CommandAge
<1> QED
  BY <1>9, <1>10 DEF D

LEMMA ReserveAge ==
  ASSUME Points!PointsAssumption, PointsInv, PointsInv', LedgerInv, NEW j \in Jobs,
         NEW a \in Accounts, NEW n \in Reservations, NEW t \in Nat, t <= now, Points!Reserve(j, a, n, t)
  PROVE  LedgerInv' /\ Aged(lots, lots', Points!Due(a, t), {}, t)
<1> DEFINE D == Points!Due(a, t)
           L == Points!Lapsed(D)
<1>1. /\ MaxLots \in Nat /\ lots \in LotLists /\ lots' \in LotLists /\ now' = now
      /\ PointsShape /\ now \in Nat /\ n \in Nat
  <2>1. lots' \in LotLists
    BY DEF PointsInv, PointsShape
  <2>2. now' = now
    BY ZenonT(60) DEF Points!Reserve
  <2> QED
    BY <2>1, <2>2, PointsFacts
<1>2. PICK s \in Points!Takes(L, a, n) :
        lots' = [l \in DOMAIN lots |->
                   [L[l] EXCEPT !.available = @ - s[l], !.reserved = @ + s[l]]]
  BY DEF Points!Reserve
<1>3. Points!Book(a, D, -n, n) /\ recorded' = recorded \cup Points!ExpiryKeys(D)
  BY DEF Points!Reserve
<1>4. /\ Aged(lots, L, D, {}, t) /\ L \in LotLists /\ DOMAIN L = DOMAIN lots
      /\ \A l \in DOMAIN lots : SameLot(lots[l], L[l]) /\ (l \notin D => L[l] = lots[l])
  BY <1>1, DueAge, DueLots, LapsedLots
<1>5. /\ D \in SUBSET Points!LotsOf(a) /\ \A l \in D : lots[l].available > 0
      /\ refilled' = refilled /\ remerged' = remerged
  BY DEF Points!Due, Points!Reserve, Points!histories
<1>6. \A l \in DOMAIN lots : lots[l].account = a /\ lots[l].expiresAt <= t /\ lots[l].available > 0
                                => l \in D
  BY DEF Points!Due, Points!LotsOf
<1> HIDE DEF D, L
<1>7. lots' = SetAside(L, s) /\ Takeable(L, s, a, n)
  BY <1>1, <1>2, <1>4, TakesTakeable DEF SetAside
<1>8. /\ DOMAIN lots' = DOMAIN L
      /\ \A l \in DOMAIN L : Leaves(L[l], lots'[l], L[l].available - s[l], L[l].reserved + s[l], 0)
  BY <1>1, <1>4, <1>7, SetAsideGains
<1>9. Aged(L, lots', {}, {}, t)
  <2> SUFFICES ASSUME NEW l \in DOMAIN L
               PROVE  /\ lots'[l].expiresAt = L[l].expiresAt /\ lots'[l].account = L[l].account
                      /\ lots'[l].available <= L[l].available
                      /\ L[l].expiresAt <= t => lots'[l].reserved <= L[l].reserved
    BY <1>8 DEF Aged
  <2>1. s[l] \in Nat /\ L[l].available \in Nat /\ L[l].reserved \in Nat /\ s[l] <= L[l].available
    BY <1>4, <1>7, LotNumbers DEF Takeable
  <2>2. /\ lots'[l].expiresAt = L[l].expiresAt /\ lots'[l].account = L[l].account
        /\ lots'[l].available = L[l].available - s[l]
        /\ lots'[l].reserved = L[l].reserved + s[l]
    BY <1>8 DEF Leaves
  <2>3. ASSUME L[l].expiresAt <= t, s[l] > 0 PROVE FALSE
    <3>1. L[l].account = a /\ lots[l].account = a /\ lots[l].expiresAt <= t
      BY <1>4, <1>7, <2>3 DEF Takeable, Within, SameLot
    <3>2. CASE l \in D
      BY <2>1, <2>3, <1>4, <3>2 DEF Aged
    <3>3. CASE l \notin D
      <4>1. lots[l].available > 0
        BY <1>4, <2>1, <2>3, <3>3
      <4> QED
        BY <1>4, <1>6, <3>1, <3>3, <4>1
    <3> QED
      BY <3>2, <3>3
  <2> QED
    BY <2>1, <2>2, <2>3
<1>10. Aged(lots, lots', D, {}, t)
  BY <1>1, <1>4, <1>9, AgedTwice
<1>11. LedgerInv'
  <2>1. n \in Int /\ -n \in Int
    BY <1>1
  <2> QED
    BY <1>1, <1>3, <1>5, <1>10, <2>1, CommandAge
<1> QED
  BY <1>10, <1>11 DEF D

LEMMA ExpireAge ==
  ASSUME Points!PointsAssumption, PointsInv, PointsInv', LedgerInv,
         NEW a \in Accounts, NEW t \in Nat, t <= now, Points!Expire(a, t)
  PROVE  LedgerInv' /\ Aged(lots, lots', Points!Due(a, t), {}, t)
<1> DEFINE D == Points!Due(a, t)
<1>1. /\ MaxLots \in Nat /\ lots \in LotLists /\ lots' \in LotLists /\ now' = now
      /\ PointsShape /\ now \in Nat
  <2>1. lots' \in LotLists
    BY DEF PointsInv, PointsShape
  <2>2. now' = now
    BY Zenon DEF Points!Expire
  <2> QED
    BY <2>1, <2>2, PointsFacts
<1>2. /\ lots' = Points!Lapsed(D) /\ Points!Book(a, D, 0, 0)
      /\ recorded' = recorded \cup Points!ExpiryKeys(D)
  BY DEF Points!Expire
<1>3. /\ Aged(lots, lots', D, {}, t) /\ D \in SUBSET Points!LotsOf(a)
      /\ \A l \in D : lots[l].available > 0
      /\ refilled' = refilled /\ remerged' = remerged
  BY <1>1, <1>2, DueAge DEF Points!Due, Points!Expire, Points!histories
<1> HIDE DEF D
<1>4. LedgerInv'
  <2>1. 0 \in Int
    OBVIOUS
  <2> QED
    BY <1>1, <1>2, <1>3, <2>1, CommandAge
<1> QED
  BY <1>3, <1>4 DEF D

LEMMA GrantAge ==
  ASSUME Points!PointsAssumption, PointsInv, PointsInv', LedgerInv, NEW a \in Accounts,
         NEW n \in Amounts, NEW e, NEW t \in Nat, t <= now, Points!Grant(a, n, e, t)
  PROVE  LedgerInv' /\ Aged(lots, lots', {}, {}, t)
<1>1. /\ lots \in LotLists /\ now' = now /\ recorded' = recorded /\ n \in Int
      /\ refilled' = refilled /\ remerged' = remerged
      /\ Points!Book(a, {}, n, 0) /\ lots' = Append(lots, Points!Lot(a, n, t, e))
  BY PointsFacts DEF Points!Grant, Points!histories
<1>2. Aged(lots, lots', {}, {}, t)
  BY <1>1, AppendAge
<1>3. recorded' = recorded \cup Points!ExpiryKeys({})
  BY <1>1 DEF Points!ExpiryKeys
<1>4. LedgerInv'
  <2>1. 0 \in Int /\ {} \in SUBSET Points!LotsOf(a) /\ \A l \in {} : lots[l].available > 0
    OBVIOUS
  <2> QED
    BY <1>1, <1>2, <1>3, <2>1, CommandAge
<1> QED
  BY <1>2, <1>4

LEMMA CaptureAge ==
  ASSUME Points!PointsAssumption, PointsInv, PointsInv', LedgerInv, NEW j \in Jobs,
         NEW n \in 1 .. reservation[j].reserved, NEW key, Points!Capture(j, n, key)
  PROVE  LedgerInv' /\ Aged(lots, lots', {}, {}, now)
<1> DEFINE a == reservation[j].account
<1>1. /\ MaxLots \in Nat /\ lots \in LotLists /\ lots' \in LotLists /\ now' = now
      /\ PointsShape /\ now \in Nat /\ a \in Accounts /\ n \in Nat
  BY HolderKnown, ZenonT(60) DEF PointsInv, PointsShape, Points!Capture
<1>2. PICK s \in Points!Splits(j, n) :
        lots' = [l \in DOMAIN lots |->
                   [lots[l] EXCEPT !.reserved = @ - s[l], !.consumed = @ + s[l]]]
  BY DEF Points!Capture
<1>3. /\ Points!Recorded(a, <<"capture", j, key>>, 0, -n) /\ <<"capture", j, key>> \notin recorded
      /\ refilled' = refilled /\ remerged' = remerged
      /\ \A l : <<"expire", l>> \in recorded' => <<"expire", l>> \in recorded
  BY DEF Points!Capture, Points!Fresh, Points!Recorded, Points!histories
<1>4. lots' = Consumed(lots, s) /\ Payable(lots, s, a, n)
  BY <1>1, <1>2, SplitPayable DEF Consumed, PointsInv
<1> HIDE DEF a
<1>5. /\ DOMAIN lots' = DOMAIN lots
      /\ \A l \in DOMAIN lots : Leaves(lots[l], lots'[l], lots[l].available, lots[l].reserved - s[l], 0)
  BY <1>1, <1>4, ConsumedGains
<1>6. Aged(lots, lots', {}, {}, now)
  <2> SUFFICES ASSUME NEW l \in DOMAIN lots
               PROVE  /\ lots'[l].expiresAt = lots[l].expiresAt /\ lots'[l].account = lots[l].account
                      /\ lots'[l].available <= lots[l].available /\ lots'[l].reserved <= lots[l].reserved
    BY <1>5 DEF Aged
  <2>1. s[l] \in Nat /\ lots[l].available \in Nat /\ lots[l].reserved \in Nat
    BY <1>1, <1>4, LotNumbers DEF Payable
  <2>2. /\ lots'[l].expiresAt = lots[l].expiresAt /\ lots'[l].account = lots[l].account
        /\ lots'[l].available = lots[l].available
        /\ lots'[l].reserved = lots[l].reserved - s[l]
    BY <1>5 DEF Leaves
  <2> QED
    BY <2>1, <2>2
<1>7. Lapsing'
  BY <1>1, <1>3, <1>6, RecordedAge DEF LedgerInv
<1>8. ledger' \in Books /\ \A b \in Accounts : Explained(b)'
  <2>1. 0 \in Int /\ -n \in Int
    BY <1>1
  <2> QED
    BY <1>1, <1>3, <1>6, <2>1, RecordedAlike
<1> QED
  BY <1>6, <1>7, <1>8 DEF LedgerInv

\* The lots a release gives points back to, which had not expired when it read the time.
Regaining(s, t) == {l \in DOMAIN lots \ LapsedBack(s, t) : s[l] > 0}

LEMMA ReleaseAge ==
  ASSUME Points!PointsAssumption, PointsInv, PointsInv', LedgerInv, NEW j \in Jobs,
         NEW n \in 1 .. reservation[j].reserved, NEW key, NEW t \in Nat, t <= now,
         Points!Release(j, n, key, t)
  PROVE  LedgerInv' /\ \E R : Aged(lots, lots', {}, R, t)
<1> DEFINE a == reservation[j].account
<1>1. /\ MaxLots \in Nat /\ lots \in LotLists /\ lots' \in LotLists /\ now' = now
      /\ PointsShape /\ now \in Nat /\ a \in Accounts /\ n \in Nat
  BY HolderKnown DEF PointsInv, PointsShape, Points!Release
<1>2. PICK s \in Points!Splits(j, n) :
        /\ lots' = GivenBack(s, t)
        /\ Points!Recorded(a, <<"release", j, key>>, n - LostBack(s, t), -n)
        /\ refilled' = refilled \cup {l \in DOMAIN lots \ LapsedBack(s, t) :
                                        s[l] > 0 /\ lots[l].expiresAt <= now}
  BY DEF Points!Release, GivenBack, LapsedBack, LostBack
<1>3. /\ <<"release", j, key>> \notin recorded /\ remerged' = remerged
      /\ \A l : <<"expire", l>> \in recorded' => <<"expire", l>> \in recorded
  BY DEF Points!Release, Points!Fresh, Points!Recorded
<1>4. Payable(lots, s, a, n)
  BY <1>1, SplitPayable DEF PointsInv
<1> HIDE DEF a
<1>5. /\ DOMAIN lots' = DOMAIN lots
      /\ \A l \in DOMAIN lots : /\ lots'[l].account = lots[l].account
                                /\ lots'[l].expiresAt = lots[l].expiresAt
                                /\ lots'[l].reserved = lots[l].reserved - s[l]
                                /\ l \in LapsedBack(s, t) => lots'[l].available = 0
                                /\ s[l] = 0 => lots'[l].available = lots[l].available
      /\ LostBack(s, t) \in 0 .. FreePoints(lots, a) + n
  BY <1>1, <1>2, <1>4, ReturnedGains
<1> DEFINE R == Regaining(s, t)
<1>6. \A l \in R : l \in DOMAIN lots /\ lots[l].expiresAt <= now => l \in refilled'
  BY <1>2 DEF Regaining
<1>7. Aged(lots, lots', {}, R, t)
  <2> SUFFICES ASSUME NEW l \in DOMAIN lots
               PROVE  /\ lots'[l].available <= lots[l].available \/ (l \in R /\ lots[l].expiresAt > t)
                      /\ lots'[l].reserved <= lots[l].reserved
    BY <1>5 DEF Aged
  <2>1. s[l] \in Nat /\ lots[l].available \in Nat /\ lots[l].reserved \in Nat
        /\ lots[l].expiresAt \in Nat
    BY <1>1, <1>4, LotNumbers DEF Payable
  <2>2. lots'[l].reserved <= lots[l].reserved
    BY <1>5, <2>1
  <2>3. CASE s[l] = 0 \/ l \in LapsedBack(s, t)
    BY <1>5, <2>1, <2>2, <2>3
  <2>4. CASE s[l] > 0 /\ l \notin LapsedBack(s, t)
    <3>1. lots[l].expiresAt > t
      BY <2>1, <2>4 DEF LapsedBack, Points!Lapses
    <3> QED
      BY <2>2, <2>4, <3>1 DEF Regaining
  <2> QED
    BY <2>1, <2>3, <2>4
<1>8. refilled \subseteq refilled'
  BY <1>2
<1> HIDE DEF R
<1>9. Lapsing'
  BY <1>1, <1>3, <1>6, <1>7, <1>8, RecordedAge DEF LedgerInv
<1>10. ledger' \in Books /\ \A b \in Accounts : Explained(b)'
  <2>1. FreePoints(lots, a) \in Nat
    BY <1>1, PointsType
  <2>2. n - LostBack(s, t) \in Int /\ -n \in Int
    BY <1>1, <1>5, <2>1
  <2> QED
    BY <1>1, <1>2, <1>3, <1>7, <1>8, <2>2, RecordedAlike
<1> QED
  BY <1>7, <1>9, <1>10 DEF LedgerInv

-----------------------------------------------------------------------------
(* Merges, the wallet rows and expired lots.                                *)

\* The balance and the ledger after a merge, where no row is missing.
LEMMA MergedAlike ==
  ASSUME Points!PointsAssumption, PointsShape, LedgerInv,
         NEW from \in Accounts, NEW to \in Accounts, from # to, NEW D, NEW q, NEW moving,
         NEW moved \in Int, \A l \in D : l \in DOMAIN lots /\ lots[l].available > 0,
         moving = {} => moved = 0,
         account' = [account EXCEPT
            ![from].available = @ - Points!Available(lots, D \cap Points!LotsOf(from)) - moved,
            ![to].available = @ - Points!Available(lots, D \cap Points!LotsOf(to)) + moved],
         ledger' = [ledger EXCEPT
            ![from].available =
               @ - Points!Available(lots, Points!Unrecorded(D) \cap Points!LotsOf(from))
                 - Points!Written(Points!OutKey(from, q), moved),
            ![to].available =
               @ - Points!Available(lots, Points!Unrecorded(D) \cap Points!LotsOf(to))
                 + Points!Written(Points!InKey(to, q), moved)],
         remerged' = remerged \cup {a \in {from, to} :
                        /\ moving # {}
                        /\ \/ a = from /\ Points!OutKey(from, q) \in recorded
                           \/ a = to /\ Points!InKey(to, q) \in recorded},
         refilled' = refilled, NEW K, NEW R, NEW t, Aged(lots, lots', K, R, t)
  PROVE  ledger' \in Books /\ \A b \in Accounts : Explained(b)'
<1> DEFINE lap(b) == Points!Available(lots, D \cap Points!LotsOf(b))
           row(b) == Points!Available(lots, Points!Unrecorded(D) \cap Points!LotsOf(b))
           out == Points!Written(Points!OutKey(from, q), moved)
           in == Points!Written(Points!InKey(to, q), moved)
<1>1. ASSUME NEW b PROVE lap(b) \in Int /\ row(b) \in Int
  <2>1. /\ D \cap Points!LotsOf(b) \in SUBSET Points!LotsOf(b)
        /\ Points!Unrecorded(D) \cap Points!LotsOf(b) \in SUBSET Points!LotsOf(b)
    OBVIOUS
  <2> QED
    BY <2>1, ExpiredPoints
<1>2. out \in Int /\ in \in Int
  BY DEF Points!Written
<1>3. account \in Books /\ ledger \in Books
  BY DEF PointsShape, LedgerInv
<1>4. ASSUME NEW b \in Accounts, Complete(b) PROVE row(b) = lap(b)
  <2>1. Points!Unrecorded(D \cap Points!LotsOf(b)) = D \cap Points!LotsOf(b)
    BY <1>4, UnrecordedDue DEF LedgerInv
  <2>2. Points!Unrecorded(D) \cap Points!LotsOf(b) = Points!Unrecorded(D \cap Points!LotsOf(b))
    BY DEF Points!Unrecorded
  <2> QED
    BY <2>1, <2>2
<1>5. /\ from \notin remerged' => out = moved
      /\ to \notin remerged' => in = moved
  BY DEF Points!Written
<1> DEFINE x == lap(from)
           y == lap(to)
           u == row(from)
           w == row(to)
<1>6. /\ account' = [account EXCEPT ![from].available = @ - x - moved, ![to].available = @ - y + moved]
      /\ ledger' = [ledger EXCEPT ![from].available = @ - u - out, ![to].available = @ - w + in]
  OBVIOUS
<1>7. /\ x \in Int /\ y \in Int /\ u \in Int /\ w \in Int
      /\ Complete(from) => u = x
      /\ Complete(to) => w = y
  BY <1>1, <1>4
<1> HIDE DEF x, y, u, w, lap, row, out, in
<1>8. /\ BooksMoved(account, account', from, to, x, y, moved, moved)
      /\ BooksMoved(ledger, ledger', from, to, u, w, out, in)
  <2>1. BooksMoved(account, [account EXCEPT ![from].available = @ - x - moved,
                                            ![to].available = @ - y + moved],
                   from, to, x, y, moved, moved)
    BY <1>3, <1>7, BooksMove
  <2>2. BooksMoved(ledger, [ledger EXCEPT ![from].available = @ - u - out,
                                          ![to].available = @ - w + in],
                   from, to, u, w, out, in)
    BY <1>2, <1>3, <1>7, BooksMove
  <2> QED
    BY <1>6, <2>1, <2>2, Zenon
<1>9. /\ ledger' \in Books
      /\ \A b \in Accounts :
           /\ account'[b].available = IF b = from THEN account[from].available - x - moved
                                      ELSE IF b = to THEN account[to].available - y + moved
                                      ELSE account[b].available
           /\ account'[b].frozen = account[b].frozen
           /\ ledger'[b].available = IF b = from THEN ledger[from].available - u - out
                                     ELSE IF b = to THEN ledger[to].available - w + in
                                     ELSE ledger[b].available
           /\ ledger'[b].frozen = ledger[b].frozen
  BY <1>8 DEF BooksMoved
<1>10. refilled \subseteq refilled' /\ remerged \subseteq remerged'
  OBVIOUS
<1>11. ASSUME NEW b \in Accounts
       PROVE  /\ ledger'[b].frozen = account'[b].frozen
              /\ Complete(b)' => ledger'[b].available = account'[b].available
  <2>1. ledger[b].frozen = account[b].frozen
    BY DEF LedgerInv, Explained
  <2>2. ledger'[b].frozen = account'[b].frozen
    BY <1>9, <2>1
  <2>3. ASSUME Complete(b)' PROVE ledger'[b].available = account'[b].available
    <3>1. Complete(b) /\ b \notin remerged'
      BY <1>10, <2>3, CompleteBefore DEF Complete
    <3>2. ledger[b].available = account[b].available
      BY <3>1 DEF LedgerInv, Explained
    <3>3. CASE b = from
      <4>1. u = x /\ out = moved
        BY <1>5, <1>7, <3>1, <3>3
      <4>2. /\ account'[from].available = account[from].available - x - moved
            /\ ledger'[from].available = ledger[from].available - u - out
        BY <1>9
      <4> QED
        BY <3>2, <3>3, <4>1, <4>2
    <3>4. CASE b = to /\ b # from
      <4>1. w = y /\ in = moved
        BY <1>5, <1>7, <3>1, <3>4
      <4>2. /\ account'[to].available = account[to].available - y + moved
            /\ ledger'[to].available = ledger[to].available - w + in
        BY <1>9
      <4> QED
        BY <3>2, <3>4, <4>1, <4>2
    <3>5. CASE b # to /\ b # from
      BY <1>9, <3>2, <3>5
    <3> QED
      BY <3>3, <3>4, <3>5
  <2> QED
    BY <2>2, <2>3
<1> QED
  BY <1>9, <1>11 DEF Explained

LEMMA MergeAge ==
  ASSUME Points!PointsAssumption, PointsInv, PointsInv', LedgerInv,
         NEW from \in Accounts, NEW to \in Accounts, NEW q, NEW t \in Nat, t <= now,
         Points!Merge(from, to, q, t)
  PROVE  LedgerInv' /\ Aged(lots, lots', BothDue(from, to, t), {}, t)
<1>1. /\ MaxLots \in Nat /\ lots \in LotLists /\ lots' \in LotLists /\ now' = now
      /\ PointsShape /\ now \in Nat /\ from # to
  <2>1. lots' \in LotLists
    BY DEF PointsInv, PointsShape
  <2>2. now' = now /\ from # to
    BY Zenon DEF Points!Merge, Points!Mergeable
  <2> QED
    BY <2>1, <2>2, PointsFacts
<1> DEFINE D == BothDue(from, to, t)
           L == Points!Lapsed(D)
           moving == {l \in Points!LotsOf(from) : L[l].available > 0}
           moved == Points!Available(L, moving)
<1>2. \A l \in D : l \in DOMAIN lots /\ lots[l].expiresAt <= t /\ lots[l].available > 0
  BY DEF BothDue, Points!Due, Points!LotsOf
<1>3. /\ Aged(lots, L, D, {}, t) /\ L \in LotLists /\ DOMAIN L = DOMAIN lots
      /\ \A l \in DOMAIN lots : SameLot(lots[l], L[l])
  <2>1. Aged(lots, L, D, {}, t)
    BY <1>1, <1>2, LapsedAge
  <2> QED
    BY <1>1, <2>1, MergeLapses
<1>4. PICK s \in [1 .. Points!Cardinality(moving) -> moving] :
        /\ \A i, k \in DOMAIN s : i < k => s[i] < s[k]
        /\ lots' = [l \in DOMAIN lots |->
                      IF l \in moving THEN [L[l] EXCEPT !.available = 0,
                                                        !.reversed = @ + L[l].available]
                                      ELSE L[l]]
                   \o [i \in DOMAIN s |-> Points!Lot(to, L[s[i]].available, L[s[i]].grantedAt,
                                                     L[s[i]].expiresAt)]
  BY Zenon DEF Points!Merge, BothDue
<1>5. /\ Len(lots) + Points!Cardinality(moving) <= MaxLots
      /\ recorded' = recorded \cup Points!ExpiryKeys(D)
                       \cup IF moving = {} THEN {} ELSE {Points!OutKey(from, q), Points!InKey(to, q)}
      /\ refilled' = refilled
  BY Zenon DEF Points!Merge, BothDue
<1>6. \A l : <<"expire", l>> \in recorded' => <<"expire", l>> \in recorded \/ l \in D
  <2> HIDE DEF D, moving
  <2> QED
    BY <1>5 DEF Points!ExpiryKeys, Points!OutKey, Points!InKey
<1>7. /\ account' = [account EXCEPT
            ![from].available = @ - Points!Available(lots, D \cap Points!LotsOf(from)) - moved,
            ![to].available = @ - Points!Available(lots, D \cap Points!LotsOf(to)) + moved]
      /\ ledger' = [ledger EXCEPT
            ![from].available =
               @ - Points!Available(lots, Points!Unrecorded(D) \cap Points!LotsOf(from))
                 - Points!Written(Points!OutKey(from, q), moved),
            ![to].available =
               @ - Points!Available(lots, Points!Unrecorded(D) \cap Points!LotsOf(to))
                 + Points!Written(Points!InKey(to, q), moved)]
      /\ remerged' = remerged \cup {a \in {from, to} :
                        /\ moving # {}
                        /\ \/ a = from /\ Points!OutKey(from, q) \in recorded
                           \/ a = to /\ Points!InKey(to, q) \in recorded}
  BY Zenon DEF Points!Merge, BothDue
<1>8. Len(L) = Len(lots)
  BY <1>1, MergeLapses
<1>9. moving = {l \in DOMAIN L : L[l].account = from /\ L[l].available > 0}
  <2> HIDE DEF D
  <2>1. \A l \in DOMAIN lots : L[l].account = lots[l].account
    BY <1>3 DEF SameLot
  <2> HIDE DEF L
  <2> QED
    BY <1>3, <2>1 DEF Points!LotsOf
<1> HIDE DEF D, L, moving, moved
<1>10. MergedLots(L, lots', moving, s, from, to)
  <2>1. s \in [1 .. Cardinality(moving) -> moving] /\ Len(L) + Cardinality(moving) <= MaxLots
    BY <1>4, <1>5, <1>8, PointsCardinality
  <2>2. Sorted(s)
    BY <1>4 DEF Sorted
  <2> QED
    BY <1>3, <1>4, <1>9, <2>1, <2>2, Zenon DEF MergedLots
<1>11. /\ Extends(L, lots')
       /\ \A l \in DOMAIN L : lots'[l].expiresAt = L[l].expiresAt /\ lots'[l].available <= L[l].available
      /\ moved = FreePoints(L, from)
  BY <1>1, <1>3, <1>10, MergeMoves DEF moved
<1>12. \A l \in DOMAIN L : L[l].reserved \in Nat
  BY <1>3, LotNumbers
<1>13. Aged(L, lots', {}, {}, t)
  BY <1>11, <1>12 DEF Aged, Extends
<1>14. Aged(lots, lots', D, {}, t)
  BY <1>1, <1>3, <1>13, AgedTwice
<1>15. Lapsing'
  BY <1>1, <1>5, <1>6, <1>14, RecordedAge DEF LedgerInv
<1>16. moved \in Int /\ (moving = {} => moved = 0)
  <2>1. FreePoints(L, from) \in Nat
    BY <1>1, <1>3, PointsType
  <2>2. ASSUME moving = {} PROVE moved = 0
    <3> DEFINE none == [l \in {} |-> L[l].available]
    <3>1. none \in [{} -> Nat] /\ \A l \in {} : none[l] = 0
      OBVIOUS
    <3>2. moved = Points!Total(none)
      BY <2>2 DEF moved, Points!Available
    <3> HIDE DEF none
    <3> QED
      BY <3>1, <3>2, TotalZero
  <2> QED
    BY <1>11, <2>1, <2>2
<1>17. ledger' \in Books /\ \A b \in Accounts : Explained(b)'
  BY <1>1, <1>2, <1>5, <1>7, <1>14, <1>16, MergedAlike
<1> QED
  BY <1>14, <1>15, <1>17 DEF LedgerInv, D

LEMMA IdleAge ==
  ASSUME Points!PointsAssumption, PointsInv, PointsInv', LedgerInv,
         Points!Tick \/ UNCHANGED Points!vars
  PROVE  LedgerInv' /\ Aged(lots, lots', {}, {}, now)
<1>1. /\ lots' = lots /\ ledger' = ledger /\ account' = account /\ recorded' = recorded
      /\ refilled' = refilled /\ remerged' = remerged
      /\ now \in Nat /\ now' \in Nat /\ now <= now' /\ lots \in LotLists /\ PointsShape
  BY DEF Points!Tick, Points!vars, Points!histories, PointsInv, PointsShape
<1>2. \A l \in DOMAIN lots : lots[l].available \in Nat /\ lots[l].reserved \in Nat
  BY <1>1, LotNumbers
<1>3. Aged(lots, lots', {}, {}, now)
  BY <1>1, <1>2 DEF Aged
<1>4. Lapsing'
  BY <1>1, <1>3, RecordedAge DEF LedgerInv
<1>5. ledger' \in Books /\ \A b \in Accounts : Explained(b)'
  BY <1>1 DEF LedgerInv, Explained, Complete, Points!LotsOf
<1> QED
  BY <1>3, <1>4, <1>5 DEF LedgerInv

LEMMA AgeNext ==
  ASSUME Points!PointsAssumption, PointsInv, LedgerInv, [Points!Next]_(Points!vars)
  PROVE  LedgerInv' /\ \E t \in Points!CommandTimes : \E D, R : Aged(lots, lots', D, R, t)
<1>1. PointsInv' /\ PointsShape
  BY PointsNext DEF PointsInv
<1>2. \A t \in Points!CommandTimes : t \in Nat /\ t <= now
  BY <1>1, CommandTime
<1>0. now \in Points!CommandTimes
  BY <1>1, PointsConstants DEF PointsShape, Points!CommandTimes
<1>3. CASE \E a \in Accounts, n \in Amounts, t \in Points!CommandTimes, e \in Nat :
              Points!Grant(a, n, e, t)
  BY <1>1, <1>2, <1>3, GrantAge
<1>4. CASE \E a \in Accounts, n \in Amounts, t \in Points!CommandTimes :
              Points!CorrectUp(a, n, t) \/ Points!CorrectDown(a, n, t)
  BY <1>1, <1>2, <1>4, CorrectUpAge, CorrectDownAge
<1>5. CASE \E j \in Jobs, a \in Accounts, n \in Reservations, t \in Points!CommandTimes :
              Points!Reserve(j, a, n, t)
  BY <1>1, <1>2, <1>5, ReserveAge
<1>6. CASE \E a \in Accounts, t \in Points!CommandTimes : Points!Expire(a, t)
  BY <1>1, <1>2, <1>6, ExpireAge
<1>7. CASE \E from \in Accounts, to \in Accounts, q \in Requests, t \in Points!CommandTimes :
              Points!Merge(from, to, q, t)
  BY <1>1, <1>2, <1>7, MergeAge
<1>8. CASE \E j \in Jobs : \E key \in Keys : \E n \in 1 .. reservation[j].reserved :
              \/ Points!Capture(j, n, key)
              \/ \E t \in Points!CommandTimes : Points!Release(j, n, key, t)
  BY <1>0, <1>1, <1>2, <1>8, CaptureAge, ReleaseAge
<1>9. CASE Points!Tick \/ UNCHANGED Points!vars
  BY <1>0, <1>1, <1>9, IdleAge
<1> QED
  BY <1>3, <1>4, <1>5, <1>6, <1>7, <1>8, <1>9, PointsCases

LEMMA LedgerInit ==
  ASSUME Points!PointsAssumption, Points!Init
  PROVE  PointsInv /\ LedgerInv
<1>1. PointsInv
  BY PointsInit
<1>2. ledger = account /\ recorded = {}
  BY DEF Points!Init
<1> QED
  BY <1>1, <1>2 DEF PointsInv, PointsShape, LedgerInv, Explained, Lapsing

\* The wallet rows add up to the balances, however late a command acts and however often a
\* merge request is executed, but for an account that had points moved twice by one request
\* or got points back into a lot whose expiry was recorded.
THEOREM LedgerExplainsTheorem ==
  ASSUME Points!PointsAssumption
  PROVE  Points!Spec => []LedgerExplainsBalance
<1>1. Points!Init => PointsInv /\ LedgerInv
  BY LedgerInit
<1>2. PointsInv /\ LedgerInv /\ [Points!Next]_(Points!vars) => PointsInv' /\ LedgerInv'
  BY PointsNext, AgeNext
<1>3. LedgerInv => LedgerExplainsBalance
  BY DEF LedgerInv, Explained, Complete, LedgerExplainsBalance, Points!LedgerExplainsBalance
<1> QED
  BY <1>1, <1>2, <1>3, PTL DEF Points!Spec

\* A lot gains points only while it has not expired, or, when a command waited for the lock,
\* had not expired when the command read the time.
THEOREM NoResurrectionTheorem ==
  ASSUME Points!PointsAssumption
  PROVE  Points!Spec => NoResurrection
<1> DEFINE Kept == \A l \in DOMAIN lots :
                      lots'[l].available > lots[l].available \/ lots'[l].reserved > lots[l].reserved
                         => lots[l].expiresAt + Skew > now
<1>1. Points!Init => PointsInv /\ LedgerInv
  BY LedgerInit
<1>2. PointsInv /\ LedgerInv /\ [Points!Next]_(Points!vars) => PointsInv' /\ LedgerInv'
  BY PointsNext, AgeNext
<1>3. PointsInv /\ LedgerInv /\ [Points!Next]_(Points!vars) => [Kept]_(Points!vars)
  <2> SUFFICES ASSUME PointsInv, LedgerInv, [Points!Next]_(Points!vars), NEW l \in DOMAIN lots,
                      lots'[l].available > lots[l].available \/ lots'[l].reserved > lots[l].reserved
               PROVE  lots[l].expiresAt + Skew > now
    OBVIOUS
  <2>1. lots \in LotLists /\ lots' \in LotLists /\ now \in Nat /\ PointsShape /\ Skew \in Nat
    BY PointsNext, PointsConstants DEF PointsInv, PointsShape
  <2>2. PICK t \in Points!CommandTimes : \E D, R : Aged(lots, lots', D, R, t)
    BY AgeNext
  <2>3. t \in Nat /\ now <= t + Skew
    BY <2>1, CommandTime
  <2>4. /\ l \in DOMAIN lots'
        /\ lots'[l].available <= lots[l].available \/ lots[l].expiresAt > t
        /\ lots[l].expiresAt <= t => lots'[l].reserved <= lots[l].reserved
    BY <2>2 DEF Aged
  <2>5. /\ lots[l].available \in Nat /\ lots[l].reserved \in Nat /\ lots[l].expiresAt \in Nat
        /\ lots'[l].available \in Nat /\ lots'[l].reserved \in Nat
    BY <2>1, <2>4, LotNumbers
  <2> QED
    BY <2>1, <2>3, <2>4, <2>5
<1>4. Points!Spec => [][Kept]_(Points!vars)
  BY <1>1, <1>2, <1>3, PTL DEF Points!Spec
<1> QED
  BY <1>4 DEF NoResurrection, Points!NoResurrection

-----------------------------------------------------------------------------
(* Merging users while their tasks run.                                     *)

OwnerOrNone == Users \cup {"none"}
OwnedRecord == [owner : OwnerOrNone, state : {"none", "running", "captured", "released"},
               params : {"full", "listed"}]
OrderRecord == [owner : OwnerOrNone, state : {"none", "pending", "paid"}]
TakenSnapshot == [taken : {TRUE}, tasks : [Tasks -> OwnedRecord], orders : [Orders -> OrderRecord]]

MergeShape ==
    /\ owned \in [Tasks -> OwnedRecord]
    /\ holder \in [Tasks -> OwnerOrNone]
    /\ order \in [Orders -> OrderRecord]
    /\ snapshot \in [Executors -> TakenSnapshot \cup {Merging!NoSnapshot}]

\* What an executor has read of a task that holds a reservation by now: nothing,
\* or the owner the reservation is for.  (A merge writes back what it has read.)
SnapshotInv ==
    \A x \in Executors : snapshot[x].taken =>
        \A k \in Tasks :
            /\ owned[k].owner = "none" => snapshot[x].tasks[k].owner = "none"
            /\ holder[k] # "none" =>
                  snapshot[x].tasks[k].owner \in {"none", holder[k]}

MergeInv == MergeShape /\ SnapshotInv /\ Merging!ReservedWithOwner

LEMMA SnapshotCases ==
  ASSUME MergeShape, NEW x \in Executors
  PROVE  /\ snapshot[x].taken => snapshot[x] \in TakenSnapshot
         /\ ~snapshot[x].taken => snapshot[x] = Merging!NoSnapshot
<1>1. snapshot[x] \in TakenSnapshot \cup {Merging!NoSnapshot}
  BY DEF MergeShape
<1>2. ~Merging!NoSnapshot.taken
  BY DEF Merging!NoSnapshot
<1>3. \A r \in TakenSnapshot : r.taken
  <2>1. \A r \in TakenSnapshot : r.taken = TRUE
    BY DEF TakenSnapshot
  <2> QED
    BY <2>1
<1> QED
  BY <1>1, <1>2, <1>3

LEMMA MergeInit == Merging!Init => MergeInv
  BY DEF Merging!Init, MergeInv, MergeShape, SnapshotInv, Merging!ReservedWithOwner,
         Merging!NoSnapshot, Merging!Absent, Merging!AbsentOrder,
         OwnedRecord, OrderRecord, OwnerOrNone

LEMMA OwnedWrites ==
  ASSUME NEW r \in OwnedRecord
  PROVE  /\ \A s \in {"captured", "released"} :
                /\ [r EXCEPT !.state = s] \in OwnedRecord
                /\ [r EXCEPT !.state = s].owner = r.owner
         /\ [r EXCEPT !.params = "listed"] \in OwnedRecord
         /\ [r EXCEPT !.params = "listed"].owner = r.owner
         /\ \A u \in Users : /\ [r EXCEPT !.owner = u] \in OwnedRecord
                             /\ [r EXCEPT !.owner = u].owner = u
  BY DEF OwnedRecord, OwnerOrNone

LEMMA OrderWrites ==
  ASSUME NEW r \in OrderRecord
  PROVE  /\ [r EXCEPT !.state = "paid"] \in OrderRecord
         /\ \A u \in Users : [r EXCEPT !.owner = u] \in OrderRecord
  BY DEF OrderRecord, OwnerOrNone

LEMMA UserMergeInv ==
  ASSUME Merging!MergeAssumption, MergeInv, NEW k \in Tasks,
         Merging!SettleTask(k) \/ \E u \in Users : Merging!CreateTask(u, k)
  PROVE  MergeInv'
<1> USE DEF MergeInv
<1>1. CASE \E u \in Users : Merging!CreateTask(u, k)
  <2>1. PICK u \in Users : Merging!CreateTask(u, k)
    BY <1>1
  <2>2. "none" \notin Users
    BY DEF Merging!MergeAssumption
  <2> DEFINE new == [owner |-> u, state |-> "running", params |-> "full"]
  <2>3. new \in OwnedRecord /\ new.owner = u /\ new.state = "running"
    BY DEF OwnedRecord, OwnerOrNone
  <2>4. owned' = [owned EXCEPT ![k] = new] /\ holder' = [holder EXCEPT ![k] = u]
        /\ UNCHANGED <<order, snapshot>> /\ owned[k].owner = "none"
    BY <2>1 DEF Merging!CreateTask, Merging!Absent
  <2> HIDE DEF new
  <2>5. MergeShape'
    BY <2>3, <2>4 DEF MergeShape, OwnerOrNone
  <2>6. Merging!ReservedWithOwner'
    BY <2>3, <2>4 DEF Merging!ReservedWithOwner, MergeShape
  <2>7. SnapshotInv'
    BY <2>2, <2>3, <2>4 DEF SnapshotInv, MergeShape
  <2> QED
    BY <2>5, <2>6, <2>7
<1>2. CASE Merging!SettleTask(k)
  <2>1. PICK s \in {"captured", "released"} : owned' = [owned EXCEPT ![k] = [owned[k] EXCEPT !.state = s]]
    BY <1>2 DEF Merging!SettleTask
  <2>2. holder' = [holder EXCEPT ![k] = "none"] /\ UNCHANGED <<order, snapshot>>
    BY <1>2 DEF Merging!SettleTask
  <2>3. owned[k] \in OwnedRecord
    BY DEF MergeShape
  <2>4. /\ owned' \in [Tasks -> OwnedRecord]
        /\ \A j \in Tasks : owned'[j].owner = owned[j].owner /\ (j # k => owned'[j] = owned[j])
    BY <2>1, <2>3, OwnedWrites DEF MergeShape
  <2>5. MergeShape'
    BY <2>2, <2>4 DEF MergeShape, OwnerOrNone
  <2>6. Merging!ReservedWithOwner'
    BY <2>2, <2>4 DEF MergeShape, Merging!ReservedWithOwner
  <2>7. SnapshotInv'
    BY <2>2, <2>4 DEF MergeShape, SnapshotInv
  <2> QED
    BY <2>5, <2>6, <2>7
<1> QED
  BY <1>1, <1>2

LEMMA OrderMergeInv ==
  ASSUME MergeInv, NEW o \in Orders, Merging!PayOrder(o) \/ \E u \in Users : Merging!CreateOrder(u, o)
  PROVE  MergeInv'
<1>1. order' \in [Orders -> OrderRecord]
  <2>1. order \in [Orders -> OrderRecord]
    BY DEF MergeInv, MergeShape
  <2>2. CASE Merging!PayOrder(o)
    BY <2>1, <2>2, OrderWrites DEF Merging!PayOrder
  <2>3. CASE \E u \in Users : Merging!CreateOrder(u, o)
    BY <2>1, <2>3 DEF Merging!CreateOrder, OrderRecord, OwnerOrNone
  <2> QED
    BY <2>2, <2>3
<1>2. UNCHANGED <<owned, holder, snapshot>>
  BY DEF Merging!CreateOrder, Merging!PayOrder
<1> QED
  BY <1>1, <1>2 DEF MergeInv, MergeShape, SnapshotInv, Merging!ReservedWithOwner

LEMMA ExecutorMergeInv ==
  ASSUME MergeInv, NEW x \in Executors, Merging!ReadSnapshot(x) \/ Merging!Refuse(x)
  PROVE  MergeInv'
<1> USE DEF MergeInv
<1>1. CASE Merging!ReadSnapshot(x)
  <2> DEFINE read == [taken |-> TRUE,
                      tasks |-> [k \in Tasks |-> [owned[k] EXCEPT !.params = "listed"]],
                      orders |-> order]
  <2>1. \A k \in Tasks : owned[k] \in OwnedRecord
    BY DEF MergeShape
  <2>2. read.tasks \in [Tasks -> OwnedRecord]
        /\ \A k \in Tasks : read.tasks[k].owner = owned[k].owner
    BY <2>1, OwnedWrites
  <2>3. read \in TakenSnapshot
    BY <2>2 DEF TakenSnapshot, MergeShape
  <2>4. snapshot' = [snapshot EXCEPT ![x] = read] /\ UNCHANGED <<owned, holder, order>>
    BY <1>1 DEF Merging!ReadSnapshot
  <2> HIDE DEF read
  <2> QED
    BY <2>2, <2>3, <2>4 DEF MergeShape, SnapshotInv, Merging!ReservedWithOwner
<1>2. CASE Merging!Refuse(x)
  BY <1>2 DEF Merging!Refuse, Merging!NoSnapshot, MergeShape, SnapshotInv, Merging!ReservedWithOwner
<1> QED
  BY <1>1, <1>2

LEMMA MovedShape ==
  ASSUME NEW T \in [Tasks -> OwnedRecord], NEW O \in [Orders -> OrderRecord],
         NEW from, NEW to \in Users
  PROVE  /\ Merging!MovedTasks(T, from, to) \in [Tasks -> OwnedRecord]
         /\ \A k \in Tasks : Merging!MovedTasks(T, from, to)[k].owner
                                = IF T[k].owner = from THEN to ELSE T[k].owner
         /\ \A k \in Tasks : T[k].owner # from => Merging!MovedTasks(T, from, to)[k] = T[k]
         /\ Merging!MovedOrders(O, from, to) \in [Orders -> OrderRecord]
<1> DEFINE M(k) == IF T[k].owner = from THEN [T[k] EXCEPT !.owner = to] ELSE T[k]
<1>1. ASSUME NEW k \in Tasks
      PROVE  /\ M(k) \in OwnedRecord /\ M(k).owner = IF T[k].owner = from THEN to ELSE T[k].owner
             /\ T[k].owner # from => M(k) = T[k]
  <2>1. T[k] \in OwnedRecord
    OBVIOUS
  <2>2. [T[k] EXCEPT !.owner = to] \in OwnedRecord /\ [T[k] EXCEPT !.owner = to].owner = to
    BY <2>1, OwnedWrites
  <2>3. CASE T[k].owner = from
    <3>1. M(k) = [T[k] EXCEPT !.owner = to]
      BY <2>3
    <3> HIDE DEF M
    <3> QED
      BY <2>2, <2>3, <3>1
  <2>4. CASE T[k].owner # from
    <3>1. M(k) = T[k]
      BY <2>4
    <3> HIDE DEF M
    <3> QED
      BY <2>1, <2>4, <3>1
  <2> QED
    BY <2>3, <2>4
<1>2. ASSUME NEW o \in Orders
      PROVE  (IF O[o].owner = from THEN [O[o] EXCEPT !.owner = to] ELSE O[o]) \in OrderRecord
  BY OrderWrites
<1> QED
  BY <1>1, <1>2 DEF Merging!MovedTasks, Merging!MovedOrders

\* The tasks of a merge are not reserved; the ones that are reserved belong to
\* others and stay with them.
LEMMA JSONMergeInv ==
  ASSUME Merging!MergeAssumption, MergeInv, NEW r \in Requests, NEW from \in Pair(r), NEW to \in Pair(r),
         Merging!ExecuteJSON(r, from, to)
  PROVE  MergeInv'
<1> USE DEF MergeInv
<1>1. from \in Users /\ to \in Users
  BY DEF Merging!MergeAssumption
<1>2. \A k \in Tasks : holder[k] \notin {from, to}
  BY DEF Merging!ExecuteJSON, Merging!Agreed, Merging!Mergeable
<1>3. owned \in [Tasks -> OwnedRecord] /\ order \in [Orders -> OrderRecord]
  BY DEF MergeShape
<1>4. owned' = Merging!MovedTasks(owned, from, to) /\ order' = Merging!MovedOrders(order, from, to)
  BY DEF Merging!ExecuteJSON
<1>5. /\ owned' \in [Tasks -> OwnedRecord] /\ order' \in [Orders -> OrderRecord]
      /\ \A k \in Tasks : owned'[k].owner = IF owned[k].owner = from THEN to ELSE owned[k].owner
      /\ \A k \in Tasks : owned[k].owner # from => owned'[k] = owned[k]
  BY <1>1, <1>3, <1>4, MovedShape
<1>6. UNCHANGED <<holder, snapshot>>
  BY DEF Merging!ExecuteJSON
<1>7. "none" \notin Users
  BY DEF Merging!MergeAssumption
<1> QED
  BY <1>1, <1>2, <1>5, <1>6, <1>7 DEF MergeShape, SnapshotInv, Merging!ReservedWithOwner

LEMMA PostgresMergeInv ==
  ASSUME Merging!MergeAssumption, MergeInv, NEW r \in Requests, NEW from \in Pair(r), NEW to \in Pair(r),
         NEW x \in Executors, Merging!ExecutePostgres(x, r, from, to)
  PROVE  MergeInv'
<1> USE DEF MergeInv
<1> DEFINE T == Merging!MovedTasks(snapshot[x].tasks, from, to)
           O == Merging!MovedOrders(snapshot[x].orders, from, to)
<1>1. from \in Users /\ to \in Users /\ "none" \notin Users
  BY DEF Merging!MergeAssumption
<1>2. \A k \in Tasks : holder[k] \notin {from, to}
  BY DEF Merging!ExecutePostgres, Merging!Agreed, Merging!Mergeable
<1>3. snapshot[x].taken /\ snapshot[x].tasks \in [Tasks -> OwnedRecord]
      /\ snapshot[x].orders \in [Orders -> OrderRecord]
  BY SnapshotCases DEF Merging!ExecutePostgres, TakenSnapshot
<1>4. /\ T \in [Tasks -> OwnedRecord] /\ O \in [Orders -> OrderRecord]
      /\ \A k \in Tasks : T[k].owner = IF snapshot[x].tasks[k].owner = from
                                       THEN to ELSE snapshot[x].tasks[k].owner
  BY <1>1, <1>3, MovedShape
<1>5. ASSUME NEW k \in Tasks, T[k].owner = to
      PROVE  holder[k] = "none" /\ owned[k].owner # "none"
  <2>1. snapshot[x].tasks[k].owner \in {from, to}
    BY <1>4, <1>5
  <2> QED
    BY <1>1, <1>2, <1>3, <2>1 DEF SnapshotInv
<1>6. /\ owned' = [k \in Tasks |-> IF T[k].owner = to THEN T[k] ELSE owned[k]]
      /\ order' = [o \in Orders |-> IF snapshot[x].orders[o].owner = from THEN O[o] ELSE order[o]]
      /\ snapshot' = [snapshot EXCEPT ![x] = Merging!NoSnapshot]
      /\ UNCHANGED holder
  BY DEF Merging!ExecutePostgres
<1> HIDE DEF T, O
<1>7. MergeShape'
  BY <1>4, <1>6 DEF MergeShape
<1>8. Merging!ReservedWithOwner'
  BY <1>5, <1>6 DEF MergeShape, Merging!ReservedWithOwner
<1>9. SnapshotInv'
  BY <1>1, <1>5, <1>6 DEF MergeShape, SnapshotInv, Merging!NoSnapshot
<1> QED
  BY <1>7, <1>8, <1>9

LEMMA MergeNext == Merging!MergeAssumption /\ MergeInv /\ [Merging!Next]_(Merging!vars) => MergeInv'
<1> SUFFICES ASSUME Merging!MergeAssumption, MergeInv, [Merging!Next]_(Merging!vars) PROVE MergeInv'
  OBVIOUS
<1>1. CASE \E r \in Requests : Merging!UpdateRequest(r)
  BY <1>1 DEF Merging!UpdateRequest, MergeInv, MergeShape, SnapshotInv, Merging!ReservedWithOwner
<1>2. CASE Merging!Execute
  BY <1>2, JSONMergeInv, PostgresMergeInv DEF Merging!Execute
<1>3. CASE UNCHANGED Merging!vars
  BY <1>3 DEF Merging!vars, MergeInv, MergeShape, SnapshotInv, Merging!ReservedWithOwner
<1>4. CASE \E k \in Tasks : Merging!SettleTask(k) \/ \E u \in Users : Merging!CreateTask(u, k)
  BY <1>4, UserMergeInv
<1>5. CASE \E o \in Orders : Merging!PayOrder(o) \/ \E u \in Users : Merging!CreateOrder(u, o)
  BY <1>5, OrderMergeInv
<1>6. CASE \E x \in Executors : Merging!ReadSnapshot(x) \/ Merging!Refuse(x)
  BY <1>6, ExecutorMergeInv
<1> QED
  BY <1>1, <1>2, <1>3, <1>4, <1>5, <1>6 DEF Merging!Next, Merging!Step

\* The points a running task holds are those of its owner, whatever merges run
\* meanwhile, also those that write back what they read before
\* (ExecuteAdminAuthMergeRequest of both stores).
THEOREM ReservedWithOwnerTheorem ==
  ASSUME Merging!MergeAssumption
  PROVE  Merging!Spec => []ReservedWithOwner
<1>1. MergeInv => ReservedWithOwner
  BY DEF MergeInv, ReservedWithOwner
<1> QED
  BY <1>1, MergeInit, MergeNext, PTL DEF Merging!Spec

-----------------------------------------------------------------------------
(* Referral rewards and the shared wallet.                                  *)

\* Referral rewards.
In(R, s) == {o \in Referrals : R[o] = s}
CountIn(R, s) == Cardinality(In(R, s))
Share(c, s) == IF c = s THEN Commission ELSE 0

WalletRecord == [frozen : Nat, available : Nat, settled : Nat, recoverable : Nat]
Stages == {"NONE", "FROZEN", "AVAILABLE", "REVERSED"}

\* The wallet w is explained by n frozen and m available rewards and commissions of these sizes.
Explains(w, n, m, x, y) ==
    /\ w \in WalletRecord
    /\ w.frozen = Amount * n + x
    /\ w.available + w.settled - w.recoverable = Amount * m + y
    /\ w.recoverable <= w.settled

RewardInv ==
    /\ earned \in [Referrals -> Stages]
    /\ other \in Stages
    /\ IsFiniteSet(In(earned, "FROZEN")) /\ IsFiniteSet(In(earned, "AVAILABLE"))
    /\ Explains(balance, CountIn(earned, "FROZEN"), CountIn(earned, "AVAILABLE"),
                Share(other, "FROZEN"), Share(other, "AVAILABLE"))

LEMMA RewardConstants ==
  ASSUME Rewards!RewardAssumption
  PROVE  /\ Amount \in Nat /\ Amount >= 1 /\ Commission \in Nat /\ Commission >= 1
         /\ \A c, s : Share(c, s) \in Nat
BY DEF Rewards!RewardAssumption, Share

LEMMA Enters ==
  ASSUME NEW R, NEW Q, NEW o \in Referrals, NEW s, IsFiniteSet(In(R, s)), R[o] # s, Q[o] = s,
         \A p \in Referrals : p # o => Q[p] = R[p]
  PROVE  IsFiniteSet(In(Q, s)) /\ CountIn(R, s) \in Nat /\ CountIn(Q, s) = CountIn(R, s) + 1
<1>1. In(Q, s) = In(R, s) \cup {o} /\ o \notin In(R, s)
  BY DEF In
<1> QED
  BY <1>1, FS_AddElement, FS_CardinalityType DEF CountIn

LEMMA Leaving ==
  ASSUME NEW R, NEW Q, NEW o \in Referrals, NEW s, IsFiniteSet(In(R, s)), R[o] = s, Q[o] # s,
         \A p \in Referrals : p # o => Q[p] = R[p]
  PROVE  /\ IsFiniteSet(In(Q, s)) /\ CountIn(R, s) \in Nat /\ CountIn(R, s) >= 1
         /\ CountIn(Q, s) = CountIn(R, s) - 1
<1>1. In(Q, s) = In(R, s) \ {o} /\ o \in In(R, s)
  BY DEF In
<1>2. In(R, s) # {}
  BY <1>1
<1> QED
  BY <1>1, <1>2, FS_RemoveElement, FS_CardinalityType, FS_EmptySet DEF CountIn

LEMMA Remaining ==
  ASSUME NEW R, NEW Q, NEW o \in Referrals, NEW s, R[o] # s, Q[o] # s,
         \A p \in Referrals : p # o => Q[p] = R[p]
  PROVE  In(Q, s) = In(R, s) /\ CountIn(Q, s) = CountIn(R, s)
<1>1. In(Q, s) = In(R, s)
  BY DEF In
<1> QED
  BY <1>1 DEF CountIn

LEMMA Multiples ==
  ASSUME NEW n \in Nat, Amount \in Nat
  PROVE  /\ Amount * (n + 1) = Amount * n + Amount /\ Amount * n \in Nat
         /\ n >= 1 => Amount * n >= Amount /\ Amount * (n - 1) = Amount * n - Amount
<1>1. Amount * (n + 1) = Amount * n + Amount /\ Amount * n \in Nat
  OBVIOUS
<1>2. ASSUME n >= 1 PROVE Amount * n >= Amount /\ Amount * (n - 1) = Amount * n - Amount
  <2>1. Amount * (n - 1) = Amount * n - Amount
    OBVIOUS
  <2>2. n - 1 \in Nat
    BY <1>2
  <2>3. Amount * (n - 1) \in Nat
    BY <2>2
  <2> QED
    BY <2>1, <2>3, <1>1
<1> QED
  BY <1>1, <1>2

\* The wallet with these buckets.
Holds(w, f, a, s, r) ==
    w \in WalletRecord /\ w.frozen = f /\ w.available = a /\ w.settled = s /\ w.recoverable = r

LEMMA BucketWrites ==
  ASSUME NEW w \in WalletRecord, NEW g \in Nat, NEW h \in Nat
  PROVE  /\ Holds([w EXCEPT !.frozen = g], g, w.available, w.settled, w.recoverable)
         /\ Holds([w EXCEPT !.available = g], w.frozen, g, w.settled, w.recoverable)
         /\ Holds([w EXCEPT !.frozen = g, !.available = h], g, h, w.settled, w.recoverable)
         /\ Holds([w EXCEPT !.available = g, !.recoverable = h], w.frozen, g, w.settled, h)
         /\ Holds([w EXCEPT !.available = g, !.settled = h], w.frozen, g, h, w.recoverable)
BY DEF WalletRecord, Holds

\* What the steps write to the wallet.
LEMMA WalletWrites ==
  ASSUME Amount \in Nat, Amount >= 1, Commission \in Nat, NEW w, NEW n \in Nat, NEW m \in Nat,
         NEW x \in Nat, NEW y \in Nat, Explains(w, n, m, x, y)
  PROVE  /\ Explains([w EXCEPT !.frozen = @ + Amount], n + 1, m, x, y)
         /\ n >= 1 => Explains([w EXCEPT !.frozen = @ - Amount], n - 1, m, x, y)
         /\ n >= 1 => Explains([w EXCEPT !.frozen = @ - Amount, !.available = @ + Amount],
                               n - 1, m + 1, x, y)
         /\ m >= 1 => Explains([w EXCEPT !.available = @ - Rewards!Debit(w.available),
                                         !.recoverable = @ + (Amount - Rewards!Debit(w.available))],
                               n, m - 1, x, y)
         /\ Explains([w EXCEPT !.frozen = @ + Commission], n, m, x + Commission, y)
         /\ Explains([w EXCEPT !.available = @ + Commission], n, m, x, y + Commission)
         /\ x = Commission => Explains([w EXCEPT !.frozen = @ - Commission], n, m, 0, y)
         /\ y = Commission /\ w.available >= Commission =>
               Explains([w EXCEPT !.available = @ - Commission], n, m, x, 0)
         /\ Explains([w EXCEPT !.available = 0, !.settled = @ + w.available], n, m, x, y)
<1> DEFINE p == Amount * n
           q == Amount * m
           f == w.frozen
           a == w.available
           s == w.settled
           r == w.recoverable
           d == Rewards!Debit(a)
<1>1. /\ w \in WalletRecord /\ f \in Nat /\ a \in Nat /\ s \in Nat /\ r \in Nat
      /\ f = p + x /\ a + s - r = q + y /\ r <= s
  BY DEF Explains, WalletRecord
<1>2. /\ p \in Nat /\ q \in Nat /\ Amount * (n + 1) = p + Amount /\ Amount * (m + 1) = q + Amount
      /\ n >= 1 => p >= Amount /\ Amount * (n - 1) = p - Amount
      /\ m >= 1 => q >= Amount /\ Amount * (m - 1) = q - Amount
      /\ p = Amount * n /\ q = Amount * m
  BY Multiples
<1>3. d \in Nat /\ d <= a /\ d <= Amount /\ (d = a \/ d = Amount)
  BY <1>1 DEF Rewards!Debit
<1>4. ASSUME NEW E, NEW f1, NEW a1, NEW s1, NEW r1, Holds(E, f1, a1, s1, r1), NEW i, NEW j, NEW u, NEW v,
             f1 = Amount * i + u, a1 + s1 - r1 = Amount * j + v, r1 <= s1
      PROVE  Explains(E, i, j, u, v)
  BY <1>4 DEF Explains, Holds
<1>5. Explains([w EXCEPT !.frozen = @ + Amount], n + 1, m, x, y)
  <2>1. f + Amount \in Nat
    BY <1>1, <1>2, <1>3
  <2>2. /\ f + Amount = Amount * (n + 1) + x /\ a + s - r = Amount * m + y
        /\ r <= s
    <3> HIDE DEF p, q, f, a, s, r, d
    <3> QED
      BY <1>1, <1>2, <1>3
  <2>3. Holds([w EXCEPT !.frozen = @ + Amount], f + Amount, a, s, r)
    BY <1>1, <2>1, BucketWrites, Zenon
  <2> HIDE DEF p, q, f, a, s, r, d
  <2> QED
    BY <1>4, <2>2, <2>3, Zenon
<1>6. ASSUME n >= 1 PROVE Explains([w EXCEPT !.frozen = @ - Amount], n - 1, m, x, y)
  <2>1. f - Amount \in Nat
    BY <1>1, <1>2, <1>3, <1>6
  <2>2. /\ f - Amount = Amount * (n - 1) + x /\ a + s - r = Amount * m + y
        /\ r <= s
    <3> HIDE DEF p, q, f, a, s, r, d
    <3> QED
      BY <1>1, <1>2, <1>3, <1>6
  <2>3. Holds([w EXCEPT !.frozen = @ - Amount], f - Amount, a, s, r)
    BY <1>1, <2>1, BucketWrites, Zenon
  <2> HIDE DEF p, q, f, a, s, r, d
  <2> QED
    BY <1>4, <2>2, <2>3, Zenon
<1>7. ASSUME n >= 1 PROVE Explains([w EXCEPT !.frozen = @ - Amount, !.available = @ + Amount],
                                   n - 1, m + 1, x, y)
  <2>1. f - Amount \in Nat /\ a + Amount \in Nat
    BY <1>1, <1>2, <1>3, <1>7
  <2>2. /\ f - Amount = Amount * (n - 1) + x /\ a + Amount + s - r = Amount * (m + 1) + y
        /\ r <= s
    <3> HIDE DEF p, q, f, a, s, r, d
    <3> QED
      BY <1>1, <1>2, <1>3, <1>7
  <2>3. Holds([w EXCEPT !.frozen = @ - Amount, !.available = @ + Amount], f - Amount, a + Amount, s, r)
    BY <1>1, <2>1, BucketWrites, Zenon
  <2> HIDE DEF p, q, f, a, s, r, d
  <2> QED
    BY <1>4, <2>2, <2>3, Zenon
<1>8. ASSUME m >= 1 PROVE Explains([w EXCEPT !.available = @ - d, !.recoverable = @ + (Amount - d)],
                                   n, m - 1, x, y)
  <2>1. a - d \in Nat /\ r + (Amount - d) \in Nat
    BY <1>1, <1>2, <1>3, <1>8
  <2>2. /\ f = Amount * n + x /\ a - d + s - (r + (Amount - d)) = Amount * (m - 1) + y
        /\ r + (Amount - d) <= s
    <3> HIDE DEF p, q, f, a, s, r, d
    <3> QED
      BY <1>1, <1>2, <1>3, <1>8
  <2>3. Holds([w EXCEPT !.available = @ - d, !.recoverable = @ + (Amount - d)],
              f, a - d, s, r + (Amount - d))
    BY <1>1, <2>1, BucketWrites, Zenon
  <2> HIDE DEF p, q, f, a, s, r, d
  <2> QED
    BY <1>4, <2>2, <2>3, Zenon
<1>9. Explains([w EXCEPT !.frozen = @ + Commission], n, m, x + Commission, y)
  <2>1. f + Commission \in Nat
    BY <1>1, <1>2, <1>3
  <2>2. /\ f + Commission = Amount * n + (x + Commission) /\ a + s - r = Amount * m + y
        /\ r <= s
    <3> HIDE DEF p, q, f, a, s, r, d
    <3> QED
      BY <1>1, <1>2, <1>3
  <2>3. Holds([w EXCEPT !.frozen = @ + Commission], f + Commission, a, s, r)
    BY <1>1, <2>1, BucketWrites, Zenon
  <2> HIDE DEF p, q, f, a, s, r, d
  <2> QED
    BY <1>4, <2>2, <2>3, Zenon
<1>10. Explains([w EXCEPT !.available = @ + Commission], n, m, x, y + Commission)
  <2>1. a + Commission \in Nat
    BY <1>1, <1>2, <1>3
  <2>2. /\ f = Amount * n + x /\ a + Commission + s - r = Amount * m + (y + Commission)
        /\ r <= s
    <3> HIDE DEF p, q, f, a, s, r, d
    <3> QED
      BY <1>1, <1>2, <1>3
  <2>3. Holds([w EXCEPT !.available = @ + Commission], f, a + Commission, s, r)
    BY <1>1, <2>1, BucketWrites, Zenon
  <2> HIDE DEF p, q, f, a, s, r, d
  <2> QED
    BY <1>4, <2>2, <2>3, Zenon
<1>11. ASSUME x = Commission PROVE Explains([w EXCEPT !.frozen = @ - Commission], n, m, 0, y)
  <2>1. f - Commission \in Nat
    BY <1>1, <1>2, <1>3, <1>11
  <2>2. /\ f - Commission = Amount * n + 0 /\ a + s - r = Amount * m + y
        /\ r <= s
    <3> HIDE DEF p, q, f, a, s, r, d
    <3> QED
      BY <1>1, <1>2, <1>3, <1>11
  <2>3. Holds([w EXCEPT !.frozen = @ - Commission], f - Commission, a, s, r)
    BY <1>1, <2>1, BucketWrites, Zenon
  <2> HIDE DEF p, q, f, a, s, r, d
  <2> QED
    BY <1>4, <2>2, <2>3, Zenon
<1>12. ASSUME y = Commission /\ a >= Commission PROVE Explains([w EXCEPT !.available = @ - Commission],
                                                               n, m, x, 0)
  <2>1. a - Commission \in Nat
    BY <1>1, <1>2, <1>3, <1>12
  <2>2. /\ f = Amount * n + x /\ a - Commission + s - r = Amount * m + 0
        /\ r <= s
    <3> HIDE DEF p, q, f, a, s, r, d
    <3> QED
      BY <1>1, <1>2, <1>3, <1>12
  <2>3. Holds([w EXCEPT !.available = @ - Commission], f, a - Commission, s, r)
    BY <1>1, <2>1, BucketWrites, Zenon
  <2> HIDE DEF p, q, f, a, s, r, d
  <2> QED
    BY <1>4, <2>2, <2>3, Zenon
<1>13. Explains([w EXCEPT !.available = 0, !.settled = @ + a], n, m, x, y)
  <2>1. 0 \in Nat /\ s + a \in Nat
    BY <1>1, <1>2, <1>3
  <2>2. /\ f = Amount * n + x /\ 0 + (s + a) - r = Amount * m + y
        /\ r <= s + a
    <3> HIDE DEF p, q, f, a, s, r, d
    <3> QED
      BY <1>1, <1>2, <1>3
  <2>3. Holds([w EXCEPT !.available = 0, !.settled = @ + a], f, 0, s + a, r)
    BY <1>1, <2>1, BucketWrites, Zenon
  <2> HIDE DEF p, q, f, a, s, r, d
  <2> QED
    BY <1>4, <2>2, <2>3, Zenon
<1> QED
  BY <1>5, <1>6, <1>7, <1>8, <1>9, <1>10, <1>11, <1>12, <1>13

-----------------------------------------------------------------------------
(* Every step of the rewards.                                               *)

LEMMA StageChange ==
  ASSUME earned \in [Referrals -> Stages], NEW o \in Referrals, NEW s \in Stages,
         earned' = [earned EXCEPT ![o] = s]
  PROVE  /\ earned' \in [Referrals -> Stages] /\ earned'[o] = s
         /\ \A p \in Referrals : p # o => earned'[p] = earned[p]
OBVIOUS

LEMMA RewardGrants ==
  ASSUME Rewards!RewardAssumption, RewardInv, NEW o \in Referrals, Rewards!Grant(o), other' = other
  PROVE  RewardInv'
<1> DEFINE n == CountIn(earned, "FROZEN")
           m == CountIn(earned, "AVAILABLE")
           x == Share(other, "FROZEN")
           y == Share(other, "AVAILABLE")
<1>1. /\ Amount \in Nat /\ Amount >= 1 /\ Commission \in Nat /\ x \in Nat /\ y \in Nat
      /\ n \in Nat /\ m \in Nat
  BY RewardConstants, FS_CardinalityType DEF RewardInv, CountIn
<1>2. CASE earned[o] # "NONE"
  <2>1. earned' = earned /\ balance' = balance
    BY <1>2 DEF Rewards!Grant
  <2> QED
    BY <2>1 DEF RewardInv
<1>3. CASE earned[o] = "NONE"
  <2>1. earned' = [earned EXCEPT ![o] = "FROZEN"] /\ balance' = [balance EXCEPT !.frozen = @ + Amount]
    BY <1>3 DEF Rewards!Grant
  <2>2. /\ earned' \in [Referrals -> Stages] /\ earned'[o] = "FROZEN"
        /\ \A p \in Referrals : p # o => earned'[p] = earned[p]
    BY <2>1, StageChange DEF RewardInv, Stages
  <2>3. /\ IsFiniteSet(In(earned', "FROZEN")) /\ CountIn(earned', "FROZEN") = n + 1
    BY <1>3, <2>2, Enters DEF RewardInv
  <2>4. In(earned', "AVAILABLE") = In(earned, "AVAILABLE") /\ CountIn(earned', "AVAILABLE") = m
    BY <1>3, <2>2, Remaining
  <2>5. Explains(balance, n, m, x, y)
    BY DEF RewardInv
  <2> HIDE DEF n, m, x, y
  <2>6. Explains([balance EXCEPT !.frozen = @ + Amount], n + 1, m, x, y)
    BY <1>1, <2>5, WalletWrites, Zenon
  <2>7. Explains(balance', n + 1, m, x, y)
    BY <2>1, <2>6
  <2> QED
    BY <2>2, <2>3, <2>4, <2>7 DEF RewardInv, x, y
<1> QED
  BY <1>2, <1>3

LEMMA RewardReverses ==
  ASSUME Rewards!RewardAssumption, RewardInv, NEW o \in Referrals, Rewards!Reverse(o), other' = other
  PROVE  RewardInv'
<1> DEFINE n == CountIn(earned, "FROZEN")
           m == CountIn(earned, "AVAILABLE")
           x == Share(other, "FROZEN")
           y == Share(other, "AVAILABLE")
<1>1. /\ Amount \in Nat /\ Amount >= 1 /\ Commission \in Nat /\ x \in Nat /\ y \in Nat
      /\ n \in Nat /\ m \in Nat /\ Explains(balance, n, m, x, y) /\ earned \in [Referrals -> Stages]
      /\ earned[o] \in Stages
  BY RewardConstants, FS_CardinalityType DEF RewardInv, CountIn
<1>2. earned[o] # "NONE" => earned' = [earned EXCEPT ![o] = "REVERSED"]
  BY <1>1 DEF Rewards!Reverse
<1>3. CASE earned[o] \in {"NONE", "REVERSED"}
  <2>1. earned' = earned
    BY <1>1, <1>2, <1>3 DEF Rewards!Reverse
  <2>2. balance' = balance
    BY <1>3 DEF Rewards!Reverse
  <2> QED
    BY <2>1, <2>2 DEF RewardInv
<1>4. CASE earned[o] = "FROZEN"
  <2>1. balance' = [balance EXCEPT !.frozen = @ - Amount]
    BY <1>4 DEF Rewards!Reverse
  <2>2. /\ earned' \in [Referrals -> Stages] /\ earned'[o] = "REVERSED"
        /\ \A p \in Referrals : p # o => earned'[p] = earned[p]
    BY <1>1, <1>2, <1>4, StageChange DEF Stages
  <2>3. /\ IsFiniteSet(In(earned', "FROZEN")) /\ n >= 1 /\ CountIn(earned', "FROZEN") = n - 1
    BY <1>4, <2>2, Leaving DEF RewardInv
  <2>4. In(earned', "AVAILABLE") = In(earned, "AVAILABLE") /\ CountIn(earned', "AVAILABLE") = m
    BY <1>4, <2>2, Remaining
  <2> HIDE DEF n, m, x, y
  <2>5. Explains([balance EXCEPT !.frozen = @ - Amount], n - 1, m, x, y)
    BY <1>1, <2>3, WalletWrites, Zenon
  <2>6. Explains(balance', n - 1, m, x, y)
    BY <2>1, <2>5
  <2> QED
    BY <2>2, <2>3, <2>4, <2>6 DEF RewardInv, x, y
<1>5. CASE earned[o] = "AVAILABLE"
  <2>1. balance' = [balance EXCEPT !.available = @ - Rewards!Debit(balance.available),
                                   !.recoverable = @ + (Amount - Rewards!Debit(balance.available))]
    BY <1>5 DEF Rewards!Reverse
  <2>2. /\ earned' \in [Referrals -> Stages] /\ earned'[o] = "REVERSED"
        /\ \A p \in Referrals : p # o => earned'[p] = earned[p]
    BY <1>1, <1>2, <1>5, StageChange DEF Stages
  <2>3. /\ IsFiniteSet(In(earned', "AVAILABLE")) /\ m >= 1 /\ CountIn(earned', "AVAILABLE") = m - 1
    BY <1>5, <2>2, Leaving DEF RewardInv
  <2>4. In(earned', "FROZEN") = In(earned, "FROZEN") /\ CountIn(earned', "FROZEN") = n
    BY <1>5, <2>2, Remaining
  <2> HIDE DEF n, m, x, y
  <2>5. Explains([balance EXCEPT !.available = @ - Rewards!Debit(balance.available),
                                 !.recoverable = @ + (Amount - Rewards!Debit(balance.available))],
                 n, m - 1, x, y)
    BY <1>1, <2>3, WalletWrites, Zenon
  <2>6. Explains(balance', n, m - 1, x, y)
    BY <2>1, <2>5
  <2> QED
    BY <2>2, <2>3, <2>4, <2>6 DEF RewardInv, x, y
<1> QED
  BY <1>1, <1>3, <1>4, <1>5 DEF Stages

LEMMA RewardReleases ==
  ASSUME Rewards!RewardAssumption, RewardInv, NEW w, NEW o \in Referrals, Rewards!Release(w, o)
  PROVE  RewardInv'
<1> DEFINE n == CountIn(earned, "FROZEN")
           m == CountIn(earned, "AVAILABLE")
           x == Share(other, "FROZEN")
           y == Share(other, "AVAILABLE")
<1>1. /\ Amount \in Nat /\ Amount >= 1 /\ Commission \in Nat /\ x \in Nat /\ y \in Nat
      /\ n \in Nat /\ m \in Nat /\ Explains(balance, n, m, x, y) /\ earned \in [Referrals -> Stages]
  BY RewardConstants, FS_CardinalityType DEF RewardInv, CountIn
<1>2. /\ earned[o] = "FROZEN" /\ earned' = [earned EXCEPT ![o] = "AVAILABLE"] /\ other' = other
      /\ balance' = [balance EXCEPT !.frozen = @ - Amount, !.available = @ + Amount]
  BY DEF Rewards!Release
<1>3. /\ earned' \in [Referrals -> Stages] /\ earned'[o] = "AVAILABLE"
      /\ \A p \in Referrals : p # o => earned'[p] = earned[p]
  BY <1>1, <1>2, StageChange DEF Stages
<1>4. /\ IsFiniteSet(In(earned', "FROZEN")) /\ n >= 1 /\ CountIn(earned', "FROZEN") = n - 1
  <2>1. earned[o] = "FROZEN" /\ earned'[o] # "FROZEN" /\ IsFiniteSet(In(earned, "FROZEN"))
    BY <1>2, <1>3 DEF RewardInv
  <2> QED
    BY <1>3, <2>1, Leaving
<1>5. /\ IsFiniteSet(In(earned', "AVAILABLE")) /\ CountIn(earned', "AVAILABLE") = m + 1
  <2>1. earned[o] # "AVAILABLE" /\ earned'[o] = "AVAILABLE" /\ IsFiniteSet(In(earned, "AVAILABLE"))
    BY <1>2, <1>3 DEF RewardInv
  <2> QED
    BY <1>3, <2>1, Enters
<1> HIDE DEF n, m, x, y
<1>6. Explains([balance EXCEPT !.frozen = @ - Amount, !.available = @ + Amount], n - 1, m + 1, x, y)
  BY <1>1, <1>4, WalletWrites, Zenon
<1>7. Explains(balance', n - 1, m + 1, x, y)
  BY <1>2, <1>6
<1> QED
  BY <1>2, <1>3, <1>4, <1>5, <1>7 DEF RewardInv, x, y

LEMMA OthersMove ==
  ASSUME Rewards!RewardAssumption, RewardInv, Rewards!OthersStep
  PROVE  RewardInv'
<1> DEFINE n == CountIn(earned, "FROZEN")
           m == CountIn(earned, "AVAILABLE")
           x == Share(other, "FROZEN")
           y == Share(other, "AVAILABLE")
<1>1. /\ Amount \in Nat /\ Amount >= 1 /\ Commission \in Nat /\ x \in Nat /\ y \in Nat
      /\ n \in Nat /\ m \in Nat /\ Explains(balance, n, m, x, y) /\ other \in Stages
  BY RewardConstants, FS_CardinalityType DEF RewardInv, CountIn
<1>2. earned' = earned
  BY DEF Rewards!OthersStep, Rewards!PostCommission, Rewards!ReverseCommission, Rewards!PayOut
<1>3. ASSUME other' \in Stages,
             Explains(balance', n, m, Share(other', "FROZEN"), Share(other', "AVAILABLE"))
      PROVE  RewardInv'
  BY <1>2, <1>3 DEF RewardInv
<1>4. CASE other = "NONE" /\ other' = "FROZEN" /\ balance' = [balance EXCEPT !.frozen = @ + Commission]
  <2>1. x = 0 /\ y = 0 /\ Share(other', "FROZEN") = 0 + Commission /\ Share(other', "AVAILABLE") = 0
    BY <1>1, <1>4 DEF Share
  <2> HIDE DEF n, m, x, y
  <2>2. Explains([balance EXCEPT !.frozen = @ + Commission], n, m, x + Commission, y)
    BY <1>1, WalletWrites, Zenon
  <2>3. Explains(balance', n, m, Share(other', "FROZEN"), Share(other', "AVAILABLE"))
    BY <1>4, <2>1, <2>2
  <2> QED
    BY <1>3, <1>4, <2>3 DEF Stages
<1>5. CASE other = "NONE" /\ other' = "AVAILABLE"
           /\ balance' = [balance EXCEPT !.available = @ + Commission]
  <2>1. x = 0 /\ y = 0 /\ Share(other', "FROZEN") = 0 /\ Share(other', "AVAILABLE") = 0 + Commission
    BY <1>1, <1>5 DEF Share
  <2> HIDE DEF n, m, x, y
  <2>2. Explains([balance EXCEPT !.available = @ + Commission], n, m, x, y + Commission)
    BY <1>1, WalletWrites, Zenon
  <2>3. Explains(balance', n, m, Share(other', "FROZEN"), Share(other', "AVAILABLE"))
    BY <1>5, <2>1, <2>2
  <2> QED
    BY <1>3, <1>5, <2>3 DEF Stages
<1>6. CASE other = "FROZEN" /\ other' = "REVERSED"
           /\ balance' = [balance EXCEPT !.frozen = @ - Commission]
  <2>1. x = Commission /\ y = 0 /\ Share(other', "FROZEN") = 0 /\ Share(other', "AVAILABLE") = 0
    BY <1>6 DEF Share
  <2> HIDE DEF n, m, x, y
  <2>2. Explains([balance EXCEPT !.frozen = @ - Commission], n, m, 0, y)
    BY <1>1, <2>1, WalletWrites, Zenon
  <2>3. Explains(balance', n, m, Share(other', "FROZEN"), Share(other', "AVAILABLE"))
    BY <1>6, <2>1, <2>2
  <2> QED
    BY <1>3, <1>6, <2>3 DEF Stages
<1>7. CASE other = "AVAILABLE" /\ other' = "REVERSED" /\ balance.available >= Commission
           /\ balance' = [balance EXCEPT !.available = @ - Commission]
  <2>1. x = 0 /\ y = Commission /\ Share(other', "FROZEN") = 0 /\ Share(other', "AVAILABLE") = 0
    BY <1>7 DEF Share
  <2> HIDE DEF n, m, x, y
  <2>2. Explains([balance EXCEPT !.available = @ - Commission], n, m, x, 0)
    BY <1>1, <1>7, <2>1, WalletWrites, Zenon
  <2>3. Explains(balance', n, m, Share(other', "FROZEN"), Share(other', "AVAILABLE"))
    BY <1>7, <2>1, <2>2
  <2> QED
    BY <1>3, <1>7, <2>3 DEF Stages
<1>8. CASE Rewards!PayOut
  <2>1. other' = other /\ balance' = [balance EXCEPT !.available = 0, !.settled = @ + balance.available]
    BY <1>8 DEF Rewards!PayOut
  <2> HIDE DEF n, m
  <2>2. Explains([balance EXCEPT !.available = 0, !.settled = @ + balance.available], n, m, x, y)
    <3> HIDE DEF x, y
    <3> QED
      BY <1>1, WalletWrites, Zenon
  <2>3. Explains(balance', n, m, Share(other', "FROZEN"), Share(other', "AVAILABLE"))
    BY <2>1, <2>2
  <2> QED
    BY <1>1, <1>3, <2>1, <2>3
<1> QED
  BY <1>4, <1>5, <1>6, <1>7, <1>8
     DEF Rewards!OthersStep, Rewards!PostCommission, Rewards!ReverseCommission

LEMMA RewardsNext ==
  ASSUME Rewards!RewardAssumption, RewardInv, [Rewards!RewardNext]_(Rewards!rewardVars)
  PROVE  RewardInv'
<1>1. CASE UNCHANGED <<earned, balance, other>>
  BY <1>1 DEF RewardInv
<1>2. CASE \E o \in Referrals : (Rewards!Grant(o) \/ Rewards!Reverse(o)) /\ other' = other
  BY <1>2, RewardGrants, RewardReverses
<1>3. CASE Rewards!OthersStep
  BY <1>3, OthersMove
<1>4. CASE \E w \in Releasers, o \in Referrals : Rewards!Release(w, o)
  BY <1>4, RewardReleases
<1>5. CASE Rewards!RewardStep
  <2>1. ASSUME NEW w \in Releasers,
               Rewards!ClaimDue(w) \/ Rewards!RecordFailure(w) \/ Rewards!Crash(w)
        PROVE  UNCHANGED <<earned, balance, other>>
    BY <2>1 DEF Rewards!ClaimDue, Rewards!RecordFailure, Rewards!Crash
  <2>2. ASSUME NEW w \in Releasers, NEW o \in Referrals, Rewards!Replay(w, o) \/ Rewards!ReleaseFails(w, o)
        PROVE  UNCHANGED <<earned, balance, other>>
    BY <2>2 DEF Rewards!Replay, Rewards!ReleaseFails
  <2>3. ASSUME NEW o \in Referrals, Rewards!Thaw(o) \/ Rewards!LeaseExpires(o)
        PROVE  UNCHANGED <<earned, balance, other>>
    BY <2>3 DEF Rewards!Thaw, Rewards!LeaseExpires
  <2> QED
    BY <1>1, <1>4, <1>5, <2>1, <2>2, <2>3 DEF Rewards!RewardStep, Rewards!Go
<1> QED
  BY <1>1, <1>2, <1>3, <1>5 DEF Rewards!RewardNext, Rewards!rewardVars

LEMMA RewardsInit ==
  ASSUME Rewards!RewardAssumption, Rewards!RewardInit
  PROVE  RewardInv
<1>1. /\ earned = [o \in Referrals |-> "NONE"] /\ other = "NONE"
      /\ balance = [frozen |-> 0, available |-> 0, settled |-> 0, recoverable |-> 0]
  BY DEF Rewards!RewardInit
<1>2. In(earned, "FROZEN") = {} /\ In(earned, "AVAILABLE") = {}
  BY <1>1 DEF In
<1>3. /\ IsFiniteSet(In(earned, "FROZEN")) /\ IsFiniteSet(In(earned, "AVAILABLE"))
      /\ CountIn(earned, "FROZEN") = 0 /\ CountIn(earned, "AVAILABLE") = 0
  BY <1>2, FS_EmptySet DEF CountIn
<1>4. Amount * 0 = 0 /\ Amount \in Nat
  BY RewardConstants
<1>5. Explains(balance, 0, 0, 0, 0)
  BY <1>1, <1>4 DEF Explains, WalletRecord
<1>6. Share(other, "FROZEN") = 0 /\ Share(other, "AVAILABLE") = 0
  BY <1>1 DEF Share
<1> QED
  BY <1>1, <1>3, <1>5, <1>6 DEF RewardInv, Stages

LEMMA RewardsCardinality == \A S : Rewards!Cardinality(S) = Cardinality(S)
BY DEF Rewards!Cardinality, Cardinality

\* The commission wallet is explained by the rewards and the commission in it, for any
\* number of rewards and workers, however often releases are tried, taken over and reversed.
THEOREM RewardsExplainedTheorem ==
  ASSUME Rewards!RewardAssumption
  PROVE  Rewards!RewardSpec => []RewardsExplained
<1>1. Rewards!RewardInit => RewardInv
  BY RewardsInit
<1>2. RewardInv /\ [Rewards!RewardNext]_(Rewards!rewardVars) => RewardInv'
  BY RewardsNext
<1>3. RewardInv => RewardsExplained
  <2> SUFFICES ASSUME RewardInv PROVE Rewards!WalletExplained
    BY DEF RewardsExplained
  <2>1. \A s : Rewards!Count(s) = CountIn(earned, s) /\ Rewards!CommissionIn(s) = Share(other, s)
    BY RewardsCardinality DEF Rewards!Count, Rewards!CommissionIn, CountIn, In, Share
  <2>2. /\ balance \in WalletRecord
        /\ balance.frozen = Amount * CountIn(earned, "FROZEN") + Share(other, "FROZEN")
        /\ balance.available + balance.settled - balance.recoverable
             = Amount * CountIn(earned, "AVAILABLE") + Share(other, "AVAILABLE")
        /\ balance.recoverable <= balance.settled
    BY DEF RewardInv, Explains
  <2>3. \A b \in DOMAIN balance : balance[b] >= 0
    BY <2>2 DEF WalletRecord
  <2> QED
    BY <2>1, <2>2, <2>3 DEF Rewards!WalletExplained
<1> QED
  BY <1>1, <1>2, <1>3, PTL DEF Rewards!RewardSpec

===============================================================================
