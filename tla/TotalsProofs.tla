---------------------------- MODULE TotalsProofs ----------------------------
(***************************************************************************)
(* The laws of sums over finite sets: of nothing, of one element more or   *)
(* less, of one amount changed, and of part of a set.                      *)
(***************************************************************************)
EXTENDS Totals, FunctionTheorems, FiniteSetTheorems, TLAPS

\* A pair is a unit of its first component.
LEMMA UnitsMember ==
    ASSUME NEW f, NEW S, NEW u
    PROVE  u \in Units(f, S) <=> \E x \in S : \E i \in 1 .. f[x] : u = <<x, i>>
  BY DEF Units

\* An element with amount n has n units.
LEMMA UnitsOfOne ==
    ASSUME NEW x, NEW n \in Nat
    PROVE  IsFiniteSet({x} \X (1 .. n)) /\ Cardinality({x} \X (1 .. n)) = n
  <1>1. IsFiniteSet({x}) /\ Cardinality({x}) = 1
    BY FS_Singleton
  <1>2. IsFiniteSet(1 .. n) /\ Cardinality(1 .. n) = n
    BY FS_Interval
  <1> DEFINE I == 1 .. n
  <1> HIDE DEF I
  <1>3. IsFiniteSet({x} \X I) /\ Cardinality({x} \X I) = Cardinality({x}) * Cardinality(I)
    BY <1>1, <1>2, FS_Product DEF I
  <1>4. QED
    BY <1>1, <1>2, <1>3 DEF I

\* A finite set has finitely many units.
LEMMA UnitsFinite ==
    ASSUME NEW f, NEW S, IsFiniteSet(S), \A x \in S : f[x] \in Nat
    PROVE  IsFiniteSet(Units(f, S)) /\ Total(f, S) \in Nat
  <1> DEFINE P == {{x} \X (1 .. f[x]) : x \in S}
             g == [x \in S |-> {x} \X (1 .. f[x])]
  <1>1. g \in Surjection(S, P)
    BY DEF Surjection
  <1>2. IsFiniteSet(P)
    <2> HIDE DEF g, P
    <2>1. QED
      BY <1>1, FS_Surjection
  <1>3. ASSUME NEW T \in P PROVE IsFiniteSet(T)
    <2>1. PICK x \in S : T = {x} \X (1 .. f[x])
      OBVIOUS
    <2>2. IsFiniteSet({x} \X (1 .. f[x]))
      BY UnitsOfOne
    <2>3. QED
      BY <2>1, <2>2
  <1>4. Units(f, S) = UNION P
    BY DEF Units
  <1> HIDE DEF g, P
  <1>5. IsFiniteSet(UNION P)
    BY <1>2, <1>3, FS_UNION
  <1>6. QED
    BY <1>4, <1>5, FS_CardinalityType DEF Total

\* Nothing adds up to 0.
LEMMA TotalEmpty ==
    ASSUME NEW f PROVE Total(f, {}) = 0
  <1>1. Units(f, {}) = {}
    BY DEF Units
  <1>2. QED
    BY <1>1, FS_EmptySet DEF Total

\* Amounts of 0 add up to 0.
LEMMA TotalZero ==
    ASSUME NEW f, NEW S, \A x \in S : f[x] = 0 PROVE Total(f, S) = 0
  <1>1. \A u : u \notin Units(f, S)
    BY UnitsMember
  <1>2. Units(f, S) = {}
    BY <1>1
  <1>3. QED
    BY <1>2, FS_EmptySet DEF Total

\* Two functions with the same amounts have the same total.
LEMMA TotalSame ==
    ASSUME NEW f, NEW g, NEW S, \A x \in S : f[x] = g[x]
    PROVE  Total(f, S) = Total(g, S)
  <1>1. Units(f, S) = Units(g, S)
    BY DEF Units
  <1>2. QED
    BY <1>1 DEF Total

\* A new element adds its amount.
LEMMA TotalAdd ==
    ASSUME NEW f, NEW S, NEW x, IsFiniteSet(S), x \notin S, f[x] \in Nat,
           \A y \in S : f[y] \in Nat
    PROVE  IsFiniteSet(S \cup {x}) /\ Total(f, S \cup {x}) = Total(f, S) + f[x]
  <1> DEFINE A == Units(f, S)
             B == {x} \X (1 .. f[x])
  <1>1. IsFiniteSet(A) /\ Cardinality(A) \in Nat
    BY UnitsFinite DEF Total
  <1>2. IsFiniteSet(B) /\ Cardinality(B) = f[x]
    BY UnitsOfOne
  <1>3. Units(f, S \cup {x}) = A \cup B
    <2>1. ASSUME NEW u PROVE u \in Units(f, S \cup {x}) <=> u \in A \cup B
      <3>1. u \in B <=> \E i \in 1 .. f[x] : u = <<x, i>>
        OBVIOUS
      <3>2. u \in A <=> \E y \in S : \E i \in 1 .. f[y] : u = <<y, i>>
        BY UnitsMember
      <3>3. u \in Units(f, S \cup {x}) <=> \E y \in S \cup {x} : \E i \in 1 .. f[y] : u = <<y, i>>
        BY UnitsMember
      <3> HIDE DEF A, B
      <3>4. QED
        BY <3>1, <3>2, <3>3
    <2>2. QED
      BY <2>1
  <1>4. A \cap B = {}
    <2>1. ASSUME NEW u, u \in A, u \in B PROVE FALSE
      <3>1. PICK y \in S : \E i \in 1 .. f[y] : u = <<y, i>>
        BY <2>1, UnitsMember
      <3>2. u[1] = y /\ u[1] = x
        BY <2>1, <3>1
      <3>3. QED
        BY <3>2
    <2>2. QED
      BY <2>1
  <1> HIDE DEF A, B
  <1>5. Cardinality(A \cup B) = Cardinality(A) + Cardinality(B) - Cardinality(A \cap B)
    BY <1>1, <1>2, FS_Union
  <1>6. Cardinality(A \cap B) = 0
    BY <1>4, FS_EmptySet
  <1>7. Total(f, S \cup {x}) = Cardinality(A \cup B) /\ Total(f, S) = Cardinality(A)
    BY <1>3 DEF Total, A
  <1>8. IsFiniteSet(S \cup {x})
    BY FS_AddElement
  <1>9. QED
    BY <1>1, <1>2, <1>5, <1>6, <1>7, <1>8

\* An element that leaves takes its amount along.
LEMMA TotalRemove ==
    ASSUME NEW f, NEW S, NEW x \in S, IsFiniteSet(S), \A y \in S : f[y] \in Nat
    PROVE  /\ IsFiniteSet(S \ {x}) /\ Total(f, S \ {x}) \in Nat
           /\ Total(f, S) = Total(f, S \ {x}) + f[x]
  <1> DEFINE R == S \ {x}
  <1>1. IsFiniteSet(R) /\ x \notin R /\ S = R \cup {x} /\ \A y \in R : f[y] \in Nat
    BY FS_RemoveElement
  <1>2. f[x] \in Nat
    OBVIOUS
  <1> HIDE DEF R
  <1>3. Total(f, R \cup {x}) = Total(f, R) + f[x] /\ Total(f, R) \in Nat
    BY <1>1, <1>2, TotalAdd, UnitsFinite
  <1>4. QED
    BY <1>1, <1>3 DEF R

\* An element leaves, and the amounts of the others stay.
LEMMA TotalLeave ==
    ASSUME NEW f, NEW g, NEW S, NEW x \in S, IsFiniteSet(S), \A y \in S : f[y] \in Nat,
           \A y \in S \ {x} : g[y] = f[y]
    PROVE  Total(f, S) = Total(g, S \ {x}) + f[x] /\ Total(g, S \ {x}) \in Nat
  <1>1. Total(f, S) = Total(f, S \ {x}) + f[x] /\ Total(f, S \ {x}) \in Nat
    BY TotalRemove
  <1>2. Total(g, S \ {x}) = Total(f, S \ {x})
    BY TotalSame
  <1>3. QED
    BY <1>1, <1>2

\* When one amount changes, the total changes by as much.
LEMMA TotalUpdate ==
    ASSUME NEW f, NEW g, NEW S, NEW x \in S, IsFiniteSet(S),
           \A y \in S : f[y] \in Nat /\ g[y] \in Nat,
           \A y \in S \ {x} : g[y] = f[y]
    PROVE  Total(g, S) + f[x] = Total(f, S) + g[x]
  <1>1. Total(f, S) = Total(f, S \ {x}) + f[x] /\ Total(f, S \ {x}) \in Nat
    BY TotalRemove
  <1>2. Total(g, S) = Total(g, S \ {x}) + g[x] /\ Total(g, S \ {x}) \in Nat
    BY TotalRemove
  <1>3. Total(f, S \ {x}) = Total(g, S \ {x})
    BY TotalSame
  <1>4. f[x] \in Nat /\ g[x] \in Nat
    OBVIOUS
  <1>5. QED
    BY <1>1, <1>2, <1>3, <1>4

\* An assignment to one entry changes the total by as much.
LEMMA TotalAssign ==
    ASSUME NEW S, IsFiniteSet(S), NEW f \in [S -> Nat], NEW x \in S, NEW v \in Nat
    PROVE  /\ Total([f EXCEPT ![x] = v], S) + f[x] = Total(f, S) + v
           /\ Total([f EXCEPT ![x] = v], S) \in Nat /\ Total(f, S) \in Nat
  <1> DEFINE g == [f EXCEPT ![x] = v]
  <1>1. /\ \A y \in S : f[y] \in Nat /\ g[y] \in Nat
        /\ \A y \in S \ {x} : g[y] = f[y]
        /\ g[x] = v
    OBVIOUS
  <1> HIDE DEF g
  <1>2. Total(g, S) + f[x] = Total(f, S) + g[x]
    BY <1>1, TotalUpdate
  <1>3. Total(g, S) \in Nat /\ Total(f, S) \in Nat
    BY <1>1, UnitsFinite
  <1>4. QED
    BY <1>1, <1>2, <1>3 DEF g

\* Smaller amounts over part of a set add up to no more.
LEMMA TotalBound ==
    ASSUME NEW f, NEW g, NEW S, NEW R \in SUBSET S, IsFiniteSet(S),
           \A y \in S : f[y] \in Nat /\ g[y] \in Nat /\ f[y] <= g[y]
    PROVE  Total(f, R) <= Total(g, S)
  <1>1. Units(f, R) \in SUBSET Units(g, S)
    <2>1. \A y \in R : 1 .. f[y] \subseteq 1 .. g[y]
      OBVIOUS
    <2>2. QED
      BY <2>1 DEF Units
  <1>2. IsFiniteSet(Units(g, S))
    BY UnitsFinite
  <1>3. QED
    BY <1>1, <1>2, FS_Subset DEF Total

\* Two sets without a common element add up separately.
LEMMA TotalUnion ==
    ASSUME NEW f, NEW S, NEW R, IsFiniteSet(S), IsFiniteSet(R), S \cap R = {},
           \A y \in S \cup R : f[y] \in Nat
    PROVE  Total(f, S \cup R) = Total(f, S) + Total(f, R)
  <1> DEFINE A == Units(f, S)
             B == Units(f, R)
  <1>1. IsFiniteSet(A) /\ Cardinality(A) \in Nat /\ IsFiniteSet(B) /\ Cardinality(B) \in Nat
    BY UnitsFinite DEF Total
  <1>2. Units(f, S \cup R) = A \cup B
    BY DEF Units
  <1>3. A \cap B = {}
    <2>1. ASSUME NEW u, u \in A, u \in B PROVE FALSE
      <3>1. PICK y \in S : \E i \in 1 .. f[y] : u = <<y, i>>
        BY <2>1, UnitsMember
      <3>2. PICK z \in R : \E i \in 1 .. f[z] : u = <<z, i>>
        BY <2>1, UnitsMember
      <3>3. u[1] = y /\ u[1] = z
        BY <3>1, <3>2
      <3>4. QED
        BY <3>3
    <2>2. QED
      BY <2>1
  <1> HIDE DEF A, B
  <1>4. Cardinality(A \cup B) = Cardinality(A) + Cardinality(B) - Cardinality(A \cap B)
    BY <1>1, FS_Union
  <1>5. Cardinality(A \cap B) = 0
    BY <1>3, FS_EmptySet
  <1>6. Total(f, S \cup R) = Cardinality(A \cup B)
    BY <1>2 DEF Total
  <1>7. QED
    BY <1>1, <1>4, <1>5, <1>6 DEF Total, A, B

\* Amounts that are only numbered in another way have the same total.
LEMMA TotalReindex ==
    ASSUME NEW f, NEW g, NEW S, NEW R, NEW h \in Bijection(R, S), IsFiniteSet(R),
           \A x \in S : f[x] \in Nat, \A y \in R : g[y] = f[h[y]]
    PROVE  Total(g, R) = Total(f, S)
  <1> DEFINE U == Units(g, R)
             V == Units(f, S)
             b == [u \in U |-> <<h[u[1]], u[2]>>]
  <1>1. /\ h \in [R -> S] /\ \A x, y \in R : h[x] = h[y] => x = y
        /\ \A x \in S : \E y \in R : h[y] = x
    BY DEF Bijection, Injection, Surjection, IsInjective
  <1>2. \A u : (u \in U <=> \E x \in R : \E i \in 1 .. g[x] : u = <<x, i>>)
    BY UnitsMember
  <1>3. \A u : (u \in V <=> \E x \in S : \E i \in 1 .. f[x] : u = <<x, i>>)
    BY UnitsMember
  <1> HIDE DEF U, V
  <1>4. b \in [U -> V]
    <2> SUFFICES ASSUME NEW u \in U PROVE <<h[u[1]], u[2]>> \in V
      OBVIOUS
    <2>1. PICK x \in R : \E i \in 1 .. g[x] : u = <<x, i>>
      BY <1>2
    <2>2. PICK i \in 1 .. g[x] : u = <<x, i>>
      BY <2>1
    <2>3. h[x] \in S /\ g[x] = f[h[x]] /\ u[1] = x /\ u[2] = i
      BY <1>1, <2>2
    <2> QED
      BY <1>3, <2>3
  <1>5. ASSUME NEW u \in U, NEW v \in U, b[u] = b[v] PROVE u = v
    <2>1. \E x \in R : \E i \in 1 .. g[x] : u = <<x, i>>
      BY <1>2
    <2>2. \E x \in R : \E i \in 1 .. g[x] : v = <<x, i>>
      BY <1>2
    <2>3. <<h[u[1]], u[2]>> = <<h[v[1]], v[2]>>
      BY <1>5
    <2> QED
      BY <1>1, <2>1, <2>2, <2>3
  <1>6. ASSUME NEW v \in V PROVE \E u \in U : b[u] = v
    <2>1. PICK x \in S : \E i \in 1 .. f[x] : v = <<x, i>>
      BY <1>3
    <2>2. PICK i \in 1 .. f[x] : v = <<x, i>>
      BY <2>1
    <2>3. PICK y \in R : h[y] = x
      BY <1>1
    <2>4. g[y] = f[x] /\ <<y, i>> \in U
      BY <1>2, <2>3
    <2>5. b[<<y, i>>] = v
      BY <2>2, <2>3, <2>4
    <2> QED
      BY <2>4, <2>5
  <1>7. b \in Bijection(U, V)
    <2> HIDE DEF b
    <2> QED
      BY <1>4, <1>5, <1>6 DEF Bijection, Injection, Surjection, IsInjective
  <1>8. IsFiniteSet(U)
    <2>1. \A y \in R : g[y] \in Nat
      BY <1>1
    <2> QED
      BY <2>1, UnitsFinite DEF U
  <1>9. Cardinality(V) = Cardinality(U)
    BY <1>7, <1>8, FS_Bijection DEF ExistsBijection
  <1>10. QED
    BY <1>9 DEF Total, U, V
=============================================================================
