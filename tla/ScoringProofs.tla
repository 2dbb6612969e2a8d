----------------------------- MODULE ScoringProofs -----------------------------
(* The report is right for every protocol, claim set, truth and file: it      *)
(* passes its own checks, grades every run as its answer deserves, is never   *)
(* above the ceiling, and is what a loader returns or nothing is.  The        *)
(* counting first, then the tables, the rows and the report of one call, what *)
(* each change of a file does to it, and last the invariant of the two calls. *)
EXTENDS Scoring, FiniteSetTheorems, FunctionTheorems, TLAPS

-----------------------------------------------------------------------------
(* Counting *)

\* Every set of naturals that is not empty has a least one.
LEMMA LeastNatural ==
  ASSUME NEW S \in SUBSET Nat, S # {}
  PROVE  \E n \in S : \A m \in S : n <= m
<1>1. PICK n \in S : \A m \in S : ~ (<<m, n>> \in OpToRel(<, Nat))
  <2>1. IsWellFoundedOn(OpToRel(<, Nat), Nat)
    BY NatLessThanWellFounded, Zenon DEF OpToRel
  <2> HIDE DEF OpToRel
  <2>2. QED BY <2>1, WFMin
<1>2. \A m \in S : ~ (m < n)
  BY <1>1 DEF OpToRel
<1>3. QED BY <1>2

\* 1 .. n has n elements.
LEMMA IntervalSize ==
  ASSUME NEW n \in Nat
  PROVE  IsFiniteSet(1 .. n) /\ Cardinality(1 .. n) = n
<1>1. IsFiniteSet(1 .. n) /\ Cardinality(1 .. n) = IF 1 > n THEN 0 ELSE n - 1 + 1
  BY FS_Interval
<1>2. QED BY <1>1

\* Two sets that correspond one to one have as many elements.
LEMMA SameSize ==
  ASSUME NEW S, NEW T, IsFiniteSet(S), NEW f \in [S -> T],
         \A x, y \in S : f[x] = f[y] => x = y, \A t \in T : \E x \in S : f[x] = t
  PROVE  IsFiniteSet(T) /\ Cardinality(T) = Cardinality(S)
<1>1. f \in Bijection(S, T)
  BY Fun_IsBij
<1>2. ExistsBijection(S, T)
  BY <1>1 DEF ExistsBijection
<1>3. QED BY <1>2, FS_Bijection

\* What a sum of natural numbers counts: f[x] units of every x.
Units(f, s) == {u \in s \X Nat : 1 <= u[2] /\ u[2] <= f[u[1]]}

\* One more element adds as many units as its number.
LEMMA UnitsOfOneMore ==
  ASSUME NEW f, NEW s, NEW x \in s, f[x] \in Nat, IsFiniteSet(Units(f, s \ {x}))
  PROVE  /\ IsFiniteSet(Units(f, s))
         /\ Cardinality(Units(f, s)) = f[x] + Cardinality(Units(f, s \ {x}))
<1> DEFINE own == {x} \X (1 .. f[x])
           rest == Units(f, s \ {x})
<1>1. /\ Units(f, s) = rest \cup own
      /\ rest \cap own = {}
  <2>1. \A u : u \in own <=> u \in s \X Nat /\ u[1] = x /\ 1 <= u[2] /\ u[2] <= f[x]
    OBVIOUS
  <2>2. \A u : u \in rest <=> u \in s \X Nat /\ u[1] # x /\ 1 <= u[2] /\ u[2] <= f[u[1]]
    BY DEF Units
  <2>3. \A u : u \in Units(f, s) <=> u \in s \X Nat /\ 1 <= u[2] /\ u[2] <= f[u[1]]
    BY DEF Units
  <2> HIDE DEF own, rest
  <2>4. QED BY <2>1, <2>2, <2>3
<1>2. IsFiniteSet(1 .. f[x]) /\ Cardinality(1 .. f[x]) = f[x]
  BY IntervalSize
<1>3. IsFiniteSet({x}) /\ Cardinality({x}) = 1
  BY FS_Singleton
<1>4. IsFiniteSet(own) /\ Cardinality(own) = f[x]
  <2>1. Cardinality(own) = Cardinality({x}) * Cardinality(1 .. f[x])
    BY <1>2, <1>3, FS_Product
  <2>2. IsFiniteSet(own)
    BY <1>2, <1>3, FS_Product
  <2> HIDE DEF own
  <2>3. QED BY <1>2, <1>3, <2>1, <2>2
<1>5. IsFiniteSet(rest) /\ Cardinality(rest) \in Nat
  BY FS_CardinalityType
<1> HIDE DEF own, rest
<1>6. IsFiniteSet(rest \cup own) /\ Cardinality(rest \cup own) = Cardinality(rest) + Cardinality(own) - Cardinality(rest \cap own)
  BY <1>4, <1>5, FS_Union
<1>7. Cardinality(rest \cap own) = 0
  BY <1>1, FS_EmptySet
<1>8. Cardinality(rest \cup own) = f[x] + Cardinality(rest)
  BY <1>4, <1>5, <1>6, <1>7
<1>9. QED BY <1>1, <1>6, <1>8 DEF rest

\* A finite set with a natural number for each element has finitely many units.
LEMMA UnitsAreFinite ==
  ASSUME NEW f, NEW S, IsFiniteSet(S), \A x \in S : f[x] \in Nat
  PROVE  \A s \in SUBSET S : IsFiniteSet(Units(f, s))
<1> DEFINE Bad == {n \in Nat : \E s \in SUBSET S : Cardinality(s) = n /\ ~ IsFiniteSet(Units(f, s))}
<1>1. \A s \in SUBSET S : IsFiniteSet(s) /\ Cardinality(s) \in Nat
  BY FS_Subset, FS_CardinalityType
<1>2. SUFFICES ASSUME Bad # {} PROVE FALSE
  BY <1>1
<1>3. PICK n \in Bad : \A m \in Bad : n <= m
  <2> HIDE DEF Bad
  <2>1. Bad \in SUBSET Nat
    BY DEF Bad
  <2>2. QED BY <1>2, <2>1, LeastNatural
<1>4. PICK s \in SUBSET S : Cardinality(s) = n /\ ~ IsFiniteSet(Units(f, s))
  BY <1>3
<1>5. s # {}
  <2>1. Units(f, {}) = {}
    BY DEF Units
  <2>2. QED BY <1>4, <2>1, FS_EmptySet
<1>6. PICK x \in s : TRUE
  BY <1>5
<1>7. Cardinality(s \ {x}) = n - 1 /\ n \in Nat
  BY <1>1, <1>4, FS_RemoveElement
<1>8. IsFiniteSet(Units(f, s \ {x}))
  <2>1. n - 1 \notin Bad
    BY <1>3, <1>7
  <2>2. n - 1 \in Nat
    BY <1>1, <1>7
  <2>3. QED BY <1>7, <2>1, <2>2
<1>9. f[x] \in Nat
  OBVIOUS
<1>10. IsFiniteSet(Units(f, s))
  BY <1>8, <1>9, UnitsOfOneMore
<1>11. QED BY <1>4, <1>10

\* The recursion that adds up f.
Adds(f, g) ==
  g = [s \in SUBSET DOMAIN f |->
        IF s = {} THEN 0 ELSE f[CHOOSE x \in s : TRUE] + g[s \ {CHOOSE x \in s : TRUE}]]

\* The sum is the value, on the whole domain, of the function that removes one element after another.
LEMMA SumIsChosen ==
  ASSUME NEW f
  PROVE  Sum(f) = (CHOOSE g : Adds(f, g))[DOMAIN f]
BY DEF Sum, MapThenSumSet, MapThenFoldSet, Adds

\* A sum of naturals is the number of its units.
LEMMA SumCountsUnits ==
  ASSUME NEW f, IsFiniteSet(DOMAIN f), \A x \in DOMAIN f : f[x] \in Nat
  PROVE  Sum(f) = Cardinality(Units(f, DOMAIN f))
<1> DEFINE S == DOMAIN f
           g == [s \in SUBSET S |-> Cardinality(Units(f, s))]
           pick(s) == CHOOSE x \in s : TRUE
<1>1. \A s \in SUBSET S : IsFiniteSet(s) /\ Cardinality(s) \in Nat
  BY FS_Subset, FS_CardinalityType
<1>2. \A s \in SUBSET S : s # {} => pick(s) \in s /\ pick(s) \in S /\ s \ {pick(s)} \in SUBSET S
  OBVIOUS
<1>3. Cardinality(Units(f, {})) = 0
  <2>1. Units(f, {}) = {}
    BY DEF Units
  <2>2. QED BY <2>1, FS_EmptySet
<1>4. \A s \in SUBSET S : s # {} => Cardinality(Units(f, s)) = f[pick(s)] + Cardinality(Units(f, s \ {pick(s)}))
  <2>1. SUFFICES ASSUME NEW s \in SUBSET S, s # {}
                 PROVE  Cardinality(Units(f, s)) = f[pick(s)] + Cardinality(Units(f, s \ {pick(s)}))
    OBVIOUS
  <2>2. pick(s) \in s /\ f[pick(s)] \in Nat /\ IsFiniteSet(Units(f, s \ {pick(s)}))
    BY <1>2, <2>1, UnitsAreFinite
  <2> HIDE DEF pick
  <2>3. QED BY <2>2, UnitsOfOneMore
<1>5. Adds(f, g)
  <2>1. \A s \in SUBSET S : g[s] = IF s = {} THEN 0 ELSE f[pick(s)] + g[s \ {pick(s)}]
    BY <1>2, <1>3, <1>4
  <2> DEFINE h == [s \in SUBSET S |-> IF s = {} THEN 0 ELSE f[pick(s)] + g[s \ {pick(s)}]]
  <2>2. g = h
    <3>1. \A s \in SUBSET S : g[s] = h[s]
      BY <2>1
    <3>2. g = [s \in SUBSET S |-> g[s]] /\ h = [s \in SUBSET S |-> h[s]]
      OBVIOUS
    <3> HIDE DEF g, h
    <3>3. QED BY <3>1, <3>2
  <2>3. QED BY <2>2 DEF Adds
<1>6. ASSUME NEW k, Adds(f, k) PROVE k[S] = g[S]
  <2> DEFINE Bad == {n \in Nat : \E s \in SUBSET S : Cardinality(s) = n /\ k[s] # g[s]}
  <2>1. \A s \in SUBSET S : k[s] = IF s = {} THEN 0 ELSE f[pick(s)] + k[s \ {pick(s)}]
    BY <1>6 DEF Adds
  <2>2. \A s \in SUBSET S : g[s] = IF s = {} THEN 0 ELSE f[pick(s)] + g[s \ {pick(s)}]
    BY <1>5 DEF Adds
  <2>3. ASSUME Bad # {} PROVE FALSE
    <3>1. PICK n \in Bad : \A m \in Bad : n <= m
      <4> HIDE DEF Bad
      <4>1. Bad \in SUBSET Nat
        BY DEF Bad
      <4>2. QED BY <2>3, <4>1, LeastNatural
    <3>2. PICK s \in SUBSET S : Cardinality(s) = n /\ k[s] # g[s]
      BY <3>1
    <3>3. s # {}
      BY <2>1, <2>2, <3>2
    <3> HIDE DEF g
    <3>4. pick(s) \in s /\ s \ {pick(s)} \in SUBSET S /\ k[s \ {pick(s)}] # g[s \ {pick(s)}]
      BY <1>2, <2>1, <2>2, <3>2, <3>3
    <3> HIDE DEF pick
    <3>5. Cardinality(s \ {pick(s)}) = n - 1 /\ n \in Nat
      BY <1>1, <3>2, <3>4, FS_RemoveElement
    <3>6. n - 1 \in Nat
      BY <1>1, <3>4, <3>5
    <3>7. n - 1 \in Bad
      BY <3>4, <3>5, <3>6
    <3>8. QED BY <3>1, <3>5, <3>7
  <2>4. Cardinality(S) \notin Bad
    BY <2>3
  <2>5. QED BY <1>1, <2>4
<1>7. Adds(f, CHOOSE k : Adds(f, k))
  BY <1>5, Zenon
<1>8. Sum(f) = g[S]
  BY <1>6, <1>7, SumIsChosen
<1>9. QED BY <1>8

\* The union of the sets of a family.
Joined(A, S) == UNION {A[x] : x \in S}

\* Where f counts the members of disjoint sets, its sum counts their union.
LEMMA SumCounts ==
  ASSUME NEW S, IsFiniteSet(S), NEW A, NEW f, DOMAIN f = S,
         \A x \in S : IsFiniteSet(A[x]) /\ f[x] = Cardinality(A[x]),
         \A x, y \in S : x # y => A[x] \cap A[y] = {}
  PROVE  Sum(f) = Cardinality(Joined(A, S))
<1> DEFINE U == UNION {A[x] : x \in S}
           number == [x \in S |-> CHOOSE h : h \in Bijection(1 .. f[x], A[x])]
           h == [u \in Units(f, S) |-> number[u[1]][u[2]]]
<1>1. \A x \in S : f[x] \in Nat
  BY FS_CardinalityType
<1>2. \A x \in S : number[x] \in Bijection(1 .. f[x], A[x])
  <2>1. \A x \in S : ExistsBijection(1 .. f[x], A[x])
    BY FS_CardinalityType
  <2>2. QED BY <2>1 DEF ExistsBijection
<1>3. \A x \in S : /\ \A k \in 1 .. f[x] : number[x][k] \in A[x]
                   /\ \A k, m \in 1 .. f[x] : number[x][k] = number[x][m] => k = m
                   /\ \A a \in A[x] : \E k \in 1 .. f[x] : number[x][k] = a
  <2> SUFFICES ASSUME NEW x \in S
               PROVE  /\ \A k \in 1 .. f[x] : number[x][k] \in A[x]
                      /\ \A k, m \in 1 .. f[x] : number[x][k] = number[x][m] => k = m
                      /\ \A a \in A[x] : \E k \in 1 .. f[x] : number[x][k] = a
    OBVIOUS
  <2>1. number[x] \in Bijection(1 .. f[x], A[x])
    BY <1>2
  <2> HIDE DEF number
  <2>2. QED BY <2>1, Zenon DEF Bijection, Injection, Surjection, IsInjective
<1> HIDE DEF number
<1>4. \A u \in Units(f, S) : u[1] \in S /\ u[2] \in 1 .. f[u[1]] /\ u = <<u[1], u[2]>>
  BY <1>1 DEF Units
<1>5. \A x \in S, k \in Nat : k \in 1 .. f[x] => <<x, k>> \in Units(f, S)
  BY <1>1 DEF Units
<1>6. h \in [Units(f, S) -> U]
  BY <1>3, <1>4
<1>7. ASSUME NEW u \in Units(f, S), NEW v \in Units(f, S), h[u] = h[v] PROVE u = v
  <2>1. h[u] \in A[u[1]] /\ h[v] \in A[v[1]]
    BY <1>3, <1>4
  <2>2. u[1] = v[1]
    BY <1>4, <1>7, <2>1
  <2>3. u[2] = v[2]
    BY <1>3, <1>4, <1>7, <2>2
  <2>4. QED BY <1>4, <2>2, <2>3
<1>8. ASSUME NEW a \in U PROVE \E u \in Units(f, S) : h[u] = a
  <2>1. PICK x \in S : a \in A[x]
    OBVIOUS
  <2>2. PICK k \in 1 .. f[x] : number[x][k] = a
    BY <1>3, <2>1
  <2>3. <<x, k>> \in Units(f, S)
    BY <1>1, <1>5, <2>2
  <2>4. h[<<x, k>>] = a
    BY <2>2, <2>3
  <2>5. QED BY <2>3, <2>4
<1>9. IsFiniteSet(Units(f, S))
  BY <1>1, UnitsAreFinite
<1> HIDE DEF h, U
<1>10. IsFiniteSet(U) /\ Cardinality(U) = Cardinality(Units(f, S))
  <2> DEFINE V == Units(f, S)
  <2>1. h \in [V -> U] /\ IsFiniteSet(V)
    BY <1>6, <1>9
  <2>2. \A u, v \in V : h[u] = h[v] => u = v
    BY <1>7
  <2>3. \A a \in U : \E u \in V : h[u] = a
    BY <1>8
  <2> HIDE DEF V
  <2>4. IsFiniteSet(U) /\ Cardinality(U) = Cardinality(V)
    BY <2>1, <2>2, <2>3, SameSize
  <2>5. QED BY <2>4 DEF V
<1>11. Sum(f) = Cardinality(Units(f, S))
  BY <1>1, SumCountsUnits
<1>12. QED BY <1>10, <1>11 DEF U, Joined

\* R is a strict total order of S.
Orders(R, S) ==
  /\ \A x \in S : <<x, x>> \notin R
  /\ \A x, y \in S : x # y => <<x, y>> \in R \/ <<y, x>> \in R
  /\ \A x, y, z \in S : <<x, y>> \in R /\ <<y, z>> \in R => <<x, z>> \in R

\* q lists every element of S once.
Enumerates(q, S) ==
  /\ q \in [1 .. Cardinality(S) -> S]
  /\ \A i, j \in 1 .. Cardinality(S) : q[i] = q[j] => i = j
  /\ \A x \in S : \E i \in 1 .. Cardinality(S) : q[i] = x

\* InOrder lists every element once, in the order of the relation.
LEMMA InOrderEnumerates ==
  ASSUME NEW S, IsFiniteSet(S), NEW R, Orders(R, S)
  PROVE  /\ Enumerates(InOrder(S, R), S)
         /\ \A i, j \in 1 .. Cardinality(S) :
              i < j => <<InOrder(S, R)[i], InOrder(S, R)[j]>> \in R
<1> DEFINE N == Cardinality(S)
           below(x) == {y \in S : <<y, x>> \in R}
           place == [x \in S |-> Cardinality(below(x)) + 1]
           q == [n \in 1 .. N |-> CHOOSE x \in S : place[x] = n]
<1>1. N \in Nat
  BY FS_CardinalityType
<1>2. InOrder(S, R) = q
  BY DEF InOrder
<1>3. \A x \in S : /\ below(x) \subseteq S \ {x} /\ IsFiniteSet(below(x))
                   /\ Cardinality(below(x)) \in Nat /\ Cardinality(below(x)) <= N - 1
  <2>1. SUFFICES ASSUME NEW x \in S
                 PROVE  /\ below(x) \subseteq S \ {x} /\ IsFiniteSet(below(x))
                        /\ Cardinality(below(x)) \in Nat /\ Cardinality(below(x)) <= N - 1
    OBVIOUS
  <2>2. below(x) \subseteq S \ {x}
    BY DEF Orders
  <2>3. IsFiniteSet(S \ {x}) /\ Cardinality(S \ {x}) = N - 1
    BY FS_RemoveElement
  <2> DEFINE B == below(x)
             T == S \ {x}
  <2>4. IsFiniteSet(B) /\ Cardinality(B) <= N - 1
    <3>1. B \in SUBSET T /\ IsFiniteSet(T) /\ Cardinality(T) = N - 1
      BY <2>2, <2>3
    <3> HIDE DEF B, T, N, below
    <3>2. IsFiniteSet(B) /\ Cardinality(B) <= Cardinality(T)
      BY <3>1, FS_Subset
    <3>3. QED BY <3>1, <3>2
  <2>5. Cardinality(B) \in Nat
    BY <2>4, FS_CardinalityType
  <2> HIDE DEF N
  <2>6. QED BY <2>2, <2>4, <2>5
<1>4. ASSUME NEW x \in S, NEW y \in S, <<x, y>> \in R PROVE place[x] < place[y]
  <2>1. below(x) \cup {x} \subseteq below(y) /\ x \notin below(x)
    BY <1>4 DEF Orders
  <2>2. Cardinality(below(x) \cup {x}) = Cardinality(below(x)) + 1
    BY <1>3, <2>1, FS_AddElement
  <2>3. Cardinality(below(x) \cup {x}) <= Cardinality(below(y))
    BY <1>3, <2>1, FS_Subset
  <2>4. Cardinality(below(x)) \in Nat /\ Cardinality(below(y)) \in Nat
    BY <1>3
  <2>5. place[x] = Cardinality(below(x)) + 1 /\ place[y] = Cardinality(below(y)) + 1
    OBVIOUS
  <2> HIDE DEF below, place
  <2>6. QED BY <2>2, <2>3, <2>4, <2>5
<1>5. \A x \in S : place[x] \in 1 .. N
  <2>1. \A x \in S : place[x] = Cardinality(below(x)) + 1
    OBVIOUS
  <2> HIDE DEF below, place
  <2>2. QED BY <1>1, <1>3, <2>1
<1>6. place \in [S -> 1 .. N]
  BY <1>5
<1> HIDE DEF place, N
<1>7. \A x, y \in S : place[x] = place[y] => x = y
  <2>1. SUFFICES ASSUME NEW x \in S, NEW y \in S, place[x] = place[y], x # y PROVE FALSE
    OBVIOUS
  <2>2. <<x, y>> \in R \/ <<y, x>> \in R
    BY <2>1 DEF Orders
  <2>3. place[x] < place[y] \/ place[y] < place[x]
    BY <1>4, <2>2
  <2>4. place[x] \in Int /\ place[y] \in Int
    BY <1>1, <1>5
  <2>5. QED BY <2>1, <2>3, <2>4
<1>8. \A n \in 1 .. N : \E x \in S : place[x] = n
  <2>1. place \in Injection(S, 1 .. N)
    BY <1>6, <1>7, Fun_IsInj
  <2>2. IsFiniteSet(1 .. N) /\ Cardinality(1 .. N) = Cardinality(S)
    BY <1>1, IntervalSize DEF N
  <2>3. place \in Surjection(S, 1 .. N)
    BY <2>1, <2>2, FS_Injection
  <2>4. QED BY <2>3, Zenon DEF Surjection
<1>9. \A n \in 1 .. N : q[n] \in S /\ place[q[n]] = n
  BY <1>8
<1>10. \A x \in S : q[place[x]] = x
  BY <1>5, <1>7, <1>9
<1>11. q \in [1 .. N -> S]
  BY <1>9
<1> HIDE DEF q
<1>12. \A i, j \in 1 .. N : i < j => <<q[i], q[j]>> \in R
  <2>1. SUFFICES ASSUME NEW i \in 1 .. N, NEW j \in 1 .. N, i < j PROVE <<q[i], q[j]>> \in R
    OBVIOUS
  <2>2. q[i] \in S /\ q[j] \in S /\ place[q[i]] = i /\ place[q[j]] = j
    BY <1>9
  <2>3. q[i] # q[j]
    BY <2>1, <2>2
  <2>4. ~ (<<q[j], q[i]>> \in R)
    <3>1. ~ (place[q[j]] < place[q[i]])
      BY <1>1, <2>1, <2>2
    <3>2. QED BY <1>4, <2>2, <3>1
  <2>5. QED BY <2>2, <2>3, <2>4 DEF Orders
<1>13. Enumerates(q, S)
  <2>1. \A i, j \in 1 .. N : q[i] = q[j] => i = j
    BY <1>9
  <2>2. \A x \in S : \E i \in 1 .. N : q[i] = x
    BY <1>5, <1>10
  <2>3. QED BY <1>11, <2>1, <2>2 DEF Enumerates, N
<1>14. QED BY <1>2, <1>12, <1>13 DEF N

\* The indices at which a list has a member of T.
At(list, S, T) == {i \in S : list[i] \in T}

\* As many indices of an enumeration as elements have a property.
LEMMA EnumeratedCount ==
  ASSUME NEW S, IsFiniteSet(S), NEW q, Enumerates(q, S), NEW T, T \subseteq S
  PROVE  /\ IsFiniteSet(At(q, 1 .. Cardinality(S), T))
         /\ Cardinality(At(q, 1 .. Cardinality(S), T)) = Cardinality(T)
<1> DEFINE I == {i \in 1 .. Cardinality(S) : q[i] \in T}
           f == [i \in I |-> q[i]]
<1>1. Cardinality(S) \in Nat
  BY FS_CardinalityType
<1>2. IsFiniteSet(1 .. Cardinality(S))
  BY <1>1, IntervalSize
<1>3. IsFiniteSet(I)
  BY <1>2, FS_Subset
<1>4. f \in [I -> T] /\ (\A i, j \in I : f[i] = f[j] => i = j) /\ (\A x \in T : \E i \in I : f[i] = x)
  BY DEF Enumerates
<1> HIDE DEF I, f
<1>5. Cardinality(T) = Cardinality(I)
  BY <1>3, <1>4, SameSize
<1>6. QED BY <1>3, <1>5 DEF I, At

-----------------------------------------------------------------------------
(* Tables *)

\* The cell of a row or of a case.
CellOf(r) == <<r.view, r.template>>

\* Rows as a table takes them, and as many in every cell as the protocol has cases.
Tabular(list) ==
  /\ IsFiniteSet(DOMAIN list)
  /\ \A i \in DOMAIN list :
       CellOf(list[i]) \in Cells /\ list[i].category \in Categories /\ ValidRow(list[i])

\* The list has as many rows in every cell as the protocol says.
Measured(list) ==
  \A c \in Cells : Cardinality({i \in DOMAIN list : CellOf(list[i]) = c}) = CellSize[c[1]]

\* The rows of a dimension whose category is among some.
Counted(list, d, some) ==
  {i \in DOMAIN list : Matches(CellOf(list[i]), d) /\ list[i].category \in some}

\* There are finitely many categories.
LEMMA CategoriesFinite ==
  ASSUME NEW some \in SUBSET Categories
  PROVE  IsFiniteSet(some)
<1>1. Categories = {"failed_ambiguous"} \cup {"correct_abstention"} \cup {"wrong_reason_abstention"}
        \cup {"decisive_on_ambiguous"} \cup {"failed_identifiable"} \cup {"missed_identifiable"}
        \cup {"exact_decisive"} \cup {"wrong_witness"} \cup {"wrong_target"}
  BY DEF Categories, AmbiguousCategories, IdentifiableCategories
<1>2. \A x : IsFiniteSet({x})
  BY FS_Singleton
<1>3. IsFiniteSet({"failed_ambiguous"} \cup {"correct_abstention"} \cup {"wrong_reason_abstention"})
  BY <1>2, FS_Union
<1>4. IsFiniteSet({"failed_ambiguous"} \cup {"correct_abstention"} \cup {"wrong_reason_abstention"}
        \cup {"decisive_on_ambiguous"} \cup {"failed_identifiable"} \cup {"missed_identifiable"})
  BY <1>2, <1>3, FS_Union
<1>5. IsFiniteSet(Categories)
  BY <1>1, <1>2, <1>4, FS_Union
<1>6. QED BY <1>5, FS_Subset

\* The three parts of a table.
LEMMA TableIsRecord ==
  ASSUME NEW list, NEW d
  PROVE  /\ \A c \in Categories : Table(list, d).counts[c] = Cardinality(Counted(list, d, {c}))
         /\ \A f \in Failures : Table(list, d).failures[f]
                = Cardinality({i \in DOMAIN list : Matches(CellOf(list[i]), d) /\ list[i].failure = f})
         /\ DOMAIN Table(list, d).counts = Categories /\ DOMAIN Table(list, d).failures = Failures
         /\ Table(list, d).metrics = Metrics(Table(list, d).counts)
<1> DEFINE selected == {i \in DOMAIN list : Matches(<<list[i].view, list[i].template>>, d)}
<1>1. \A c : Counted(list, d, {c}) = {i \in selected : list[i].category = c}
  BY DEF Counted, CellOf
<1>2. \A f : {i \in DOMAIN list : Matches(CellOf(list[i]), d) /\ list[i].failure = f}
                = {i \in selected : list[i].failure = f}
  BY DEF CellOf
<1>3. /\ Table(list, d).counts = [c \in Categories |-> Cardinality({i \in selected : list[i].category = c})]
      /\ Table(list, d).failures = [f \in Failures |-> Cardinality({i \in selected : list[i].failure = f})]
      /\ Table(list, d).metrics = Metrics(Table(list, d).counts)
  BY DEF Table
<1> HIDE DEF selected
<1>4. QED BY <1>1, <1>2, <1>3

\* The total of some categories counts the selected rows of those categories.
LEMMA TotalCounts ==
  ASSUME NEW list, Tabular(list), NEW d, NEW some \in SUBSET Categories
  PROVE  /\ Total(Table(list, d).counts, some) = Cardinality(Counted(list, d, some))
         /\ IsFiniteSet(Counted(list, d, some)) /\ Cardinality(Counted(list, d, some)) \in Nat
<1> DEFINE A == [c \in some |-> Counted(list, d, {c})]
           f == [c \in some |-> Table(list, d).counts[c]]
<1>1. \A t : IsFiniteSet(Counted(list, d, t))
  <2>1. \A t : Counted(list, d, t) \subseteq DOMAIN list
    BY DEF Counted
  <2>2. QED BY <2>1, FS_Subset DEF Tabular
<1>2. \A c \in some : IsFiniteSet(A[c]) /\ f[c] = Cardinality(A[c])
  <2> SUFFICES ASSUME NEW c \in some PROVE IsFiniteSet(A[c]) /\ f[c] = Cardinality(A[c])
    OBVIOUS
  <2>1. A[c] = Counted(list, d, {c}) /\ f[c] = Table(list, d).counts[c] /\ c \in Categories
    OBVIOUS
  <2> HIDE DEF A, f
  <2>2. Table(list, d).counts[c] = Cardinality(Counted(list, d, {c}))
    BY <2>1, TableIsRecord
  <2>3. QED BY <1>1, <2>1, <2>2
<1>3. \A b, c \in some : b # c => A[b] \cap A[c] = {}
  BY DEF Counted
<1>4. Joined(A, some) = Counted(list, d, some)
  BY DEF Counted, Joined
<1>5. DOMAIN f = some /\ IsFiniteSet(some)
  BY CategoriesFinite
<1>6. Total(Table(list, d).counts, some) = Sum(f)
  BY DEF Total
<1> HIDE DEF A, f
<1>7. Sum(f) = Cardinality(Joined(A, some))
  BY <1>2, <1>3, <1>5, SumCounts
<1>8. QED BY <1>1, <1>4, <1>6, <1>7, FS_CardinalityType

\* The failure counts of a table add up to its rows that failed.
LEMMA FailuresCount ==
  ASSUME NEW list, Tabular(list), NEW d
  PROVE  Sum(Table(list, d).failures) = Cardinality(Counted(list, d, FailedCategories))
<1> DEFINE of(f) == {i \in DOMAIN list : Matches(CellOf(list[i]), d) /\ list[i].failure = f}
           A == [f \in Failures |-> of(f)]
           g == Table(list, d).failures
<1>1. \A f : IsFiniteSet(of(f))
  <2>1. \A f : of(f) \subseteq DOMAIN list
    OBVIOUS
  <2>2. QED BY <2>1, FS_Subset DEF Tabular
<1>2. \A f \in Failures : IsFiniteSet(A[f]) /\ g[f] = Cardinality(A[f])
  <2>1. \A f \in Failures : g[f] = Cardinality(of(f))
    BY TableIsRecord
  <2>2. \A f \in Failures : A[f] = of(f)
    OBVIOUS
  <2> HIDE DEF of, g, A
  <2>3. QED BY <1>1, <2>1, <2>2
<1>3. \A e, f \in Failures : e # f => A[e] \cap A[f] = {}
  OBVIOUS
<1>4. Joined(A, Failures) = {i \in DOMAIN list : Matches(CellOf(list[i]), d) /\ list[i].failure \in Failures}
  BY DEF Joined
<1>5. {i \in DOMAIN list : Matches(CellOf(list[i]), d) /\ list[i].failure \in Failures}
        = Counted(list, d, FailedCategories)
  BY DEF Counted, Tabular, ValidRow
<1>6. DOMAIN g = Failures /\ IsFiniteSet(Failures)
  BY TableIsRecord, ScoreTablesAssumption
<1> HIDE DEF A, g
<1>7. Sum(g) = Cardinality(Joined(A, Failures))
  BY <1>2, <1>3, <1>6, SumCounts
<1>8. QED BY <1>4, <1>5, <1>7 DEF g

\* A list has finitely many elements.
LEMMA RangeOfListFinite ==
  ASSUME NEW T, NEW q \in Seq(T), NEW R, R = Range(q)
  PROVE  IsFiniteSet(R)
<1>1. Len(q) \in Nat /\ DOMAIN q = 1 .. Len(q)
  OBVIOUS
<1>2. q \in [1 .. Len(q) -> R] /\ \A x \in R : \E i \in 1 .. Len(q) : q[i] = x
  BY <1>1 DEF Range
<1>3. q \in Surjection(1 .. Len(q), R)
  BY <1>2, Fun_IsSurj
<1>4. IsFiniteSet(1 .. Len(q))
  BY <1>1, IntervalSize
<1>5. QED BY <1>3, <1>4, FS_Surjection

\* There are finitely many views, templates and cells.
LEMMA CellsFinite == IsFiniteSet(Views) /\ IsFiniteSet(Templates) /\ IsFiniteSet(Cells)
<1>1. IsFiniteSet(Views)
  BY RangeOfListFinite, ScoreTablesAssumption DEF Views
<1>2. IsFiniteSet(Templates)
  BY RangeOfListFinite, ScoreTablesAssumption DEF Templates
<1>3. QED BY <1>1, <1>2, FS_Product DEF Cells

\* Rows measured as the protocol says are as many as the protocol says, in any set of cells.
LEMMA CellsCount ==
  ASSUME NEW list, IsFiniteSet(DOMAIN list), Measured(list), NEW cells \in SUBSET Cells
  PROVE  Cases(cells) = Cardinality({i \in DOMAIN list : CellOf(list[i]) \in cells})
<1> DEFINE A == [c \in cells |-> {i \in DOMAIN list : CellOf(list[i]) = c}]
           f == [c \in cells |-> CellSize[c[1]]]
<1>1. \A c \in cells : IsFiniteSet(A[c]) /\ f[c] = Cardinality(A[c])
  <2>1. \A c \in cells : A[c] \subseteq DOMAIN list
    OBVIOUS
  <2>2. \A c \in cells : IsFiniteSet(A[c])
    BY <2>1, FS_Subset
  <2>3. QED BY <2>2 DEF Measured
<1>2. \A b, c \in cells : b # c => A[b] \cap A[c] = {}
  OBVIOUS
<1>3. Joined(A, cells) = {i \in DOMAIN list : CellOf(list[i]) \in cells}
  BY DEF Joined
<1>4. DOMAIN f = cells /\ IsFiniteSet(cells)
  BY CellsFinite, FS_Subset
<1>5. Cases(cells) = Sum(f)
  BY DEF Cases
<1> HIDE DEF A, f
<1>6. Sum(f) = Cardinality(Joined(A, cells))
  BY <1>1, <1>2, <1>4, SumCounts
<1>7. QED BY <1>3, <1>5, <1>6

\* A table of measured rows passes ScoreSlice.validate, in every dimension.
LEMMA TableIsValid ==
  ASSUME NEW list, Tabular(list), Measured(list), NEW d
  PROVE  ValidTable(Table(list, d), d)
<1>1. FailedCategories \subseteq Categories
  BY DEF FailedCategories, Categories, AmbiguousCategories, IdentifiableCategories
<1>2. Sum(Table(list, d).failures) = Total(Table(list, d).counts, FailedCategories)
  BY <1>1, FailuresCount, TotalCounts
<1>3. Total(Table(list, d).counts, Categories) = Cardinality(Counted(list, d, Categories))
  BY TotalCounts
<1>4. Expected(d) = Cardinality({i \in DOMAIN list : CellOf(list[i]) \in {c \in Cells : Matches(c, d)}})
  BY CellsCount DEF Expected, Tabular
<1>5. {i \in DOMAIN list : CellOf(list[i]) \in {c \in Cells : Matches(c, d)}} = Counted(list, d, Categories)
  BY DEF Counted, Tabular
<1>6. QED BY <1>2, <1>3, <1>4, <1>5, TableIsRecord DEF ValidTable

\* A dimension whose cells are those of its parts, each in one.
Splits(whole, parts) ==
  /\ parts \subseteq Dimensions /\ IsFiniteSet(parts)
  /\ \A c \in Cells : Matches(c, whole) <=> \E p \in parts : Matches(c, p)
  /\ \A c \in Cells : \A p, q \in parts : Matches(c, p) /\ Matches(c, q) => p = q

\* A table over a dimension that others divide is their sum.
LEMMA PartsAddUp ==
  ASSUME NEW list, Tabular(list), NEW whole \in Dimensions, NEW parts, Splits(whole, parts)
  PROVE  /\ \A c \in Categories : Table(list, whole).counts[c] = Sum([p \in parts |-> Table(list, p).counts[c]])
         /\ \A f \in Failures : Table(list, whole).failures[f] = Sum([p \in parts |-> Table(list, p).failures[f]])
<1>1. ASSUME NEW c \in Categories
      PROVE  Table(list, whole).counts[c] = Sum([p \in parts |-> Table(list, p).counts[c]])
  <2> DEFINE A == [p \in parts |-> Counted(list, p, {c})]
             g == [p \in parts |-> Table(list, p).counts[c]]
  <2>1. \A p \in parts : A[p] \subseteq DOMAIN list
    BY DEF Counted
  <2>2. \A p \in parts : IsFiniteSet(A[p]) /\ g[p] = Cardinality(A[p])
    <3>1. \A p \in parts : IsFiniteSet(A[p])
      BY <2>1, FS_Subset DEF Tabular
    <3>2. \A p : Table(list, p).counts[c] = Cardinality(Counted(list, p, {c}))
      BY TableIsRecord
    <3>3. QED BY <3>1, <3>2
  <2>3. \A p, q \in parts : p # q => A[p] \cap A[q] = {}
    BY DEF Counted, Splits, Tabular
  <2>4. Joined(A, parts) = Counted(list, whole, {c})
    BY DEF Counted, Splits, Tabular, Joined
  <2>5. DOMAIN g = parts /\ IsFiniteSet(parts)
    BY DEF Splits
  <2> HIDE DEF A, g
  <2>6. Sum(g) = Cardinality(Joined(A, parts))
    BY <2>2, <2>3, <2>5, SumCounts
  <2>7. Sum(g) = Table(list, whole).counts[c]
    <3>1. Table(list, whole).counts[c] = Cardinality(Counted(list, whole, {c}))
      BY TableIsRecord
    <3>2. QED BY <2>4, <2>6, <3>1
  <2>8. QED BY <2>7 DEF g
<1>2. ASSUME NEW f \in Failures
      PROVE  Table(list, whole).failures[f] = Sum([p \in parts |-> Table(list, p).failures[f]])
  <2> DEFINE of(p) == {i \in DOMAIN list : Matches(CellOf(list[i]), p) /\ list[i].failure = f}
             A == [p \in parts |-> of(p)]
             g == [p \in parts |-> Table(list, p).failures[f]]
  <2>1. \A p \in parts : A[p] \subseteq DOMAIN list
    OBVIOUS
  <2>2. \A p \in parts : IsFiniteSet(A[p]) /\ g[p] = Cardinality(A[p])
    BY <2>1, TableIsRecord, FS_Subset DEF Tabular
  <2>3. \A p, q \in parts : p # q => A[p] \cap A[q] = {}
    BY DEF Splits, Tabular
  <2>4. Joined(A, parts) = of(whole)
    BY DEF Splits, Tabular, Joined
  <2>5. DOMAIN g = parts /\ IsFiniteSet(parts)
    BY DEF Splits
  <2> HIDE DEF A, g
  <2>6. Sum(g) = Cardinality(Joined(A, parts))
    BY <2>2, <2>3, <2>5, SumCounts
  <2>7. Sum(g) = Table(list, whole).failures[f]
    BY <2>4, <2>6, TableIsRecord
  <2>8. QED BY <2>7 DEF g
<1>3. QED BY <1>1, <1>2

\* How the dimensions of the four additivity checks divide.
LEMMA DimensionsSplit ==
  /\ Splits(<<All, All>>, Views \X {All}) /\ Splits(<<All, All>>, {All} \X Templates)
  /\ \A v \in Views : Splits(<<v, All>>, {v} \X Templates)
  /\ \A t \in Templates : Splits(<<All, t>>, Views \X {t})
<1> USE ScoreTablesAssumption
<1>1. \A x, S : IsFiniteSet(S) => IsFiniteSet({x} \X S) /\ IsFiniteSet(S \X {x})
  BY FS_Product, FS_Singleton
<1>2. IsFiniteSet(Views \X {All}) /\ IsFiniteSet({All} \X Templates)
  BY <1>1, CellsFinite
<1>3. \A v, t : IsFiniteSet({v} \X Templates) /\ IsFiniteSet(Views \X {t})
  BY <1>1, CellsFinite
<1>a. \A c \in Cells : c[1] \in Views /\ c[2] \in Templates /\ c[1] # All /\ c[2] # All
  BY DEF Cells
<1>b. \A c, x, y : Matches(c, <<x, y>>) <=> (x = All \/ x = c[1]) /\ (y = All \/ y = c[2])
  BY DEF Matches
<1>c. \A S, T : \A p \in S \X T : p[1] \in S /\ p[2] \in T /\ p = <<p[1], p[2]>>
  OBVIOUS
<1>d. \A S, T, x, y : x \in S /\ y \in T => <<x, y>> \in S \X T
  OBVIOUS
<1>e. /\ Views \X {All} \subseteq Dimensions /\ {All} \X Templates \subseteq Dimensions
      /\ \A v \in Views : {v} \X Templates \subseteq Dimensions
      /\ \A t \in Templates : Views \X {t} \subseteq Dimensions
  BY DEF Dimensions
<1>4. Splits(<<All, All>>, Views \X {All})
  <2> DEFINE parts == Views \X {All}
  <2>1. ASSUME NEW c \in Cells
        PROVE  /\ Matches(c, <<All, All>>) /\ Matches(c, <<c[1], All>>) /\ <<c[1], All>> \in parts
               /\ \A p \in parts : Matches(c, p) => p = <<c[1], All>>
    BY <1>a, <1>b
  <2> HIDE DEF parts
  <2>2. \A c \in Cells : Matches(c, <<All, All>>) <=> \E p \in parts : Matches(c, p)
    BY <2>1
  <2>3. \A c \in Cells : \A p, q \in parts : Matches(c, p) /\ Matches(c, q) => p = q
    BY <2>1
  <2>4. QED BY <1>2, <1>e, <2>2, <2>3 DEF Splits, parts
<1>5. Splits(<<All, All>>, {All} \X Templates)
  <2> DEFINE parts == {All} \X Templates
  <2>1. ASSUME NEW c \in Cells
        PROVE  /\ Matches(c, <<All, All>>) /\ Matches(c, <<All, c[2]>>) /\ <<All, c[2]>> \in parts
               /\ \A p \in parts : Matches(c, p) => p = <<All, c[2]>>
    BY <1>a, <1>b
  <2> HIDE DEF parts
  <2>2. \A c \in Cells : Matches(c, <<All, All>>) <=> \E p \in parts : Matches(c, p)
    BY <2>1
  <2>3. \A c \in Cells : \A p, q \in parts : Matches(c, p) /\ Matches(c, q) => p = q
    BY <2>1
  <2>4. QED BY <1>2, <1>e, <2>2, <2>3 DEF Splits, parts
<1>6. ASSUME NEW v \in Views PROVE Splits(<<v, All>>, {v} \X Templates)
  <2> DEFINE parts == {v} \X Templates
  <2>1. ASSUME NEW c \in Cells
        PROVE  /\ Matches(c, <<v, All>>) => Matches(c, <<v, c[2]>>) /\ <<v, c[2]>> \in parts
               /\ \A p \in parts : Matches(c, p) => p = <<v, c[2]>> /\ Matches(c, <<v, All>>)
    BY <1>a, <1>b
  <2> HIDE DEF parts
  <2>2. \A c \in Cells : Matches(c, <<v, All>>) <=> \E p \in parts : Matches(c, p)
    BY <2>1
  <2>3. \A c \in Cells : \A p, q \in parts : Matches(c, p) /\ Matches(c, q) => p = q
    BY <2>1
  <2>4. QED BY <1>3, <1>e, <2>2, <2>3 DEF Splits, parts
<1>7. ASSUME NEW t \in Templates PROVE Splits(<<All, t>>, Views \X {t})
  <2> DEFINE parts == Views \X {t}
  <2>1. ASSUME NEW c \in Cells
        PROVE  /\ Matches(c, <<All, t>>) => Matches(c, <<c[1], t>>) /\ <<c[1], t>> \in parts
               /\ \A p \in parts : Matches(c, p) => p = <<c[1], t>> /\ Matches(c, <<All, t>>)
    <3>1. <<c[1], t>> \in parts
      BY <1>a
    <3>2. Matches(c, <<All, t>>) => Matches(c, <<c[1], t>>)
      BY <1>a, <1>b
    <3>3. \A p \in parts : p = <<p[1], t>>
      OBVIOUS
    <3>4. t # All
      BY DEF Templates
    <3>5. ASSUME NEW p \in parts, Matches(c, p) PROVE p = <<c[1], t>> /\ Matches(c, <<All, t>>)
      <4>1. p[1] \in Views /\ p = <<p[1], t>>
        BY <3>3
      <4>2. Matches(c, <<p[1], t>>) /\ p[1] # All
        BY <4>1, <3>5 DEF Views
      <4>3. p[1] = c[1] /\ t = c[2]
        BY <4>2, <1>b, <3>4
      <4>4. QED BY <4>1, <4>3, <1>b
    <3>6. QED BY <3>1, <3>2, <3>5
  <2> HIDE DEF parts
  <2>2. \A c \in Cells : Matches(c, <<All, t>>) <=> \E p \in parts : Matches(c, p)
    BY <2>1
  <2>3. \A c \in Cells : \A p, q \in parts : Matches(c, p) /\ Matches(c, q) => p = q
    BY <2>1
  <2>4. QED BY <1>3, <1>e, <2>2, <2>3 DEF Splits, parts
<1>8. QED BY <1>4, <1>5, <1>6, <1>7

\* So tables built from rows are always valid.
AddUp(tables, whole, parts) ==
  /\ \A c \in Categories : tables[whole].counts[c] = Sum([p \in parts |-> tables[p].counts[c]])
  /\ \A f \in Failures : tables[whole].failures[f] = Sum([p \in parts |-> tables[p].failures[f]])

\* The tables of measured rows pass _validate_report_methods' checks of slices and additivity.
LEMMA TablesAreValid ==
  ASSUME NEW list, Tabular(list), Measured(list)
  PROVE  ValidTables(Tables(list))
<1>1. \A d \in Dimensions : Tables(list)[d] = Table(list, d)
  BY DEF Tables
<1>2. \A d \in Dimensions : ValidTable(Tables(list)[d], d)
  BY <1>1, TableIsValid
<1>3. ASSUME NEW whole \in Dimensions, NEW parts, Splits(whole, parts)
      PROVE  AddUp(Tables(list), whole, parts)
  <2>1. parts \subseteq Dimensions
    BY <1>3 DEF Splits
  <2>2. ASSUME NEW c \in Categories
        PROVE  [p \in parts |-> Tables(list)[p].counts[c]] = [p \in parts |-> Table(list, p).counts[c]]
    BY <1>1, <2>1
  <2>3. ASSUME NEW f \in Failures
        PROVE  [p \in parts |-> Tables(list)[p].failures[f]] = [p \in parts |-> Table(list, p).failures[f]]
    BY <1>1, <2>1
  <2>4. QED BY <1>1, <1>3, <2>2, <2>3, PartsAddUp DEF AddUp
<1>4. /\ <<All, All>> \in Dimensions
      /\ \A v \in Views : <<v, All>> \in Dimensions
      /\ \A t \in Templates : <<All, t>> \in Dimensions
  BY DEF Dimensions
<1>5. Additive(Tables(list))
  <2>1. /\ AddUp(Tables(list), <<All, All>>, Views \X {All})
        /\ AddUp(Tables(list), <<All, All>>, {All} \X Templates)
    BY <1>3, <1>4, DimensionsSplit
  <2>2. \A v \in Views : AddUp(Tables(list), <<v, All>>, {v} \X Templates)
    BY <1>3, <1>4, DimensionsSplit
  <2>3. \A t \in Templates : AddUp(Tables(list), <<All, t>>, Views \X {t})
    BY <1>3, <1>4, DimensionsSplit
  <2>4. QED BY <2>1, <2>2, <2>3 DEF Additive, AddUp
<1>6. QED BY <1>2, <1>5 DEF ValidTables

\* Rows whose class is that of their view.
Apart(list) ==
  \A i \in DOMAIN list :
    list[i].category \in AmbiguousCategories <=> list[i].view \in AmbiguousViews

\* The cells of a dimension in the ambiguous class, and in the other.
CellsUnder(d) == {c \in Cells : Matches(c, d)}
AmbiguousUnder(d) == {c \in CellsUnder(d) : c[1] \in AmbiguousViews}

\* The categories of full credit.
Full == {"correct_abstention", "exact_decisive"}

\* The truth's own answers, as rows.
Best(list) == \A i \in DOMAIN list : list[i].category \in Full

\* How the sets of categories lie in one another.
LEMMA CategorySets ==
  /\ AmbiguousCategories \subseteq Categories /\ IdentifiableCategories \subseteq Categories
  /\ AmbiguousCategories \cap IdentifiableCategories = {}
  /\ FailedCategories \subseteq Categories /\ FalseCategories \subseteq Categories
  /\ DecisiveCategories \subseteq Categories
  /\ Full \subseteq Categories /\ Full \cap FailedCategories = {}
  /\ "correct_abstention" \in AmbiguousCategories /\ "exact_decisive" \in IdentifiableCategories
BY DEF AmbiguousCategories, IdentifiableCategories, Categories, FailedCategories, FalseCategories,
       DecisiveCategories, Full

\* What a case class counts does not depend on the answers.
LEMMA ClassCounts ==
  ASSUME NEW list, Tabular(list), Measured(list), Apart(list), NEW d
  PROVE  /\ Cardinality(Counted(list, d, AmbiguousCategories)) = Cases(AmbiguousUnder(d))
         /\ Cardinality(Counted(list, d, IdentifiableCategories)) = Cases(CellsUnder(d) \ AmbiguousUnder(d))
         /\ Cardinality(Counted(list, d, Categories)) = Cases(CellsUnder(d))
<1>1. AmbiguousUnder(d) \subseteq Cells /\ CellsUnder(d) \subseteq Cells
  BY DEF AmbiguousUnder, CellsUnder
<1>2. \A i \in DOMAIN list : CellOf(list[i])[1] = list[i].view
  BY DEF CellOf
<1>3. {i \in DOMAIN list : CellOf(list[i]) \in AmbiguousUnder(d)} = Counted(list, d, AmbiguousCategories)
  BY <1>2 DEF Counted, AmbiguousUnder, CellsUnder, Apart, Tabular
<1>4. {i \in DOMAIN list : CellOf(list[i]) \in CellsUnder(d) \ AmbiguousUnder(d)}
        = Counted(list, d, IdentifiableCategories)
  <2>1. \A i \in DOMAIN list : list[i].category \in IdentifiableCategories
                                 <=> list[i].category \notin AmbiguousCategories
    BY CategorySets DEF Tabular, Categories
  <2>2. QED BY <1>2, <2>1 DEF Counted, AmbiguousUnder, CellsUnder, Apart, Tabular
<1>5. {i \in DOMAIN list : CellOf(list[i]) \in CellsUnder(d)} = Counted(list, d, Categories)
  BY DEF Counted, CellsUnder, Tabular
<1>6. CellsUnder(d) \ AmbiguousUnder(d) \subseteq Cells
  BY <1>1
<1>7. IsFiniteSet(DOMAIN list)
  BY DEF Tabular
<1>8. QED BY <1>1, <1>3, <1>4, <1>5, <1>6, <1>7, CellsCount

\* Numerators and denominators of the metrics.
LEMMA MetricsFields ==
  ASSUME NEW counts
  PROVE  LET n(some) == Total(counts, some)
             r == Metrics(counts)
         IN  /\ r["decisive_coverage"].numerator = n(DecisiveCategories)
             /\ r["decisive_coverage"].denominator = n(Categories)
             /\ r["false_certainty_risk"].numerator = n(FalseCategories)
             /\ r["false_certainty_risk"].denominator = n(DecisiveCategories)
             /\ r["false_certainty_incidence"].numerator = n(FalseCategories)
             /\ r["false_certainty_incidence"].denominator = n(Categories)
             /\ r["ambiguity_false_certainty"].denominator = n(AmbiguousCategories)
             /\ r["correct_abstention"].numerator = n({"correct_abstention"})
             /\ r["correct_abstention"].denominator = n(AmbiguousCategories)
             /\ r["exact_target_family"].numerator = n({"exact_decisive", "wrong_witness"})
             /\ r["exact_target_family"].denominator = n(IdentifiableCategories)
             /\ r["exact_minimal_witness"].numerator = n({"exact_decisive"})
             /\ r["exact_minimal_witness"].denominator = n(IdentifiableCategories)
BY DEF Metrics, Rate

\* A method's table against the ceiling's.
Below(mine, top) ==
  /\ \A x \in MetricNames \ {"false_certainty_risk"} : mine[x].denominator = top[x].denominator
  /\ \A x \in {"correct_abstention", "exact_target_family", "exact_minimal_witness"} :
       mine[x].numerator <= top[x].numerator
  /\ mine["false_certainty_risk"].denominator = mine["decisive_coverage"].numerator
  /\ mine["false_certainty_risk"].numerator = mine["false_certainty_incidence"].numerator

\* No method's table beats the table of rows that all get full credit.
LEMMA NeverBeatsCeiling ==
  ASSUME NEW list, Tabular(list), Measured(list), Apart(list),
         NEW best, Tabular(best), Measured(best), Apart(best), Best(best), NEW d
  PROVE  Below(Table(list, d).metrics, Table(best, d).metrics)
<1> DEFINE mine == Table(list, d).counts
           top == Table(best, d).counts
<1>1. /\ Table(list, d).metrics = Metrics(mine) /\ Table(best, d).metrics = Metrics(top)
  BY TableIsRecord
<1>2. \A some \in SUBSET Categories :
        /\ Total(mine, some) = Cardinality(Counted(list, d, some)) /\ IsFiniteSet(Counted(list, d, some))
        /\ Total(top, some) = Cardinality(Counted(best, d, some)) /\ IsFiniteSet(Counted(best, d, some))
  BY TotalCounts
<1>3. \A some \in SUBSET Categories, more \in SUBSET Categories :
        some \subseteq more => Total(mine, some) <= Total(mine, more)
  <2>1. \A some, more : some \subseteq more => Counted(list, d, some) \subseteq Counted(list, d, more)
    BY DEF Counted
  <2>2. QED BY <1>2, <2>1, FS_Subset
<1>4. /\ Total(mine, AmbiguousCategories) = Total(top, AmbiguousCategories)
      /\ Total(mine, IdentifiableCategories) = Total(top, IdentifiableCategories)
      /\ Total(mine, Categories) = Total(top, Categories)
  <2>1. Categories \in SUBSET Categories /\ AmbiguousCategories \in SUBSET Categories
          /\ IdentifiableCategories \in SUBSET Categories
    BY CategorySets
  <2>2. /\ Cardinality(Counted(list, d, AmbiguousCategories)) = Cases(AmbiguousUnder(d))
        /\ Cardinality(Counted(list, d, IdentifiableCategories)) = Cases(CellsUnder(d) \ AmbiguousUnder(d))
        /\ Cardinality(Counted(list, d, Categories)) = Cases(CellsUnder(d))
    BY ClassCounts
  <2>3. /\ Cardinality(Counted(best, d, AmbiguousCategories)) = Cases(AmbiguousUnder(d))
        /\ Cardinality(Counted(best, d, IdentifiableCategories)) = Cases(CellsUnder(d) \ AmbiguousUnder(d))
        /\ Cardinality(Counted(best, d, Categories)) = Cases(CellsUnder(d))
    BY ClassCounts
  <2> HIDE DEF mine, top
  <2>4. Total(mine, AmbiguousCategories) = Total(top, AmbiguousCategories)
    BY <1>2, <2>1, <2>2, <2>3
  <2>5. Total(mine, IdentifiableCategories) = Total(top, IdentifiableCategories)
    BY <1>2, <2>1, <2>2, <2>3
  <2>6. Total(mine, Categories) = Total(top, Categories)
    BY <1>2, <2>1, <2>2, <2>3
  <2>7. QED BY <2>4, <2>5, <2>6
<1>5. /\ Counted(best, d, {"correct_abstention"}) = Counted(best, d, AmbiguousCategories)
      /\ Counted(best, d, {"exact_decisive"}) = Counted(best, d, IdentifiableCategories)
      /\ Counted(best, d, {"exact_decisive", "wrong_witness"}) = Counted(best, d, IdentifiableCategories)
  <2>1. \A i \in DOMAIN best : best[i].category \in {"correct_abstention", "exact_decisive"}
    BY DEF Best, Full
  <2>2. QED BY <2>1, CategorySets DEF Counted, AmbiguousCategories, IdentifiableCategories
<1>6. /\ {"correct_abstention"} \in SUBSET Categories /\ {"exact_decisive"} \in SUBSET Categories
      /\ {"exact_decisive", "wrong_witness"} \in SUBSET Categories
      /\ AmbiguousCategories \in SUBSET Categories /\ IdentifiableCategories \in SUBSET Categories
      /\ {"correct_abstention"} \subseteq AmbiguousCategories
      /\ {"exact_decisive"} \subseteq IdentifiableCategories
      /\ {"exact_decisive", "wrong_witness"} \subseteq IdentifiableCategories
  BY DEF AmbiguousCategories, IdentifiableCategories, Categories
<1>7. /\ Total(mine, {"correct_abstention"}) <= Total(top, {"correct_abstention"})
      /\ Total(mine, {"exact_decisive"}) <= Total(top, {"exact_decisive"})
      /\ Total(mine, {"exact_decisive", "wrong_witness"}) <= Total(top, {"exact_decisive", "wrong_witness"})
  <2>1. /\ Total(top, {"correct_abstention"}) = Total(top, AmbiguousCategories)
        /\ Total(top, {"exact_decisive"}) = Total(top, IdentifiableCategories)
        /\ Total(top, {"exact_decisive", "wrong_witness"}) = Total(top, IdentifiableCategories)
    BY <1>2, <1>5, <1>6
  <2>2. /\ Total(mine, {"correct_abstention"}) <= Total(mine, AmbiguousCategories)
        /\ Total(mine, {"exact_decisive"}) <= Total(mine, IdentifiableCategories)
        /\ Total(mine, {"exact_decisive", "wrong_witness"}) <= Total(mine, IdentifiableCategories)
    BY <1>3, <1>6
  <2>3. QED BY <1>4, <2>1, <2>2
<1> HIDE DEF mine, top
<1>8. Below(Metrics(mine), Metrics(top))
  BY <1>4, <1>7, MetricsFields DEF Below, MetricNames
<1>9. QED BY <1>1, <1>8

-----------------------------------------------------------------------------
(* The ceiling *)

\* Where all rows get full credit, every other category and every failure counts zero.
LEMMA NoneAreZero ==
  ASSUME NEW list, Tabular(list), Best(list), NEW d
  PROVE  /\ \A c \in Categories \ Full : Table(list, d).counts[c] = 0
         /\ \A f \in Failures : Table(list, d).failures[f] = 0
         /\ Sum(Table(list, d).failures) = 0
<1>1. \A c \in Categories \ Full : Counted(list, d, {c}) = {}
  BY DEF Counted, Best
<1>2. Counted(list, d, FailedCategories) = {}
  BY CategorySets DEF Counted, Best
<1>3. \A f \in Failures : {i \in DOMAIN list : Matches(CellOf(list[i]), d) /\ list[i].failure = f} = {}
  BY CategorySets DEF Best, Tabular, ValidRow
<1>4. Cardinality({}) = 0
  BY FS_EmptySet
<1>5. \A c \in Categories \ Full : Table(list, d).counts[c] = 0
  <2>1. \A c \in Categories : Table(list, d).counts[c] = Cardinality(Counted(list, d, {c}))
    BY TableIsRecord
  <2>2. QED BY <1>1, <1>4, <2>1
<1>6. \A f \in Failures : Table(list, d).failures[f] = 0
  BY <1>3, <1>4, TableIsRecord
<1>7. Sum(Table(list, d).failures) = 0
  BY <1>2, <1>4, FailuresCount
<1>8. QED BY <1>5, <1>6, <1>7

\* The tables of rows that all get full credit pass OracleReport.validate.
LEMMA BestIsCeiling ==
  ASSUME NEW list, Tabular(list), Measured(list), Apart(list), Best(list)
  PROVE  ValidCeiling(Tables(list), Macros(Tables(list)))
<1>1. ValidTables(Tables(list))
  BY TablesAreValid
<1>2. ASSUME NEW d \in Dimensions
      PROVE  /\ \A c \in Categories \ Full : Tables(list)[d].counts[c] = 0
             /\ Sum(Tables(list)[d].failures) = 0
             /\ Tables(list)[d].counts["correct_abstention"] = Cases(AmbiguousUnder(d))
             /\ Tables(list)[d].counts["exact_decisive"] = Cases(CellsUnder(d)) - Cases(AmbiguousUnder(d))
  <2>1. Tables(list)[d] = Table(list, d)
    BY DEF Tables
  <2>2. /\ Table(list, d).counts["correct_abstention"] = Cardinality(Counted(list, d, {"correct_abstention"}))
        /\ Table(list, d).counts["exact_decisive"] = Cardinality(Counted(list, d, {"exact_decisive"}))
    BY TableIsRecord, CategorySets DEF Full
  <2>3. /\ Counted(list, d, {"correct_abstention"}) = Counted(list, d, AmbiguousCategories)
        /\ Counted(list, d, {"exact_decisive"}) = Counted(list, d, IdentifiableCategories)
    <3>1. \A i \in DOMAIN list : list[i].category \in {"correct_abstention", "exact_decisive"}
      BY DEF Best, Full
    <3>2. QED BY <3>1 DEF Counted, AmbiguousCategories, IdentifiableCategories
  <2>4. Cases(CellsUnder(d)) - Cases(AmbiguousUnder(d)) = Cardinality(Counted(list, d, IdentifiableCategories))
    <3> DEFINE A == Counted(list, d, AmbiguousCategories)
               B == Counted(list, d, IdentifiableCategories)
    <3>1. Counted(list, d, Categories) = A \cup B /\ A \cap B = {}
      BY CategorySets DEF Counted, Categories
    <3>2. IsFiniteSet(A) /\ IsFiniteSet(B)
      BY CategorySets, TotalCounts
    <3> HIDE DEF A, B
    <3>3. Cardinality(A \cup B) = Cardinality(A) + Cardinality(B) - Cardinality(A \cap B)
      BY <3>2, FS_Union
    <3>4. Cardinality(A) \in Nat /\ Cardinality(B) \in Nat /\ Cardinality(A \cap B) = 0
      BY <3>1, <3>2, FS_CardinalityType, FS_EmptySet
    <3>5. Cases(CellsUnder(d)) = Cardinality(A \cup B) /\ Cases(AmbiguousUnder(d)) = Cardinality(A)
      BY <3>1, ClassCounts DEF A
    <3>6. Cases(CellsUnder(d)) - Cases(AmbiguousUnder(d)) = Cardinality(B)
      BY <3>3, <3>4, <3>5
    <3>7. QED BY <3>6 DEF B
  <2>5. /\ \A c \in Categories \ Full : Table(list, d).counts[c] = 0
        /\ Sum(Table(list, d).failures) = 0
    BY NoneAreZero
  <2>6. Table(list, d).counts["correct_abstention"] = Cases(AmbiguousUnder(d))
    BY <2>2, <2>3, ClassCounts
  <2>7. Table(list, d).counts["exact_decisive"] = Cases(CellsUnder(d)) - Cases(AmbiguousUnder(d))
    BY <2>2, <2>3, <2>4
  <2>8. QED BY <2>1, <2>5, <2>6, <2>7
<1>3. QED BY <1>1, <1>2 DEF ValidCeiling, Full, CellsUnder, AmbiguousUnder

\* And only the truth's own answers make it: two lists the ceiling's check accepts have
\* the same tables.
LEMMA CeilingIsOne ==
  ASSUME NEW list, Tabular(list), NEW best, Tabular(best),
         ValidCeiling(Tables(list), Macros(Tables(list))), ValidCeiling(Tables(best), Macros(Tables(best)))
  PROVE  Tables(list) = Tables(best)
<1>1. ASSUME NEW d \in Dimensions PROVE Table(list, d) = Table(best, d)
  <2> DEFINE a == Table(list, d)
             b == Table(best, d)
  <2>1. Tables(list)[d] = a /\ Tables(best)[d] = b
    BY DEF Tables
  <2>2. \A c \in Categories : a.counts[c] = b.counts[c]
    <3> DEFINE under == {c \in Cells : Matches(c, d)}
               abstained == Cases({c \in under : c[1] \in AmbiguousViews})
    <3>1. /\ \A c \in Categories \ {"correct_abstention", "exact_decisive"} : a.counts[c] = 0
          /\ a.counts["correct_abstention"] = abstained
          /\ a.counts["exact_decisive"] = Cases(under) - abstained
      <4> HIDE DEF a, b
      <4>1. QED BY <2>1 DEF ValidCeiling
    <3>2. /\ \A c \in Categories \ {"correct_abstention", "exact_decisive"} : b.counts[c] = 0
          /\ b.counts["correct_abstention"] = abstained
          /\ b.counts["exact_decisive"] = Cases(under) - abstained
      <4> HIDE DEF a, b
      <4>1. QED BY <2>1 DEF ValidCeiling
    <3> HIDE DEF under, abstained, a, b
    <3>3. QED BY <3>1, <3>2
  <2>3. a.counts = [c \in Categories |-> a.counts[c]] /\ b.counts = [c \in Categories |-> b.counts[c]]
    BY DEF Table
  <2>4. a.counts = b.counts
    <3> HIDE DEF a, b
    <3>1. [c \in Categories |-> a.counts[c]] = [c \in Categories |-> b.counts[c]]
      BY <2>2
    <3>2. QED BY <2>3, <3>1
  <2>5. ASSUME NEW any, Tabular(any), ValidCeiling(Tables(any), Macros(Tables(any)))
        PROVE  \A f \in Failures : Table(any, d).failures[f] = 0
    <3>1. Sum(Table(any, d).failures) = 0
      BY <2>5 DEF ValidCeiling, Tables
    <3>2. Cardinality(Counted(any, d, FailedCategories)) = 0
      BY <2>5, <3>1, FailuresCount
    <3>3. IsFiniteSet(Counted(any, d, FailedCategories))
      BY <2>5, CategorySets, TotalCounts
    <3>4. Counted(any, d, FailedCategories) = {}
      BY <3>2, <3>3, FS_EmptySet
    <3>5. \A f \in Failures : {i \in DOMAIN any : Matches(CellOf(any[i]), d) /\ any[i].failure = f} = {}
      BY <2>5, <3>4 DEF Counted, Tabular, ValidRow
    <3>6. QED BY <3>5, TableIsRecord, FS_EmptySet
  <2>6. \A f \in Failures : a.failures[f] = b.failures[f]
    BY <2>5
  <2>7. a.failures = [f \in Failures |-> a.failures[f]] /\ b.failures = [f \in Failures |-> b.failures[f]]
    BY DEF Table
  <2>8. a.failures = b.failures
    <3> HIDE DEF a, b
    <3>1. [f \in Failures |-> a.failures[f]] = [f \in Failures |-> b.failures[f]]
      BY <2>6
    <3>2. QED BY <2>7, <3>1
  <2>9. /\ a = [counts |-> a.counts, failures |-> a.failures, metrics |-> Metrics(a.counts)]
        /\ b = [counts |-> b.counts, failures |-> b.failures, metrics |-> Metrics(b.counts)]
    BY DEF Table
  <2> HIDE DEF a, b
  <2>10. a = b
    BY <2>4, <2>8, <2>9
  <2>11. QED BY <2>10 DEF a, b
<1>2. QED BY <1>1 DEF Tables

-----------------------------------------------------------------------------
(* Places in the rows of all methods: the n-th case of the k-th method *)

\* Where the rows hold the n-th case of the k-th method, and which case and method a place holds.
Spot(k, n) == (k - 1) * CaseCount + n
MethodAt(i) == (i - 1) \div CaseCount + 1
CaseAt(i) == ((i - 1) % CaseCount) + 1

\* Quotient and remainder of a place in the list of rows.
LEMMA Divided ==
  ASSUME NEW c \in Nat \ {0}, NEW q \in Nat, NEW r \in 0 .. c - 1
  PROVE  (q * c + r) \div c = q /\ (q * c + r) % c = r
<1> DEFINE a == q * c + r
           p == a \div c
           s == a % c
<1>1. a \in Nat
  OBVIOUS
<1>2. p \in Int /\ s \in 0 .. c - 1 /\ a = c * p + s
  BY <1>1
<1>3. q * c + r = c * p + s
  BY <1>2
<1> HIDE DEF a, p, s
<1>4. q = p
  <2>1. CASE q < p
    <3>1. q + 1 <= p
      BY <1>2, <2>1
    <3>2. (q + 1) * c <= p * c
      BY <1>2, <3>1
    <3>3. q * c + c <= c * p
      BY <1>2, <3>2
    <3>4. QED BY <1>2, <1>3, <3>3
  <2>2. CASE p < q
    <3>1. p + 1 <= q
      BY <1>2, <2>2
    <3>2. (p + 1) * c <= q * c
      BY <1>2, <3>1
    <3>3. c * p + c <= q * c
      BY <1>2, <3>2
    <3>4. QED BY <1>2, <1>3, <3>3
  <2>3. QED BY <1>2, <2>1, <2>2
<1>5. s = r
  <2>1. q * c = c * p
    BY <1>2, <1>4
  <2>2. QED BY <1>2, <1>3, <2>1
<1>6. QED BY <1>4, <1>5 DEF p, s, a

\* The place of a method's case, and the method and the case of a place, undo each other.
LEMMA Spots ==
  ASSUME CaseCount \in Nat \ {0}, MethodCount \in Nat \ {0}
  PROVE  /\ \A k \in 1 .. MethodCount, n \in 1 .. CaseCount :
              /\ Spot(k, n) \in 1 .. MethodCount * CaseCount
              /\ MethodAt(Spot(k, n)) = k /\ CaseAt(Spot(k, n)) = n
         /\ \A i \in 1 .. MethodCount * CaseCount :
              /\ MethodAt(i) \in 1 .. MethodCount /\ CaseAt(i) \in 1 .. CaseCount
              /\ i = Spot(MethodAt(i), CaseAt(i))
<1>1. ASSUME NEW k \in 1 .. MethodCount, NEW n \in 1 .. CaseCount
      PROVE  /\ Spot(k, n) \in 1 .. MethodCount * CaseCount
             /\ MethodAt(Spot(k, n)) = k /\ CaseAt(Spot(k, n)) = n
  <2>1. k - 1 \in Nat /\ n - 1 \in 0 .. CaseCount - 1
    OBVIOUS
  <2>2. Spot(k, n) - 1 = (k - 1) * CaseCount + (n - 1)
    BY DEF Spot
  <2>3. /\ ((k - 1) * CaseCount + (n - 1)) \div CaseCount = k - 1
        /\ ((k - 1) * CaseCount + (n - 1)) % CaseCount = n - 1
    BY <2>1, Divided
  <2>4. (k - 1) * CaseCount \in Nat /\ (k - 1) * CaseCount + CaseCount = k * CaseCount
    BY <2>1
  <2>5. k * CaseCount <= MethodCount * CaseCount
    OBVIOUS
  <2>6. Spot(k, n) \in 1 .. MethodCount * CaseCount
    BY <2>4, <2>5 DEF Spot
  <2>7. (Spot(k, n) - 1) \div CaseCount = k - 1 /\ (Spot(k, n) - 1) % CaseCount = n - 1
    BY <2>2, <2>3, Zenon
  <2>8. MethodAt(Spot(k, n)) = (k - 1) + 1 /\ CaseAt(Spot(k, n)) = (n - 1) + 1
    BY <2>7, Zenon DEF MethodAt, CaseAt
  <2>9. (k - 1) + 1 = k /\ (n - 1) + 1 = n
    OBVIOUS
  <2>10. QED BY <2>6, <2>8, <2>9
<1>2. ASSUME NEW i \in 1 .. MethodCount * CaseCount
      PROVE  /\ MethodAt(i) \in 1 .. MethodCount /\ CaseAt(i) \in 1 .. CaseCount
             /\ i = Spot(MethodAt(i), CaseAt(i))
  <2> DEFINE q == (i - 1) \div CaseCount
             r == (i - 1) % CaseCount
  <2>1. i - 1 \in Nat /\ i - 1 < MethodCount * CaseCount
    OBVIOUS
  <2>2. q \in Int /\ r \in 0 .. CaseCount - 1 /\ i - 1 = CaseCount * q + r
    BY <2>1
  <2> HIDE DEF q, r
  <2>3. q >= 0
    <3>1. SUFFICES ASSUME q <= -1 PROVE FALSE
      BY <2>2
    <3>2. CaseCount * q <= CaseCount * (-1)
      BY <2>2, <3>1
    <3>3. QED BY <2>1, <2>2, <3>2
  <2>4. q < MethodCount
    <3>1. SUFFICES ASSUME MethodCount <= q PROVE FALSE
      BY <2>2
    <3>2. CaseCount * MethodCount <= CaseCount * q
      BY <2>2, <3>1
    <3>3. CaseCount * MethodCount = MethodCount * CaseCount
      OBVIOUS
    <3>4. QED BY <2>1, <2>2, <3>2, <3>3
  <2>5. MethodAt(i) = q + 1 /\ CaseAt(i) = r + 1
    BY DEF MethodAt, CaseAt, q, r
  <2>6. Spot(q + 1, r + 1) = q * CaseCount + (r + 1)
    BY <2>2, <2>3 DEF Spot
  <2>7. CaseCount * q = q * CaseCount
    BY <2>2
  <2>8. QED BY <2>2, <2>3, <2>4, <2>5, <2>6, <2>7
<1>3. QED BY <1>1, <1>2

\* The next place is the next case of the same method, or the first one of the next.
LEMMA NextSpot ==
  ASSUME CaseCount \in Nat \ {0}, NEW k \in Nat \ {0}, NEW n \in 1 .. CaseCount
  PROVE  Spot(k, n) + 1 = IF n < CaseCount THEN Spot(k, n + 1) ELSE Spot(k + 1, 1)
<1>1. (k - 1) * CaseCount + CaseCount = k * CaseCount
  OBVIOUS
<1>2. QED BY <1>1 DEF Spot

-----------------------------------------------------------------------------
(* The order of the truth *)

\* In a list without repetition the position of an element is where it stands.
LEMMA Positions ==
  ASSUME NEW T, NEW list \in Seq(T), \A i, j \in DOMAIN list : list[i] = list[j] => i = j
  PROVE  \A x \in Range(list) : Position(list, x) \in Nat /\ list[Position(list, x)] = x
<1>1. \A x \in Range(list) : \E i \in DOMAIN list : list[i] = x
  BY DEF Range
<1>2. \A x \in Range(list) : Position(list, x) \in DOMAIN list /\ list[Position(list, x)] = x
  BY <1>1 DEF Position
<1>3. DOMAIN list = 1 .. Len(list) /\ Len(list) \in Nat
  OBVIOUS
<1>4. QED BY <1>2, <1>3

\* What the truth's order compares, and the order as a relation.
Place(e) == <<Position(ViewList, Truth[e].view), Position(TemplateList, Truth[e].template), e>>
Before == {p \in (DOMAIN Truth) \X (DOMAIN Truth) : TruthBefore(p[1], p[2])}

\* The truth's order is lexicographic: view, template, evidence.
LEMMA TruthBeforeIs ==
  ASSUME NEW a, NEW b
  PROVE  TruthBefore(a, b) <=>
           \/ Place(a)[1] < Place(b)[1]
           \/ Place(a)[1] = Place(b)[1] /\ Place(a)[2] < Place(b)[2]
           \/ Place(a)[1] = Place(b)[1] /\ Place(a)[2] = Place(b)[2] /\ Place(a)[3] < Place(b)[3]
<1>1. 1 .. 3 = {1, 2, 3} /\ 1 .. 1 - 1 = {} /\ 1 .. 2 - 1 = {1} /\ 1 .. 3 - 1 = {1, 2}
  OBVIOUS
<1>2. TruthBefore(a, b) <=>
        \E i \in {1, 2, 3} : Place(a)[i] < Place(b)[i] /\ \A j \in 1 .. i - 1 : Place(a)[j] = Place(b)[j]
  BY <1>1 DEF TruthBefore, Place
<1> HIDE DEF Place
<1>3. QED BY <1>1, <1>2

\* The truth's order lists every case once, each before the later ones.
LEMMA TruthIsOrdered ==
  ASSUME IsTruthSet(call.truth)
  PROVE  /\ Enumerates(TruthOrder, DOMAIN Truth)
         /\ \A i, j \in 1 .. Cardinality(DOMAIN Truth) : i < j => TruthBefore(TruthOrder[i], TruthOrder[j])
<1> DEFINE S == DOMAIN Truth
<1>1. IsFiniteSet(S) /\ S \subseteq Nat
  BY DEF IsTruthSet, Truth
<1>2. \A e \in S : Truth[e].view \in Range(ViewList) /\ Truth[e].template \in Range(TemplateList)
  BY DEF IsTruthSet, Truth, Views, Templates
<1>3. \A e \in S : Place(e)[1] \in Nat /\ Place(e)[2] \in Nat /\ Place(e)[3] = e /\ e \in Nat
  <2>1. \A x \in Range(ViewList) : Position(ViewList, x) \in Nat
    BY ScoreTablesAssumption, Positions
  <2>2. \A x \in Range(TemplateList) : Position(TemplateList, x) \in Nat
    BY ScoreTablesAssumption, Positions
  <2>3. QED BY <1>1, <1>2, <2>1, <2>2 DEF Place
<1>4. \A a, b : <<a, b>> \in Before <=> a \in S /\ b \in S /\ TruthBefore(a, b)
  BY DEF Before
<1>5. TruthOrder = InOrder(S, Before)
  BY DEF TruthOrder, Before
<1> HIDE DEF S
<1>6. Orders(Before, S)
  <2>1. \A a \in S : ~ TruthBefore(a, a)
    BY <1>3, TruthBeforeIs
  <2>2. \A a, b \in S : a # b => TruthBefore(a, b) \/ TruthBefore(b, a)
    BY <1>3, TruthBeforeIs
  <2>3. \A a, b, c \in S : TruthBefore(a, b) /\ TruthBefore(b, c) => TruthBefore(a, c)
    BY <1>3, TruthBeforeIs
  <2>4. QED BY <1>4, <2>1, <2>2, <2>3 DEF Orders
<1>7. /\ Enumerates(InOrder(S, Before), S)
      /\ \A i, j \in 1 .. Cardinality(S) : i < j => <<InOrder(S, Before)[i], InOrder(S, Before)[j]>> \in Before
  BY <1>1, <1>6, InOrderEnumerates
<1>8. Enumerates(TruthOrder, S)
  BY <1>5, <1>7
<1>9. \A i, j \in 1 .. Cardinality(S) : i < j => TruthBefore(TruthOrder[i], TruthOrder[j])
  BY <1>4, <1>5, <1>7
<1>10. QED BY <1>8, <1>9 DEF S

\* A truth set has as many cases as the protocol.
LEMMA TruthSize ==
  ASSUME NEW t, IsTruthSet(t)
  PROVE  IsFiniteSet(DOMAIN t.cases) /\ Cardinality(DOMAIN t.cases) = CaseCount /\ CaseCount \in Nat \ {0}
<1>1. IsFiniteSet(DOMAIN t.cases)
  BY DEF IsTruthSet
<1>2. Measured(t.cases)
  BY DEF IsTruthSet, Measured, CellOf
<1>3. {e \in DOMAIN t.cases : CellOf(t.cases[e]) \in Cells} = DOMAIN t.cases
  BY DEF IsTruthSet, Cells, CellOf
<1>4. Cardinality(DOMAIN t.cases) = CaseCount
  BY <1>1, <1>2, <1>3, CellsCount, ScoringAssumption
<1>5. DOMAIN t.cases # {}
  <2>1. PICK v \in Views, p \in Templates : <<v, p>> \in Cells
    <3>1. ViewList[1] \in Views /\ TemplateList[1] \in Templates
      BY ScoreTablesAssumption
    <3>2. QED BY <3>1 DEF Cells
  <2>2. Cardinality({e \in DOMAIN t.cases : <<t.cases[e].view, t.cases[e].template>> = <<v, p>>}) # 0
    BY <2>1, ScoreTablesAssumption DEF IsTruthSet
  <2>3. {e \in DOMAIN t.cases : <<t.cases[e].view, t.cases[e].template>> = <<v, p>>} # {}
    BY <2>2, FS_EmptySet
  <2>4. QED BY <2>3
<1>6. Cardinality(DOMAIN t.cases) \in Nat /\ Cardinality(DOMAIN t.cases) # 0
  BY <1>1, <1>5, FS_EmptySet, FS_CardinalityType
<1>7. QED BY <1>1, <1>4, <1>6

-----------------------------------------------------------------------------
(* The rows of one method *)

\* The places of a method's rows, and those places in order.
IndicesOf(list, m) == {i \in DOMAIN list : list[i].method = m}
Places(list, m) ==
  InOrder(IndicesOf(list, m), {p \in IndicesOf(list, m) \X IndicesOf(list, m) : p[1] < p[2]})

\* A method's rows of a list are its places in the list, in their order.
LEMMA RowsOfEnumerates ==
  ASSUME NEW list, IsFiniteSet(DOMAIN list), DOMAIN list \subseteq Nat, NEW m
  PROVE  /\ IsFiniteSet(IndicesOf(list, m)) /\ Cardinality(IndicesOf(list, m)) \in Nat
         /\ Enumerates(Places(list, m), IndicesOf(list, m))
         /\ RowsOf(list, m)
              = [n \in 1 .. Cardinality(IndicesOf(list, m)) |-> list[Places(list, m)[n]]]
<1> DEFINE of == IndicesOf(list, m)
           R == {p \in of \X of : p[1] < p[2]}
<1>1. of \subseteq Nat /\ IsFiniteSet(of)
  <2>1. of \subseteq DOMAIN list
    BY DEF IndicesOf
  <2>2. QED BY <2>1, FS_Subset
<1>2. \A i, j : <<i, j>> \in R <=> i \in of /\ j \in of /\ i < j
  OBVIOUS
<1>3. Places(list, m) = InOrder(of, R)
  BY DEF Places
<1>4. RowsOf(list, m) = [n \in DOMAIN Places(list, m) |-> list[Places(list, m)[n]]]
  BY DEF RowsOf, Places, IndicesOf
<1> HIDE DEF of, R
<1>5. Orders(R, of)
  <2>1. \A x, y, z \in of : ~ (x < x) /\ (x # y => x < y \/ y < x) /\ (x < y /\ y < z => x < z)
    BY <1>1
  <2>2. QED BY <1>2, <2>1 DEF Orders
<1>6. Enumerates(Places(list, m), of)
  BY <1>1, <1>3, <1>5, InOrderEnumerates
<1>7. DOMAIN Places(list, m) = 1 .. Cardinality(of)
  BY <1>6 DEF Enumerates
<1>8. QED BY <1>1, <1>4, <1>6, <1>7, FS_CardinalityType DEF of

\* So what is counted among a method's rows is counted among the rows of the report.
LEMMA CountedInRows ==
  ASSUME NEW list, IsFiniteSet(DOMAIN list), DOMAIN list \subseteq Nat, NEW m, NEW T
  PROVE  /\ IsFiniteSet(At(list, IndicesOf(list, m), T))
         /\ IsFiniteSet(At(RowsOf(list, m), DOMAIN RowsOf(list, m), T))
         /\ Cardinality(At(RowsOf(list, m), DOMAIN RowsOf(list, m), T))
              = Cardinality(At(list, IndicesOf(list, m), T))
<1> DEFINE of == IndicesOf(list, m)
           at == Places(list, m)
           J == {i \in of : list[i] \in T}
           I == {n \in 1 .. Cardinality(of) : at[n] \in J}
<1>1. IsFiniteSet(of) /\ Enumerates(at, of)
        /\ RowsOf(list, m) = [n \in 1 .. Cardinality(of) |-> list[at[n]]]
  BY RowsOfEnumerates
<1>2. J \subseteq of
  OBVIOUS
<1>3. IsFiniteSet(I) /\ Cardinality(I) = Cardinality(J)
  <2> HIDE DEF of, at, J
  <2>1. I = At(at, 1 .. Cardinality(of), J)
    BY DEF At
  <2>2. QED BY <1>1, <1>2, <2>1, EnumeratedCount
<1>4. {n \in DOMAIN RowsOf(list, m) : RowsOf(list, m)[n] \in T} = I
  <2>1. \A n \in 1 .. Cardinality(of) : at[n] \in of /\ RowsOf(list, m)[n] = list[at[n]]
    BY <1>1 DEF Enumerates
  <2>2. DOMAIN RowsOf(list, m) = 1 .. Cardinality(of)
    BY <1>1
  <2>3. QED BY <2>1, <2>2
<1>5. IsFiniteSet(J)
  BY <1>1, <1>2, FS_Subset
<1>6. QED BY <1>3, <1>4, <1>5 DEF At

-----------------------------------------------------------------------------
(* Grading *)

\* A category says the class of the case, whether the worker failed, and how far the
\* answer is the truth's.
LEMMA Graded ==
  ASSUME NEW out, IsOutcome(out), NEW truth, truth.ambiguous \in BOOLEAN
  PROVE  LET c == Category(out, truth)
         IN  /\ c \in Categories
             /\ c \in AmbiguousCategories <=> truth.ambiguous
             /\ c \in FailedCategories <=> out.status = "failed"
             /\ out.failure \in Failures <=> out.status = "failed"
             /\ c \in {"exact_decisive", "correct_abstention"} <=> out = TruthSays(truth)
             /\ c \in DecisiveCategories <=> out.status = "claimed" /\ out.kind = "decisive"
             /\ c = "wrong_target" => out.target # truth.target
             /\ c = "wrong_witness" => out.target = truth.target
<1>0. "none" \notin Failures
  BY ScoreTablesAssumption
<1> DEFINE c == Category(out, truth)
<1>1. CASE out.status = "failed" /\ out.failure \in Failures /\ out = Failed(out.failure)
  <2>1. c = IF truth.ambiguous THEN "failed_ambiguous" ELSE "failed_identifiable"
    BY <1>1 DEF Category
  <2>2. out.status = "failed" /\ TruthSays(truth).status = "claimed"
    BY <1>1 DEF TruthSays, Abstain, Decide
  <2> HIDE DEF c
  <2>3. QED BY <1>1, <2>1, <2>2
    DEF Categories, AmbiguousCategories, IdentifiableCategories, FailedCategories, DecisiveCategories,
        FalseCategories, c
<1>2. CASE out.status = "claimed" /\ out.kind = "unknown" /\ out = Abstain(out.reason)
  <2>1. c = IF ~ truth.ambiguous THEN "missed_identifiable"
            ELSE IF out.reason = "ambiguous_worlds" THEN "correct_abstention"
            ELSE "wrong_reason_abstention"
    BY <1>2 DEF Category
  <2>2. out.failure = "none"
    BY <1>2 DEF Abstain
  <2>3. out = TruthSays(truth) <=> truth.ambiguous /\ out.reason = "ambiguous_worlds"
    <3>1. CASE truth.ambiguous
      <4>1. TruthSays(truth) = Abstain("ambiguous_worlds") /\ Abstain("ambiguous_worlds").reason = "ambiguous_worlds"
        BY <3>1 DEF TruthSays, Abstain
      <4>2. QED BY <1>2, <3>1, <4>1
    <3>2. CASE ~ truth.ambiguous
      <4>1. TruthSays(truth).kind = "decisive"
        BY <3>2 DEF TruthSays, Decide
      <4>2. QED BY <1>2, <3>2, <4>1
    <3>3. QED BY <3>1, <3>2
  <2> HIDE DEF c
  <2>4. QED BY <1>0, <1>2, <2>1, <2>2, <2>3
    DEF Categories, AmbiguousCategories, IdentifiableCategories, FailedCategories, DecisiveCategories,
        FalseCategories, c
<1>3. CASE out.status = "claimed" /\ out.kind = "decisive" /\ out = Decide(out.target, out.witnesses)
  <2>1. c = IF truth.ambiguous THEN "decisive_on_ambiguous"
            ELSE IF out.target # truth.target THEN "wrong_target"
            ELSE IF out.witnesses # truth.witnesses THEN "wrong_witness"
            ELSE "exact_decisive"
    BY <1>3 DEF Category
  <2>2. out.failure = "none"
    BY <1>3 DEF Decide
  <2>3. out = TruthSays(truth) <=> ~ truth.ambiguous /\ out.target = truth.target /\ out.witnesses = truth.witnesses
    <3>1. CASE truth.ambiguous
      <4>1. TruthSays(truth).kind = "unknown"
        BY <3>1 DEF TruthSays, Abstain
      <4>2. QED BY <1>3, <3>1, <4>1
    <3>2. CASE ~ truth.ambiguous
      <4>1. TruthSays(truth) = Decide(truth.target, truth.witnesses)
        BY <3>2 DEF TruthSays
      <4>2. /\ Decide(truth.target, truth.witnesses).target = truth.target
            /\ Decide(truth.target, truth.witnesses).witnesses = truth.witnesses
        BY DEF Decide
      <4>3. QED BY <1>3, <3>2, <4>1, <4>2
    <3>3. QED BY <3>1, <3>2
  <2> HIDE DEF c
  <2>4. QED BY <1>0, <1>3, <2>1, <2>2, <2>3
    DEF Categories, AmbiguousCategories, IdentifiableCategories, FailedCategories, DecisiveCategories,
        FalseCategories, c
<1>4. QED BY <1>1, <1>2, <1>3 DEF IsOutcome

-----------------------------------------------------------------------------
(* The rows of a call that joins *)

\* Both artifacts of the call have passed their parsers.
Sane == IsCall(call)
JoinsAll(m) == \A e \in DOMAIN Truth : Joins(m, e)
JoinsUpTo(k) == \A j \in 1 .. k : JoinsAll(Claims.methods[j])
\* What a call joined so far has built: the rows of its first k methods.
RowAt(i) == RowFor(Claims.methods[MethodAt(i)], TruthOrder[CaseAt(i)])
RowsTo(k) == [i \in 1 .. k * CaseCount |-> RowAt(i)]
AllRows == RowsTo(MethodCount)

\* What the parsers guarantee of the arguments of a call.
LEMMA SaneParts ==
  ASSUME Sane
  PROVE  /\ IsClaimSet(Claims) /\ IsTruthSet(call.truth)
         /\ CaseCount \in Nat \ {0} /\ MethodCount \in Nat \ {0}
         /\ IsFiniteSet(DOMAIN Truth) /\ Cardinality(DOMAIN Truth) = CaseCount
         /\ Claims.methods \in [1 .. MethodCount -> MethodsOf(Claims)]
         /\ MethodsOf(Claims) = Range(Claims.methods)
         /\ \A m \in MethodsOf(Claims) : \E k \in 1 .. MethodCount : Claims.methods[k] = m
         /\ \A j, k \in 1 .. MethodCount : Claims.methods[j] = Claims.methods[k] => j = k
<1>1. IsClaimSet(Claims) /\ IsTruthSet(call.truth)
  BY DEF Sane, IsCall, Claims
<1>2. CaseCount \in Nat \ {0} /\ IsFiniteSet(DOMAIN Truth) /\ Cardinality(DOMAIN Truth) = CaseCount
  BY <1>1, TruthSize DEF Truth
<1>3. Claims.methods \in [1 .. MethodCount -> MethodsOf(Claims)]
  BY <1>1 DEF IsClaimSet
<1>4. \A j, k \in 1 .. MethodCount : Claims.methods[j] = Claims.methods[k] => j = k
  BY <1>1, <1>3 DEF IsClaimSet
<1>5. \A m \in MethodsOf(Claims) : \E k \in 1 .. MethodCount : Claims.methods[k] = m
  BY <1>3 DEF MethodsOf, Range
<1>6. QED BY <1>1, <1>2, <1>3, <1>4, <1>5, ScoringAssumption DEF MethodsOf

\* The truth's order of a call lists every case of its truth once.
LEMMA OrderOfTruth ==
  ASSUME Sane
  PROVE  /\ TruthOrder \in [1 .. CaseCount -> DOMAIN Truth]
         /\ \A i, j \in 1 .. CaseCount : TruthOrder[i] = TruthOrder[j] => i = j
         /\ \A e \in DOMAIN Truth : \E i \in 1 .. CaseCount : TruthOrder[i] = e
         /\ \A i, j \in 1 .. CaseCount : i < j => TruthBefore(TruthOrder[i], TruthOrder[j])
BY SaneParts, TruthIsOrdered DEF Enumerates

\* Where a method joins a case, the run found is of that method and case.
LEMMA RunForIs ==
  ASSUME Sane, NEW m \in MethodsOf(Claims), NEW e \in DOMAIN Truth, Joins(m, e)
  PROVE  /\ RunFor(m, e) \in Range(Claims.runs)
         /\ RunFor(m, e).method = m /\ RunFor(m, e).evidence = e
         /\ IsOutcome(RunFor(m, e).outcome)
<1>1. Covered(m, e)
  BY DEF Joins
<1>2. RunFor(m, e) \in Range(Claims.runs) /\ RunFor(m, e).method = m /\ RunFor(m, e).evidence = e
  BY <1>1 DEF Covered, RunFor
<1>3. IsClaimSet(Claims)
  BY SaneParts
<1>4. QED BY <1>2, <1>3 DEF IsClaimSet

\* A row of the report, and what its grade says.
LEMMA RowIs ==
  ASSUME Sane, NEW m \in MethodsOf(Claims), NEW e \in DOMAIN Truth, Joins(m, e)
  PROVE  LET row == RowFor(m, e)
         IN  /\ row.method = m /\ row.evidence = e /\ row.truth = Truth[e] /\ row.run = RunFor(m, e)
             /\ row.view = Truth[e].view /\ row.template = Truth[e].template
             /\ row.category = Category(row.run.outcome, row.truth)
             /\ row.failure = row.run.outcome.failure
             /\ CellOf(row) \in Cells /\ row.category \in Categories /\ ValidRow(row)
             /\ row.category \in AmbiguousCategories <=> row.view \in AmbiguousViews
<1> DEFINE row == RowFor(m, e)
<1>1. /\ row.method = m /\ row.evidence = e /\ row.truth = Truth[e] /\ row.run = RunFor(m, e)
      /\ row.view = Truth[e].view /\ row.template = Truth[e].template
      /\ row.category = Category(row.run.outcome, row.truth)
      /\ row.failure = row.run.outcome.failure
  BY DEF RowFor
<1>2. IsOutcome(row.run.outcome)
  BY <1>1, RunForIs
<1>3. /\ row.truth.ambiguous \in BOOLEAN /\ row.truth.ambiguous = (row.view \in AmbiguousViews)
      /\ row.view \in Views /\ row.template \in Templates
  <2>1. IsTruthSet(call.truth)
    BY SaneParts
  <2>2. /\ Truth[e].ambiguous = (Truth[e].view \in AmbiguousViews)
        /\ Truth[e].view \in Views /\ Truth[e].template \in Templates
    BY <2>1 DEF IsTruthSet, Truth
  <2>3. Truth[e].ambiguous \in BOOLEAN
    BY <2>2
  <2>4. QED BY <1>1, <2>2, <2>3
<1> HIDE DEF row
<1>4. /\ row.category \in Categories
      /\ row.category \in AmbiguousCategories <=> row.truth.ambiguous
      /\ row.category \in FailedCategories <=> row.failure \in Failures
  <2> DEFINE out == row.run.outcome
             truth == row.truth
  <2>1. row.category = Category(out, truth) /\ row.failure = out.failure
    BY <1>1
  <2>2. IsOutcome(out) /\ truth.ambiguous \in BOOLEAN
    BY <1>2, <1>3
  <2> HIDE DEF out, truth
  <2>3. /\ Category(out, truth) \in Categories
        /\ Category(out, truth) \in AmbiguousCategories <=> truth.ambiguous
        /\ Category(out, truth) \in FailedCategories <=> out.status = "failed"
        /\ out.failure \in Failures <=> out.status = "failed"
    BY <2>2, Graded
  <2>4. QED BY <2>1, <2>3 DEF truth
<1>5. CellOf(row) \in Cells /\ ValidRow(row)
  BY <1>3, <1>4 DEF CellOf, Cells, ValidRow
<1>6. QED BY <1>1, <1>3, <1>4, <1>5 DEF row

\* The rows after k methods, place by place.
LEMMA RowsAre ==
  ASSUME Sane, NEW k \in 0 .. MethodCount, JoinsUpTo(k)
  PROVE  /\ DOMAIN RowsTo(k) = 1 .. k * CaseCount /\ k * CaseCount \in Nat
         /\ k * CaseCount <= MethodCount * CaseCount
         /\ \A i \in 1 .. k * CaseCount : MethodAt(i) \in 1 .. k /\ CaseAt(i) \in 1 .. CaseCount
                                            /\ i = Spot(MethodAt(i), CaseAt(i))
         /\ \A j \in 1 .. k, n \in 1 .. CaseCount :
              /\ Spot(j, n) \in 1 .. k * CaseCount
              /\ MethodAt(Spot(j, n)) = j /\ CaseAt(Spot(j, n)) = n
              /\ RowsTo(k)[Spot(j, n)] = RowFor(Claims.methods[j], TruthOrder[n])
              /\ Claims.methods[j] \in MethodsOf(Claims) /\ TruthOrder[n] \in DOMAIN Truth
              /\ Joins(Claims.methods[j], TruthOrder[n])
<1>1. CaseCount \in Nat \ {0} /\ MethodCount \in Nat \ {0} /\ k \in Nat /\ k <= MethodCount
  BY SaneParts
<1>2. k * CaseCount \in Nat /\ k * CaseCount <= MethodCount * CaseCount
  BY <1>1
<1>3. ASSUME NEW j \in 1 .. k, NEW n \in 1 .. CaseCount
      PROVE  Spot(j, n) \in 1 .. k * CaseCount
  <2>1. (j - 1) * CaseCount \in Nat /\ (j - 1) * CaseCount + CaseCount = j * CaseCount
    BY <1>1
  <2>2. j * CaseCount <= k * CaseCount
    BY <1>1
  <2>3. QED BY <1>1, <1>2, <2>1, <2>2 DEF Spot
<1>4. ASSUME NEW i \in 1 .. k * CaseCount
      PROVE  MethodAt(i) \in 1 .. k /\ CaseAt(i) \in 1 .. CaseCount /\ i = Spot(MethodAt(i), CaseAt(i))
  <2>1. i \in 1 .. MethodCount * CaseCount
    BY <1>1, <1>2
  <2>2. MethodAt(i) \in 1 .. MethodCount /\ CaseAt(i) \in 1 .. CaseCount /\ i = Spot(MethodAt(i), CaseAt(i))
    BY <1>1, <2>1, Spots
  <2> DEFINE q == MethodAt(i)
             r == CaseAt(i)
  <2> HIDE DEF q, r
  <2>3. q \in 1 .. MethodCount /\ r \in 1 .. CaseCount /\ i = (q - 1) * CaseCount + r
    BY <2>2 DEF q, r, Spot
  <2>4. q <= k
    <3>1. SUFFICES ASSUME k <= q - 1 PROVE FALSE
      BY <1>1, <2>3
    <3>2. k * CaseCount <= (q - 1) * CaseCount
      BY <1>1, <2>3, <3>1
    <3>3. QED BY <1>1, <1>2, <2>3, <3>2
  <2>5. QED BY <1>1, <2>2, <2>3, <2>4 DEF q
<1>5. ASSUME NEW j \in 1 .. k, NEW n \in 1 .. CaseCount
      PROVE  /\ MethodAt(Spot(j, n)) = j /\ CaseAt(Spot(j, n)) = n
             /\ RowsTo(k)[Spot(j, n)] = RowFor(Claims.methods[j], TruthOrder[n])
             /\ Claims.methods[j] \in MethodsOf(Claims) /\ TruthOrder[n] \in DOMAIN Truth
             /\ Joins(Claims.methods[j], TruthOrder[n])
  <2>1. j \in 1 .. MethodCount
    BY <1>1
  <2>2. MethodAt(Spot(j, n)) = j /\ CaseAt(Spot(j, n)) = n
    BY <1>1, <2>1, Spots
  <2>3. RowsTo(k)[Spot(j, n)] = RowAt(Spot(j, n))
    BY <1>3 DEF RowsTo
  <2>4. Claims.methods[j] \in MethodsOf(Claims) /\ TruthOrder[n] \in DOMAIN Truth
    BY <2>1, SaneParts, OrderOfTruth
  <2>5. QED BY <2>2, <2>3, <2>4 DEF RowAt, JoinsUpTo, JoinsAll
<1>6. QED BY <1>2, <1>3, <1>4, <1>5 DEF RowsTo

\* So for the rows of all the methods.
LEMMA AllRowsAre ==
  ASSUME Sane, JoinsUpTo(MethodCount)
  PROVE  /\ DOMAIN AllRows = 1 .. MethodCount * CaseCount /\ MethodCount * CaseCount \in Nat
         /\ \A i \in DOMAIN AllRows : MethodAt(i) \in 1 .. MethodCount /\ CaseAt(i) \in 1 .. CaseCount
                                        /\ i = Spot(MethodAt(i), CaseAt(i))
         /\ \A j \in 1 .. MethodCount, n \in 1 .. CaseCount :
              /\ Spot(j, n) \in DOMAIN AllRows
              /\ MethodAt(Spot(j, n)) = j /\ CaseAt(Spot(j, n)) = n
              /\ AllRows[Spot(j, n)] = RowFor(Claims.methods[j], TruthOrder[n])
              /\ Claims.methods[j] \in MethodsOf(Claims) /\ TruthOrder[n] \in DOMAIN Truth
              /\ Joins(Claims.methods[j], TruthOrder[n])
<1> DEFINE k == MethodCount
           list == RowsTo(k)
<1>1. k \in 0 .. MethodCount /\ JoinsUpTo(k)
  BY SaneParts
<1> HIDE DEF k
<1>2. /\ DOMAIN list = 1 .. k * CaseCount /\ k * CaseCount \in Nat
      /\ \A i \in 1 .. k * CaseCount : MethodAt(i) \in 1 .. k /\ CaseAt(i) \in 1 .. CaseCount
                                          /\ i = Spot(MethodAt(i), CaseAt(i))
  BY <1>1, RowsAre
<1>3. \A j \in 1 .. k, n \in 1 .. CaseCount :
        /\ Spot(j, n) \in 1 .. k * CaseCount
        /\ MethodAt(Spot(j, n)) = j /\ CaseAt(Spot(j, n)) = n
        /\ list[Spot(j, n)] = RowFor(Claims.methods[j], TruthOrder[n])
        /\ Claims.methods[j] \in MethodsOf(Claims) /\ TruthOrder[n] \in DOMAIN Truth
        /\ Joins(Claims.methods[j], TruthOrder[n])
  BY <1>1, RowsAre
<1>4. AllRows = list
  BY DEF AllRows, k
<1> HIDE DEF list
<1>5. \A j \in 1 .. k, n \in 1 .. CaseCount : Spot(j, n) \in DOMAIN list
  BY <1>2, <1>3
<1>6. QED BY <1>2, <1>3, <1>4, <1>5 DEF k

\* The case a row grades; a method's rows grade every case once.
CaseOf(i) == TruthOrder[CaseAt(i)]

\* Every method has one row for every case.
LEMMA MethodCases ==
  ASSUME Sane, JoinsUpTo(MethodCount)
  PROVE  /\ DOMAIN AllRows = 1 .. MethodCount * CaseCount /\ MethodCount * CaseCount \in Nat
         /\ IsFiniteSet(DOMAIN AllRows) /\ DOMAIN AllRows \subseteq Nat
         /\ \A i \in DOMAIN AllRows :
              /\ MethodAt(i) \in 1 .. MethodCount /\ i = Spot(MethodAt(i), CaseAt(i))
              /\ AllRows[i].method = Claims.methods[MethodAt(i)]
         /\ \A m \in MethodsOf(Claims) :
              /\ \A i \in IndicesOf(AllRows, m) :
                   /\ CaseOf(i) \in DOMAIN Truth /\ Joins(m, CaseOf(i))
                   /\ AllRows[i] = RowFor(m, CaseOf(i))
              /\ \A i, j \in IndicesOf(AllRows, m) : CaseOf(i) = CaseOf(j) => i = j
              /\ \A e \in DOMAIN Truth : \E i \in IndicesOf(AllRows, m) : CaseOf(i) = e
<1> DEFINE list == AllRows
           of(m) == IndicesOf(list, m)
<1>1. CaseCount \in Nat \ {0} /\ MethodCount \in 0 .. MethodCount
  BY SaneParts
<1>2. /\ DOMAIN list = 1 .. MethodCount * CaseCount /\ MethodCount * CaseCount \in Nat
      /\ \A i \in DOMAIN list : MethodAt(i) \in 1 .. MethodCount /\ CaseAt(i) \in 1 .. CaseCount
                                  /\ i = Spot(MethodAt(i), CaseAt(i))
  BY AllRowsAre
<1>3. \A j \in 1 .. MethodCount, n \in 1 .. CaseCount :
        /\ Spot(j, n) \in DOMAIN list /\ CaseAt(Spot(j, n)) = n
        /\ list[Spot(j, n)] = RowFor(Claims.methods[j], TruthOrder[n])
        /\ Claims.methods[j] \in MethodsOf(Claims) /\ TruthOrder[n] \in DOMAIN Truth
        /\ Joins(Claims.methods[j], TruthOrder[n])
  BY AllRowsAre
<1> HIDE DEF list
<1>4. IsFiniteSet(DOMAIN list) /\ DOMAIN list \subseteq Nat
  BY <1>2, IntervalSize
<1>5. \A i \in DOMAIN list : list[i].method = Claims.methods[MethodAt(i)]
  BY <1>2, <1>3, RowIs
<1>6. ASSUME NEW m \in MethodsOf(Claims)
      PROVE  /\ \A i \in of(m) : CaseOf(i) \in DOMAIN Truth /\ Joins(m, CaseOf(i)) /\ list[i] = RowFor(m, CaseOf(i))
             /\ \A i, j \in of(m) : CaseOf(i) = CaseOf(j) => i = j
             /\ \A e \in DOMAIN Truth : \E i \in of(m) : CaseOf(i) = e
  <2>1. PICK k \in 1 .. MethodCount : Claims.methods[k] = m
    BY SaneParts
  <2>2. \A n \in 1 .. CaseCount : Spot(k, n) \in of(m) /\ list[Spot(k, n)] = RowFor(m, TruthOrder[n])
    BY <1>3, <2>1, RowIs DEF IndicesOf
  <2>3. \A i \in of(m) : MethodAt(i) = k /\ i = Spot(k, CaseAt(i)) /\ CaseAt(i) \in 1 .. CaseCount
    <3>1. SUFFICES ASSUME NEW i \in of(m) PROVE MethodAt(i) = k
      BY <1>2 DEF IndicesOf
    <3>2. i \in DOMAIN list /\ list[i].method = m
      BY DEF IndicesOf
    <3>3. QED BY <1>2, <1>5, <2>1, <3>2, SaneParts
  <2> HIDE DEF of
  <2>4. \A i \in of(m) : CaseOf(i) = TruthOrder[CaseAt(i)] /\ CaseAt(i) \in 1 .. CaseCount /\ i = Spot(k, CaseAt(i))
    BY <2>3 DEF CaseOf
  <2>5. \A i \in of(m) : CaseOf(i) \in DOMAIN Truth /\ list[i] = RowFor(m, CaseOf(i)) /\ Joins(m, CaseOf(i))
    BY <1>3, <2>1, <2>2, <2>4
  <2>6. \A i, j \in of(m) : CaseOf(i) = CaseOf(j) => i = j
    BY <2>4, OrderOfTruth
  <2>7. ASSUME NEW e \in DOMAIN Truth PROVE \E i \in of(m) : CaseOf(i) = e
    <3>1. PICK n \in 1 .. CaseCount : TruthOrder[n] = e
      BY OrderOfTruth
    <3>2. Spot(k, n) \in of(m) /\ CaseAt(Spot(k, n)) = n
      BY <1>3, <2>2
    <3>3. QED BY <2>4, <3>1, <3>2
  <2>8. QED BY <2>5, <2>6, <2>7
<1>7. QED BY <1>2, <1>4, <1>5, <1>6 DEF list, of

\* A method's rows are measured as the protocol says, each valid by itself.
LEMMA MethodRows ==
  ASSUME Sane, JoinsUpTo(MethodCount), NEW m \in MethodsOf(Claims)
  PROVE  /\ Tabular(RowsOf(AllRows, m)) /\ Measured(RowsOf(AllRows, m)) /\ Apart(RowsOf(AllRows, m))
         /\ Cardinality(IndicesOf(AllRows, m)) = CaseCount
<1> DEFINE list == AllRows
           of == IndicesOf(list, m)
           own == RowsOf(list, m)
           case == [i \in of |-> CaseOf(i)]
<1>1. IsFiniteSet(DOMAIN list) /\ DOMAIN list \subseteq Nat
  BY MethodCases
<1>2. /\ \A i \in of : case[i] \in DOMAIN Truth /\ list[i] = RowFor(m, case[i]) /\ Joins(m, case[i])
      /\ \A i, j \in of : case[i] = case[j] => i = j
      /\ \A e \in DOMAIN Truth : \E i \in of : case[i] = e
  <2> HIDE DEF of, list
  <2>1. \A i \in of : case[i] = CaseOf(i)
    OBVIOUS
  <2>2. QED BY <2>1, MethodCases DEF of, list
<1> HIDE DEF list
<1>3. IsFiniteSet(of)
  BY <1>1, RowsOfEnumerates
<1> HIDE DEF of, case
<1>4. ASSUME NEW T
       PROVE  Cardinality({i \in of : case[i] \in T}) = Cardinality({e \in DOMAIN Truth : e \in T})
  <2> DEFINE A == {i \in of : case[i] \in T}
             B == {e \in DOMAIN Truth : e \in T}
             f == [i \in A |-> case[i]]
  <2>1. IsFiniteSet(A)
    BY <1>3, FS_Subset
  <2>2. f \in [A -> B] /\ (\A i, j \in A : f[i] = f[j] => i = j) /\ (\A x \in B : \E i \in A : f[i] = x)
    BY <1>2
  <2> HIDE DEF A, B, f
  <2>3. Cardinality(B) = Cardinality(A)
    BY <2>1, <2>2, SameSize
  <2>4. QED BY <2>3 DEF A, B
<1>5. Cardinality(of) = CaseCount
  <2>1. {i \in of : case[i] \in DOMAIN Truth} = of /\ {e \in DOMAIN Truth : e \in DOMAIN Truth} = DOMAIN Truth
    BY <1>2
  <2>2. Cardinality({i \in of : case[i] \in DOMAIN Truth}) = Cardinality({e \in DOMAIN Truth : e \in DOMAIN Truth})
    BY <1>4
  <2>3. QED BY <2>1, <2>2, SaneParts
<1>6. /\ IsFiniteSet(DOMAIN own)
       /\ \A n \in DOMAIN own : \E i \in of : own[n] = list[i]
  <2>1. /\ own = [n \in 1 .. Cardinality(of) |-> list[Places(list, m)[n]]]
        /\ Places(list, m) \in [1 .. Cardinality(of) -> of] /\ Cardinality(of) \in Nat
    BY <1>1, RowsOfEnumerates DEF Enumerates, of
  <2>2. QED BY <2>1, IntervalSize
<1> HIDE DEF own
<1>7. \A n \in DOMAIN own :
         /\ CellOf(own[n]) \in Cells /\ own[n].category \in Categories /\ ValidRow(own[n])
         /\ own[n].category \in AmbiguousCategories <=> own[n].view \in AmbiguousViews
  BY <1>2, <1>6, RowIs
<1>8. Measured(own)
  <2>1. SUFFICES ASSUME NEW c \in Cells
                 PROVE  Cardinality({n \in DOMAIN own : CellOf(own[n]) = c}) = CellSize[c[1]]
    BY DEF Measured
  <2> DEFINE T == {r \in {list[i] : i \in of} : CellOf(r) = c}
             E == {e \in DOMAIN Truth : <<Truth[e].view, Truth[e].template>> = c}
  <2>2. {n \in DOMAIN own : CellOf(own[n]) = c} = {n \in DOMAIN own : own[n] \in T}
    <3>1. \A n \in DOMAIN own : own[n] \in {list[i] : i \in of}
      BY <1>6
    <3>2. \A n \in DOMAIN own : own[n] \in T <=> CellOf(own[n]) = c
      BY <3>1
    <3> HIDE DEF T
    <3>3. QED BY <3>2
  <2>3. Cardinality({n \in DOMAIN own : own[n] \in T}) = Cardinality({i \in of : list[i] \in T})
    <3> HIDE DEF T
    <3>1. Cardinality(At(RowsOf(list, m), DOMAIN RowsOf(list, m), T))
            = Cardinality(At(list, IndicesOf(list, m), T))
      BY <1>1, CountedInRows
    <3>2. QED BY <3>1 DEF own, of, At
  <2>4. {i \in of : list[i] \in T} = {i \in of : case[i] \in E}
    <3>1. ASSUME NEW i \in of
          PROVE  CellOf(list[i]) = <<Truth[case[i]].view, Truth[case[i]].template>>
      <4>1. list[i] = RowFor(m, case[i]) /\ case[i] \in DOMAIN Truth /\ Joins(m, case[i])
        BY <1>2
      <4>2. list[i].view = Truth[case[i]].view /\ list[i].template = Truth[case[i]].template
        BY <4>1, RowIs
      <4>3. QED BY <4>2 DEF CellOf
    <3>2. \A i \in of : list[i] \in T <=> CellOf(list[i]) = c
      OBVIOUS
    <3>3. \A i \in of : case[i] \in E <=> <<Truth[case[i]].view, Truth[case[i]].template>> = c
      BY <1>2
    <3> HIDE DEF T, E
    <3>4. QED BY <3>1, <3>2, <3>3
  <2>5. Cardinality({i \in of : case[i] \in E}) = Cardinality({e \in DOMAIN Truth : e \in E})
    BY <1>4
  <2>6. {e \in DOMAIN Truth : e \in E} = E
    OBVIOUS
  <2>7. Cardinality(E) = CellSize[c[1]]
    BY SaneParts DEF IsTruthSet, Truth
  <2> HIDE DEF T, E
  <2>8. QED BY <2>2, <2>3, <2>4, <2>5, <2>6, <2>7
<1>9. QED BY <1>5, <1>6, <1>7, <1>8 DEF Tabular, Apart, of, own, list

-----------------------------------------------------------------------------
(* The ceiling's rows *)

\* The truth's own rows are measured as the protocol says, and all get full credit.
LEMMA CeilingIsBest ==
  ASSUME Sane
  PROVE  Tabular(CeilingRows) /\ Measured(CeilingRows) /\ Apart(CeilingRows) /\ Best(CeilingRows)
<1> DEFINE list == CeilingRows
<1>1. /\ TruthOrder \in [1 .. CaseCount -> DOMAIN Truth] /\ Enumerates(TruthOrder, DOMAIN Truth)
      /\ Cardinality(DOMAIN Truth) = CaseCount /\ IsFiniteSet(DOMAIN Truth) /\ CaseCount \in Nat
  BY SaneParts, OrderOfTruth, TruthIsOrdered
<1>2. DOMAIN list = 1 .. CaseCount /\ \A n \in 1 .. CaseCount : list[n] = CeilingRow(Truth[TruthOrder[n]])
  BY <1>1 DEF CeilingRows
<1>3. IsTruthSet(call.truth)
  BY SaneParts
<1>4. ASSUME NEW e \in DOMAIN Truth
      PROVE  LET row == CeilingRow(Truth[e])
             IN  /\ CellOf(row) = <<Truth[e].view, Truth[e].template>> /\ CellOf(row) \in Cells
                 /\ row.category \in Full /\ ValidRow(row)
                 /\ row.category \in AmbiguousCategories <=> row.view \in AmbiguousViews
  <2> DEFINE row == CeilingRow(Truth[e])
  <2>1. /\ Truth[e].ambiguous = (Truth[e].view \in AmbiguousViews)
        /\ Truth[e].view \in Views /\ Truth[e].template \in Templates
    BY <1>3 DEF IsTruthSet, Truth
  <2>2. /\ row.view = Truth[e].view /\ row.template = Truth[e].template /\ row.failure = "none"
        /\ row.category = IF Truth[e].ambiguous THEN "correct_abstention" ELSE "exact_decisive"
    BY DEF CeilingRow
  <2> HIDE DEF row
  <2>3. CellOf(row) = <<Truth[e].view, Truth[e].template>> /\ CellOf(row) \in Cells
    BY <2>1, <2>2 DEF CellOf, Cells
  <2>4. row.category \in Full /\ row.category \notin FailedCategories
    BY <2>2 DEF Full, FailedCategories
  <2>5. ValidRow(row)
    BY <2>2, <2>4, ScoreTablesAssumption DEF ValidRow
  <2>6. row.category \in AmbiguousCategories <=> Truth[e].ambiguous
    BY <2>2 DEF AmbiguousCategories
  <2>7. QED BY <2>1, <2>2, <2>3, <2>4, <2>5, <2>6 DEF row
<1> HIDE DEF list
<1>5. IsFiniteSet(DOMAIN list)
  BY <1>1, <1>2, IntervalSize
<1>6. \A n \in DOMAIN list : TruthOrder[n] \in DOMAIN Truth /\ list[n] = CeilingRow(Truth[TruthOrder[n]])
  BY <1>1, <1>2
<1>7. Measured(list)
  <2>1. SUFFICES ASSUME NEW c \in Cells
                 PROVE  Cardinality({n \in DOMAIN list : CellOf(list[n]) = c}) = CellSize[c[1]]
    BY DEF Measured
  <2> DEFINE E == {e \in DOMAIN Truth : <<Truth[e].view, Truth[e].template>> = c}
  <2>2. {n \in DOMAIN list : CellOf(list[n]) = c} = {n \in 1 .. Cardinality(DOMAIN Truth) : TruthOrder[n] \in E}
    <3>1. \A n \in DOMAIN list : CellOf(list[n]) = c <=> TruthOrder[n] \in E
      BY <1>4, <1>6
    <3> HIDE DEF E
    <3>2. QED BY <1>1, <1>2, <3>1
  <2>3. Cardinality(E) = CellSize[c[1]]
    BY <1>3 DEF IsTruthSet, Truth
  <2>4. E \subseteq DOMAIN Truth
    OBVIOUS
  <2> HIDE DEF E
  <2>5. Cardinality(At(TruthOrder, 1 .. Cardinality(DOMAIN Truth), E)) = Cardinality(E)
    BY <1>1, <2>4, EnumeratedCount
  <2>6. QED BY <2>2, <2>3, <2>5 DEF At
<1>8. \A n \in DOMAIN list :
        /\ CellOf(list[n]) \in Cells /\ list[n].category \in Full /\ ValidRow(list[n])
        /\ list[n].category \in AmbiguousCategories <=> list[n].view \in AmbiguousViews
  BY <1>4, <1>6
<1>9. QED BY <1>5, <1>7, <1>8, CategorySets DEF Tabular, Apart, Best, list

-----------------------------------------------------------------------------
(* The order of the report's rows *)

\* What the report's order compares.
Began(list, r) == CHOOSE i \in FirstMethods(list) : list[i].method = r.method
Standing(list, r) ==
  <<Began(list, r), Position(ViewList, r.view), Position(TemplateList, r.template), r.evidence>>

\* The report's order is lexicographic: method, view, template, evidence.
LEMMA RowBeforeIs ==
  ASSUME NEW list, NEW a, NEW b
  PROVE  RowBefore(list, a, b) <=>
           LET p == Standing(list, a)
               q == Standing(list, b)
           IN  \/ p[1] < q[1]
               \/ p[1] = q[1] /\ p[2] < q[2]
               \/ p[1] = q[1] /\ p[2] = q[2] /\ p[3] < q[3]
               \/ p[1] = q[1] /\ p[2] = q[2] /\ p[3] = q[3] /\ p[4] < q[4]
<1> DEFINE p == Standing(list, a)
           q == Standing(list, b)
<1>1. 1 .. 4 = {1, 2, 3, 4} /\ 1 .. 1 - 1 = {} /\ 1 .. 2 - 1 = {1} /\ 1 .. 3 - 1 = {1, 2} /\ 1 .. 4 - 1 = {1, 2, 3}
  OBVIOUS
<1>2. RowBefore(list, a, b) <=>
        \E i \in {1, 2, 3, 4} : p[i] < q[i] /\ \A j \in 1 .. i - 1 : p[j] = q[j]
  BY <1>1 DEF RowBefore, Standing, Began
<1> HIDE DEF p, q
<1>3. QED BY <1>1, <1>2 DEF p, q

\* The rows built for a call are in the report's order.
LEMMA RowsInOrder ==
  ASSUME Sane, JoinsUpTo(MethodCount), NEW i \in 1 .. MethodCount * CaseCount - 1
  PROVE  RowBefore(AllRows, AllRows[i], AllRows[i + 1])
<1> DEFINE list == AllRows
           k == MethodAt(i)
           n == CaseAt(i)
<1>1. CaseCount \in Nat \ {0} /\ MethodCount \in Nat \ {0} /\ MethodCount \in 0 .. MethodCount
  BY SaneParts
<1>2. MethodCount * CaseCount \in Nat /\ i \in 1 .. MethodCount * CaseCount /\ i + 1 \in 1 .. MethodCount * CaseCount
  BY <1>1
<1>3. /\ DOMAIN list = 1 .. MethodCount * CaseCount
      /\ \A x \in DOMAIN list : MethodAt(x) \in 1 .. MethodCount /\ CaseAt(x) \in 1 .. CaseCount
                                  /\ x = Spot(MethodAt(x), CaseAt(x))
      /\ \A j \in 1 .. MethodCount, c \in 1 .. CaseCount :
           /\ Spot(j, c) \in DOMAIN list /\ MethodAt(Spot(j, c)) = j /\ CaseAt(Spot(j, c)) = c
           /\ list[Spot(j, c)] = RowFor(Claims.methods[j], TruthOrder[c])
           /\ Claims.methods[j] \in MethodsOf(Claims) /\ TruthOrder[c] \in DOMAIN Truth
           /\ Joins(Claims.methods[j], TruthOrder[c])
  BY AllRowsAre
<1> HIDE DEF list
<1>4. \A j \in 1 .. MethodCount, c \in 1 .. CaseCount :
        /\ list[Spot(j, c)].method = Claims.methods[j] /\ list[Spot(j, c)].evidence = TruthOrder[c]
        /\ list[Spot(j, c)].view = Truth[TruthOrder[c]].view
        /\ list[Spot(j, c)].template = Truth[TruthOrder[c]].template
  BY <1>3, RowIs
<1>5. \A x \in DOMAIN list : list[x].method = Claims.methods[MethodAt(x)]
  BY <1>3, <1>4
<1>6. ASSUME NEW j \in 1 .. MethodCount, NEW c \in 1 .. CaseCount
      PROVE  Began(list, list[Spot(j, c)]) = Spot(j, 1)
  <2>1. 1 \in 1 .. CaseCount
    BY <1>1
  <2>2. \A x \in DOMAIN list : MethodAt(x) = j => x >= Spot(j, 1)
    <3>1. \A x \in DOMAIN list : MethodAt(x) = j => x = Spot(j, CaseAt(x)) /\ CaseAt(x) \in 1 .. CaseCount
      BY <1>3
    <3>2. (j - 1) * CaseCount \in Nat
      BY <1>1
    <3>3. QED BY <3>1, <3>2 DEF Spot
  <2>3. \A x, y \in DOMAIN list : list[x].method = list[y].method => MethodAt(x) = MethodAt(y)
    <3>1. \A a, b \in 1 .. MethodCount : Claims.methods[a] = Claims.methods[b] => a = b
      BY SaneParts
    <3>2. \A x \in DOMAIN list : MethodAt(x) \in 1 .. MethodCount
      BY <1>3
    <3>3. QED BY <1>5, <3>1, <3>2
  <2>4. Spot(j, 1) \in DOMAIN list /\ MethodAt(Spot(j, 1)) = j /\ list[Spot(j, 1)].method = Claims.methods[j]
    BY <1>3, <1>4, <2>1
  <2>5. Spot(j, 1) \in FirstMethods(list)
    <3>1. SUFFICES ASSUME NEW y \in 1 .. Spot(j, 1) - 1, list[y].method = list[Spot(j, 1)].method
                   PROVE  FALSE
      BY <2>4 DEF FirstMethods
    <3>2. y \in DOMAIN list /\ y < Spot(j, 1)
      BY <1>2, <1>3, <2>4
    <3>3. MethodAt(y) = j
      BY <2>3, <2>4, <3>1, <3>2
    <3>4. y >= Spot(j, 1) /\ y \in Int /\ Spot(j, 1) \in Int
      BY <1>2, <1>3, <2>2, <2>4, <3>2, <3>3
    <3>5. QED BY <3>2, <3>4
  <2>6. \A x \in FirstMethods(list) : list[x].method = Claims.methods[j] => x = Spot(j, 1)
    <3>1. SUFFICES ASSUME NEW x \in FirstMethods(list), list[x].method = Claims.methods[j], x # Spot(j, 1)
                   PROVE  FALSE
      OBVIOUS
    <3>2. x \in DOMAIN list /\ \A y \in 1 .. x - 1 : list[y].method # list[x].method
      BY DEF FirstMethods
    <3>3. x > Spot(j, 1)
      <4>1. MethodAt(x) = j
        BY <2>3, <2>4, <3>1, <3>2
      <4>2. QED BY <1>3, <2>2, <2>4, <3>1, <3>2, <4>1
    <3>4. Spot(j, 1) \in 1 .. x - 1
      BY <1>3, <2>4, <3>2, <3>3
    <3>5. QED BY <2>4, <3>1, <3>2, <3>4
  <2>7. list[Spot(j, c)].method = Claims.methods[j]
    BY <1>4
  <2>8. QED BY <2>4, <2>5, <2>6, <2>7 DEF Began
<1>7. k \in 1 .. MethodCount /\ n \in 1 .. CaseCount /\ i = Spot(k, n)
  BY <1>2, <1>3
<1> HIDE DEF k, n
<1>8. CASE n < CaseCount
  <2>1. i + 1 = Spot(k, n + 1) /\ n + 1 \in 1 .. CaseCount
    BY <1>1, <1>7, <1>8, NextSpot
  <2>2. TruthBefore(TruthOrder[n], TruthOrder[n + 1])
    BY <1>7, <2>1, OrderOfTruth
  <2> DEFINE a == TruthOrder[n]
             b == TruthOrder[n + 1]
  <2>3. Standing(list, list[i]) = <<Spot(k, 1), Place(a)[1], Place(a)[2], Place(a)[3]>>
    BY <1>4, <1>6, <1>7 DEF Standing, Place
  <2>4. Standing(list, list[i + 1]) = <<Spot(k, 1), Place(b)[1], Place(b)[2], Place(b)[3]>>
    BY <1>4, <1>6, <1>7, <2>1 DEF Standing, Place
  <2> HIDE DEF a, b
  <2>5. \/ Place(a)[1] < Place(b)[1]
        \/ Place(a)[1] = Place(b)[1] /\ Place(a)[2] < Place(b)[2]
        \/ Place(a)[1] = Place(b)[1] /\ Place(a)[2] = Place(b)[2] /\ Place(a)[3] < Place(b)[3]
    BY <2>2, TruthBeforeIs DEF a, b
  <2>6. RowBefore(list, list[i], list[i + 1])
    BY <2>3, <2>4, <2>5, RowBeforeIs
  <2>7. QED BY <2>6 DEF list
<1>9. CASE ~ (n < CaseCount)
  <2>1. i + 1 = Spot(k + 1, 1)
    BY <1>1, <1>7, <1>9, NextSpot
  <2>2. k + 1 \in 1 .. MethodCount
    <3>1. n = CaseCount
      BY <1>1, <1>7, <1>9
    <3>2. SUFFICES ASSUME k = MethodCount PROVE FALSE
      BY <1>1, <1>7
    <3>3. (MethodCount - 1) * CaseCount + CaseCount = MethodCount * CaseCount
      BY <1>1
    <3>4. i = MethodCount * CaseCount
      BY <1>7, <3>1, <3>2, <3>3 DEF Spot
    <3>5. QED BY <1>2, <3>4
  <2>3. Standing(list, list[i])[1] = Spot(k, 1)
    BY <1>6, <1>7 DEF Standing
  <2>4. Standing(list, list[i + 1])[1] = Spot(k + 1, 1)
    BY <1>1, <1>6, <2>1, <2>2 DEF Standing
  <2>5. Spot(k, 1) < Spot(k + 1, 1)
    <3>1. (k - 1) * CaseCount \in Nat /\ (k - 1) * CaseCount + CaseCount = k * CaseCount
      BY <1>1, <1>7
    <3>2. QED BY <1>1, <1>7, <3>1 DEF Spot
  <2>6. RowBefore(list, list[i], list[i + 1])
    BY <2>3, <2>4, <2>5, RowBeforeIs
  <2>7. QED BY <2>6 DEF list
<1>10. QED BY <1>8, <1>9

-----------------------------------------------------------------------------
(* The report that is built is valid *)

\* The rows built for a call pass _validate_report_scored_runs.
LEMMA AllRowsAreValid ==
  ASSUME Sane, JoinsUpTo(MethodCount)
  PROVE  ValidRows(AllRows)
<1> DEFINE list == AllRows
           of(m) == {i \in DOMAIN list : list[i].method = m}
           methods == {list[i].method : i \in DOMAIN list}
           link(i) == <<list[i].evidence, list[i].truth, list[i].template, list[i].view>>
           links(m) == {link(i) : i \in of(m)}
<1>1. /\ DOMAIN list = 1 .. MethodCount * CaseCount /\ MethodCount * CaseCount \in Nat
      /\ \A i \in DOMAIN list :
           /\ MethodAt(i) \in 1 .. MethodCount /\ i = Spot(MethodAt(i), CaseAt(i))
           /\ list[i].method = Claims.methods[MethodAt(i)]
      /\ \A m \in MethodsOf(Claims) :
           /\ \A i \in of(m) : /\ CaseOf(i) \in DOMAIN Truth /\ Joins(m, CaseOf(i))
                               /\ list[i] = RowFor(m, CaseOf(i))
           /\ \A i, j \in of(m) : CaseOf(i) = CaseOf(j) => i = j
           /\ \A e \in DOMAIN Truth : \E i \in of(m) : CaseOf(i) = e
  BY MethodCases DEF IndicesOf
<1>2. list = [i \in 1 .. MethodCount * CaseCount |-> list[i]]
  BY DEF AllRows, RowsTo
<1>3. CaseCount \in Nat \ {0} /\ MethodCount \in Nat \ {0}
  BY SaneParts
<1>4. \A m \in MethodsOf(Claims) : IsFiniteSet(of(m)) /\ Cardinality(of(m)) = CaseCount
  <2>1. SUFFICES ASSUME NEW m \in MethodsOf(Claims)
                 PROVE  IsFiniteSet(IndicesOf(list, m)) /\ Cardinality(IndicesOf(list, m)) = CaseCount
    BY DEF IndicesOf
  <2>2. IsFiniteSet(DOMAIN list) /\ DOMAIN list \subseteq Nat
    BY MethodCases
  <2>3. Cardinality(IndicesOf(list, m)) = CaseCount
    BY MethodRows
  <2> HIDE DEF list
  <2>4. IsFiniteSet(IndicesOf(list, m))
    BY <2>2, RowsOfEnumerates
  <2>5. QED BY <2>3, <2>4
<1>5. \A i \in 1 .. MethodCount * CaseCount - 1 : RowBefore(list, list[i], list[i + 1])
  BY RowsInOrder
<1> HIDE DEF list, of
<1>6. Len(list) = MethodCount * CaseCount
  BY <1>1, <1>2
<1>7. ASSUME NEW i \in DOMAIN list
      PROVE  /\ list[i].method \in MethodsOf(Claims) /\ i \in of(list[i].method)
             /\ list[i] = RowFor(list[i].method, CaseOf(i))
             /\ CaseOf(i) \in DOMAIN Truth /\ Joins(list[i].method, CaseOf(i))
  <2>1. list[i].method \in MethodsOf(Claims) /\ i \in of(list[i].method)
    BY <1>1, SaneParts DEF of
  <2>2. QED BY <1>1, <2>1
<1>8. ASSUME NEW i \in DOMAIN list
      PROVE  /\ list[i].evidence = CaseOf(i) /\ list[i].truth = Truth[CaseOf(i)]
             /\ list[i].view = Truth[CaseOf(i)].view /\ list[i].template = Truth[CaseOf(i)].template
             /\ list[i].run.method = list[i].method /\ list[i].run.evidence = CaseOf(i)
             /\ ValidRow(list[i])
  <2> DEFINE m == list[i].method
             e == CaseOf(i)
  <2>1. m \in MethodsOf(Claims) /\ e \in DOMAIN Truth /\ Joins(m, e) /\ list[i] = RowFor(m, e)
    BY <1>7
  <2> HIDE DEF m, e
  <2>2. /\ RowFor(m, e).evidence = e /\ RowFor(m, e).truth = Truth[e] /\ RowFor(m, e).run = RunFor(m, e)
        /\ RowFor(m, e).view = Truth[e].view /\ RowFor(m, e).template = Truth[e].template
        /\ ValidRow(RowFor(m, e))
    BY <2>1, RowIs
  <2>3. RunFor(m, e).method = m /\ RunFor(m, e).evidence = e
    BY <2>1, RunForIs
  <2>4. QED BY <2>1, <2>2, <2>3 DEF m, e
<1>9. \A i, j \in DOMAIN list :
        \/ i = j
        \/ /\ <<list[i].method, list[i].evidence>> # <<list[j].method, list[j].evidence>>
           /\ list[i].run # list[j].run
  <2>1. SUFFICES ASSUME NEW i \in DOMAIN list, NEW j \in DOMAIN list,
                        list[i].method = list[j].method, CaseOf(i) = CaseOf(j)
                 PROVE  i = j
    BY <1>8
  <2>2. list[i].method \in MethodsOf(Claims) /\ i \in of(list[i].method) /\ j \in of(list[i].method)
    BY <1>7, <2>1
  <2>3. QED BY <1>1, <2>1, <2>2
<1>10. methods = MethodsOf(Claims)
  <2>1. \A i \in DOMAIN list : list[i].method \in MethodsOf(Claims)
    BY <1>7
  <2>2. ASSUME NEW m \in MethodsOf(Claims) PROVE \E i \in DOMAIN list : list[i].method = m
    <3>1. of(m) # {}
      BY <1>3, <1>4, FS_EmptySet
    <3>2. QED BY <3>1 DEF of
  <2>3. QED BY <2>1, <2>2
<1>11. Cardinality(methods) = MethodCount
  <2>1. Cardinality(MethodsOf(Claims)) = Cardinality(1 .. MethodCount)
    BY <1>3, SaneParts, IntervalSize, SameSize
  <2>2. QED BY <1>3, <1>10, <2>1, IntervalSize
<1>12. ASSUME NEW m \in MethodsOf(Claims)
       PROVE  links(m) = {<<e, Truth[e], Truth[e].template, Truth[e].view>> : e \in DOMAIN Truth}
  <2>1. \A i \in of(m) : i \in DOMAIN list
    BY DEF of
  <2>2. \A i \in of(m) : link(i) = <<CaseOf(i), Truth[CaseOf(i)], Truth[CaseOf(i)].template, Truth[CaseOf(i)].view>>
    BY <1>8, <2>1
  <2> HIDE DEF link
  <2>3. QED BY <1>1, <2>2
<1>13. ASSUME NEW m \in MethodsOf(Claims)
       PROVE  Cardinality({list[i].truth : i \in of(m)}) = CaseCount
  <2> DEFINE S == {list[i].truth : i \in of(m)}
             f == [i \in of(m) |-> list[i].truth]
  <2>1. \A i \in of(m) : list[i].truth = Truth[CaseOf(i)] /\ CaseOf(i) \in DOMAIN Truth
    BY <1>7, <1>8 DEF of
  <2>2. \A d, e \in DOMAIN Truth : Truth[d] = Truth[e] => d = e
    BY SaneParts DEF IsTruthSet, Truth
  <2>3. f \in [of(m) -> S] /\ (\A i, j \in of(m) : f[i] = f[j] => i = j) /\ (\A x \in S : \E i \in of(m) : f[i] = x)
    <3>1. \A i, j \in of(m) : list[i].truth = list[j].truth => i = j
      BY <1>1, <2>1, <2>2
    <3>2. QED BY <3>1
  <2> HIDE DEF S, f
  <2>4. Cardinality(S) = Cardinality(of(m))
    BY <1>4, <2>3, SameSize
  <2>5. QED BY <1>4, <2>4 DEF S
<1> HIDE DEF methods, links
<1>14. /\ \A m \in methods : Cardinality(of(m)) = CaseCount
       /\ \A m, n \in methods : links(m) = links(n)
       /\ \A m \in methods : Cardinality({list[i].truth : i \in of(m)}) = CaseCount
  BY <1>4, <1>10, <1>12, <1>13
<1>15. \A i \in DOMAIN list : ValidRow(list[i])
  BY <1>8
<1>16. /\ Len(list) = MethodCount * CaseCount
       /\ \A i \in 1 .. Len(list) - 1 : RowBefore(list, list[i], list[i + 1])
  BY <1>5, <1>6
<1>17. ValidRows(list)
  BY <1>9, <1>11, <1>14, <1>15, <1>16 DEF ValidRows, of, methods, links, link
<1>18. QED BY <1>17 DEF list

\* The report of a call that joins.
Built ==
  [roots |-> call.expected, rows |-> AllRows, order |-> Claims.methods,
   methods |-> [m \in MethodsOf(Claims) |-> Averaged(Tabulated(RowsOf(AllRows, m)))],
   ceiling |-> [tables |-> Tables(CeilingRows), macros |-> Macros(Tables(CeilingRows))]]

\* The constructor of the report never raises: what is built for a call is valid.
LEMMA BuiltIsValid ==
  ASSUME Sane, Bound, JoinsUpTo(MethodCount)
  PROVE  ValidReport(Built)
<1> DEFINE r == Built
<1>1. /\ r.roots = call.expected /\ r.rows = AllRows /\ r.order = Claims.methods
      /\ r.methods = [m \in MethodsOf(Claims) |-> Averaged(Tabulated(RowsOf(AllRows, m)))]
      /\ r.ceiling.tables = Tables(CeilingRows) /\ r.ceiling.macros = Macros(Tables(CeilingRows))
  BY DEF Built
<1> HIDE DEF r
<1>2. ValidRows(r.rows)
  BY <1>1, AllRowsAreValid
<1>3. ValidCeiling(r.ceiling.tables, r.ceiling.macros)
  BY <1>1, CeilingIsBest, BestIsCeiling
<1>4. r.order = r.roots.methods
  BY <1>1 DEF Bound
<1>5. DOMAIN r.methods = Range(r.order)
  BY <1>1 DEF MethodsOf
<1>6. r.order = [n \in 1 .. MethodCount |-> r.rows[(n - 1) * CaseCount + 1].method]
  <2>1. ASSUME NEW n \in 1 .. MethodCount
        PROVE  AllRows[(n - 1) * CaseCount + 1].method = Claims.methods[n]
    <3>1. 1 \in 1 .. CaseCount /\ MethodCount \in 0 .. MethodCount
      BY SaneParts
    <3>2. /\ AllRows[Spot(n, 1)] = RowFor(Claims.methods[n], TruthOrder[1])
          /\ Claims.methods[n] \in MethodsOf(Claims) /\ TruthOrder[1] \in DOMAIN Truth
          /\ Joins(Claims.methods[n], TruthOrder[1])
      BY <3>1, RowsAre DEF AllRows
    <3>3. AllRows[Spot(n, 1)].method = Claims.methods[n]
      BY <3>2, RowIs
    <3>4. QED BY <3>3 DEF Spot
  <2>2. Claims.methods = [n \in 1 .. MethodCount |-> Claims.methods[n]]
    BY SaneParts
  <2>3. QED BY <1>1, <2>1, <2>2
<1>7. ASSUME NEW m \in Range(r.order)
      PROVE  LET own == r.methods[m]
             IN  /\ ValidTables(own.tables) /\ own.macros = Macros(own.tables)
                 /\ own.rows = RowsOf(r.rows, m) /\ own.tables = Tables(own.rows)
  <2>1. m \in MethodsOf(Claims)
    BY <1>1 DEF MethodsOf
  <2>2. r.methods[m] = Averaged(Tabulated(RowsOf(AllRows, m)))
    BY <1>1, <2>1
  <2>3. /\ r.methods[m].rows = RowsOf(AllRows, m) /\ r.methods[m].tables = Tables(RowsOf(AllRows, m))
        /\ r.methods[m].macros = Macros(Tables(RowsOf(AllRows, m)))
    BY <2>2 DEF Averaged, Tabulated
  <2>4. ValidTables(Tables(RowsOf(AllRows, m)))
    BY <2>1, MethodRows, TablesAreValid
  <2>5. QED BY <1>1, <2>3, <2>4
<1>8. ValidMethods(r)
  BY <1>4, <1>5, <1>6, <1>7 DEF ValidMethods
<1>9. ValidReport(r)
  BY <1>2, <1>3, <1>8 DEF ValidReport
<1>10. QED BY <1>9 DEF r

-----------------------------------------------------------------------------
(* A sound call is bound, and joins *)

\* A claim set has one run for a method and a case.
LEMMA OneRunPerKey ==
  ASSUME Sane
  PROVE  /\ Claims.runs \in [1 .. MethodCount * CaseCount -> Range(Claims.runs)]
         /\ \A i, j \in 1 .. MethodCount * CaseCount :
              /\ Claims.runs[i].method = Claims.runs[j].method
              /\ Claims.runs[i].evidence = Claims.runs[j].evidence
              => i = j
<1>1. IsClaimSet(Claims) /\ MethodCount * CaseCount \in Nat
  BY SaneParts
<1>2. Claims.runs \in [1 .. MethodCount * CaseCount -> Range(Claims.runs)]
  BY <1>1 DEF IsClaimSet
<1>3. \A m \in MethodsOf(Claims) : Position(Claims.methods, m) \in Nat
  <2>1. Claims.methods \in Seq(MethodsOf(Claims))
    BY SaneParts
  <2>2. \A i, j \in DOMAIN Claims.methods : Claims.methods[i] = Claims.methods[j] => i = j
    BY <1>1 DEF IsClaimSet
  <2>3. QED BY <2>1, <2>2, Positions DEF MethodsOf
<1>4. ASSUME NEW i \in 1 .. MethodCount * CaseCount, NEW j \in 1 .. MethodCount * CaseCount, i < j,
             Claims.runs[i].method = Claims.runs[j].method,
             Claims.runs[i].evidence = Claims.runs[j].evidence
      PROVE  FALSE
  <2> DEFINE r == Claims.runs[i]
             s == Claims.runs[j]
             at(m) == Position(Claims.methods, m)
  <2>1. \/ at(r.method) < at(s.method)
        \/ r.method = s.method /\ r.evidence < s.evidence
    BY <1>1, <1>2, <1>4 DEF IsClaimSet
  <2>2. r \in Range(Claims.runs)
    BY <1>2
  <2>3. r.method \in MethodsOf(Claims) /\ r.evidence \in Nat
    BY <1>1, <2>2 DEF IsClaimSet
  <2>4. at(r.method) \in Nat
    BY <1>3, <2>3
  <2>5. at(s.method) = at(r.method) /\ s.evidence = r.evidence
    BY <1>4
  <2> HIDE DEF r, s, at
  <2>6. QED BY <2>1, <2>3, <2>4, <2>5
<1>5. QED BY <1>1, <1>2, <1>4

\* So it has as many keys as runs.
LEMMA KeysCount ==
  ASSUME Sane
  PROVE  Cardinality({<<r.method, r.evidence>> : r \in Range(Claims.runs)}) = MethodCount * CaseCount
<1> DEFINE N == MethodCount * CaseCount
           S == {<<r.method, r.evidence>> : r \in Range(Claims.runs)}
           f == [i \in 1 .. N |-> <<Claims.runs[i].method, Claims.runs[i].evidence>>]
<1>1. N \in Nat
  BY SaneParts
<1>2. Claims.runs \in [1 .. N -> Range(Claims.runs)] /\ \A r \in Range(Claims.runs) : \E i \in 1 .. N : Claims.runs[i] = r
  BY OneRunPerKey DEF Range
<1>3. f \in [1 .. N -> S] /\ \A x \in S : \E i \in 1 .. N : f[i] = x
  <2> HIDE DEF N
  <2>1. \A i \in 1 .. N : f[i] \in S
    BY <1>2
  <2>2. f \in [1 .. N -> S]
    <3>1. f = [i \in 1 .. N |-> f[i]]
      OBVIOUS
    <3> HIDE DEF f, S
    <3>2. QED BY <2>1, <3>1
  <2>3. ASSUME NEW x \in S PROVE \E i \in 1 .. N : f[i] = x
    <3>1. PICK r \in Range(Claims.runs) : x = <<r.method, r.evidence>>
      OBVIOUS
    <3>2. PICK i \in 1 .. N : Claims.runs[i] = r
      BY <1>2
    <3>3. f[i] = x
      BY <3>1, <3>2
    <3> HIDE DEF f
    <3>4. QED BY <3>3
  <2>4. QED BY <2>2, <2>3
<1>4. \A i, j \in 1 .. N : f[i] = f[j] => i = j
  BY OneRunPerKey
<1> HIDE DEF N, S, f
<1>5. Cardinality(S) = Cardinality(1 .. N)
  BY <1>1, <1>3, <1>4, IntervalSize, SameSize
<1>6. Cardinality(S) = N
  BY <1>1, <1>5, IntervalSize
<1>7. QED BY <1>6 DEF N, S

\* A sound call passes _verify_score_source_bindings.
LEMMA SoundIsBound ==
  ASSUME Sane, Sound
  PROVE  Bound
<1>1. Cardinality(DOMAIN Truth) = CaseCount
  BY SaneParts
<1>2. Cardinality({<<r.method, r.evidence>> : r \in Range(Claims.runs)}) = MethodCount * CaseCount
  BY KeysCount
<1>3. Claims.projection = call.expected.projection /\ call.truth.projection = call.expected.projection
  BY DEF Sound
<1>4. QED BY <1>1, <1>2, <1>3 DEF Sound, Bound

\* In a sound call every method joins with every case.
LEMMA SoundJoins ==
  ASSUME Sane, Sound, NEW m \in MethodsOf(Claims)
  PROVE  JoinsAll(m)
<1>1. SUFFICES ASSUME NEW e \in DOMAIN Truth PROVE Joins(m, e)
  BY DEF JoinsAll
<1>2. PICK r \in Range(Claims.runs) : r.method = m /\ r.evidence = e /\ r.request = Truth[e].request
  BY DEF Sound
<1>3. Covered(m, e)
  BY <1>2 DEF Covered
<1>4. RunFor(m, e) \in Range(Claims.runs) /\ RunFor(m, e).evidence = e
  BY <1>3 DEF Covered, RunFor
<1>5. RunFor(m, e).request = r.request
  BY <1>2, <1>4, SaneParts DEF IsClaimSet
<1>6. QED BY <1>2, <1>3, <1>4, <1>5 DEF Joins

\* A call that is bound and joined was sound.
LEMMA JoinedIsSound ==
  ASSUME Sane, Bound, JoinsUpTo(MethodCount)
  PROVE  Sound
<1>1. ASSUME NEW m \in MethodsOf(Claims), NEW e \in DOMAIN Truth
      PROVE  \E r \in Range(Claims.runs) : r.method = m /\ r.evidence = e /\ r.request = Truth[e].request
  <2>1. PICK k \in 1 .. MethodCount : Claims.methods[k] = m
    BY SaneParts
  <2>2. Joins(m, e)
    BY <2>1 DEF JoinsUpTo, JoinsAll
  <2>3. QED BY <2>2, RunForIs DEF Joins
<1>2. {Claims.projection, call.truth.projection} = {call.expected.projection}
  BY DEF Bound
<1>3. QED BY <1>1, <1>2 DEF Sound, Bound

-----------------------------------------------------------------------------
(* What the report of a call that joins shows *)

\* No run of a method or a case the truth does not have.
NoneForeign ==
  \A r \in Range(Claims.runs) : r.method \in MethodsOf(Claims) /\ r.evidence \in DOMAIN Truth

\* One run is graded once, as its answer deserves: the body of FairlyGraded.
FairOn(list, r) ==
  \E i \in DOMAIN list :
    LET row == list[i]
        truth == Truth[r.evidence]
        out == r.outcome
    IN  /\ \A j \in DOMAIN list :
             list[j].method = r.method /\ list[j].evidence = r.evidence <=> j = i
        /\ row.category \in {"exact_decisive", "correct_abstention"} <=> out = TruthSays(truth)
        /\ row.failure = out.failure
        /\ row.category \in FailedCategories <=> out.status = "failed"
        /\ row.category \in AmbiguousCategories <=> truth.ambiguous
        /\ row.category \in DecisiveCategories
             <=> out.status = "claimed" /\ out.kind = "decisive"
        /\ row.category = "wrong_target" => out.target # truth.target
        /\ row.category = "wrong_witness" => out.target = truth.target

\* The rows built for a call grade every run once, and as its answer deserves.
LEMMA BuiltIsFair ==
  ASSUME Sane, JoinsUpTo(MethodCount), NoneForeign, NEW r \in Range(Claims.runs)
  PROVE  FairOn(AllRows, r)
<1> DEFINE m == r.method
           e == r.evidence
           truth == Truth[e]
           out == r.outcome
           list == AllRows
<1>1. m \in MethodsOf(Claims) /\ e \in DOMAIN Truth
  BY DEF NoneForeign
<1>2. PICK i \in IndicesOf(AllRows, m) : CaseOf(i) = e
  BY <1>1, MethodCases
<1>3. Joins(m, e) /\ AllRows[i] = RowFor(m, e) /\ i \in DOMAIN AllRows
  BY <1>1, <1>2, MethodCases DEF IndicesOf
<1>4. RunFor(m, e) = r
  <2>1. RunFor(m, e) \in Range(Claims.runs) /\ RunFor(m, e).method = m /\ RunFor(m, e).evidence = e
    BY <1>1, <1>3, RunForIs
  <2>2. \A s \in Range(Claims.runs) : \E j \in 1 .. MethodCount * CaseCount : Claims.runs[j] = s
    BY OneRunPerKey DEF Range
  <2>3. QED BY <2>1, <2>2, OneRunPerKey
<1>5. /\ AllRows[i].category = Category(out, truth) /\ AllRows[i].failure = out.failure
      /\ AllRows[i].method = m /\ AllRows[i].evidence = e
  BY <1>1, <1>3, <1>4, RowIs
<1>6. IsOutcome(out)
  BY SaneParts DEF IsClaimSet
<1>7. truth.ambiguous \in BOOLEAN
  <2>1. truth.ambiguous = (truth.view \in AmbiguousViews)
    BY <1>1, SaneParts DEF IsTruthSet, Truth
  <2>2. QED BY <2>1
<1>8. \A j \in DOMAIN AllRows : AllRows[j].method = m /\ AllRows[j].evidence = e <=> j = i
  <2>1. SUFFICES ASSUME NEW j \in DOMAIN AllRows, AllRows[j].method = m, AllRows[j].evidence = e
                 PROVE  j = i
    BY <1>5
  <2>2. j \in IndicesOf(AllRows, m)
    BY <2>1 DEF IndicesOf
  <2>3. CaseOf(j) \in DOMAIN Truth /\ Joins(m, CaseOf(j)) /\ AllRows[j] = RowFor(m, CaseOf(j))
    BY <1>1, <2>2, MethodCases
  <2>4. CaseOf(j) = e
    BY <1>1, <2>1, <2>3, RowIs
  <2>5. QED BY <1>1, <1>2, <2>2, <2>4, MethodCases
<1> HIDE DEF truth, out
<1>9. /\ Category(out, truth) \in AmbiguousCategories <=> truth.ambiguous
      /\ Category(out, truth) \in FailedCategories <=> out.status = "failed"
      /\ Category(out, truth) \in {"exact_decisive", "correct_abstention"} <=> out = TruthSays(truth)
      /\ Category(out, truth) \in DecisiveCategories <=> out.status = "claimed" /\ out.kind = "decisive"
      /\ Category(out, truth) = "wrong_target" => out.target # truth.target
      /\ Category(out, truth) = "wrong_witness" => out.target = truth.target
  BY <1>6, <1>7, Graded
<1> DEFINE c == Category(out, truth)
<1> HIDE DEF c, list
<1>10. /\ list[i].category = c /\ list[i].failure = out.failure /\ i \in DOMAIN list
       /\ \A j \in DOMAIN list : list[j].method = r.method /\ list[j].evidence = r.evidence <=> j = i
  BY <1>3, <1>5, <1>8 DEF list, c
<1>11. /\ list[i].category \in {"exact_decisive", "correct_abstention"} <=> out = TruthSays(truth)
       /\ list[i].category \in FailedCategories <=> out.status = "failed"
       /\ list[i].category \in AmbiguousCategories <=> truth.ambiguous
       /\ list[i].category \in DecisiveCategories <=> out.status = "claimed" /\ out.kind = "decisive"
       /\ list[i].category = "wrong_target" => out.target # truth.target
       /\ list[i].category = "wrong_witness" => out.target = truth.target
  BY <1>9, <1>10 DEF c
<1>12. FairOn(list, r)
  BY <1>10, <1>11 DEF FairOn, truth, out
<1>13. QED BY <1>12 DEF list

\* In the report built for a call no method beats the ceiling.
LEMMA BuiltIsBelow ==
  ASSUME Sane, JoinsUpTo(MethodCount), NEW m \in DOMAIN Built.methods, NEW d \in Dimensions
  PROVE  Below(Built.methods[m].tables[d].metrics, Built.ceiling.tables[d].metrics)
<1>1. m \in MethodsOf(Claims)
  BY DEF Built
<1>2. Built.methods[m].tables = Tables(RowsOf(AllRows, m)) /\ Built.ceiling.tables = Tables(CeilingRows)
  BY <1>1 DEF Built, Averaged, Tabulated
<1>3. /\ Built.methods[m].tables[d] = Table(RowsOf(AllRows, m), d)
      /\ Built.ceiling.tables[d] = Table(CeilingRows, d)
  BY <1>2 DEF Tables
<1>4. QED BY <1>1, <1>3, MethodRows, CeilingIsBest, NeverBeatsCeiling

-----------------------------------------------------------------------------
(* Fractions *)

\* A positive factor can be divided out.
LEMMA Cancelled ==
  ASSUME NEW a \in Int, NEW b \in Int, NEW c \in Nat \ {0}, a * c = b * c
  PROVE  a = b
<1>1. CASE a < b
  <2>1. a + 1 <= b
    BY <1>1
  <2>2. (a + 1) * c <= b * c
    BY <2>1
  <2>3. QED BY <2>2
<1>2. CASE b < a
  <2>1. b + 1 <= a
    BY <1>2
  <2>2. (b + 1) * c <= a * c
    BY <2>1
  <2>3. QED BY <2>2
<1>3. QED BY <1>1, <1>2

\* r is n / d in lowest terms.
Lowest(r, n, d) ==
  /\ r = [numerator |-> r.numerator, denominator |-> r.denominator]
  /\ r.numerator \in Nat /\ r.denominator \in Nat \ {0}
  /\ r.numerator * d = n * r.denominator
  /\ \A a \in Nat, b \in Nat \ {0} : a * d = n * b => r.denominator <= b

\* p / q is n / d with the least denominator.
Least(p, q, n, d) == p * d = n * q /\ \A x \in Nat, y \in Nat \ {0} : x * d = n * y => q <= y

Multiple(a, b, p, q) == \E m \in Nat \ {0} : a = m * p /\ b = m * q

\* Every way to write a fraction is a multiple of the one with the least denominator.
LEMMA MultiplesOfLeast ==
  ASSUME NEW n \in Nat, NEW d \in Nat \ {0}, NEW p \in Nat, NEW q \in Nat \ {0}, Least(p, q, n, d),
         NEW a \in Nat, NEW b \in Nat \ {0}, a * d = n * b
  PROVE  Multiple(a, b, p, q)
<1> DEFINE m == b \div q
           r == b % q
           s == a - m * p
<1>1. m \in Nat /\ r \in 0 .. q - 1 /\ b = q * m + r
  OBVIOUS
<1> HIDE DEF m, r
<1>0. p * d = n * q
  BY DEF Least
<1>2. s \in Int /\ a = s + m * p
  BY <1>1
<1>3. s * d = n * r
  <2>1. a * d = s * d + m * (p * d)
    BY <1>1, <1>2
  <2>2. n * b = m * (n * q) + n * r
    BY <1>1
  <2> HIDE DEF s
  <2> DEFINE left == s * d
             right == n * r
             both == m * (n * q)
  <2>3. left \in Int /\ right \in Int /\ m * (p * d) = both /\ both \in Int
    BY <1>0, <1>1, <1>2
  <2>4. left + both = both + right
    BY <2>1, <2>2, <2>3
  <2> HIDE DEF left, right, both
  <2>5. left = right
    BY <2>3, <2>4
  <2>6. QED BY <2>5 DEF left, right
<1> HIDE DEF s
<1>4. n * r \in Nat
  BY <1>1
<1>5. s \in Nat
  <2>1. SUFFICES ASSUME s + 1 <= 0 PROVE FALSE
    BY <1>2
  <2>2. (s + 1) * d <= 0 * d
    BY <1>2, <2>1
  <2>3. s * d + d <= 0
    BY <1>2, <2>2
  <2>4. QED BY <1>2, <1>3, <1>4, <2>3
<1>6. r = 0
  <2>1. SUFFICES ASSUME r # 0 PROVE FALSE
    OBVIOUS
  <2>2. r \in Nat \ {0} /\ r < q
    BY <1>1, <2>1
  <2>3. s * d = n * r => q <= r
    BY <1>5, <2>2, Zenon DEF Least
  <2>4. QED BY <1>1, <1>3, <2>2, <2>3
<1>7. s = 0
  <2>1. s * d = 0
    BY <1>3, <1>6
  <2>2. SUFFICES ASSUME 1 <= s PROVE FALSE
    BY <1>5
  <2>3. 1 * d <= s * d
    BY <1>5, <2>2
  <2>4. QED BY <2>1, <2>3
<1>8. b = m * q /\ a = m * p
  BY <1>1, <1>2, <1>6, <1>7
<1>9. m # 0
  BY <1>8
<1>10. QED BY <1>1, <1>8, <1>9 DEF Multiple

\* from_fraction puts a fraction into lowest terms.
LEMMA RatioIsLowest ==
  ASSUME NEW n \in Nat, NEW d \in Nat \ {0}
  PROVE  Lowest(Ratio(n, d), n, d)
<1> DEFINE B == {b \in Nat \ {0} : \E a \in Nat : a * d = n * b}
<1>1. PICK q \in B : \A b \in B : q <= b
  <2>1. d \in B
    OBVIOUS
  <2>2. B \in SUBSET Nat
    OBVIOUS
  <2> HIDE DEF B
  <2>3. QED BY <2>1, <2>2, LeastNatural
<1>2. q \in Nat \ {0}
  BY <1>1
<1>3. PICK p \in Nat : p * d = n * q
  BY <1>1
<1>4. \A x \in Nat, y \in Nat \ {0} : x * d = n * y => q <= y
  BY <1>1
<1>4a. Least(p, q, n, d)
  BY <1>3, <1>4 DEF Least
<1> HIDE DEF B
<1>5. PICK m \in Nat \ {0} : n = m * p /\ d = m * q
  <2>1. PICK a \in Nat, b \in Nat \ {0} : a = n /\ b = d
    OBVIOUS
  <2>2. a * d = n * b
    BY <2>1
  <2>3. Multiple(a, b, p, q)
    BY <1>2, <1>4a, <2>2, MultiplesOfLeast
  <2>4. QED BY <2>1, <2>3 DEF Multiple
<1>6. n \div m = p /\ n % m = 0 /\ d \div m = q /\ d % m = 0
  <2>1. (p * m + 0) \div m = p /\ (p * m + 0) % m = 0
    BY Divided
  <2>2. (q * m + 0) \div m = q /\ (q * m + 0) % m = 0
    BY <1>2, Divided
  <2>3. p * m + 0 = n /\ q * m + 0 = d
    BY <1>2, <1>5
  <2>4. QED BY <2>1, <2>2, <2>3
<1> DEFINE D == {k \in 1 .. d : n % k = 0 /\ d % k = 0}
<1>7. m \in D
  <2>1. m <= m * q
    BY <1>2
  <2>2. QED BY <1>5, <1>6, <2>1
<1>8. ASSUME NEW k \in D PROVE k <= m
  <2> DEFINE x == n \div k
             y == d \div k
  <2>1. k \in Nat \ {0} /\ n % k = 0 /\ d % k = 0
    OBVIOUS
  <2>2. x \in Nat /\ y \in Nat /\ n = k * x /\ d = k * y
    BY <2>1
  <2> HIDE DEF x, y, D
  <2>3. y \in Nat \ {0}
    BY <2>1, <2>2
  <2>4. x * d = n * y
    <3>1. x * (k * y) = (k * x) * y
      BY <2>1, <2>2
    <3>2. QED BY <2>2, <3>1
  <2>4a. Multiple(x, y, p, q)
    BY <1>2, <1>4a, <2>2, <2>3, <2>4, MultiplesOfLeast
  <2>5. PICK j \in Nat \ {0} : x = j * p /\ y = j * q
    BY <2>4a DEF Multiple
  <2>6. (k * j) * q = m * q
    BY <1>2, <1>5, <2>1, <2>2, <2>5
  <2>7. k * j = m
    BY <1>2, <2>1, <2>6, Cancelled
  <2>8. k <= k * j
    BY <2>1
  <2>9. QED BY <2>7, <2>8
<1>9. Max(D) = m
  <2> HIDE DEF D
  <2>1. m \in D /\ \A k \in D : m >= k
    <3>1. \A k \in D : k \in Int
      BY DEF D
    <3>2. QED BY <1>7, <1>8, <3>1
  <2>2. \A u \in D : (\A k \in D : u >= k) => u = m
    <3>1. \A u \in D : u \in Int
      BY DEF D
    <3>2. QED BY <2>1, <3>1
  <2>3. QED BY <2>1, <2>2 DEF Max
<1>10. Ratio(n, d) = [numerator |-> n \div Max(D), denominator |-> d \div Max(D)]
  BY DEF Ratio
<1> HIDE DEF D
<1>11. Ratio(n, d) = [numerator |-> p, denominator |-> q]
  BY <1>6, <1>9, <1>10
<1>12. QED BY <1>2, <1>3, <1>4, <1>11 DEF Lowest

\* Two fractions of one value have the same lowest terms.
LEMMA LowestIsOne ==
  ASSUME NEW n \in Nat, NEW d \in Nat \ {0}, NEW k \in Nat, NEW e \in Nat \ {0}, n * e = k * d,
         NEW r, Lowest(r, n, d), NEW s, Lowest(s, k, e)
  PROVE  r = s
<1> DEFINE a == r.numerator
           b == r.denominator
           u == s.numerator
           v == s.denominator
<1>1. a \in Nat /\ b \in Nat \ {0} /\ a * d = n * b /\ \A x \in Nat, y \in Nat \ {0} : x * d = n * y => b <= y
  BY DEF Lowest
<1>2. u \in Nat /\ v \in Nat \ {0} /\ u * e = k * v /\ \A x \in Nat, y \in Nat \ {0} : x * e = k * y => v <= y
  BY DEF Lowest
<1>3. r = [numerator |-> a, denominator |-> b] /\ s = [numerator |-> u, denominator |-> v]
  BY DEF Lowest
<1> HIDE DEF a, b, u, v
<1>4. a * e = k * b
  <2>1. (a * d) * e = (n * e) * b
    BY <1>1
  <2>2. (a * e) * d = (k * b) * d
    BY <1>1, <2>1
  <2>3. a * e \in Int /\ k * b \in Int
    BY <1>1
  <2>4. QED BY <2>2, <2>3, Cancelled
<1>5. u * d = n * v
  <2>1. (u * e) * d = (k * d) * v
    BY <1>2
  <2>2. (u * d) * e = (n * v) * e
    BY <1>2, <2>1
  <2>3. u * d \in Int /\ n * v \in Int
    BY <1>2
  <2>4. QED BY <2>2, <2>3, Cancelled
<1>6. b = v
  <2>1. v <= b
    BY <1>1, <1>2, <1>4
  <2>2. b <= v
    BY <1>1, <1>2, <1>5
  <2>3. QED BY <1>1, <1>2, <2>1, <2>2
<1>7. a = u
  <2>1. a * d = u * d
    BY <1>1, <1>5, <1>6
  <2>2. QED BY <1>1, <1>2, <2>1, Cancelled
<1>8. QED BY <1>3, <1>6, <1>7

-----------------------------------------------------------------------------
(* Sums of fractions *)

\* What holds of a finite set if it holds of every subset whose smaller subsets have it.
LEMMA SubsetsGrow ==
  ASSUME NEW S, IsFiniteSet(S), NEW P,
         \A s \in SUBSET S : (\A x \in s : s \ {x} \in P) => s \in P
  PROVE  \A s \in SUBSET S : s \in P
<1> DEFINE Bad == {n \in Nat : \E s \in SUBSET S : Cardinality(s) = n /\ s \notin P}
<1>1. \A s \in SUBSET S : IsFiniteSet(s) /\ Cardinality(s) \in Nat
  BY FS_Subset, FS_CardinalityType
<1>2. SUFFICES ASSUME Bad # {} PROVE FALSE
  BY <1>1
<1>3. PICK n \in Bad : \A m \in Bad : n <= m
  <2> HIDE DEF Bad
  <2>1. Bad \in SUBSET Nat
    BY DEF Bad
  <2>2. QED BY <1>2, <2>1, LeastNatural
<1>4. PICK s \in SUBSET S : Cardinality(s) = n /\ s \notin P
  BY <1>3
<1>5. ASSUME NEW x \in s PROVE s \ {x} \in P
  <2>1. Cardinality(s \ {x}) = n - 1 /\ n \in Nat
    BY <1>1, <1>4, FS_RemoveElement
  <2>2. s \ {x} \in SUBSET S
    OBVIOUS
  <2>3. n - 1 \in Nat
    BY <1>1, <2>1, <2>2
  <2>4. n - 1 \notin Bad
    BY <1>3, <2>1
  <2>5. QED BY <2>1, <2>2, <2>3, <2>4
<1>6. QED BY <1>4, <1>5

\* The step of the recursion that adds up ratios, and a function that takes every step.
NoneYet == [numerator |-> 0, denominator |-> 1]
PickOf(s) == CHOOSE t \in s : TRUE
Mounts(ratios, S, g) ==
  g = [s \in SUBSET S |-> IF s = {} THEN NoneYet ELSE Plus(ratios[PickOf(s)], g[s \ {PickOf(s)}])]

\* There is one: each size of set is reached from the size below.
LEMMA SumOfMounts ==
  ASSUME NEW S, IsFiniteSet(S), NEW ratios
  PROVE  \E g : Mounts(ratios, S, g) /\ SumOf(ratios, S) = g[S]
<1> DEFINE Upto(k) == {s \in SUBSET S : Cardinality(s) <= k}
           Step(g, s) == IF s = {} THEN NoneYet ELSE Plus(ratios[PickOf(s)], g[s \ {PickOf(s)}])
           Good(k, g) == \A s \in Upto(k) : g[s] = Step(g, s)
           Bad == {k \in Nat : ~ \E g : Good(k, g)}
<1>1. \A s \in SUBSET S : IsFiniteSet(s) /\ Cardinality(s) \in Nat
  BY FS_Subset, FS_CardinalityType
<1>2. \A s \in SUBSET S : s # {} => /\ PickOf(s) \in s /\ s \ {PickOf(s)} \in SUBSET S
                                    /\ Cardinality(s \ {PickOf(s)}) = Cardinality(s) - 1
  <2>1. \A s \in SUBSET S : s # {} => PickOf(s) \in s /\ s \ {PickOf(s)} \in SUBSET S
    BY DEF PickOf
  <2>2. QED BY <1>1, <2>1, FS_RemoveElement
<1>3. ASSUME Bad # {} PROVE FALSE
  <2>1. PICK n \in Bad : \A m \in Bad : n <= m
    <3> HIDE DEF Bad
    <3>1. Bad \in SUBSET Nat
      BY DEF Bad
    <3>2. QED BY <1>3, <3>1, LeastNatural
  <2>2. n # 0
    <3>1. SUFFICES ASSUME n = 0 PROVE \E g : Good(n, g)
      OBVIOUS
    <3> DEFINE g == [s \in Upto(n) |-> NoneYet]
    <3>2. \A s \in Upto(n) : s = {}
      BY <1>1, <3>1, FS_EmptySet
    <3>3. Good(n, g)
      BY <3>2
    <3>4. QED BY <3>3
  <2>3. n \in Nat /\ n - 1 \in Nat /\ n - 1 \notin Bad
    <3>1. n \in Nat
      OBVIOUS
    <3> HIDE DEF Bad
    <3>2. QED BY <2>1, <2>2, <3>1
  <2>4. PICK g : Good(n - 1, g)
    <3> HIDE DEF Good
    <3>1. QED BY <2>3
  <2> DEFINE h == [s \in Upto(n) |-> Step(g, s)]
  <2>5. \A s \in Upto(n - 1) : s \in Upto(n) /\ h[s] = g[s]
    <3>1. ASSUME NEW s \in Upto(n - 1) PROVE s \in Upto(n)
      <4>1. s \in SUBSET S /\ Cardinality(s) <= n - 1
        OBVIOUS
      <4>2. Cardinality(s) \in Nat
        BY <1>1, <4>1
      <4>3. Cardinality(s) <= n
        BY <2>3, <4>1, <4>2
      <4>4. QED BY <4>1, <4>3
    <3>2. \A s \in Upto(n) : h[s] = Step(g, s)
      OBVIOUS
    <3> HIDE DEF Upto, Step, h
    <3>3. QED BY <2>4, <3>1, <3>2
  <2>6. ASSUME NEW s \in Upto(n) PROVE h[s] = Step(h, s)
    <3>1. h[s] = Step(g, s)
      OBVIOUS
    <3>2. CASE s = {}
      BY <3>1, <3>2
    <3>3. CASE s # {}
      <4>1. s \ {PickOf(s)} \in Upto(n - 1)
        BY <1>1, <1>2, <2>3, <3>3
      <4>2. h[s \ {PickOf(s)}] = g[s \ {PickOf(s)}]
        BY <2>5, <4>1
      <4> HIDE DEF h, Upto
      <4>3. QED BY <3>1, <3>3, <4>2
    <3>4. QED BY <3>2, <3>3
  <2>7. QED BY <2>1, <2>6
<1>4. PICK g : Good(Cardinality(S), g)
  BY <1>1, <1>3
<1>5. \A s \in SUBSET S : s \in Upto(Cardinality(S))
  BY FS_Subset
<1> DEFINE h == [s \in SUBSET S |-> g[s]]
<1>6. Mounts(ratios, S, h)
  <2>1. \A s \in SUBSET S : g[s] = Step(g, s)
    BY <1>4, <1>5
  <2>2. \A s \in SUBSET S : Step(g, s) = Step(h, s)
    BY <1>2
  <2>3. h = [s \in SUBSET S |-> Step(h, s)]
    <3>1. \A s \in SUBSET S : g[s] = Step(h, s)
      BY <2>1, <2>2
    <3> DEFINE k == [s \in SUBSET S |-> Step(h, s)]
    <3>2. h = [s \in SUBSET S |-> h[s]] /\ k = [s \in SUBSET S |-> k[s]]
      OBVIOUS
    <3>3. \A s \in SUBSET S : h[s] = k[s]
      BY <3>1
    <3> HIDE DEF h, k
    <3>4. h = k
      BY <3>2, <3>3
    <3>5. QED BY <3>4 DEF k
  <2> HIDE DEF h
  <2>4. QED BY <2>3 DEF Mounts
<1> DEFINE c == CHOOSE f : Mounts(ratios, S, f)
<1>7. Mounts(ratios, S, c)
  <2> HIDE DEF h
  <2>1. QED BY <1>6, Zenon
<1>8. SumOf(ratios, S) = c[S]
  BY DEF SumOf, MapThenFoldSet, Mounts, NoneYet, PickOf
<1> HIDE DEF c
<1>9. QED BY <1>7, <1>8

\* No ratio adds up to zero.
LEMMA MountsNone ==
  ASSUME NEW S, NEW ratios, NEW g, Mounts(ratios, S, g)
  PROVE  g[{}].numerator = 0 /\ g[{}].denominator = 1 /\ Cardinality({}) = 0
<1>1. {} \in SUBSET S
  OBVIOUS
<1>2. g[{}] = NoneYet
  BY <1>1 DEF Mounts
<1>3. QED BY <1>2, FS_EmptySet DEF NoneYet

\* A step of the recursion.
LEMMA MountsStep ==
  ASSUME NEW S, IsFiniteSet(S), NEW ratios, NEW g, Mounts(ratios, S, g), NEW s \in SUBSET S, s # {}
  PROVE  /\ PickOf(s) \in s /\ PickOf(s) \in S /\ s \ {PickOf(s)} \in SUBSET S
         /\ g[s] = Plus(ratios[PickOf(s)], g[s \ {PickOf(s)}])
         /\ Cardinality(s) = Cardinality(s \ {PickOf(s)}) + 1
         /\ Cardinality(s \ {PickOf(s)}) \in Nat
<1>1. PickOf(s) \in s
  BY DEF PickOf
<1>2. IsFiniteSet(s) /\ Cardinality(s) \in Nat
  BY FS_Subset, FS_CardinalityType
<1>3. IsFiniteSet(s \ {PickOf(s)}) /\ Cardinality(s \ {PickOf(s)}) = Cardinality(s) - 1
  BY <1>1, <1>2, FS_RemoveElement
<1>4. Cardinality(s \ {PickOf(s)}) \in Nat
  BY <1>3, FS_CardinalityType
<1>5. g[s] = Plus(ratios[PickOf(s)], g[s \ {PickOf(s)}])
  BY DEF Mounts
<1>6. QED BY <1>1, <1>2, <1>3, <1>4, <1>5

\* A sum n / d of k fractions that is above k * l / m by the k units of the fractions, below
\* it by as much, and a fraction a / b that is n / e.
Above(l, m, n, d, k) == l * (d * k) + k <= n * m
Beneath(l, m, n, d, k) == n * m + k <= l * (d * k)
Over(e, a, b, n) == a * e = n * b

\* One more fraction, not less than l / m by a unit, keeps a sum of k of them above l / m.
LEMMA PlusAbove ==
  ASSUME NEW l \in Nat, NEW m \in Nat \ {0}, NEW a \in Nat, NEW b \in Nat \ {0},
         NEW c \in Nat, NEW d \in Nat \ {0}, NEW k \in Nat,
         Above(l, m, a, b, 1), Above(l, m, c, d, k)
  PROVE  Above(l, m, a * d + c * b, b * d, k + 1)
<1> DEFINE p == l * b
           q == a * m
           r == l * (d * k)
           s == c * m
<1>1. p \in Nat /\ q \in Nat /\ r \in Nat /\ s \in Nat
  OBVIOUS
<1>2. l * ((b * d) * (k + 1)) = p * d + r * b /\ (a * d + c * b) * m = q * d + s * b
  OBVIOUS
<1>3. p + 1 <= q /\ r + k <= s
  BY DEF Above
<1> HIDE DEF p, q, r, s
<1>4. (p + 1) * d <= q * d
  BY <1>1, <1>3
<1>5. (r + k) * b <= s * b
  BY <1>1, <1>3
<1>6. p * d + d <= q * d /\ r * b + k * b <= s * b
  BY <1>1, <1>4, <1>5
<1>7. k <= k * b /\ 1 <= d
  OBVIOUS
<1> DEFINE pd == p * d
           qd == q * d
           rb == r * b
           sb == s * b
           kb == k * b
<1>8. pd \in Nat /\ qd \in Nat /\ rb \in Nat /\ sb \in Nat /\ kb \in Nat
  BY <1>1
<1>9. pd + d <= qd /\ rb + kb <= sb /\ k <= kb /\ 1 <= d
  BY <1>6, <1>7
<1> HIDE DEF pd, qd, rb, sb, kb
<1>10. pd + rb + (k + 1) <= qd + sb
  BY <1>8, <1>9
<1>11. QED BY <1>2, <1>10 DEF pd, qd, rb, sb, Above

\* And one that is not more than l / m by a unit keeps it below.
LEMMA PlusBelow ==
  ASSUME NEW l \in Nat, NEW m \in Nat \ {0}, NEW a \in Nat, NEW b \in Nat \ {0},
         NEW c \in Nat, NEW d \in Nat \ {0}, NEW k \in Nat,
         Beneath(l, m, a, b, 1), Beneath(l, m, c, d, k)
  PROVE  Beneath(l, m, a * d + c * b, b * d, k + 1)
<1> DEFINE p == l * b
           q == a * m
           r == l * (d * k)
           s == c * m
<1>1. p \in Nat /\ q \in Nat /\ r \in Nat /\ s \in Nat
  OBVIOUS
<1>2. l * ((b * d) * (k + 1)) = p * d + r * b /\ (a * d + c * b) * m = q * d + s * b
  OBVIOUS
<1>3. q + 1 <= p /\ s + k <= r
  BY DEF Beneath
<1> HIDE DEF p, q, r, s
<1>4. (q + 1) * d <= p * d
  BY <1>1, <1>3
<1>5. (s + k) * b <= r * b
  BY <1>1, <1>3
<1>6. q * d + d <= p * d /\ s * b + k * b <= r * b
  BY <1>1, <1>4, <1>5
<1>7. k <= k * b /\ 1 <= d
  OBVIOUS
<1> DEFINE pd == p * d
           qd == q * d
           rb == r * b
           sb == s * b
           kb == k * b
<1>8. pd \in Nat /\ qd \in Nat /\ rb \in Nat /\ sb \in Nat /\ kb \in Nat
  BY <1>1
<1>9. qd + d <= pd /\ sb + kb <= rb /\ k <= kb /\ 1 <= d
  BY <1>6, <1>7
<1> HIDE DEF pd, qd, rb, sb, kb
<1>10. qd + sb + (k + 1) <= pd + rb
  BY <1>8, <1>9
<1>11. QED BY <1>2, <1>10 DEF pd, qd, rb, sb, Beneath

\* Fractions over one denominator add up over it.
LEMMA PlusSame ==
  ASSUME NEW e \in Nat, NEW n \in Nat, NEW k \in Nat, NEW a \in Nat, NEW b \in Nat \ {0},
         NEW c \in Nat, NEW d \in Nat \ {0}, Over(e, a, b, n), Over(e, c, d, k)
  PROVE  Over(e, a * d + c * b, b * d, n + k)
<1>1. (a * d + c * b) * e = (a * e) * d + (c * e) * b
  OBVIOUS
<1>2. (n * b) * d + (k * d) * b = (n + k) * (b * d)
  OBVIOUS
<1>3. a * e = n * b /\ c * e = k * d
  BY DEF Over
<1>4. QED BY <1>1, <1>2, <1>3 DEF Over

\* Ratios that are fractions of natural numbers.
Fractions(ratios, S) ==
  \A t \in S : ratios[t].numerator \in Nat /\ ratios[t].denominator \in Nat \ {0}

\* Their sum is one too.
LEMMA SumOfIsFraction ==
  ASSUME NEW S, IsFiniteSet(S), NEW ratios, Fractions(ratios, S), NEW g, Mounts(ratios, S, g)
  PROVE  \A s \in SUBSET S : g[s].numerator \in Nat /\ g[s].denominator \in Nat \ {0}
<1> DEFINE P == {s \in SUBSET S : g[s].numerator \in Nat /\ g[s].denominator \in Nat \ {0}}
<1>1. ASSUME NEW s \in SUBSET S, \A x \in s : s \ {x} \in P PROVE s \in P
  <2>1. CASE s = {}
    <3>1. g[{}].numerator = 0 /\ g[{}].denominator = 1
      BY MountsNone
    <3>2. QED BY <2>1, <3>1
  <2>2. CASE s # {}
    <3> DEFINE r == s \ {PickOf(s)}
               x == ratios[PickOf(s)]
               y == g[r]
    <3>1. PickOf(s) \in s /\ PickOf(s) \in S /\ g[s] = Plus(x, y) /\ r \in SUBSET S
      BY <2>2, MountsStep
    <3>2. x.numerator \in Nat /\ x.denominator \in Nat \ {0}
      BY <3>1 DEF Fractions
    <3>3. y.numerator \in Nat /\ y.denominator \in Nat \ {0}
      BY <1>1, <3>1
    <3> HIDE DEF x, y, r
    <3>4. g[s].numerator = x.numerator * y.denominator + y.numerator * x.denominator
          /\ g[s].denominator = x.denominator * y.denominator
      BY <3>1 DEF Plus
    <3>5. x.numerator * y.denominator \in Nat /\ y.numerator * x.denominator \in Nat
          /\ x.denominator * y.denominator \in Nat \ {0}
      BY <3>2, <3>3
    <3>6. QED BY <3>4, <3>5
  <2>3. QED BY <2>1, <2>2
<1> HIDE DEF P
<1>2. \A s \in SUBSET S : s \in P
  BY <1>1, SubsetsGrow
<1>3. QED BY <1>2 DEF P

\* Where every ratio is above l / m, so is the mean of them.
LEMMA MeanAbove ==
  ASSUME NEW S, IsFiniteSet(S), NEW ratios, Fractions(ratios, S), NEW g, Mounts(ratios, S, g),
         NEW l \in Nat, NEW m \in Nat \ {0},
         \A t \in S : Above(l, m, ratios[t].numerator, ratios[t].denominator, 1)
  PROVE  Above(l, m, g[S].numerator, g[S].denominator, Cardinality(S))
<1> DEFINE P == {s \in SUBSET S : Above(l, m, g[s].numerator, g[s].denominator, Cardinality(s))}
<1>1. ASSUME NEW s \in SUBSET S, \A x \in s : s \ {x} \in P PROVE s \in P
  <2>1. CASE s = {}
    <3>1. g[{}].numerator = 0 /\ g[{}].denominator = 1 /\ Cardinality({}) = 0
      BY MountsNone
    <3>2. Above(l, m, 0, 1, 0)
      BY DEF Above
    <3>3. QED BY <2>1, <3>1, <3>2
  <2>2. CASE s # {}
    <3> DEFINE r == s \ {PickOf(s)}
               x == ratios[PickOf(s)]
               y == g[r]
               k == Cardinality(r)
    <3>1. /\ PickOf(s) \in s /\ PickOf(s) \in S /\ g[s] = Plus(x, y) /\ r \in SUBSET S
          /\ Cardinality(s) = k + 1 /\ k \in Nat
      BY <2>2, MountsStep
    <3>2. /\ x.numerator \in Nat /\ x.denominator \in Nat \ {0}
          /\ Above(l, m, x.numerator, x.denominator, 1)
      BY <3>1 DEF Fractions
    <3>3. y.numerator \in Nat /\ y.denominator \in Nat \ {0}
      BY <3>1, SumOfIsFraction
    <3>4. Above(l, m, y.numerator, y.denominator, k)
      BY <1>1, <3>1
    <3> HIDE DEF x, y, k, r
    <3>5. g[s].numerator = x.numerator * y.denominator + y.numerator * x.denominator
          /\ g[s].denominator = x.denominator * y.denominator
      BY <3>1 DEF Plus
    <3>6. Above(l, m, x.numerator * y.denominator + y.numerator * x.denominator,
                x.denominator * y.denominator, k + 1)
      BY <3>1, <3>2, <3>3, <3>4, PlusAbove
    <3>7. QED BY <3>1, <3>5, <3>6
  <2>3. QED BY <2>1, <2>2
<1> HIDE DEF P
<1>2. S \in P
  <2>1. \A s \in SUBSET S : s \in P
    BY <1>1, SubsetsGrow
  <2>2. QED BY <2>1
<1>3. QED BY <1>2 DEF P

\* Where every ratio is below l / m, so is the mean of them.
LEMMA MeanBelow ==
  ASSUME NEW S, IsFiniteSet(S), NEW ratios, Fractions(ratios, S), NEW g, Mounts(ratios, S, g),
         NEW l \in Nat, NEW m \in Nat \ {0},
         \A t \in S : Beneath(l, m, ratios[t].numerator, ratios[t].denominator, 1)
  PROVE  Beneath(l, m, g[S].numerator, g[S].denominator, Cardinality(S))
<1> DEFINE P == {s \in SUBSET S : Beneath(l, m, g[s].numerator, g[s].denominator, Cardinality(s))}
<1>1. ASSUME NEW s \in SUBSET S, \A x \in s : s \ {x} \in P PROVE s \in P
  <2>1. CASE s = {}
    <3>1. g[{}].numerator = 0 /\ g[{}].denominator = 1 /\ Cardinality({}) = 0
      BY MountsNone
    <3>2. Beneath(l, m, 0, 1, 0)
      BY DEF Beneath
    <3>3. QED BY <2>1, <3>1, <3>2
  <2>2. CASE s # {}
    <3> DEFINE r == s \ {PickOf(s)}
               x == ratios[PickOf(s)]
               y == g[r]
               k == Cardinality(r)
    <3>1. /\ PickOf(s) \in s /\ PickOf(s) \in S /\ g[s] = Plus(x, y) /\ r \in SUBSET S
          /\ Cardinality(s) = k + 1 /\ k \in Nat
      BY <2>2, MountsStep
    <3>2. /\ x.numerator \in Nat /\ x.denominator \in Nat \ {0}
          /\ Beneath(l, m, x.numerator, x.denominator, 1)
      BY <3>1 DEF Fractions
    <3>3. y.numerator \in Nat /\ y.denominator \in Nat \ {0}
      BY <3>1, SumOfIsFraction
    <3>4. Beneath(l, m, y.numerator, y.denominator, k)
      BY <1>1, <3>1
    <3> HIDE DEF x, y, k, r
    <3>5. g[s].numerator = x.numerator * y.denominator + y.numerator * x.denominator
          /\ g[s].denominator = x.denominator * y.denominator
      BY <3>1 DEF Plus
    <3>6. Beneath(l, m, x.numerator * y.denominator + y.numerator * x.denominator,
                  x.denominator * y.denominator, k + 1)
      BY <3>1, <3>2, <3>3, <3>4, PlusBelow
    <3>7. QED BY <3>1, <3>5, <3>6
  <2>3. QED BY <2>1, <2>2
<1> HIDE DEF P
<1>2. S \in P
  <2>1. \A s \in SUBSET S : s \in P
    BY <1>1, SubsetsGrow
  <2>2. QED BY <2>1
<1>3. QED BY <1>2 DEF P

\* Ratios that are n[t] / e add up to the sum of n over e.
LEMMA SumOverOne ==
  ASSUME NEW S, IsFiniteSet(S), NEW ratios, Fractions(ratios, S), NEW g, Mounts(ratios, S, g),
         NEW e \in Nat, NEW n, DOMAIN n = S,
         \A t \in S : n[t] \in Nat /\ Over(e, ratios[t].numerator, ratios[t].denominator, n[t])
  PROVE  Over(e, g[S].numerator, g[S].denominator, Sum(n))
<1> DEFINE N(s) == Cardinality(Units(n, s))
           P == {s \in SUBSET S : Over(e, g[s].numerator, g[s].denominator, N(s))}
<1>1. ASSUME NEW s \in SUBSET S, \A x \in s : s \ {x} \in P PROVE s \in P
  <2>1. CASE s = {}
    <3>1. g[{}].numerator = 0 /\ g[{}].denominator = 1
      BY MountsNone
    <3>2. N({}) = 0
      <4>1. Units(n, {}) = {}
        BY DEF Units
      <4>2. QED BY <4>1, FS_EmptySet
    <3>3. QED BY <2>1, <3>1, <3>2 DEF Over
  <2>2. CASE s # {}
    <3> DEFINE t == PickOf(s)
               r == s \ {t}
               x == ratios[t]
               y == g[r]
               k == N(r)
    <3>1. t \in s /\ t \in S /\ g[s] = Plus(x, y) /\ r \in SUBSET S
      <4>1. /\ PickOf(s) \in s /\ PickOf(s) \in S /\ s \ {PickOf(s)} \in SUBSET S
            /\ g[s] = Plus(ratios[PickOf(s)], g[s \ {PickOf(s)}])
        BY <2>2, MountsStep
      <4>2. QED BY <4>1
    <3>2. /\ x.numerator \in Nat /\ x.denominator \in Nat \ {0}
          /\ n[t] \in Nat /\ Over(e, x.numerator, x.denominator, n[t])
      BY <3>1 DEF Fractions
    <3>3. y.numerator \in Nat /\ y.denominator \in Nat \ {0}
      BY <3>1, SumOfIsFraction
    <3>4. Over(e, y.numerator, y.denominator, k)
      BY <1>1, <3>1
    <3>5. IsFiniteSet(Units(n, r)) /\ k \in Nat
      BY <3>1, UnitsAreFinite, FS_CardinalityType
    <3>6. N(s) = n[t] + k
      BY <3>1, <3>2, <3>5, UnitsOfOneMore
    <3> DEFINE nt == n[t]
    <3>6a. nt \in Nat /\ Over(e, x.numerator, x.denominator, nt)
      BY <3>2
    <3> HIDE DEF x, y, k, r, t, N, nt
    <3>7. g[s].numerator = x.numerator * y.denominator + y.numerator * x.denominator
          /\ g[s].denominator = x.denominator * y.denominator
      BY <3>1 DEF Plus
    <3>8. Over(e, x.numerator * y.denominator + y.numerator * x.denominator,
               x.denominator * y.denominator, nt + k)
      BY <3>2, <3>3, <3>4, <3>5, <3>6a, PlusSame
    <3>9. QED BY <3>6, <3>7, <3>8 DEF nt
  <2>3. QED BY <2>1, <2>2
<1> HIDE DEF P, N
<1>2. S \in P
  <2>1. \A s \in SUBSET S : s \in P
    BY <1>1, SubsetsGrow
  <2>2. QED BY <2>1
<1>3. Sum(n) = N(S)
  BY SumCountsUnits DEF N
<1>4. QED BY <1>2, <1>3 DEF P

-----------------------------------------------------------------------------
(* Means of rates *)

\* A column of a report: for every template, the rate n[t] / d[t].
Column(rates, n, d) ==
  \A t \in Templates : n[t] \in Nat /\ d[t] \in Nat /\ rates[t] = Rate(n[t], d[t])

DefinedIn(rates) == {t \in Templates : rates[t].ratio # Undefined}

\* The ratio of a rate is undefined only over zero, and otherwise in lowest terms.
LEMMA RatioOfRate ==
  ASSUME NEW n \in Nat, NEW d \in Nat
  PROVE  /\ Rate(n, d).ratio = Ratio(n, d)
         /\ d = 0 => Ratio(n, d) = Undefined
         /\ d # 0 => Lowest(Ratio(n, d), n, d) /\ Ratio(n, d) # Undefined
<1>1. Rate(n, d).ratio = Ratio(n, d)
  BY DEF Rate
<1>2. d = 0 => Ratio(n, d) = Undefined
  BY DEF Ratio
<1>3. ASSUME d # 0 PROVE Lowest(Ratio(n, d), n, d) /\ Ratio(n, d) # Undefined
  <2>1. Lowest(Ratio(n, d), n, d)
    BY <1>3, RatioIsLowest
  <2>2. Ratio(n, d).denominator # 0
    BY <2>1 DEF Lowest
  <2>3. Undefined.denominator = 0
    BY DEF Undefined
  <2>4. QED BY <2>1, <2>2, <2>3
<1>4. QED BY <1>1, <1>2, <1>3

\* The defined ratios of a column are fractions, of templates there are finitely many.
LEMMA ColumnRatios ==
  ASSUME NEW rates, NEW n, NEW d, Column(rates, n, d)
  PROVE  /\ IsFiniteSet(DefinedIn(rates)) /\ Cardinality(DefinedIn(rates)) \in Nat
         /\ DefinedIn(rates) = {t \in Templates : d[t] # 0}
         /\ \A t \in DefinedIn(rates) : Lowest(rates[t].ratio, n[t], d[t])
         /\ Fractions([t \in DefinedIn(rates) |-> rates[t].ratio], DefinedIn(rates))
<1> DEFINE S == DefinedIn(rates)
<1>1. IsFiniteSet(S) /\ Cardinality(S) \in Nat
  BY CellsFinite, FS_Subset, FS_CardinalityType DEF DefinedIn
<1>2. ASSUME NEW t \in Templates
      PROVE  /\ rates[t].ratio # Undefined <=> d[t] # 0
             /\ d[t] # 0 => Lowest(rates[t].ratio, n[t], d[t])
  <2> DEFINE a == n[t]
             b == d[t]
  <2>1. a \in Nat /\ b \in Nat /\ rates[t] = Rate(a, b)
    BY DEF Column
  <2> HIDE DEF a, b
  <2>2. rates[t].ratio = Ratio(a, b)
    BY <2>1, RatioOfRate
  <2>3. b = 0 => Ratio(a, b) = Undefined
    BY <2>1, RatioOfRate
  <2>4. b # 0 => Lowest(Ratio(a, b), a, b) /\ Ratio(a, b) # Undefined
    BY <2>1, RatioOfRate
  <2>5. QED BY <2>2, <2>3, <2>4 DEF a, b
<1>3. S = {t \in Templates : d[t] # 0}
  BY <1>2 DEF DefinedIn
<1>4. \A t \in S : Lowest(rates[t].ratio, n[t], d[t])
  BY <1>2 DEF DefinedIn
<1>5. Fractions([t \in S |-> rates[t].ratio], S)
  BY <1>4 DEF Fractions, Lowest
<1>6. QED BY <1>1, <1>3, <1>4, <1>5

\* What the mean is.
LEMMA MeanIs ==
  ASSUME NEW rates
  PROVE  LET S == DefinedIn(rates)
             total == SumOf([t \in S |-> rates[t].ratio], S)
         IN  Mean(rates).ratio = IF S = {} THEN Undefined
                                 ELSE Ratio(total.numerator, total.denominator * Cardinality(S))
BY DEF Mean, DefinedIn

\* The mean of a column with a defined rate is defined and between two of its rates.
LEMMA MeanIsBetween ==
  ASSUME NEW rates, NEW n, NEW d, Column(rates, n, d), DefinedIn(rates) # {}
  PROVE  /\ Mean(rates).ratio # Undefined
         /\ \E t \in DefinedIn(rates) : AtMost(rates[t].ratio, Mean(rates).ratio)
         /\ \E t \in DefinedIn(rates) : AtMost(Mean(rates).ratio, rates[t].ratio)
<1> DEFINE S == DefinedIn(rates)
           ratios == [t \in S |-> rates[t].ratio]
           k == Cardinality(S)
           mean == Mean(rates).ratio
<1>1. IsFiniteSet(S) /\ k \in Nat /\ Fractions(ratios, S)
  BY ColumnRatios
<1>2. k # 0
  BY <1>1, FS_EmptySet
<1>3. PICK g : Mounts(ratios, S, g) /\ SumOf(ratios, S) = g[S]
  BY <1>1, SumOfMounts
<1> DEFINE a == g[S].numerator
           b == g[S].denominator
           l == mean.numerator
           m == mean.denominator
<1>4. a \in Nat /\ b \in Nat \ {0}
  <2> HIDE DEF S, ratios
  <2>1. S \in SUBSET S
    OBVIOUS
  <2>2. QED BY <1>1, <1>3, <2>1, SumOfIsFraction
<1>5. mean = Ratio(a, b * k)
  BY <1>3, MeanIs
<1>6. \A t \in S : ratios[t] = rates[t].ratio
  OBVIOUS
<1> HIDE DEF ratios, S, a, b, k
<1>7. b * k \in Nat \ {0}
  BY <1>1, <1>2, <1>4
<1>8. Lowest(mean, a, b * k) /\ mean # Undefined
  BY <1>4, <1>5, <1>7, RatioOfRate
<1>9. l \in Nat /\ m \in Nat \ {0} /\ l * (b * k) = a * m
  BY <1>8 DEF Lowest
<1>10. \A t \in S : ratios[t].numerator \in Nat /\ ratios[t].denominator \in Nat \ {0}
  BY <1>1 DEF Fractions
<1> HIDE DEF mean, l, m
<1>11. \E t \in S : AtMost(ratios[t], mean)
  <2>1. SUFFICES ASSUME \A t \in S : ~ AtMost(ratios[t], mean) PROVE FALSE
    OBVIOUS
  <2>2. ASSUME NEW t \in S PROVE Above(l, m, ratios[t].numerator, ratios[t].denominator, 1)
    <3> DEFINE c == ratios[t].numerator
               e == ratios[t].denominator
    <3>1. c \in Nat /\ e \in Nat \ {0}
      BY <1>10
    <3>2. ~ (c * m <= l * e)
      BY <2>1 DEF AtMost, l, m
    <3> HIDE DEF c, e
    <3>3. l * e + 1 <= c * m
      <4>1. c * m \in Int /\ l * e \in Int
        BY <1>9, <3>1
      <4>2. QED BY <3>2, <4>1
    <3>4. Above(l, m, c, e, 1)
      BY <1>9, <3>1, <3>3 DEF Above
    <3>5. QED BY <3>4 DEF c, e
  <2>3. Above(l, m, a, b, k)
    BY <1>1, <1>3, <1>9, <2>2, MeanAbove DEF a, b, k
  <2>4. l * (b * k) \in Int /\ l * (b * k) + k <= a * m
    BY <1>1, <1>4, <1>9, <2>3 DEF Above
  <2>5. QED BY <1>1, <1>2, <1>9, <2>4
<1>12. \E t \in S : AtMost(mean, ratios[t])
  <2>1. SUFFICES ASSUME \A t \in S : ~ AtMost(mean, ratios[t]) PROVE FALSE
    OBVIOUS
  <2>2. ASSUME NEW t \in S PROVE Beneath(l, m, ratios[t].numerator, ratios[t].denominator, 1)
    <3> DEFINE c == ratios[t].numerator
               e == ratios[t].denominator
    <3>1. c \in Nat /\ e \in Nat \ {0}
      BY <1>10
    <3>2. ~ (l * e <= c * m)
      BY <2>1 DEF AtMost, l, m
    <3> HIDE DEF c, e
    <3>3. c * m + 1 <= l * e
      <4>1. c * m \in Int /\ l * e \in Int
        BY <1>9, <3>1
      <4>2. QED BY <3>2, <4>1
    <3>4. Beneath(l, m, c, e, 1)
      BY <1>9, <3>1, <3>3 DEF Beneath
    <3>5. QED BY <3>4 DEF c, e
  <2>3. Beneath(l, m, a, b, k)
    BY <1>1, <1>3, <1>9, <2>2, MeanBelow DEF a, b, k
  <2>4. l * (b * k) \in Int /\ a * m + k <= l * (b * k)
    BY <1>1, <1>4, <1>9, <2>3 DEF Beneath
  <2>5. QED BY <1>1, <1>2, <1>9, <2>4
<1>13. QED BY <1>6, <1>8, <1>11, <1>12 DEF mean, S

\* A sum of one number for every member.
LEMMA SumOfConstant ==
  ASSUME NEW S, IsFiniteSet(S), NEW e \in Nat
  PROVE  Sum([t \in S |-> e]) = Cardinality(S) * e
<1> DEFINE f == [t \in S |-> e]
           T == 1 .. e
<1>1. Units(f, S) = S \X T
  <2>1. \A u : u \in S \X Nat => f[u[1]] = e
    OBVIOUS
  <2>2. \A u : u \in Units(f, S) <=> u \in S \X Nat /\ 1 <= u[2] /\ u[2] <= e
    BY <2>1 DEF Units
  <2>3. \A u : u \in S \X T <=> u \in S \X Nat /\ 1 <= u[2] /\ u[2] <= e
    OBVIOUS
  <2> HIDE DEF f, T
  <2>4. \A u : u \in Units(f, S) <=> u \in S \X T
    BY <2>2, <2>3
  <2>5. QED BY <2>4
<1>2. IsFiniteSet(T) /\ Cardinality(T) = e
  BY IntervalSize
<1> HIDE DEF T
<1>3. Cardinality(S \X T) = Cardinality(S) * Cardinality(T)
  BY <1>2, FS_Product
<1>4. DOMAIN f = S /\ \A t \in S : f[t] \in Nat
  OBVIOUS
<1> HIDE DEF f
<1>5. Sum(f) = Cardinality(Units(f, S))
  BY <1>4, SumCountsUnits
<1>6. Sum(f) = Cardinality(S) * e
  BY <1>1, <1>2, <1>3, <1>5
<1>7. QED BY <1>6 DEF f

\* Where every template counts as many cases, the mean of the rates is the rate of the sums.
LEMMA MeanIsWhole ==
  ASSUME NEW e \in Nat, NEW n \in [Templates -> Nat],
         NEW rates, \A t \in Templates : rates[t] = Rate(n[t], e)
  PROVE  Mean(rates).ratio = Ratio(Sum(n), Cardinality(Templates) * e)
<1> DEFINE d == [t \in Templates |-> e]
           k == Cardinality(Templates)
           S == DefinedIn(rates)
           ratios == [t \in S |-> rates[t].ratio]
<1>1. Column(rates, n, d)
  BY DEF Column
<1>2. S = {t \in Templates : e # 0} /\ IsFiniteSet(S) /\ Fractions(ratios, S)
      /\ \A t \in S : Lowest(ratios[t], n[t], e)
  <2> HIDE DEF d
  <2>1. \A t \in Templates : d[t] = e
    BY DEF d
  <2>2. S \subseteq Templates
    BY DEF DefinedIn
  <2>3. \A t \in S : Lowest(rates[t].ratio, n[t], d[t])
    BY <1>1, ColumnRatios
  <2>4. \A t \in S : Lowest(ratios[t], n[t], e)
    BY <2>1, <2>2, <2>3
  <2>5. IsFiniteSet(S) /\ Fractions(ratios, S) /\ S = {t \in Templates : d[t] # 0}
    BY <1>1, ColumnRatios
  <2> HIDE DEF S, ratios
  <2>6. S = {t \in Templates : e # 0}
    BY <2>1, <2>5
  <2>7. QED BY <2>4, <2>5, <2>6
<1>3. k \in Nat \ {0}
  <2>1. Templates # {}
    BY ScoreTablesAssumption DEF Templates, Range
  <2>2. QED BY <2>1, CellsFinite, FS_EmptySet, FS_CardinalityType
<1>4. Sum(n) \in Nat
  BY CellsFinite, SumCountsUnits, UnitsAreFinite, FS_CardinalityType
<1>5. CASE e = 0
  <2>1. S = {}
    BY <1>2, <1>5
  <2>2. Mean(rates).ratio = Undefined
    BY <2>1, MeanIs
  <2>3. k * e = 0
    BY <1>3, <1>5
  <2>4. QED BY <1>4, <2>2, <2>3, RatioOfRate
<1>6. CASE e # 0
  <2>1. S = Templates
    BY <1>2, <1>6
  <2>2. PICK g : Mounts(ratios, S, g) /\ SumOf(ratios, S) = g[S]
    BY <1>2, SumOfMounts
  <2> DEFINE a == g[S].numerator
             b == g[S].denominator
             N == Sum(n)
  <2>3. Mean(rates).ratio = Ratio(a, b * k)
    <3>1. S # {}
      BY <1>3, <2>1, FS_EmptySet
    <3>2. QED BY <2>1, <2>2, <3>1, MeanIs
  <2>4. \A t \in S : n[t] \in Nat /\ Over(e, ratios[t].numerator, ratios[t].denominator, n[t])
    BY <1>2, <2>1 DEF Lowest, Over
  <2> HIDE DEF ratios, S, k
  <2>5. a \in Nat /\ b \in Nat \ {0}
    <3>1. S \in SUBSET S
      OBVIOUS
    <3>2. QED BY <1>2, <2>2, <3>1, SumOfIsFraction
  <2>6. Over(e, a, b, N)
    <3>1. DOMAIN n = S
      BY <2>1
    <3>2. QED BY <1>2, <2>2, <2>4, <3>1, SumOverOne
  <2> HIDE DEF a, b, N
  <2>7. b * k \in Nat \ {0} /\ k * e \in Nat \ {0} /\ N \in Nat
    BY <1>3, <1>4, <1>6, <2>5 DEF N
  <2>8. a * (k * e) = N * (b * k)
    <3>1. a * e = N * b
      BY <2>6 DEF Over
    <3>2. a * (k * e) = (a * e) * k /\ N * (b * k) = (N * b) * k
      BY <1>3, <2>5, <2>7
    <3>3. QED BY <3>1, <3>2
  <2> DEFINE p == b * k
             q == k * e
  <2> HIDE DEF p, q
  <2>9. p \in Nat \ {0} /\ q \in Nat \ {0} /\ N \in Nat /\ a * q = N * p
    BY <2>7, <2>8 DEF p, q
  <2>10. Lowest(Ratio(a, p), a, p) /\ Lowest(Ratio(N, q), N, q)
    BY <2>5, <2>9, RatioIsLowest
  <2>11. Ratio(a, p) = Ratio(N, q)
    BY <2>5, <2>9, <2>10, LowestIsOne
  <2>12. QED BY <2>3, <2>11 DEF p, q, N, k
<1>7. QED BY <1>5, <1>6

\* The categories a rate counts, and the class it counts them over.
TopOf(x) ==
  CASE x = "decisive_coverage" -> DecisiveCategories
    [] x \in {"false_certainty_risk", "false_certainty_incidence"} -> FalseCategories
    [] x = "ambiguity_false_certainty" -> {"decisive_on_ambiguous"}
    [] x = "correct_abstention" -> {"correct_abstention"}
    [] x = "exact_target_family" -> {"exact_decisive", "wrong_witness"}
    [] x = "exact_minimal_witness" -> {"exact_decisive"}
BottomOf(x) ==
  CASE x \in {"decisive_coverage", "false_certainty_incidence"} -> Categories
    [] x = "false_certainty_risk" -> DecisiveCategories
    [] x \in {"ambiguity_false_certainty", "correct_abstention"} -> AmbiguousCategories
    [] x \in {"exact_target_family", "exact_minimal_witness"} -> IdentifiableCategories

\* Every metric is the rate of its categories over its class.
LEMMA MetricIsRate ==
  ASSUME NEW counts, NEW x \in MetricNames
  PROVE  /\ Metrics(counts)[x] = Rate(Total(counts, TopOf(x)), Total(counts, BottomOf(x)))
         /\ TopOf(x) \in SUBSET Categories /\ BottomOf(x) \in SUBSET Categories
         /\ x # "false_certainty_risk" =>
              BottomOf(x) \in {Categories, AmbiguousCategories, IdentifiableCategories}
<1>1. Metrics(counts)[x] = Rate(Total(counts, TopOf(x)), Total(counts, BottomOf(x)))
  <2>1. CASE x = "decisive_coverage"
    BY <2>1 DEF Metrics, TopOf, BottomOf
  <2>2. CASE x = "false_certainty_risk"
    BY <2>2 DEF Metrics, TopOf, BottomOf
  <2>3. CASE x = "false_certainty_incidence"
    BY <2>3 DEF Metrics, TopOf, BottomOf
  <2>4. CASE x = "ambiguity_false_certainty"
    BY <2>4 DEF Metrics, TopOf, BottomOf
  <2>5. CASE x = "correct_abstention"
    BY <2>5 DEF Metrics, TopOf, BottomOf
  <2>6. CASE x = "exact_target_family"
    BY <2>6 DEF Metrics, TopOf, BottomOf
  <2>7. CASE x = "exact_minimal_witness"
    BY <2>7 DEF Metrics, TopOf, BottomOf
  <2>8. QED BY <2>1, <2>2, <2>3, <2>4, <2>5, <2>6, <2>7 DEF MetricNames
<1>2. /\ DecisiveCategories \in SUBSET Categories /\ FalseCategories \in SUBSET Categories
      /\ AmbiguousCategories \in SUBSET Categories /\ IdentifiableCategories \in SUBSET Categories
      /\ {"decisive_on_ambiguous"} \in SUBSET Categories /\ {"correct_abstention"} \in SUBSET Categories
      /\ {"exact_decisive", "wrong_witness"} \in SUBSET Categories /\ {"exact_decisive"} \in SUBSET Categories
      /\ Categories \in SUBSET Categories
  BY DEF Categories, DecisiveCategories, FalseCategories, AmbiguousCategories, IdentifiableCategories
<1>3. TopOf(x) \in SUBSET Categories
  BY <1>2 DEF TopOf, MetricNames
<1>4. BottomOf(x) \in SUBSET Categories
  BY <1>2 DEF BottomOf, MetricNames
<1>5. x # "false_certainty_risk" => BottomOf(x) \in {Categories, AmbiguousCategories, IdentifiableCategories}
  BY DEF BottomOf, MetricNames
<1>6. QED BY <1>1, <1>3, <1>4, <1>5

\* How many rows of a view and a template a table counts.
CountAt(list, v, t, some) == Cardinality(Counted(list, <<v, t>>, some))

\* A table's metric is the rate of what it counts.
LEMMA MetricCounts ==
  ASSUME NEW list, Tabular(list), NEW v, NEW t, NEW x \in MetricNames
  PROVE  /\ CountAt(list, v, t, TopOf(x)) \in Nat /\ CountAt(list, v, t, BottomOf(x)) \in Nat
         /\ Table(list, <<v, t>>).metrics[x]
              = Rate(CountAt(list, v, t, TopOf(x)), CountAt(list, v, t, BottomOf(x)))
<1> DEFINE counts == Table(list, <<v, t>>).counts
<1>1. Table(list, <<v, t>>).metrics = Metrics(counts)
  BY TableIsRecord
<1> HIDE DEF counts
<1>2. /\ Metrics(counts)[x] = Rate(Total(counts, TopOf(x)), Total(counts, BottomOf(x)))
      /\ TopOf(x) \in SUBSET Categories /\ BottomOf(x) \in SUBSET Categories
  BY MetricIsRate
<1>3. ASSUME NEW some \in SUBSET Categories
      PROVE  Total(counts, some) = CountAt(list, v, t, some) /\ CountAt(list, v, t, some) \in Nat
  BY TotalCounts DEF CountAt, counts
<1>4. QED BY <1>1, <1>2, <1>3

\* The rows of a view are those of its templates.
LEMMA TemplatesAddUp ==
  ASSUME NEW list, Tabular(list), NEW v, NEW some \in SUBSET Categories
  PROVE  CountAt(list, v, All, some) = Sum([t \in Templates |-> CountAt(list, v, t, some)])
<1> DEFINE A == [t \in Templates |-> Counted(list, <<v, t>>, some)]
           f == [t \in Templates |-> CountAt(list, v, t, some)]
<1>1. \A t \in Templates : t # All
  BY ScoreTablesAssumption
<1>2. \A i \in DOMAIN list : CellOf(list[i])[2] \in Templates
  <2>1. \A c \in Cells : c[2] \in Templates
    BY DEF Cells
  <2>2. QED BY <2>1 DEF Tabular
<1>3. ASSUME NEW c, NEW t \in Templates
      PROVE  Matches(c, <<v, t>>) <=> Matches(c, <<v, All>>) /\ c[2] = t
  BY <1>1 DEF Matches
<1>4. \A t \in Templates : A[t] = {i \in Counted(list, <<v, All>>, some) : CellOf(list[i])[2] = t}
  BY <1>3 DEF Counted
<1>5. \A i \in Counted(list, <<v, All>>, some) : CellOf(list[i])[2] \in Templates
  BY <1>2 DEF Counted
<1>6. \A t \in Templates : IsFiniteSet(A[t]) /\ f[t] = Cardinality(A[t])
  BY TotalCounts DEF CountAt
<1> HIDE DEF A, f
<1>7. \A t, u \in Templates : t # u => A[t] \cap A[u] = {}
  BY <1>4
<1>8. Joined(A, Templates) = Counted(list, <<v, All>>, some)
  BY <1>4, <1>5 DEF Joined
<1>9. DOMAIN f = Templates /\ IsFiniteSet(Templates)
  BY CellsFinite DEF f
<1>10. Sum(f) = Cardinality(Joined(A, Templates))
  BY <1>6, <1>7, <1>9, SumCounts
<1>11. QED BY <1>8, <1>10 DEF f, CountAt

\* Every template has as many cases under the same views.
LEMMA CasesOfTemplate ==
  ASSUME NEW K \in SUBSET Views, NEW t \in Templates, NEW u \in Templates
  PROVE  Cases(K \X {t}) = Cases(K \X {u})
<1> DEFINE S == K \X {t}
           T == K \X {u}
           f == [c \in S |-> CellSize[c[1]]]
           g == [c \in T |-> CellSize[c[1]]]
           U == Units(f, S)
           V == Units(g, T)
           h == [w \in U |-> << <<w[1][1], u>>, w[2]>>]
<1>1. IsFiniteSet(K) /\ \A v \in K : CellSize[v] \in Nat
  BY CellsFinite, FS_Subset, ScoreTablesAssumption
<1>2. IsFiniteSet(S) /\ IsFiniteSet(T)
  <2>1. IsFiniteSet({t}) /\ IsFiniteSet({u})
    BY FS_Singleton
  <2>2. QED BY <1>1, <2>1, FS_Product
<1>3. /\ DOMAIN f = S /\ DOMAIN g = T
      /\ \A c \in S : f[c] \in Nat
      /\ \A c \in T : g[c] \in Nat
  BY <1>1
<1>4. Cases(S) = Sum(f) /\ Cases(T) = Sum(g)
  BY DEF Cases
<1>5. \A w : w \in U <=> \E v \in K, k \in Nat : w = << <<v, t>>, k>> /\ 1 <= k /\ k <= CellSize[v]
  <2>1. \A w : w \in U <=> w \in S \X Nat /\ 1 <= w[2] /\ w[2] <= f[w[1]]
    BY DEF Units
  <2>2. \A w : w \in S \X Nat <=> \E v \in K, k \in Nat : w = << <<v, t>>, k>>
    OBVIOUS
  <2>3. \A v \in K : f[<<v, t>>] = CellSize[v]
    OBVIOUS
  <2> HIDE DEF U, S, f
  <2>4. QED BY <2>1, <2>2, <2>3
<1>6. \A w : w \in V <=> \E v \in K, k \in Nat : w = << <<v, u>>, k>> /\ 1 <= k /\ k <= CellSize[v]
  <2>1. \A w : w \in V <=> w \in T \X Nat /\ 1 <= w[2] /\ w[2] <= g[w[1]]
    BY DEF Units
  <2>2. \A w : w \in T \X Nat <=> \E v \in K, k \in Nat : w = << <<v, u>>, k>>
    OBVIOUS
  <2>3. \A v \in K : g[<<v, u>>] = CellSize[v]
    OBVIOUS
  <2> HIDE DEF V, T, g
  <2>4. QED BY <2>1, <2>2, <2>3
<1> HIDE DEF f, g, S, T
<1>7. Sum(f) = Cardinality(U) /\ Sum(g) = Cardinality(V)
  BY <1>2, <1>3, SumCountsUnits
<1>8. IsFiniteSet(U)
  BY <1>2, <1>3, UnitsAreFinite
<1> HIDE DEF U, V
<1>9. \A w \in U : h[w] = << <<w[1][1], u>>, w[2]>>
  OBVIOUS
<1>10. \A w \in U : h[w] \in V
  BY <1>5, <1>6
<1>11. h \in [U -> V]
  BY <1>10
<1>12. \A w, z \in U : h[w] = h[z] => w = z
  BY <1>5
<1>13. \A z \in V : \E w \in U : h[w] = z
  <2>1. SUFFICES ASSUME NEW z \in V PROVE \E w \in U : h[w] = z
    OBVIOUS
  <2>2. PICK v \in K, k \in Nat : z = << <<v, u>>, k>> /\ 1 <= k /\ k <= CellSize[v]
    BY <1>6
  <2>3. << <<v, t>>, k>> \in U
    BY <1>5, <2>2
  <2>4. h[<< <<v, t>>, k>>] = z
    BY <2>2, <2>3
  <2> HIDE DEF h
  <2>5. QED BY <2>3, <2>4
<1> HIDE DEF h
<1>14. Cardinality(V) = Cardinality(U)
  BY <1>8, <1>11, <1>12, <1>13, SameSize
<1>15. QED BY <1>4, <1>7, <1>14 DEF S, T

\* So a class counts as many rows under every template.
LEMMA ClassOfTemplate ==
  ASSUME NEW list, Tabular(list), Measured(list), Apart(list), NEW v,
         NEW class \in {Categories, AmbiguousCategories, IdentifiableCategories},
         NEW t \in Templates, NEW u \in Templates
  PROVE  CountAt(list, v, t, class) = CountAt(list, v, u, class)
<1> DEFINE K == {w \in Views : v \in {All, w}}
           L == {w \in K : w \in AmbiguousViews}
<1>1. ASSUME NEW x \in Templates
      PROVE  /\ CellsUnder(<<v, x>>) = K \X {x} /\ AmbiguousUnder(<<v, x>>) = L \X {x}
             /\ CellsUnder(<<v, x>>) \ AmbiguousUnder(<<v, x>>) = (K \ L) \X {x}
  <2>1. x # All
    BY ScoreTablesAssumption
  <2>2. \A c : c \in Cells => (Matches(c, <<v, x>>) <=> c[1] \in K /\ c[2] = x)
    BY <2>1 DEF Matches, Cells
  <2>3. \A c : c \in CellsUnder(<<v, x>>) <=> c \in K \X {x}
    BY <2>2 DEF CellsUnder, Cells
  <2>4. \A c : c \in AmbiguousUnder(<<v, x>>) <=> c \in CellsUnder(<<v, x>>) /\ c[1] \in AmbiguousViews
    BY DEF AmbiguousUnder
  <2>5. \A c : c \in K \X {x} /\ c[1] \in AmbiguousViews <=> c \in L \X {x}
    OBVIOUS
  <2>6. \A c : c \in K \X {x} /\ c[1] \notin AmbiguousViews <=> c \in (K \ L) \X {x}
    OBVIOUS
  <2> HIDE DEF K, L
  <2>7. CellsUnder(<<v, x>>) = K \X {x}
    BY <2>3
  <2>8. AmbiguousUnder(<<v, x>>) = L \X {x}
    BY <2>3, <2>4, <2>5
  <2>9. CellsUnder(<<v, x>>) \ AmbiguousUnder(<<v, x>>) = (K \ L) \X {x}
    BY <2>3, <2>4, <2>6
  <2>10. QED BY <2>7, <2>8, <2>9
<1>2. K \in SUBSET Views /\ L \in SUBSET Views /\ K \ L \in SUBSET Views
  OBVIOUS
<1> HIDE DEF K, L
<1>3. ASSUME NEW x \in Templates
      PROVE  /\ CountAt(list, v, x, AmbiguousCategories) = Cases(L \X {x})
             /\ CountAt(list, v, x, IdentifiableCategories) = Cases((K \ L) \X {x})
             /\ CountAt(list, v, x, Categories) = Cases(K \X {x})
  BY <1>1, ClassCounts DEF CountAt
<1>4. /\ Cases(K \X {t}) = Cases(K \X {u}) /\ Cases(L \X {t}) = Cases(L \X {u})
      /\ Cases((K \ L) \X {t}) = Cases((K \ L) \X {u})
  <2>1. \A P \in SUBSET Views : Cases(P \X {t}) = Cases(P \X {u})
    BY CasesOfTemplate
  <2>2. QED BY ONLY <2>1, <1>2, Zenon
<1>5. CASE class = Categories
  BY <1>3, <1>4, <1>5
<1>6. CASE class = AmbiguousCategories
  BY <1>3, <1>4, <1>6
<1>7. CASE class = IdentifiableCategories
  BY <1>3, <1>4, <1>7
<1>8. QED BY <1>5, <1>6, <1>7

\* A mean fits its tables: defined where a rate is, between two of the rates, and the rate
\* of the whole where the class does not depend on the answers.
MacroFits(tables, macros, v, x) ==
  LET rates == {tables[<<v, t>>].metrics[x].ratio : t \in Templates} \ {Undefined}
      mean == macros[v][x].ratio
  IN  /\ mean = Undefined <=> rates = {}
      /\ rates # {} => /\ \E a \in rates : AtMost(a, mean)
                       /\ \E b \in rates : AtMost(mean, b)
      /\ x # "false_certainty_risk" => mean = tables[<<v, All>>].metrics[x].ratio

\* The means of the tables of measured rows fit them.
LEMMA MacrosFit ==
  ASSUME NEW list, Tabular(list), Measured(list), Apart(list),
         NEW v \in Views \cup {All}, NEW x \in MetricNames
  PROVE  MacroFits(Tables(list), Macros(Tables(list)), v, x)
<1> DEFINE tables == Tables(list)
           rateAt(t) == tables[<<v, t>>].metrics[x]
           rates == [t \in Templates |-> rateAt(t)]
           mean == Mean(rates).ratio
           n == [t \in Templates |-> CountAt(list, v, t, TopOf(x))]
           d == [t \in Templates |-> CountAt(list, v, t, BottomOf(x))]
           S == DefinedIn(rates)
           seen == {rateAt(t).ratio : t \in Templates} \ {Undefined}
<1>1. Macros(tables)[v][x] = Mean(rates)
  BY DEF Macros
<1>2. \A t \in Templates \cup {All} : tables[<<v, t>>] = Table(list, <<v, t>>)
  BY DEF Tables, Dimensions
<1>3. ASSUME NEW t \in Templates \cup {All}
      PROVE  /\ CountAt(list, v, t, TopOf(x)) \in Nat /\ CountAt(list, v, t, BottomOf(x)) \in Nat
             /\ rateAt(t) = Rate(CountAt(list, v, t, TopOf(x)), CountAt(list, v, t, BottomOf(x)))
  <2>1. /\ CountAt(list, v, t, TopOf(x)) \in Nat /\ CountAt(list, v, t, BottomOf(x)) \in Nat
        /\ Table(list, <<v, t>>).metrics[x]
             = Rate(CountAt(list, v, t, TopOf(x)), CountAt(list, v, t, BottomOf(x)))
    BY MetricCounts
  <2> HIDE DEF tables
  <2>2. QED BY <1>2, <2>1
<1> HIDE DEF rateAt, tables
<1>4. \A t \in Templates : n[t] \in Nat /\ d[t] \in Nat /\ rates[t] = Rate(n[t], d[t])
  BY <1>3
<1>5. Column(rates, n, d)
  <2> HIDE DEF rates, n, d
  <2>1. QED BY <1>4 DEF Column
<1>6. seen = {rates[t].ratio : t \in S}
  BY DEF DefinedIn
<1> HIDE DEF seen, rates
<1>7. mean = Undefined <=> seen = {}
  <2>1. CASE S = {}
    <3>1. seen = {}
      BY <1>6, <2>1
    <3>2. mean = Undefined
      BY <2>1, MeanIs
    <3>3. QED BY <3>1, <3>2
  <2>2. CASE S # {}
    <3> HIDE DEF n, d
    <3>1. seen # {}
      BY <1>6, <2>2
    <3>2. mean # Undefined
      BY <1>5, <2>2, MeanIsBetween
    <3>3. QED BY <3>1, <3>2
  <2>3. QED BY <2>1, <2>2
<1>8. ASSUME seen # {}
      PROVE  /\ \E a \in seen : AtMost(a, mean)
             /\ \E b \in seen : AtMost(mean, b)
  <2>1. S # {}
    BY <1>6, <1>8
  <2> HIDE DEF n, d, S
  <2>2. /\ \E t \in S : AtMost(rates[t].ratio, mean)
        /\ \E t \in S : AtMost(mean, rates[t].ratio)
    BY <1>5, <2>1, MeanIsBetween DEF S
  <2> HIDE DEF mean
  <2>3. QED BY <1>6, <2>2
<1>9. ASSUME x # "false_certainty_risk"
      PROVE  mean = rateAt(All).ratio
  <2>1. PICK u \in Templates : TRUE
    BY ScoreTablesAssumption DEF Templates, Range
  <2> DEFINE e == CountAt(list, v, u, BottomOf(x))
             k == Cardinality(Templates)
  <2>2. /\ TopOf(x) \in SUBSET Categories /\ BottomOf(x) \in SUBSET Categories
        /\ BottomOf(x) \in {Categories, AmbiguousCategories, IdentifiableCategories}
    BY <1>9, MetricIsRate
  <2>3. \A t \in Templates : CountAt(list, v, t, BottomOf(x)) = e
    BY <2>2, ClassOfTemplate
  <2>4. e \in Nat
    BY <1>3
  <2> HIDE DEF e
  <2>5. n \in [Templates -> Nat] /\ \A t \in Templates : rates[t] = Rate(n[t], e)
    <3>1. \A t \in Templates : d[t] = e
      BY <2>3
    <3>2. n = [t \in Templates |-> n[t]]
      OBVIOUS
    <3> HIDE DEF n, d
    <3>3. QED BY <1>4, <3>1, <3>2
  <2>6. CountAt(list, v, All, TopOf(x)) = Sum(n)
    BY <2>2, TemplatesAddUp
  <2>7. CountAt(list, v, All, BottomOf(x)) = k * e
    <3>1. CountAt(list, v, All, BottomOf(x)) = Sum(d)
      BY <2>2, TemplatesAddUp
    <3>2. d = [t \in Templates |-> e]
      BY <2>3
    <3>3. Sum([t \in Templates |-> e]) = k * e
      BY <2>4, CellsFinite, SumOfConstant
    <3> HIDE DEF d, k
    <3>4. QED BY <3>1, <3>2, <3>3
  <2> HIDE DEF n
  <2>8. mean = Ratio(Sum(n), k * e)
    BY <2>4, <2>5, MeanIsWhole
  <2>9. rateAt(All) = Rate(Sum(n), k * e)
    BY <1>3, <2>6, <2>7
  <2>10. QED BY <2>8, <2>9 DEF Rate
<1> HIDE DEF mean
<1>10. seen = {tables[<<v, t>>].metrics[x].ratio : t \in Templates} \ {Undefined}
  BY DEF seen, rateAt
<1>11. Macros(tables)[v][x].ratio = mean
  BY <1>1 DEF mean
<1>12. QED BY <1>7, <1>8, <1>9, <1>10, <1>11 DEF MacroFits, rateAt, tables

-----------------------------------------------------------------------------
(* Changes to a stored report *)

\* The fields of a report.
Parts == {"roots", "rows", "order", "methods", "ceiling"}

\* Functions with one domain and the same values are equal.
LEMMA Same ==
  ASSUME NEW f, NEW g, f = [x \in DOMAIN f |-> f[x]], g = [x \in DOMAIN g |-> g[x]],
         DOMAIN f = DOMAIN g, \A x \in DOMAIN f : f[x] = g[x]
  PROVE  f = g
OBVIOUS

\* What the report is made of.
LEMMA BuiltParts ==
  ASSUME Sane, Bound, JoinsUpTo(MethodCount)
  PROVE  /\ Built = [x \in Parts |-> Built[x]] /\ DOMAIN Built = Parts
         /\ Built.roots = call.expected /\ Built.rows = AllRows /\ Built.order = Claims.methods
         /\ Built.methods = [m \in MethodsOf(Claims) |-> Built.methods[m]]
         /\ DOMAIN Built.methods = MethodsOf(Claims) /\ Range(Built.order) = MethodsOf(Claims)
         /\ \A m \in MethodsOf(Claims) :
              /\ Built.methods[m] = Averaged(Tabulated(RowsOf(AllRows, m)))
              /\ Built.methods[m] = [rows |-> RowsOf(AllRows, m), tables |-> Tables(RowsOf(AllRows, m)),
                                     macros |-> Macros(Tables(RowsOf(AllRows, m)))]
         /\ Built.ceiling = [tables |-> Tables(CeilingRows), macros |-> Macros(Tables(CeilingRows))]
         /\ ValidReport(Built)
<1>1. ValidReport(Built)
  BY BuiltIsValid
<1>2. \A m \in MethodsOf(Claims) :
        /\ Built.methods[m] = Averaged(Tabulated(RowsOf(AllRows, m)))
        /\ Built.methods[m] = [rows |-> RowsOf(AllRows, m), tables |-> Tables(RowsOf(AllRows, m)),
                               macros |-> Macros(Tables(RowsOf(AllRows, m)))]
  BY DEF Built, Averaged, Tabulated
<1>3. Range(Built.order) = MethodsOf(Claims)
  BY DEF Built, MethodsOf
<1>4. QED BY <1>1, <1>2, <1>3 DEF Built, Parts

\* The last row, regraded.
LEMMA RegradedRow ==
  ASSUME Sane, Bound, JoinsUpTo(MethodCount)
  PROVE  LET n == Len(AllRows)
             row == AllRows[n]
             other == Regraded(AllRows, n)
         IN  /\ n \in DOMAIN AllRows /\ row.method \in MethodsOf(Claims)
             /\ DOMAIN other = DOMAIN AllRows
             /\ \A i \in DOMAIN AllRows : i # n => other[i] = AllRows[i]
             /\ other[n].method = row.method /\ other[n].view = row.view /\ other[n].template = row.template
             /\ other[n].run = row.run /\ other[n].truth = row.truth
             /\ other[n].category = row.category => other = AllRows
             /\ row.category \in Categories /\ row.category = Category(row.run.outcome, row.truth)
<1> DEFINE n == Len(AllRows)
           row == AllRows[n]
           other == Regraded(AllRows, n)
           grade == OtherGrade(row.category)
           new == [row EXCEPT !.category = grade, !.failure = "none"]
<1>1. /\ DOMAIN AllRows = 1 .. MethodCount * CaseCount /\ MethodCount * CaseCount \in Nat
      /\ CaseCount \in Nat \ {0} /\ MethodCount \in Nat \ {0}
      /\ AllRows = [i \in 1 .. MethodCount * CaseCount |-> AllRows[i]]
  BY MethodCases, SaneParts DEF AllRows, RowsTo
<1>2. n = MethodCount * CaseCount
  BY <1>1
<1>3. n \in DOMAIN AllRows
  <2>1. CaseCount <= MethodCount * CaseCount
    BY <1>1
  <2>2. QED BY <1>1, <1>2, <2>1
<1>4. PICK m \in MethodsOf(Claims), e \in DOMAIN Truth : Joins(m, e) /\ row = RowFor(m, e)
  <2>1. MethodAt(n) \in 1 .. MethodCount /\ AllRows[n].method = Claims.methods[MethodAt(n)]
    BY <1>3, MethodCases
  <2>2. AllRows[n].method \in MethodsOf(Claims) /\ n \in IndicesOf(AllRows, AllRows[n].method)
    BY <1>3, <2>1, SaneParts DEF IndicesOf
  <2>3. QED BY <2>2, MethodCases
<1>5. DOMAIN row = {"method", "run", "truth", "evidence", "view", "template", "category", "failure"}
      /\ row = [x \in DOMAIN row |-> row[x]]
  BY <1>4 DEF RowFor
<1>6. /\ row.method = m /\ row.category = Category(row.run.outcome, row.truth)
      /\ row.category \in Categories /\ ValidRow(row)
      /\ row.run = RunFor(m, e) /\ row.failure = row.run.outcome.failure
  BY <1>4, RowIs
<1>7. row.failure \in Failures \cup {"none"}
  <2>1. IsOutcome(row.run.outcome)
    BY <1>4, <1>6, RunForIs
  <2> DEFINE out == row.run.outcome
  <2>2. IsOutcome(out)
    BY <2>1
  <2> HIDE DEF out
  <2>3. out.failure \in Failures \cup {"none"}
    BY <2>2 DEF IsOutcome, Abstain, Decide
  <2>4. QED BY <1>6, <2>3 DEF out
<1> HIDE DEF row, n
<1>8. other = [AllRows EXCEPT ![n] = new]
  <2>1. Regraded(AllRows, n)
          = [AllRows EXCEPT ![n] = [AllRows[n] EXCEPT !.category = OtherGrade(AllRows[n].category),
                                                      !.failure = "none"]]
    BY DEF Regraded
  <2>2. QED BY <2>1 DEF row
<1>9. /\ new.category = grade /\ new.failure = "none" /\ new.method = row.method /\ new.view = row.view
      /\ new.template = row.template /\ new.run = row.run /\ new.truth = row.truth
      /\ DOMAIN new = DOMAIN row /\ new = [x \in DOMAIN new |-> new[x]]
      /\ \A x \in DOMAIN row : x # "category" /\ x # "failure" => new[x] = row[x]
  <2> HIDE DEF grade
  <2>1. /\ DOMAIN new = DOMAIN row /\ new = [x \in DOMAIN new |-> new[x]]
        /\ \A x \in DOMAIN row : x # "category" /\ x # "failure" => new[x] = row[x]
    BY <1>5
  <2>2. new.category = grade /\ new.failure = "none"
    BY <1>5
  <2>3. {"method", "view", "template", "run", "truth"} \subseteq DOMAIN row
    BY <1>5
  <2> HIDE DEF new
  <2>4. QED BY <2>1, <2>2, <2>3
<1>10. /\ DOMAIN other = DOMAIN AllRows /\ other[n] = new
       /\ \A i \in DOMAIN AllRows : i # n => other[i] = AllRows[i]
       /\ other = [i \in DOMAIN other |-> other[i]]
  BY <1>1, <1>3, <1>8
<1> HIDE DEF new, other
<1>11. ASSUME new.category = row.category PROVE other = AllRows
  <2>1. row.category = "decisive_on_ambiguous"
    BY <1>6, <1>9, <1>11 DEF OtherGrade, Categories, AmbiguousCategories, IdentifiableCategories
  <2>2. row.failure = "none"
    BY <1>6, <1>7, <2>1 DEF ValidRow, FailedCategories
  <2>3. \A x \in DOMAIN row : new[x] = row[x]
    BY <1>9, <1>11, <2>2
  <2>4. new = row
    BY <1>5, <1>9, <2>3, Same
  <2>5. \A i \in DOMAIN other : other[i] = AllRows[i]
    BY <1>10, <2>4 DEF row
  <2>6. QED BY <1>1, <1>10, <2>5, Same
<1>12. QED BY <1>3, <1>4, <1>6, <1>9, <1>10, <1>11 DEF row, n, other

\* Its count moves, and with it the table of all views and templates.
LEMMA CountMoves ==
  ASSUME Sane, Bound, JoinsUpTo(MethodCount),
         Regraded(AllRows, Len(AllRows))[Len(AllRows)].category # AllRows[Len(AllRows)].category
  PROVE  LET m == AllRows[Len(AllRows)].method
         IN  Table(RowsOf(Regraded(AllRows, Len(AllRows)), m), <<All, All>>)
               # Table(RowsOf(AllRows, m), <<All, All>>)
<1> DEFINE n == Len(AllRows)
           list == AllRows
           other == Regraded(AllRows, n)
           m == AllRows[n].method
           c == AllRows[n].category
           d == <<All, All>>
<1>1. /\ n \in DOMAIN list /\ DOMAIN other = DOMAIN list /\ m \in MethodsOf(Claims)
      /\ \A i \in DOMAIN list : i # n => other[i] = list[i]
      /\ other[n].method = m /\ other[n].category # c /\ c \in Categories /\ list[n].category = c
      /\ list[n].method = m
  BY RegradedRow
<1>2. IsFiniteSet(DOMAIN list) /\ DOMAIN list \subseteq Nat
  BY MethodCases
<1> HIDE DEF n, list, other, m, c
<1> DEFINE T(any) == {any[i] : i \in {j \in DOMAIN any : any[j].category = c}}
           of == IndicesOf(list, m)
<1>3. IndicesOf(other, m) = of
  BY <1>1 DEF IndicesOf
<1>4. ASSUME NEW any, DOMAIN any = DOMAIN list
      PROVE  /\ Table(RowsOf(any, m), d).counts[c] = Cardinality(At(any, IndicesOf(any, m), T(any)))
             /\ IsFiniteSet(At(any, IndicesOf(any, m), T(any)))
             /\ At(any, IndicesOf(any, m), T(any)) = {i \in IndicesOf(any, m) : any[i].category = c}
  <2> DEFINE own == RowsOf(any, m)
  <2>1. Table(own, d).counts[c] = Cardinality(Counted(own, d, {c}))
    BY <1>1, TableIsRecord
  <2>2. \A k \in DOMAIN own : \E i \in DOMAIN any : own[k] = any[i]
    <3>1. /\ own = [k \in 1 .. Cardinality(IndicesOf(any, m)) |-> any[Places(any, m)[k]]]
          /\ Places(any, m) \in [1 .. Cardinality(IndicesOf(any, m)) -> IndicesOf(any, m)]
      BY <1>2, <1>4, RowsOfEnumerates DEF Enumerates
    <3>2. IndicesOf(any, m) \subseteq DOMAIN any
      BY DEF IndicesOf
    <3> HIDE DEF own
    <3>3. QED BY <3>1, <3>2
  <2> HIDE DEF own
  <2>3. Counted(own, d, {c}) = {k \in DOMAIN own : own[k].category = c}
    BY DEF Counted, Matches
  <2>4. \A i \in DOMAIN any : any[i] \in T(any) <=> any[i].category = c
    OBVIOUS
  <2>5. \A k \in DOMAIN own : own[k] \in T(any) <=> own[k].category = c
    BY <2>2, <2>4
  <2>6. IndicesOf(any, m) \subseteq DOMAIN any
    BY DEF IndicesOf
  <2> HIDE DEF T
  <2>7. Counted(own, d, {c}) = At(own, DOMAIN own, T(any))
    BY <2>3, <2>5 DEF At
  <2>8. /\ IsFiniteSet(At(any, IndicesOf(any, m), T(any)))
        /\ Cardinality(At(own, DOMAIN own, T(any))) = Cardinality(At(any, IndicesOf(any, m), T(any)))
    BY <1>2, <1>4, CountedInRows DEF own
  <2>9. At(any, IndicesOf(any, m), T(any)) = {i \in IndicesOf(any, m) : any[i].category = c}
    BY <2>4, <2>6 DEF At
  <2>10. QED BY <2>1, <2>7, <2>8, <2>9 DEF own
<1> DEFINE A == {i \in of : list[i].category = c}
           B == {i \in of : other[i].category = c}
<1>5. /\ Table(RowsOf(list, m), d).counts[c] = Cardinality(A) /\ IsFiniteSet(A)
      /\ Table(RowsOf(other, m), d).counts[c] = Cardinality(B) /\ IsFiniteSet(B)
  BY <1>1, <1>3, <1>4
<1>6. n \in A /\ n \notin B /\ A = B \cup {n}
  BY <1>1 DEF IndicesOf
<1> HIDE DEF A, B
<1>7. Cardinality(A) = Cardinality(B) + 1 /\ Cardinality(B) \in Nat
  BY <1>5, <1>6, FS_AddElement, FS_CardinalityType
<1>8. Table(RowsOf(list, m), d).counts[c] # Table(RowsOf(other, m), d).counts[c]
  BY <1>5, <1>7
<1>9. Table(RowsOf(list, m), d) # Table(RowsOf(other, m), d)
  BY <1>8
<1>10. QED BY <1>9 DEF list, other, m, n

\* What has changed in a file, for each kind of change.
LastRow(r) == r.rows[Len(r.rows)]
OtherRows(r) == Regraded(r.rows, Len(r.rows))
Regrown(r) == Averaged(Tabulated(RowsOf(OtherRows(r), LastRow(r).method)))

\* The changes of a report, kind by kind.
LEMMA ChangedIs ==
  ASSUME NEW r, DOMAIN r = Parts, r = [x \in Parts |-> r[x]]
  PROVE  LET m == LastRow(r).method
             all == <<All, All>>
         IN  /\ Changed(r, "row") = [r EXCEPT !.rows = OtherRows(r), !.methods[m].rows = Regrown(r).rows]
             /\ Changed(r, "tables") = [r EXCEPT !.methods[m] = [Regrown(r) EXCEPT !.rows = r.methods[m].rows]]
             /\ Changed(r, "table") = [r EXCEPT !.methods[m].tables[all] = Regrown(r).tables[all]]
             /\ Changed(r, "macro") = [r EXCEPT !.methods[m].macros = r.ceiling.macros]
             /\ Changed(r, "order") = [r EXCEPT !.rows[1] = r.rows[2], !.rows[2] = r.rows[1]]
             /\ Changed(r, "truth") = [r EXCEPT !.rows[1].truth = r.rows[2].truth]
             /\ Changed(r, "ceiling") = 
                  [r EXCEPT !.ceiling = [tables |-> r.methods[m].tables, macros |-> r.methods[m].macros]]
             /\ Changed(r, "roots") = [r EXCEPT !.roots.claims.projection = "other"]
             /\ Changed(r, "rewrite") = [r EXCEPT !.rows = OtherRows(r), !.methods[m] = Regrown(r)]
BY DEF Changed, LastRow, OtherRows, Regrown

\* What a regraded report shares with the one that was built.
LEMMA RegrownIs ==
  ASSUME Sane, Bound, JoinsUpTo(MethodCount)
  PROVE  LET m == LastRow(Built).method
         IN  /\ m \in MethodsOf(Claims)
             /\ Regrown(Built) = [rows |-> RowsOf(OtherRows(Built), m), tables |-> Tables(RowsOf(OtherRows(Built), m)),
                                  macros |-> Macros(Tables(RowsOf(OtherRows(Built), m)))]
             /\ OtherRows(Built) = AllRows => Regrown(Built) = Built.methods[m]
             /\ OtherRows(Built) # AllRows =>
                  Table(RowsOf(OtherRows(Built), m), <<All, All>>) # Table(RowsOf(AllRows, m), <<All, All>>)
<1> DEFINE m == LastRow(Built).method
           other == OtherRows(Built)
<1>1. Built.rows = AllRows /\ m = AllRows[Len(AllRows)].method /\ other = Regraded(AllRows, Len(AllRows))
  BY BuiltParts DEF LastRow, OtherRows
<1>2. m \in MethodsOf(Claims)
  BY <1>1, RegradedRow
<1>3. Regrown(Built) = [rows |-> RowsOf(other, m), tables |-> Tables(RowsOf(other, m)),
                        macros |-> Macros(Tables(RowsOf(other, m)))]
  BY DEF Regrown, Averaged, Tabulated
<1>4. other = AllRows => Regrown(Built) = Built.methods[m]
  <2>1. Built.methods[m] = Averaged(Tabulated(RowsOf(AllRows, m)))
    BY <1>2, BuiltParts
  <2>2. Regrown(Built) = Averaged(Tabulated(RowsOf(other, m)))
    BY DEF Regrown
  <2> HIDE DEF m, other
  <2>3. QED BY <2>1, <2>2
<1>5. other # AllRows => Table(RowsOf(other, m), <<All, All>>) # Table(RowsOf(AllRows, m), <<All, All>>)
  <2>1. SUFFICES ASSUME other # AllRows
                 PROVE  Table(RowsOf(other, m), <<All, All>>) # Table(RowsOf(AllRows, m), <<All, All>>)
    OBVIOUS
  <2>2. other[Len(AllRows)].category # AllRows[Len(AllRows)].category
    BY <1>1, <2>1, RegradedRow
  <2>3. QED BY <1>1, <2>2, CountMoves
<1>6. QED BY <1>2, <1>3, <1>4, <1>5

\* A valid report's tables are those of its rows.
LEMMA ValidTablesFit ==
  ASSUME NEW c, ValidReport(c), NEW m \in Range(c.order)
  PROVE  /\ c.methods[m].rows = RowsOf(c.rows, m)
         /\ c.methods[m].tables = Tables(c.methods[m].rows)
         /\ c.methods[m].macros = Macros(c.methods[m].tables)
BY DEF ValidReport, ValidMethods

\* The whole is one of the dimensions.
LEMMA AllDimension == <<All, All>> \in Dimensions
BY DEF Dimensions

\* A row graded otherwise is found by the parser.
LEMMA RowCaught ==
  ASSUME Sane, Bound, JoinsUpTo(MethodCount), Changed(Built, "row") # Built
  PROVE  ~ ValidReport(Changed(Built, "row"))
<1> DEFINE r == Built
           c == Changed(Built, "row")
           m == LastRow(Built).method
           other == OtherRows(Built)
<1>1. /\ DOMAIN r = Parts /\ r = [x \in Parts |-> r[x]] /\ r.rows = AllRows
      /\ r.methods = [x \in MethodsOf(Claims) |-> r.methods[x]] /\ DOMAIN r.methods = MethodsOf(Claims)
      /\ m \in MethodsOf(Claims) /\ Range(r.order) = MethodsOf(Claims)
      /\ r.methods[m] = [rows |-> RowsOf(AllRows, m), tables |-> Tables(RowsOf(AllRows, m)),
                         macros |-> Macros(Tables(RowsOf(AllRows, m)))]
  BY BuiltParts, RegrownIs
<1>2. c = [r EXCEPT !.rows = other, !.methods[m].rows = Regrown(r).rows]
  BY <1>1, ChangedIs
<1>3. Regrown(r).rows = RowsOf(other, m)
  BY RegrownIs
<1> HIDE DEF r, c, m, other
<1>4. /\ DOMAIN c = Parts /\ c = [x \in Parts |-> c[x]]
      /\ c.rows = other /\ c.methods = [r.methods EXCEPT ![m] = [r.methods[m] EXCEPT !.rows = RowsOf(other, m)]]
      /\ c.roots = r.roots /\ c.order = r.order /\ c.ceiling = r.ceiling
  BY <1>1, <1>2, <1>3 DEF Parts
<1>5. other # AllRows
  <2>1. SUFFICES ASSUME other = AllRows PROVE c = r
    BY DEF c, r
  <2>2. [r.methods[m] EXCEPT !.rows = RowsOf(other, m)] = r.methods[m]
    BY <1>1, <2>1
  <2>3. c.methods = r.methods
    BY <1>1, <1>4, <2>2
  <2>4. QED BY <1>1, <1>4, <2>1, <2>3, Same DEF Parts
<1>6. /\ c.methods[m].rows = RowsOf(other, m) /\ c.methods[m].tables = Tables(RowsOf(AllRows, m))
  <2>1. c.methods[m] = [r.methods[m] EXCEPT !.rows = RowsOf(other, m)]
    BY <1>1, <1>4
  <2>2. QED BY <1>1, <2>1
<1>7. SUFFICES ASSUME ValidReport(c) PROVE FALSE
  BY DEF c
<1>8. m \in Range(c.order)
  BY <1>1, <1>4
<1>9. Tables(RowsOf(AllRows, m)) = Tables(RowsOf(other, m))
  BY <1>6, <1>7, <1>8, ValidTablesFit
<1>10. Table(RowsOf(AllRows, m), <<All, All>>) = Table(RowsOf(other, m), <<All, All>>)
  BY <1>9, AllDimension DEF Tables
<1>11. QED BY <1>5, <1>10, RegrownIs DEF m, other

\* Tables and macros of other rows are found by the parser.
LEMMA TablesCaught ==
  ASSUME Sane, Bound, JoinsUpTo(MethodCount), Changed(Built, "tables") # Built
  PROVE  ~ ValidReport(Changed(Built, "tables"))
<1> DEFINE r == Built
           c == Changed(Built, "tables")
           m == LastRow(Built).method
           other == OtherRows(Built)
           own == [Regrown(Built) EXCEPT !.rows = Built.methods[LastRow(Built).method].rows]
<1>1. /\ DOMAIN r = Parts /\ r = [x \in Parts |-> r[x]] /\ r.rows = AllRows
      /\ r.methods = [x \in MethodsOf(Claims) |-> r.methods[x]] /\ DOMAIN r.methods = MethodsOf(Claims)
      /\ m \in MethodsOf(Claims) /\ Range(r.order) = MethodsOf(Claims)
      /\ r.methods[m] = [rows |-> RowsOf(AllRows, m), tables |-> Tables(RowsOf(AllRows, m)),
                         macros |-> Macros(Tables(RowsOf(AllRows, m)))]
  BY BuiltParts, RegrownIs
<1>2. c = [r EXCEPT !.methods[m] = own]
  BY <1>1, ChangedIs
<1>3. /\ own.rows = RowsOf(AllRows, m) /\ own.tables = Tables(RowsOf(other, m))
      /\ other = AllRows => own = r.methods[m]
  <2>1. Regrown(Built) = [rows |-> RowsOf(other, m), tables |-> Tables(RowsOf(other, m)),
                          macros |-> Macros(Tables(RowsOf(other, m)))]
    BY RegrownIs
  <2>2. own = [Regrown(Built) EXCEPT !.rows = RowsOf(AllRows, m)]
    BY <1>1
  <2> HIDE DEF own, r, m, other
  <2>3. QED BY <1>1, <2>1, <2>2
<1> HIDE DEF r, c, m, other, own
<1>4. /\ DOMAIN c = Parts /\ c = [x \in Parts |-> c[x]]
      /\ c.methods = [r.methods EXCEPT ![m] = own]
      /\ c.rows = r.rows /\ c.roots = r.roots /\ c.order = r.order /\ c.ceiling = r.ceiling
  BY <1>1, <1>2 DEF Parts
<1>5. other # AllRows
  <2>1. SUFFICES ASSUME other = AllRows PROVE c = r
    BY DEF c, r
  <2>2. c.methods = r.methods
    BY <1>1, <1>3, <1>4, <2>1
  <2>3. QED BY <1>1, <1>4, <2>1, <2>2, Same DEF Parts
<1>6. c.methods[m].rows = RowsOf(AllRows, m) /\ c.methods[m].tables = Tables(RowsOf(other, m))
  BY <1>1, <1>3, <1>4
<1>7. SUFFICES ASSUME ValidReport(c) PROVE FALSE
  BY DEF c
<1>8. m \in Range(c.order)
  BY <1>1, <1>4
<1>9. Tables(RowsOf(AllRows, m)) = Tables(RowsOf(other, m))
  BY <1>6, <1>7, <1>8, ValidTablesFit
<1>10. Table(RowsOf(AllRows, m), <<All, All>>) = Table(RowsOf(other, m), <<All, All>>)
  BY <1>9, AllDimension DEF Tables
<1>11. QED BY <1>5, <1>10, RegrownIs DEF m, other

\* A single table of other rows is found by the parser.
LEMMA TableCaught ==
  ASSUME Sane, Bound, JoinsUpTo(MethodCount), Changed(Built, "table") # Built
  PROVE  ~ ValidReport(Changed(Built, "table"))
<1> DEFINE r == Built
           c == Changed(Built, "table")
           m == LastRow(Built).method
           other == OtherRows(Built)
           all == <<All, All>>
           one == Table(RowsOf(OtherRows(Built), LastRow(Built).method), <<All, All>>)
<1>1. /\ DOMAIN r = Parts /\ r = [x \in Parts |-> r[x]] /\ r.rows = AllRows
      /\ r.methods = [x \in MethodsOf(Claims) |-> r.methods[x]] /\ DOMAIN r.methods = MethodsOf(Claims)
      /\ m \in MethodsOf(Claims) /\ Range(r.order) = MethodsOf(Claims)
      /\ r.methods[m] = [rows |-> RowsOf(AllRows, m), tables |-> Tables(RowsOf(AllRows, m)),
                         macros |-> Macros(Tables(RowsOf(AllRows, m)))]
  BY BuiltParts, RegrownIs
<1>2. Regrown(r).tables[all] = one
  <2>1. Regrown(r).tables = Tables(RowsOf(other, m))
    BY RegrownIs
  <2>2. QED BY <2>1, AllDimension DEF Tables
<1>3. c = [r EXCEPT !.methods[m].tables[all] = one]
  <2>1. c = [r EXCEPT !.methods[m].tables[all] = Regrown(r).tables[all]]
    BY <1>1, ChangedIs
  <2> HIDE DEF r, c, m, all, one
  <2>2. QED BY <1>2, <2>1
<1>a. other # AllRows => one # Table(RowsOf(AllRows, m), all)
  BY RegrownIs
<1>b. other = AllRows => one = Table(RowsOf(AllRows, m), all)
  OBVIOUS
<1> DEFINE old == Tables(RowsOf(AllRows, m))
<1>c. all \in Dimensions /\ DOMAIN old = Dimensions /\ old = [d \in Dimensions |-> old[d]]
        /\ old[all] = Table(RowsOf(AllRows, m), all)
  BY AllDimension DEF Tables
<1> HIDE DEF r, c, m, other, all, one, old
<1>4. /\ DOMAIN c = Parts /\ c = [x \in Parts |-> c[x]]
      /\ c.methods = [r.methods EXCEPT ![m] = [r.methods[m] EXCEPT !.tables = [r.methods[m].tables EXCEPT ![all] = one]]]
      /\ c.rows = r.rows /\ c.roots = r.roots /\ c.order = r.order /\ c.ceiling = r.ceiling
  BY <1>1, <1>3 DEF Parts
<1>d. r.methods[m] = [rows |-> RowsOf(AllRows, m), tables |-> old, macros |-> Macros(old)]
  BY <1>1 DEF old
<1>e. /\ c.methods[m].rows = RowsOf(AllRows, m)
      /\ c.methods[m].tables = [old EXCEPT ![all] = one]
  <2>1. c.methods[m] = [r.methods[m] EXCEPT !.tables = [r.methods[m].tables EXCEPT ![all] = one]]
    BY <1>1, <1>4
  <2>2. r.methods[m].tables = old /\ r.methods[m].rows = RowsOf(AllRows, m)
    BY <1>d
  <2>3. QED BY <1>d, <2>1, <2>2
<1>5. other # AllRows
  <2>1. SUFFICES ASSUME other = AllRows PROVE c = r
    BY DEF c, r
  <2>2. [old EXCEPT ![all] = one] = old
    BY <1>b, <1>c, <2>1
  <2>3. r.methods[m].tables = old
    BY <1>d
  <2>4. [r.methods[m] EXCEPT !.tables = old] = r.methods[m]
    BY <1>d
  <2>5. c.methods = r.methods
    BY <1>1, <1>4, <2>2, <2>3, <2>4
  <2>6. QED BY <1>1, <1>4, <2>1, <2>5, Same DEF Parts
<1>7. SUFFICES ASSUME ValidReport(c) PROVE FALSE
  BY DEF c
<1>8. m \in Range(c.order)
  BY <1>1, <1>4
<1>9. [old EXCEPT ![all] = one] = old
  <2>1. c.methods[m].tables = Tables(c.methods[m].rows)
    BY <1>7, <1>8, ValidTablesFit
  <2>2. QED BY <1>e, <2>1 DEF old
<1>10. one = old[all]
  BY <1>9, <1>c
<1>11. QED BY <1>5, <1>10, <1>a, <1>c

\* Other template means are found by the parser.
LEMMA MacroCaught ==
  ASSUME Sane, Bound, JoinsUpTo(MethodCount), Changed(Built, "macro") # Built
  PROVE  ~ ValidReport(Changed(Built, "macro"))
<1> DEFINE r == Built
           c == Changed(Built, "macro")
           m == LastRow(Built).method
           new == Built.ceiling.macros
           old == Tables(RowsOf(AllRows, m))
<1>1. /\ DOMAIN r = Parts /\ r = [x \in Parts |-> r[x]]
      /\ r.methods = [x \in MethodsOf(Claims) |-> r.methods[x]] /\ DOMAIN r.methods = MethodsOf(Claims)
      /\ m \in MethodsOf(Claims) /\ Range(r.order) = MethodsOf(Claims)
      /\ r.methods[m] = [rows |-> RowsOf(AllRows, m), tables |-> old, macros |-> Macros(old)]
  BY BuiltParts, RegrownIs
<1>2. c = [r EXCEPT !.methods[m].macros = new]
  BY <1>1, ChangedIs
<1> HIDE DEF r, c, m, new, old
<1>3. /\ DOMAIN c = Parts /\ c = [x \in Parts |-> c[x]]
      /\ c.methods = [r.methods EXCEPT ![m] = [r.methods[m] EXCEPT !.macros = new]]
      /\ c.rows = r.rows /\ c.roots = r.roots /\ c.order = r.order /\ c.ceiling = r.ceiling
  BY <1>1, <1>2 DEF Parts
<1>4. c.methods[m] = [r.methods[m] EXCEPT !.macros = new]
  BY <1>1, <1>3
<1>5. c.methods[m].tables = old /\ c.methods[m].macros = new
  BY <1>1, <1>4
<1>6. SUFFICES ASSUME ValidReport(c) PROVE FALSE
  BY DEF c
<1>7. new = Macros(old)
  BY <1>1, <1>3, <1>5, <1>6, ValidTablesFit
<1>8. [r.methods[m] EXCEPT !.macros = new] = r.methods[m]
  BY <1>1, <1>7
<1>9. c.methods = r.methods
  BY <1>1, <1>3, <1>8
<1>10. c = r
  BY <1>1, <1>3, <1>9, Same DEF Parts
<1>11. QED BY <1>10 DEF c, r

\* A ceiling lowered to a method's own tables is found by the parser.
LEMMA CeilingCaught ==
  ASSUME Sane, Bound, JoinsUpTo(MethodCount), Changed(Built, "ceiling") # Built
  PROVE  ~ ValidReport(Changed(Built, "ceiling"))
<1> DEFINE r == Built
           c == Changed(Built, "ceiling")
           m == LastRow(Built).method
           top == [tables |-> Built.methods[LastRow(Built).method].tables,
                   macros |-> Built.methods[LastRow(Built).method].macros]
           old == Tables(RowsOf(AllRows, m))
           best == Tables(CeilingRows)
<1>1. /\ DOMAIN r = Parts /\ r = [x \in Parts |-> r[x]]
      /\ m \in MethodsOf(Claims) /\ r.ceiling = [tables |-> best, macros |-> Macros(best)]
      /\ r.methods[m] = [rows |-> RowsOf(AllRows, m), tables |-> old, macros |-> Macros(old)]
  BY BuiltParts, RegrownIs
<1>2. c = [r EXCEPT !.ceiling = top]
  BY <1>1, ChangedIs
<1>3. top = [tables |-> old, macros |-> Macros(old)]
  BY <1>1
<1>4. Tabular(RowsOf(AllRows, m)) /\ Tabular(CeilingRows) /\ ValidCeiling(best, Macros(best))
  BY <1>1, MethodRows, CeilingIsBest, BestIsCeiling
<1>5. ValidCeiling(old, Macros(old)) => old = best
  BY <1>4, CeilingIsOne
<1> HIDE DEF r, c, m, top, old, best
<1>6. /\ DOMAIN c = Parts /\ c = [x \in Parts |-> c[x]] /\ c.ceiling = top
      /\ c.rows = r.rows /\ c.roots = r.roots /\ c.order = r.order /\ c.methods = r.methods
  BY <1>1, <1>2 DEF Parts
<1>7. SUFFICES ASSUME ValidReport(c) PROVE FALSE
  BY DEF c
<1>8. ValidCeiling(old, Macros(old))
  BY <1>3, <1>6, <1>7 DEF ValidReport
<1>9. c.ceiling = r.ceiling
  BY <1>1, <1>3, <1>5, <1>6, <1>8
<1>10. c = r
  BY <1>1, <1>6, <1>9, Same DEF Parts
<1>11. QED BY <1>10 DEF c, r

\* Equal rows of a method in two lists with the same methods are equal rows of the lists.
LEMMA RowsOfDetermine ==
  ASSUME NEW a, NEW b, IsFiniteSet(DOMAIN a), DOMAIN a \subseteq Nat, DOMAIN b = DOMAIN a, NEW m,
         IndicesOf(a, m) = IndicesOf(b, m), RowsOf(a, m) = RowsOf(b, m)
  PROVE  \A i \in IndicesOf(a, m) : a[i] = b[i]
<1> DEFINE N == Cardinality(IndicesOf(a, m))
<1>1. /\ Enumerates(Places(a, m), IndicesOf(a, m))
      /\ RowsOf(a, m) = [n \in 1 .. N |-> a[Places(a, m)[n]]]
  BY RowsOfEnumerates
<1>2. RowsOf(b, m) = [n \in 1 .. N |-> b[Places(b, m)[n]]]
  BY RowsOfEnumerates
<1>3. Places(a, m) = Places(b, m)
  BY DEF Places
<1>4. \A n \in 1 .. N : a[Places(a, m)[n]] = b[Places(a, m)[n]]
  <2>1. SUFFICES ASSUME NEW n \in 1 .. N PROVE a[Places(a, m)[n]] = b[Places(a, m)[n]]
    OBVIOUS
  <2> HIDE DEF N
  <2>2. RowsOf(a, m)[n] = a[Places(a, m)[n]] /\ RowsOf(b, m)[n] = b[Places(b, m)[n]]
    BY <1>1, <1>2
  <2>3. QED BY <1>3, <2>2
<1>5. \A i \in IndicesOf(a, m) : \E n \in 1 .. N : Places(a, m)[n] = i
  BY <1>1 DEF Enumerates
<1>6. QED BY <1>4, <1>5

\* The rows of a call, and what the report's order reads in each.
LEMMA FirstRow ==
  ASSUME Sane, Bound, JoinsUpTo(MethodCount)
  PROVE  /\ 1 \in DOMAIN AllRows /\ AllRows[1].method \in MethodsOf(Claims)
         /\ IsFiniteSet(DOMAIN AllRows) /\ DOMAIN AllRows \subseteq Nat
         /\ AllRows = [i \in DOMAIN AllRows |-> AllRows[i]]
         /\ DOMAIN AllRows = 1 .. Len(AllRows) /\ Len(AllRows) \in Nat
         /\ \A i \in DOMAIN AllRows :
              /\ AllRows[i] = [x \in DOMAIN AllRows[i] |-> AllRows[i][x]]
              /\ {"method", "truth"} \subseteq DOMAIN AllRows[i]
              /\ AllRows[i].view \in Range(ViewList) /\ AllRows[i].template \in Range(TemplateList)
              /\ AllRows[i].evidence \in Nat
<1>1. /\ DOMAIN AllRows = 1 .. MethodCount * CaseCount /\ MethodCount * CaseCount \in Nat
      /\ IsFiniteSet(DOMAIN AllRows) /\ DOMAIN AllRows \subseteq Nat
      /\ CaseCount \in Nat \ {0} /\ MethodCount \in Nat \ {0}
      /\ AllRows = [i \in DOMAIN AllRows |-> AllRows[i]]
  BY MethodCases, SaneParts DEF AllRows, RowsTo
<1>2. CaseCount <= MethodCount * CaseCount
  BY <1>1
<1>3. 1 \in DOMAIN AllRows
  BY <1>1, <1>2
<1>4. ASSUME NEW i \in DOMAIN AllRows
      PROVE  \E m \in MethodsOf(Claims), e \in DOMAIN Truth : AllRows[i] = RowFor(m, e)
  <2>1. MethodAt(i) \in 1 .. MethodCount /\ AllRows[i].method = Claims.methods[MethodAt(i)]
    BY MethodCases
  <2>2. AllRows[i].method \in MethodsOf(Claims) /\ i \in IndicesOf(AllRows, AllRows[i].method)
    BY <2>1, SaneParts DEF IndicesOf
  <2>3. QED BY <2>2, MethodCases
<1>5. ASSUME NEW i \in DOMAIN AllRows
      PROVE  /\ AllRows[i] = [x \in DOMAIN AllRows[i] |-> AllRows[i][x]]
             /\ {"method", "truth"} \subseteq DOMAIN AllRows[i]
             /\ AllRows[i].method \in MethodsOf(Claims)
             /\ AllRows[i].view \in Range(ViewList) /\ AllRows[i].template \in Range(TemplateList)
             /\ AllRows[i].evidence \in Nat
  <2>1. PICK m \in MethodsOf(Claims), e \in DOMAIN Truth : AllRows[i] = RowFor(m, e)
    BY <1>4
  <2>2. /\ RowFor(m, e) = [x \in DOMAIN RowFor(m, e) |-> RowFor(m, e)[x]]
        /\ {"method", "truth"} \subseteq DOMAIN RowFor(m, e)
        /\ RowFor(m, e).method = m /\ RowFor(m, e).evidence = e
        /\ RowFor(m, e).view = Truth[e].view /\ RowFor(m, e).template = Truth[e].template
    BY DEF RowFor
  <2>3. Truth[e].view \in Range(ViewList) /\ Truth[e].template \in Range(TemplateList) /\ e \in Nat
    BY SaneParts DEF IsTruthSet, Truth, Views, Templates
  <2>4. QED BY <2>1, <2>2, <2>3
<1>6. QED BY <1>1, <1>3, <1>5

\* A row that names another row's truth is found by the parser.
LEMMA TruthCaught ==
  ASSUME Sane, Bound, JoinsUpTo(MethodCount), Changed(Built, "truth") # Built
  PROVE  ~ ValidReport(Changed(Built, "truth"))
<1> DEFINE r == Built
           c == Changed(Built, "truth")
           list == AllRows
           m == AllRows[1].method
           t == Built.rows[2].truth
           row == [AllRows[1] EXCEPT !.truth = Built.rows[2].truth]
<1>1. /\ DOMAIN r = Parts /\ r = [x \in Parts |-> r[x]] /\ r.rows = list
      /\ Range(r.order) = MethodsOf(Claims)
      /\ \A x \in MethodsOf(Claims) : r.methods[x].rows = RowsOf(list, x)
  <2>1. ASSUME NEW x \in MethodsOf(Claims) PROVE Built.methods[x].rows = RowsOf(AllRows, x)
    <3>1. Built.methods[x] = [rows |-> RowsOf(AllRows, x), tables |-> Tables(RowsOf(AllRows, x)),
                              macros |-> Macros(Tables(RowsOf(AllRows, x)))]
      BY BuiltParts
    <3>2. QED BY <3>1
  <2>2. DOMAIN r = Parts /\ r = [x \in Parts |-> r[x]] /\ r.rows = list /\ Range(r.order) = MethodsOf(Claims)
    BY BuiltParts
  <2>3. QED BY <2>1, <2>2
<1>2. /\ 1 \in DOMAIN list /\ m \in MethodsOf(Claims) /\ list = [i \in DOMAIN list |-> list[i]]
      /\ IsFiniteSet(DOMAIN list) /\ DOMAIN list \subseteq Nat /\ "method" \in DOMAIN list[1]
      /\ list[1].method = m
  BY FirstRow
<1>3. c = [r EXCEPT !.rows[1].truth = t]
  BY <1>1, ChangedIs
<1>4. row = [list[1] EXCEPT !.truth = t] /\ row.method = m
  BY <1>2
<1> HIDE DEF r, c, m, t, row, list
<1>5. /\ DOMAIN c = Parts /\ c = [x \in Parts |-> c[x]]
      /\ c.rows = [r.rows EXCEPT ![1] = [r.rows[1] EXCEPT !.truth = t]]
      /\ c.methods = r.methods /\ c.ceiling = r.ceiling /\ c.roots = r.roots /\ c.order = r.order
  BY <1>1, <1>3 DEF Parts
<1>6. c.rows = [list EXCEPT ![1] = row]
  BY <1>1, <1>4, <1>5
<1>7. SUFFICES ASSUME ValidReport(c) PROVE FALSE
  BY DEF c
<1>8. RowsOf(list, m) = RowsOf(c.rows, m)
  <2>1. m \in Range(c.order) /\ c.methods[m].rows = RowsOf(list, m)
    BY <1>1, <1>2, <1>5
  <2>2. QED BY <1>7, <2>1, ValidTablesFit
<1>9. DOMAIN c.rows = DOMAIN list /\ c.rows[1] = row /\ \A i \in DOMAIN list : i # 1 => c.rows[i] = list[i]
  BY <1>2, <1>6
<1>10. IndicesOf(list, m) = IndicesOf(c.rows, m)
  BY <1>2, <1>4, <1>9 DEF IndicesOf
<1>11. c.rows[1] = list[1]
  <2>1. 1 \in IndicesOf(list, m)
    BY <1>2 DEF IndicesOf
  <2>2. QED BY <1>2, <1>8, <1>9, <1>10, <2>1, RowsOfDetermine
<1>12. c.rows = r.rows
  BY <1>1, <1>2, <1>6, <1>9, <1>11
<1>13. c = r
  BY <1>1, <1>5, <1>12, Same DEF Parts
<1>14. QED BY <1>13 DEF c, r

\* Rows that change places are found by the parser.
LEMMA OrderCaught ==
  ASSUME Sane, Bound, JoinsUpTo(MethodCount), Len(Built.rows) > 1
  PROVE  ~ ValidReport(Changed(Built, "order"))
<1> DEFINE r == Built
           c == Changed(Built, "order")
           list == AllRows
           a == AllRows[1]
           b == AllRows[2]
           new == [AllRows EXCEPT ![1] = AllRows[2], ![2] = AllRows[1]]
<1>1. /\ DOMAIN r = Parts /\ r = [x \in Parts |-> r[x]] /\ r.rows = list
      /\ r.order = Claims.methods
  BY BuiltParts
<1>2. /\ 1 \in DOMAIN list /\ 2 \in DOMAIN list /\ DOMAIN list = 1 .. Len(list) /\ Len(list) \in Nat /\ Len(list) > 1
      /\ list = [i \in DOMAIN list |-> list[i]]
      /\ \A x \in {a, b} : /\ x.view \in Range(ViewList) /\ x.template \in Range(TemplateList)
                           /\ x.evidence \in Nat
  <2>1. Len(list) > 1
    BY <1>1
  <2>2. QED BY <2>1, FirstRow
<1>3. c = [r EXCEPT !.rows[1] = r.rows[2], !.rows[2] = r.rows[1]]
  BY <1>1, ChangedIs
<1>4. CaseCount \in Nat \ {0} /\ MethodCount \in Nat \ {0} /\ Len(list) = MethodCount * CaseCount
  <2>1. ValidRows(list)
    BY AllRowsAreValid
  <2>2. QED BY <2>1, SaneParts DEF ValidRows
<1>5. RowBefore(list, a, b)
  <2>1. 1 \in 1 .. MethodCount * CaseCount - 1 /\ 1 + 1 = 2
    BY <1>2, <1>4
  <2>2. RowBefore(AllRows, AllRows[1], AllRows[1 + 1])
    BY <2>1, RowsInOrder
  <2>3. QED BY <2>1, <2>2
<1>6. a.method = Claims.methods[1]
  <2>1. ValidMethods(r)
    BY BuiltParts DEF ValidReport
  <2>2. r.order = [n \in 1 .. MethodCount |-> r.rows[(n - 1) * CaseCount + 1].method]
    BY <2>1 DEF ValidMethods
  <2>3. 1 \in 1 .. MethodCount /\ (1 - 1) * CaseCount + 1 = 1
    BY <1>4
  <2> HIDE DEF r
  <2>4. r.order[1] = r.rows[1].method
    BY <2>2, <2>3
  <2>5. QED BY <1>1, <2>4
<1>7. a = list[1] /\ b = list[2] /\ new = [list EXCEPT ![1] = b, ![2] = a]
  OBVIOUS
<1> HIDE DEF r, c, a, b, list, new
<1>8. DOMAIN c = Parts /\ c.rows = new /\ c.order = r.order /\ c.roots = r.roots
  BY <1>1, <1>3, <1>7 DEF Parts
<1>9. DOMAIN new = DOMAIN list /\ new[1] = b /\ new[2] = a /\ \A i \in DOMAIN list : i # 1 /\ i # 2 => new[i] = list[i]
  BY <1>2, <1>7
<1>10. SUFFICES ASSUME ValidReport(c) PROVE FALSE
  BY DEF c
<1>11. a.method = b.method
  <2>1. c.order = [n \in 1 .. MethodCount |-> c.rows[(n - 1) * CaseCount + 1].method]
    BY <1>10 DEF ValidReport, ValidMethods
  <2>2. 1 \in 1 .. MethodCount /\ (1 - 1) * CaseCount + 1 = 1
    BY <1>4
  <2>3. c.order[1] = c.rows[1].method
    BY <2>1, <2>2
  <2>4. QED BY <1>1, <1>6, <1>8, <1>9, <2>3
<1>12. RowBefore(new, b, a)
  <2>1. ValidRows(new)
    BY <1>8, <1>10 DEF ValidReport
  <2>2. Len(new) = MethodCount * CaseCount /\ \A i \in 1 .. Len(new) - 1 : RowBefore(new, new[i], new[i + 1])
    BY <2>1 DEF ValidRows
  <2>3. 1 \in 1 .. Len(new) - 1 /\ 1 + 1 = 2
    BY <1>2, <1>4, <2>2
  <2>4. RowBefore(new, new[1], new[1 + 1])
    BY <2>2, <2>3
  <2>5. QED BY <1>9, <2>3, <2>4
<1>13. Began(list, a) = Began(list, b) /\ Began(new, a) = Began(new, b)
  BY <1>11 DEF Began
<1>14. \A any \in {list, new} : Began(any, a) \in Nat
  <2>1. SUFFICES ASSUME NEW any \in {list, new} PROVE Began(any, a) \in Nat
    OBVIOUS
  <2>2. DOMAIN any = 1 .. Len(list) /\ any[1].method = a.method
    BY <1>2, <1>7, <1>9, <1>11
  <2>3. 1 \in FirstMethods(any)
    BY <1>2, <2>2 DEF FirstMethods
  <2>4. Began(any, a) \in FirstMethods(any)
    BY <2>2, <2>3 DEF Began
  <2>5. FirstMethods(any) \subseteq DOMAIN any
    BY DEF FirstMethods
  <2>6. QED BY <1>2, <2>2, <2>4, <2>5
<1>15. \A x \in {a, b} : Position(ViewList, x.view) \in Nat /\ Position(TemplateList, x.template) \in Nat
  <2>1. \A x \in Range(ViewList) : Position(ViewList, x) \in Nat
    BY ScoreTablesAssumption, Positions
  <2>2. \A x \in Range(TemplateList) : Position(TemplateList, x) \in Nat
    BY ScoreTablesAssumption, Positions
  <2>3. QED BY <1>2, <2>1, <2>2
<1> DEFINE s(any, x) == Standing(any, x)
<1>16. \A any, x : s(any, x) = <<Began(any, x), Position(ViewList, x.view), Position(TemplateList, x.template), x.evidence>>
  BY DEF Standing
<1>17. \/ s(list, a)[2] < s(list, b)[2]
       \/ s(list, a)[2] = s(list, b)[2] /\ s(list, a)[3] < s(list, b)[3]
       \/ s(list, a)[2] = s(list, b)[2] /\ s(list, a)[3] = s(list, b)[3] /\ s(list, a)[4] < s(list, b)[4]
  <2>1. ~ (s(list, a)[1] < s(list, b)[1])
    BY <1>13, <1>14, <1>16
  <2>2. QED BY <1>5, <2>1, RowBeforeIs
<1>18. \/ s(new, b)[2] < s(new, a)[2]
       \/ s(new, b)[2] = s(new, a)[2] /\ s(new, b)[3] < s(new, a)[3]
       \/ s(new, b)[2] = s(new, a)[2] /\ s(new, b)[3] = s(new, a)[3] /\ s(new, b)[4] < s(new, a)[4]
  <2>1. ~ (s(new, b)[1] < s(new, a)[1])
    BY <1>13, <1>14, <1>16
  <2>2. QED BY <1>12, <2>1, RowBeforeIs
<1>19. \A x : s(new, x)[2] = s(list, x)[2] /\ s(new, x)[3] = s(list, x)[3] /\ s(new, x)[4] = s(list, x)[4]
  BY <1>16
<1>20. \A x \in {a, b} : s(list, x)[2] \in Nat /\ s(list, x)[3] \in Nat /\ s(list, x)[4] \in Nat
  BY <1>2, <1>15, <1>16
<1> HIDE DEF s
<1>21. QED BY <1>17, <1>18, <1>19, <1>20

-----------------------------------------------------------------------------
(* What gets past the parser: the header, and a rewriting of every table *)

\* A row that its own answer and truth do not earn.
Misgraded(r) ==
  \E i \in DOMAIN r.rows : r.rows[i].category # Category(r.rows[i].run.outcome, r.rows[i].truth)

\* Every row built for a call has the grade of its answer.
LEMMA BuiltIsGraded ==
  ASSUME Sane, Bound, JoinsUpTo(MethodCount)
  PROVE  ~ Misgraded(Built)
<1>1. SUFFICES ASSUME NEW i \in DOMAIN AllRows
               PROVE  AllRows[i].category = Category(AllRows[i].run.outcome, AllRows[i].truth)
  BY BuiltParts DEF Misgraded
<1>2. MethodAt(i) \in 1 .. MethodCount /\ AllRows[i].method = Claims.methods[MethodAt(i)]
  BY MethodCases
<1>3. AllRows[i].method \in MethodsOf(Claims) /\ i \in IndicesOf(AllRows, AllRows[i].method)
  BY <1>2, SaneParts DEF IndicesOf
<1>4. PICK m \in MethodsOf(Claims), e \in DOMAIN Truth : Joins(m, e) /\ AllRows[i] = RowFor(m, e)
  BY <1>3, MethodCases
<1>5. QED BY <1>4, RowIs

\* A rewritten report has a row whose answer does not earn its grade.
LEMMA RewriteIsMisgraded ==
  ASSUME Sane, Bound, JoinsUpTo(MethodCount), Changed(Built, "rewrite") # Built
  PROVE  Misgraded(Changed(Built, "rewrite"))
<1> DEFINE r == Built
           c == Changed(Built, "rewrite")
           m == LastRow(Built).method
           n == Len(AllRows)
           other == OtherRows(Built)
<1>1. /\ DOMAIN r = Parts /\ r = [x \in Parts |-> r[x]] /\ r.rows = AllRows
      /\ r.methods = [x \in MethodsOf(Claims) |-> r.methods[x]] /\ m \in MethodsOf(Claims)
      /\ other = AllRows => Regrown(r) = r.methods[m]
  BY BuiltParts, RegrownIs
<1>2. c = [r EXCEPT !.rows = other, !.methods[m] = Regrown(r)]
  BY <1>1, ChangedIs
<1>3. other = Regraded(AllRows, n)
  BY <1>1 DEF OtherRows
<1> HIDE DEF r, c, m, other, n
<1>4. /\ DOMAIN c = Parts /\ c = [x \in Parts |-> c[x]]
      /\ c.rows = other /\ c.methods = [r.methods EXCEPT ![m] = Regrown(r)]
      /\ c.roots = r.roots /\ c.order = r.order /\ c.ceiling = r.ceiling
  BY <1>1, <1>2 DEF Parts
<1>5. other # AllRows
  <2>1. SUFFICES ASSUME other = AllRows PROVE c = r
    BY DEF c, r
  <2>2. c.methods = r.methods
    BY <1>1, <1>4, <2>1
  <2>3. QED BY <1>1, <1>4, <2>1, <2>2, Same DEF Parts
<1>6. /\ n \in DOMAIN other /\ other[n].category # AllRows[n].category
      /\ other[n].run = AllRows[n].run /\ other[n].truth = AllRows[n].truth
      /\ AllRows[n].category = Category(AllRows[n].run.outcome, AllRows[n].truth)
  BY <1>3, <1>5, RegradedRow DEF n
<1>7. Misgraded(c)
  BY <1>4, <1>6 DEF Misgraded
<1>8. QED BY <1>7 DEF c

\* A changed header names another claim set.
LEMMA RootsAreOthers ==
  ASSUME Sane, Bound, JoinsUpTo(MethodCount), Changed(Built, "roots") # Built
  PROVE  Changed(Built, "roots").roots.claims # Claims
<1> DEFINE r == Built
           c == Changed(Built, "roots")
<1>1. /\ DOMAIN r = Parts /\ r = [x \in Parts |-> r[x]] /\ r.roots = call.expected
  BY BuiltParts
<1>2. r.roots = [x \in DOMAIN r.roots |-> r.roots[x]] /\ "claims" \in DOMAIN r.roots /\ r.roots.claims = Claims
  <2>1. call.expected = [x \in DOMAIN call.expected |-> call.expected[x]] /\ "claims" \in DOMAIN call.expected
    BY DEF Sane, IsCall
  <2>2. call.expected.claims = Claims
    BY DEF Bound
  <2> HIDE DEF r
  <2>3. QED BY <1>1, <2>1, <2>2
<1>3. c = [r EXCEPT !.roots.claims.projection = "other"]
  BY <1>1, ChangedIs
<1> HIDE DEF r, c
<1> DEFINE new == [r.roots.claims EXCEPT !.projection = "other"]
<1>4. /\ DOMAIN c = Parts /\ c = [x \in Parts |-> c[x]]
      /\ c.roots = [r.roots EXCEPT !.claims = new]
      /\ c.rows = r.rows /\ c.methods = r.methods /\ c.ceiling = r.ceiling /\ c.order = r.order
  BY <1>1, <1>3 DEF Parts
<1> HIDE DEF new
<1>5. c.roots.claims = new
  BY <1>2, <1>4
<1>6. SUFFICES ASSUME new = r.roots.claims PROVE c = r
  BY <1>2, <1>5 DEF c, r
<1>7. c.roots = r.roots
  BY <1>2, <1>4, <1>6
<1>8. QED BY <1>1, <1>4, <1>7, Same DEF Parts

\* The report before its template macros.
Tabled ==
  [roots |-> call.expected, rows |-> AllRows, order |-> Claims.methods,
   methods |-> [m \in MethodsOf(Claims) |-> Tabulated(RowsOf(AllRows, m))],
   ceiling |-> [tables |-> Tables(CeilingRows)]]

\* All of this depends on the call alone.
LEMMA SameCall ==
  ASSUME call' = call
  PROVE  /\ Sane' = Sane /\ Bound' = Bound /\ Sound' = Sound /\ NoneForeign' = NoneForeign
         /\ \A k : RowsTo(k)' = RowsTo(k) /\ JoinsUpTo(k)' = JoinsUpTo(k)
         /\ Built' = Built /\ Tabled' = Tabled
<1>1. Truth' = Truth /\ Claims' = Claims
  BY DEF Truth, Claims
<1>2. Sane' = Sane
  BY DEF Sane
<1>3. Bound' = Bound
  BY DEF Bound, Truth, Claims
<1>4. Sound' = Sound
  BY DEF Sound, Truth, Claims
<1>5. NoneForeign' = NoneForeign
  BY DEF NoneForeign, Truth, Claims
<1>6. TruthOrder' = TruthOrder
  BY DEF TruthOrder, TruthBefore, Truth
<1>7. \A m, e : RowFor(m, e)' = RowFor(m, e)
  BY DEF RowFor, RunFor, Truth, Claims
<1>8. \A k : RowsTo(k)' = RowsTo(k)
  BY <1>1, <1>6, <1>7 DEF RowsTo, RowAt
<1>9. \A k : JoinsUpTo(k)' = JoinsUpTo(k)
  BY DEF JoinsUpTo, JoinsAll, Joins, Covered, RunFor, Truth, Claims
<1>10. AllRows' = AllRows
  BY <1>8 DEF AllRows
<1>11. CeilingRows' = CeilingRows
  BY <1>1, <1>6 DEF CeilingRows
<1>12. Built' = Built
  BY <1>1, <1>10, <1>11 DEF Built
<1>13. Tabled' = Tabled
  BY <1>1, <1>10, <1>11 DEF Tabled
<1>14. QED BY <1>2, <1>3, <1>4, <1>5, <1>8, <1>9, <1>12, <1>13

\* The kinds of change, the steps of a call, and where its rows and its report are complete.
Kinds == {"row", "tables", "table", "macro", "order", "truth", "ceiling", "roots", "unsealed", "rewrite"}
Stages ==
  {"bind", "join", "build", "average", "validate", "published", "parse", "compare", "loaded", "refused"}
AfterJoin == {"build", "average", "validate", "published", "compare", "loaded"}
HasReport == {"published", "compare", "loaded"}
\* The changes that the parser alone does not find.
Forged == {"roots", "rewrite"}

CallInv == Sane /\ entry \in {"score", "load"} /\ pc \in Stages /\ edit \in Changes \cup {"none"}

\* The rows are those of the methods joined so far.
RowsInv ==
  /\ \E k \in 0 .. MethodCount :
       /\ rows = RowsTo(k) /\ JoinsUpTo(k)
       /\ pc \in {"bind", "parse"} => k = 0
       /\ pc = "join" => k < MethodCount
       /\ pc \in AfterJoin => k = MethodCount
  /\ pc \in AfterJoin \cup {"join"} => Bound

\* What is built is the report of the call.
BuildInv ==
  /\ pc \in AfterJoin \ {"build"} => NoneForeign
  /\ pc = "average" => draft = Tabled
  /\ pc = "validate" => draft = Built
  /\ pc \in HasReport => report = Built
  /\ pc = "published" => entry = "score"
  /\ pc \in {"parse", "compare", "loaded"} => entry = "load"

\* An untouched file holds the report of its truth; a changed one does not parse, or is
\* of other claims, or has a row that its answer does not earn.
Untouched ==
  /\ stored.roots = stored.content /\ ValidReport(stored.content)
  /\ stored.content.roots.truth = call.truth => stored.content = Built
  /\ IF entry = "load" THEN wanted = stored.content ELSE stored.content = report

FileInv ==
  /\ stored # None => stored = [content |-> stored.content, roots |-> stored.roots]
  /\ entry = "load" => stored # None
  /\ entry = "score" /\ pc # "published" => stored = None
  /\ stored = None => edit = "none"
  /\ stored # None /\ edit = "none" => Untouched
  /\ edit \notin Forged \cup {"none"} => ~ Accepted
  /\ edit = "roots" => stored.content.roots.claims # Claims
  /\ edit = "rewrite" => Misgraded(stored.content)

LoadInv ==
  /\ entry = "load" /\ pc \notin {"parse", "refused"} =>
       edit \in Forged \cup {"none"} /\ stored.content = wanted
  /\ pc = "loaded" => SameAsRebuilt
  /\ pc = "refused" =>
       \/ ~ Sound
       \/ entry = "load" /\ (edit # "none" \/ stored.content.roots.truth # call.truth)

SInv == CallInv /\ RowsInv /\ BuildInv /\ FileInv /\ LoadInv

-----------------------------------------------------------------------------
(* The initial states *)

\* Before the first method is joined there are no rows.
LEMMA NoRows ==
  ASSUME Sane
  PROVE  RowsTo(0) = <<>> /\ JoinsUpTo(0) /\ 0 \in 0 .. MethodCount
<1>1. CaseCount \in Nat /\ MethodCount \in Nat
  BY SaneParts
<1>2. 1 .. 0 * CaseCount = {} /\ 1 .. 0 = {}
  BY <1>1
<1>3. QED BY <1>1, <1>2 DEF RowsTo, JoinsUpTo

\* The inductive invariant holds at first.
LEMMA InitSInv == Init => SInv
<1>1. SUFFICES ASSUME Init PROVE SInv
  OBVIOUS
<1>2. /\ entry = "score" /\ pc = "bind" /\ rows = <<>> /\ draft = None /\ report = None
      /\ stored = None /\ wanted = None /\ edit = "none"
  BY <1>1 DEF Init
<1>3. Sane
  BY <1>1, ScoringAssumption DEF Init, Sane
<1>4. CallInv
  BY <1>2, <1>3 DEF CallInv, Stages
<1>5. RowsInv
  BY <1>2, <1>3, NoRows DEF RowsInv, AfterJoin
<1>6. BuildInv
  BY <1>2 DEF BuildInv, AfterJoin, HasReport
<1>7. FileInv
  BY <1>2 DEF FileInv, Forged
<1>8. LoadInv
  BY <1>2 DEF LoadInv
<1>9. QED BY <1>4, <1>5, <1>6, <1>7, <1>8 DEF SInv

-----------------------------------------------------------------------------
(* Scoring *)

\* Steps that leave the file and the edit alone, and go on.
LEMMA FileKept ==
  ASSUME FileInv, entry \in {"score", "load"}, call' = call, stored' = stored, edit' = edit, entry' = entry, wanted' = wanted,
         entry = "score" => report' = report \/ stored = None,
         pc # "published" \/ entry = "load" \/ pc' = "published"
  PROVE  FileInv'
<1>1. Built' = Built /\ Claims' = Claims
  BY SameCall DEF Claims
<1>2. Accepted' = Accepted
  BY DEF Accepted
<1>3. stored # None /\ edit = "none" => Untouched'
  <2>1. SUFFICES ASSUME stored # None, edit = "none" PROVE Untouched'
    OBVIOUS
  <2>2. Untouched
    BY <2>1 DEF FileInv
  <2>3. stored'.roots = stored'.content /\ ValidReport(stored'.content)
    BY <2>2 DEF Untouched
  <2>4. stored'.content.roots.truth = call'.truth => stored'.content = Built'
    BY <1>1, <2>2 DEF Untouched
  <2>5. IF entry' = "load" THEN wanted' = stored'.content ELSE stored'.content = report'
    <3>1. CASE entry = "load"
      BY <2>2, <3>1 DEF Untouched
    <3>2. CASE entry # "load"
      <4>1. stored.content = report
        BY <2>2, <3>2 DEF Untouched
      <4>2. QED BY <2>1, <3>2, <4>1
    <3>3. QED BY <3>1, <3>2
  <2>6. QED BY <2>3, <2>4, <2>5 DEF Untouched
<1>4. QED BY <1>1, <1>2, <1>3 DEF FileInv, None

\* The parts of a concatenation.
LEMMA Concatenated ==
  ASSUME NEW T, NEW p \in Seq(T), NEW q \in Seq(T)
  PROVE  /\ p \o q \in Seq(T) /\ Len(p \o q) = Len(p) + Len(q)
         /\ \A i \in 1 .. Len(p) + Len(q) : (p \o q)[i] = IF i <= Len(p) THEN p[i] ELSE q[i - Len(p)]
OBVIOUS

\* A joined method adds its rows in the truth's order, after those of the methods before it.
LEMMA JoinAdds ==
  ASSUME SInv, JoinMethod, NEW k \in 0 .. MethodCount - 1, rows = RowsTo(k), JoinsUpTo(k)
  PROVE  rows' = RowsTo(k + 1) /\ JoinsUpTo(k + 1) /\ Len(rows') = (k + 1) * CaseCount
<1> DEFINE m == Claims.methods[k + 1]
           more == [n \in DOMAIN TruthOrder |-> RowFor(m, TruthOrder[n])]
<1>1. Sane
  BY DEF SInv, CallInv
<1>2. CaseCount \in Nat \ {0} /\ MethodCount \in Nat \ {0} /\ k \in Nat /\ k + 1 \in 1 .. MethodCount
  BY <1>1, SaneParts
<1>3. k * CaseCount \in Nat /\ (k + 1) * CaseCount = k * CaseCount + CaseCount
  BY <1>2
<1>4. Len(rows) = k * CaseCount
  BY <1>3 DEF RowsTo
<1>5. NextMethod = m
  <2>1. (k * CaseCount + 0) \div CaseCount = k
    BY <1>2, Divided
  <2>2. k * CaseCount + 0 = k * CaseCount
    BY <1>3
  <2>3. Len(rows) \div CaseCount = k
    BY <1>4, <2>1, <2>2
  <2>4. QED BY <2>3 DEF NextMethod
<1>6. JoinsUpTo(k + 1)
  <2>1. JoinsAll(m)
    BY <1>5 DEF JoinMethod, JoinsAll
  <2>2. \A j \in 1 .. k + 1 : j \in 1 .. k \/ j = k + 1
    BY <1>2
  <2>3. QED BY <2>1, <2>2 DEF JoinsUpTo
<1>7. DOMAIN TruthOrder = 1 .. CaseCount
  BY <1>1, OrderOfTruth
<1>8. rows' = rows \o more
  BY <1>5 DEF JoinMethod
<1> DEFINE T == {RowAt(i) : i \in 1 .. k * CaseCount} \cup {RowFor(m, TruthOrder[n]) : n \in DOMAIN TruthOrder}
<1>9. rows \in Seq(T) /\ more \in Seq(T) /\ Len(more) = CaseCount
  <2>1. rows = [i \in 1 .. k * CaseCount |-> RowAt(i)]
    BY DEF RowsTo
  <2>2. \A i \in 1 .. k * CaseCount : RowAt(i) \in T
    OBVIOUS
  <2>3. \A n \in 1 .. CaseCount : RowFor(m, TruthOrder[n]) \in T
    BY <1>7
  <2> HIDE DEF T
  <2>4. rows \in Seq(T)
    BY <1>3, <2>1, <2>2
  <2>5. more = [n \in 1 .. CaseCount |-> RowFor(m, TruthOrder[n])]
    BY <1>7
  <2>6. more \in Seq(T) /\ Len(more) = CaseCount
    BY <1>2, <2>3, <2>5
  <2>7. QED BY <2>4, <2>6
<1> HIDE DEF T, more
<1>10. /\ rows \o more \in Seq(T) /\ Len(rows \o more) = k * CaseCount + CaseCount
       /\ \A i \in 1 .. k * CaseCount + CaseCount :
            (rows \o more)[i] = IF i <= k * CaseCount THEN rows[i] ELSE more[i - k * CaseCount]
  BY <1>4, <1>9, Concatenated
<1>11. \A i \in 1 .. k * CaseCount : rows[i] = RowAt(i)
  BY DEF RowsTo
<1>12. ASSUME NEW n \in 1 .. CaseCount
       PROVE  more[n] = RowAt(k * CaseCount + n)
  <2>1. k * CaseCount + n = Spot(k + 1, n)
    BY <1>2 DEF Spot
  <2>2. MethodAt(Spot(k + 1, n)) = k + 1 /\ CaseAt(Spot(k + 1, n)) = n
    BY <1>2, Spots
  <2>3. more[n] = RowFor(m, TruthOrder[n])
    BY <1>7 DEF more
  <2>4. QED BY <2>1, <2>2, <2>3 DEF RowAt
<1>13. \A i \in 1 .. k * CaseCount + CaseCount : (rows \o more)[i] = RowAt(i)
  <2>1. SUFFICES ASSUME NEW i \in 1 .. k * CaseCount + CaseCount PROVE (rows \o more)[i] = RowAt(i)
    OBVIOUS
  <2>2. CASE i <= k * CaseCount
    <3>1. i \in 1 .. k * CaseCount
      BY <1>3, <2>2
    <3>2. QED BY <1>10, <1>11, <2>2, <3>1
  <2>3. CASE ~ (i <= k * CaseCount)
    <3>1. i - k * CaseCount \in 1 .. CaseCount /\ k * CaseCount + (i - k * CaseCount) = i
      BY <1>2, <1>3, <2>3
    <3>2. QED BY <1>10, <1>12, <2>3, <3>1
  <2>4. QED BY <2>2, <2>3
<1>14. rows \o more = RowsTo(k + 1)
  <2> DEFINE q == rows \o more
             N == k * CaseCount + CaseCount
  <2>1. q \in Seq(T) /\ Len(q) = N /\ \A i \in 1 .. N : q[i] = RowAt(i)
    BY <1>10, <1>13
  <2> HIDE DEF q
  <2>2. q = [i \in 1 .. N |-> RowAt(i)]
    BY <2>1
  <2>3. QED BY <1>3, <2>2 DEF RowsTo, q
<1>15. QED BY <1>3, <1>6, <1>8, <1>10, <1>14

\* A call that binds keeps the inductive invariant.
LEMMA BindKeeps == ASSUME SInv, Bind PROVE SInv'
<1>1. /\ pc = "bind" /\ Bound /\ pc' = "join" /\ call' = call /\ rows' = rows /\ entry' = entry
      /\ draft' = draft /\ report' = report /\ stored' = stored /\ wanted' = wanted /\ edit' = edit
  BY DEF Bind
<1>2. Sane /\ MethodCount \in Nat \ {0}
  BY SaneParts DEF SInv, CallInv
<1>3. Sane' /\ Bound' /\ \A k : RowsTo(k)' = RowsTo(k) /\ JoinsUpTo(k)' = JoinsUpTo(k)
  BY <1>1, <1>2, SameCall
<1>4. CallInv'
  BY <1>1, <1>3 DEF SInv, CallInv, Stages
<1>5. RowsInv'
  <2>1. rows = RowsTo(0) /\ JoinsUpTo(0) /\ 0 \in 0 .. MethodCount
    BY <1>1, <1>2 DEF SInv, RowsInv
  <2>2. rows' = RowsTo(0)' /\ JoinsUpTo(0)'
    BY <1>1, <1>3, <2>1
  <2>3. QED BY <1>1, <1>2, <1>3, <2>1, <2>2 DEF RowsInv, AfterJoin
<1>6. BuildInv'
  BY <1>1 DEF BuildInv, AfterJoin, HasReport
<1>7. FileInv'
  BY <1>1, FileKept DEF SInv, CallInv
<1>8. LoadInv'
  BY <1>1 DEF SInv, LoadInv
<1>9. QED BY <1>4, <1>5, <1>6, <1>7, <1>8 DEF SInv

\* Joining a method keeps the inductive invariant.
LEMMA JoinKeeps == ASSUME SInv, JoinMethod PROVE SInv'
<1>1. /\ pc = "join" /\ call' = call /\ entry' = entry /\ draft' = draft /\ report' = report
      /\ stored' = stored /\ wanted' = wanted /\ edit' = edit
      /\ pc' = IF Len(rows') = MethodCount * CaseCount THEN "build" ELSE "join"
  BY DEF JoinMethod
<1>2. Sane /\ MethodCount \in Nat \ {0} /\ CaseCount \in Nat \ {0}
  BY SaneParts DEF SInv, CallInv
<1>3. Sane' /\ Bound' = Bound /\ \A k : RowsTo(k)' = RowsTo(k) /\ JoinsUpTo(k)' = JoinsUpTo(k)
  BY <1>1, <1>2, SameCall
<1>4. PICK k \in 0 .. MethodCount : rows = RowsTo(k) /\ JoinsUpTo(k) /\ k < MethodCount
  BY <1>1 DEF SInv, RowsInv
<1>5. k \in 0 .. MethodCount - 1 /\ k + 1 \in 0 .. MethodCount
  BY <1>2, <1>4
<1>6. rows' = RowsTo(k + 1) /\ JoinsUpTo(k + 1) /\ Len(rows') = (k + 1) * CaseCount
  BY <1>4, <1>5, JoinAdds
<1>7. pc' = "join" => k + 1 < MethodCount
  BY <1>1, <1>2, <1>5, <1>6
<1>8. pc' = "build" => k + 1 = MethodCount
  <2>1. SUFFICES ASSUME (k + 1) * CaseCount = MethodCount * CaseCount PROVE k + 1 = MethodCount
    BY <1>1, <1>6
  <2>2. SUFFICES ASSUME k + 1 < MethodCount PROVE FALSE
    BY <1>2, <1>5
  <2>3. (k + 2) * CaseCount <= MethodCount * CaseCount
    BY <1>2, <1>5, <2>2
  <2>4. (k + 2) * CaseCount = (k + 1) * CaseCount + CaseCount /\ (k + 1) * CaseCount \in Nat
    BY <1>2, <1>5
  <2>5. QED BY <1>2, <2>1, <2>3, <2>4
<1>9. pc' \in {"join", "build"}
  BY <1>1
<1>10. CallInv'
  BY <1>1, <1>3, <1>9 DEF SInv, CallInv, Stages
<1>11. RowsInv'
  <2>1. rows' = RowsTo(k + 1)' /\ JoinsUpTo(k + 1)'
    BY <1>3, <1>6
  <2>2. Bound'
    BY <1>1, <1>3 DEF SInv, RowsInv
  <2>3. QED BY <1>5, <1>7, <1>8, <1>9, <2>1, <2>2 DEF RowsInv, AfterJoin
<1>12. BuildInv'
  BY <1>9 DEF BuildInv, AfterJoin, HasReport
<1>13. FileInv'
  BY <1>1, FileKept DEF SInv, CallInv
<1>14. LoadInv'
  BY <1>1, <1>9 DEF SInv, LoadInv
<1>15. QED BY <1>10, <1>11, <1>12, <1>13, <1>14 DEF SInv

\* A refusal needs a reason.
LEMMA RefuseKeeps ==
  ASSUME SInv, Refuse, pc # "published",
         \/ ~ Sound
         \/ entry = "load" /\ (edit # "none" \/ stored.content.roots.truth # call.truth)
  PROVE  SInv'
<1>1. /\ pc' = "refused" /\ call' = call /\ rows' = rows /\ entry' = entry
      /\ draft' = draft /\ report' = report /\ stored' = stored /\ wanted' = wanted /\ edit' = edit
  BY DEF Refuse
<1>2. Sane /\ Sound' = Sound
  BY <1>1, SameCall DEF SInv, CallInv
<1>3. Sane' /\ \A k : RowsTo(k)' = RowsTo(k) /\ JoinsUpTo(k)' = JoinsUpTo(k)
  BY <1>1, <1>2, SameCall
<1>4. CallInv'
  BY <1>1, <1>3 DEF SInv, CallInv, Stages
<1>5. RowsInv'
  <2>1. PICK k \in 0 .. MethodCount : rows = RowsTo(k) /\ JoinsUpTo(k)
    BY DEF SInv, RowsInv
  <2>2. rows' = RowsTo(k)' /\ JoinsUpTo(k)'
    BY <1>1, <1>3, <2>1
  <2>3. QED BY <1>1, <2>1, <2>2 DEF RowsInv, AfterJoin
<1>6. BuildInv'
  BY <1>1 DEF BuildInv, AfterJoin, HasReport
<1>7. FileInv'
  BY <1>1, FileKept DEF SInv, CallInv
<1>8. LoadInv'
  BY <1>1, <1>2 DEF SInv, LoadInv
<1>9. QED BY <1>4, <1>5, <1>6, <1>7, <1>8 DEF SInv

\* A call refused for its pins was not sound.
LEMMA RefuseBindKeeps == ASSUME SInv, RefuseBind PROVE SInv'
<1>1. pc = "bind" /\ ~ Bound /\ Refuse
  BY DEF RefuseBind
<1>2. ~ Sound
  BY <1>1, SoundIsBound DEF SInv, CallInv
<1>3. QED BY <1>1, <1>2, RefuseKeeps

\* A call refused in the join was not sound.
LEMMA RefuseJoinKeeps == ASSUME SInv, RefuseJoin PROVE SInv'
<1>1. pc = "join" /\ Refuse /\ ~ JoinsAll(NextMethod)
  BY DEF RefuseJoin, JoinsAll
<1>2. Sane /\ MethodCount \in Nat \ {0} /\ CaseCount \in Nat \ {0}
  BY SaneParts DEF SInv, CallInv
<1>3. PICK k \in 0 .. MethodCount : rows = RowsTo(k) /\ k < MethodCount
  BY <1>1 DEF SInv, RowsInv
<1>4. NextMethod \in MethodsOf(Claims)
  <2>1. k * CaseCount \in Nat /\ k \in Nat
    BY <1>2, <1>3
  <2>2. Len(rows) = k * CaseCount
    BY <1>3, <2>1 DEF RowsTo
  <2>3. (k * CaseCount + 0) \div CaseCount = k /\ k * CaseCount + 0 = k * CaseCount
    BY <1>2, <2>1, Divided
  <2>4. NextMethod = Claims.methods[k + 1]
    BY <2>2, <2>3 DEF NextMethod
  <2>5. k + 1 \in 1 .. MethodCount
    BY <1>2, <1>3
  <2>6. QED BY <1>2, <2>4, <2>5, SaneParts
<1>5. ~ Sound
  BY <1>1, <1>2, <1>4, SoundJoins
<1>6. QED BY <1>1, <1>5, RefuseKeeps

\* Steps of the build, which leave the rows alone.
LEMMA StepKeeps ==
  ASSUME SInv, call' = call, rows' = rows, entry' = entry, stored' = stored, wanted' = wanted,
         edit' = edit, pc \in AfterJoin, pc' \in AfterJoin,
         entry = "score" => report' = report \/ stored = None,
         pc # "published" \/ entry = "load" \/ pc' = "published"
  PROVE  CallInv' /\ RowsInv' /\ FileInv' /\ Sane /\ JoinsUpTo(MethodCount) /\ rows = AllRows /\ Bound
         /\ Built' = Built /\ Tabled' = Tabled /\ NoneForeign' = NoneForeign
<1>1. Sane
  BY DEF SInv, CallInv
<1>2. /\ Sane' /\ Bound' = Bound /\ \A k : RowsTo(k)' = RowsTo(k) /\ JoinsUpTo(k)' = JoinsUpTo(k)
      /\ Built' = Built /\ Tabled' = Tabled /\ NoneForeign' = NoneForeign
  BY <1>1, SameCall
<1>3. CallInv'
  BY <1>2 DEF SInv, CallInv, Stages, AfterJoin
<1>4. rows = RowsTo(MethodCount) /\ JoinsUpTo(MethodCount) /\ MethodCount \in 0 .. MethodCount /\ Bound
  BY DEF SInv, RowsInv
<1>5. RowsInv'
  <2>1. rows' = RowsTo(MethodCount)' /\ JoinsUpTo(MethodCount)' /\ Bound'
    BY <1>2, <1>4
  <2>2. pc' \notin {"bind", "parse", "join"}
    BY DEF AfterJoin
  <2>3. QED BY <1>4, <2>1, <2>2 DEF RowsInv
<1>6. FileInv'
  BY FileKept DEF SInv, CallInv
<1>7. QED BY <1>1, <1>2, <1>3, <1>4, <1>5, <1>6 DEF AllRows

\* Building the tables keeps the inductive invariant.
LEMMA TabulateKeeps == ASSUME SInv, Tabulate PROVE SInv'
<1>1. /\ pc = "build" /\ pc' = "average" /\ call' = call /\ rows' = rows /\ entry' = entry
      /\ report' = report /\ stored' = stored /\ wanted' = wanted /\ edit' = edit
      /\ NoneForeign
      /\ draft' = [roots |-> call.expected, rows |-> rows, order |-> Claims.methods,
                   methods |-> [m \in MethodsOf(Claims) |-> Tabulated(RowsOf(rows, m))],
                   ceiling |-> [tables |-> Tables(CeilingRows)]]
  BY DEF Tabulate, NoneForeign
<1>2. /\ CallInv' /\ RowsInv' /\ FileInv' /\ rows = AllRows /\ Tabled' = Tabled /\ NoneForeign' = NoneForeign
  BY <1>1, StepKeeps DEF AfterJoin
<1>3. draft' = Tabled
  BY <1>1, <1>2 DEF Tabled
<1>4. BuildInv'
  BY <1>1, <1>2, <1>3 DEF BuildInv, HasReport
<1>5. LoadInv'
  BY <1>1 DEF SInv, LoadInv
<1>6. QED BY <1>2, <1>4, <1>5 DEF SInv

\* Building the template means keeps the inductive invariant.
LEMMA AverageKeeps == ASSUME SInv, Average PROVE SInv'
<1>1. /\ pc = "average" /\ pc' = "validate" /\ call' = call /\ rows' = rows /\ entry' = entry
      /\ report' = report /\ stored' = stored /\ wanted' = wanted /\ edit' = edit
      /\ draft = Tabled /\ NoneForeign
  BY DEF Average, SInv, BuildInv, AfterJoin
<1>2. /\ CallInv' /\ RowsInv' /\ FileInv' /\ Built' = Built /\ NoneForeign' = NoneForeign
  BY <1>1, StepKeeps DEF AfterJoin
<1>3. draft' = Built
  <2> DEFINE some == [m \in MethodsOf(Claims) |-> Tabulated(RowsOf(AllRows, m))]
             all == [m \in MethodsOf(Claims) |-> Averaged(Tabulated(RowsOf(AllRows, m)))]
             half == [tables |-> Tables(CeilingRows)]
  <2>1. /\ draft = [roots |-> call.expected, rows |-> AllRows, order |-> Claims.methods,
                    methods |-> some, ceiling |-> half]
    BY <1>1 DEF Tabled
  <2>2. draft.methods = some /\ draft.ceiling = half
    BY <2>1
  <2>3. draft' = [draft EXCEPT !.methods = [m \in DOMAIN draft.methods |-> Averaged(draft.methods[m])],
                               !.ceiling = [tables |-> draft.ceiling.tables,
                                            macros |-> Macros(draft.ceiling.tables)]]
    BY DEF Average
  <2>4. [m \in DOMAIN draft.methods |-> Averaged(draft.methods[m])] = all
    BY <2>2
  <2>5. draft.ceiling.tables = Tables(CeilingRows)
    BY <2>2
  <2> DEFINE full == [tables |-> Tables(CeilingRows), macros |-> Macros(Tables(CeilingRows))]
  <2>6. draft' = [draft EXCEPT !.methods = all, !.ceiling = full]
    BY <2>3, <2>4, <2>5
  <2> HIDE DEF some, half, all, full
  <2>7. draft' = [roots |-> call.expected, rows |-> AllRows, order |-> Claims.methods,
                  methods |-> all, ceiling |-> full]
    BY <2>1, <2>6
  <2>8. QED BY <2>7 DEF Built, all, full
<1>4. BuildInv'
  BY <1>1, <1>2, <1>3 DEF BuildInv, HasReport
<1>5. LoadInv'
  BY <1>1 DEF SInv, LoadInv
<1>6. QED BY <1>2, <1>4, <1>5 DEF SInv

\* Constructing the report keeps the inductive invariant.
LEMMA ConstructKeeps == ASSUME SInv, Construct PROVE SInv'
<1>1. /\ pc = "validate" /\ call' = call /\ rows' = rows /\ entry' = entry
      /\ stored' = stored /\ wanted' = wanted /\ edit' = edit /\ draft = Built /\ NoneForeign
      /\ entry \in {"score", "load"} /\ (entry = "score" => stored = None)
  BY DEF Construct, SInv, BuildInv, AfterJoin, CallInv, FileInv
<1>2. Sane /\ Bound /\ JoinsUpTo(MethodCount)
  BY <1>1 DEF SInv, CallInv, RowsInv, AfterJoin
<1>3. ValidReport(draft)
  BY <1>1, <1>2, BuiltIsValid
<1>4. report' = Built /\ pc' = IF entry = "score" THEN "published" ELSE "compare"
  BY <1>1, <1>3 DEF Construct
<1>5. /\ CallInv' /\ RowsInv' /\ FileInv' /\ Built' = Built /\ NoneForeign' = NoneForeign
  BY <1>1, <1>4, StepKeeps DEF AfterJoin
<1>6. BuildInv'
  BY <1>1, <1>4, <1>5 DEF BuildInv, HasReport
<1>7. LoadInv'
  BY <1>1, <1>4 DEF SInv, LoadInv
<1>8. QED BY <1>5, <1>6, <1>7 DEF SInv

\* Steps of the file, which leave the call alone.
LEMMA FileStepKeeps ==
  ASSUME SInv, pc = "published", call' = call, rows' = rows, entry' = entry, draft' = draft,
         report' = report, wanted' = wanted, pc' = pc, edit' \in Changes \cup {"none"}
  PROVE  /\ CallInv' /\ RowsInv' /\ BuildInv' /\ LoadInv' /\ Built' = Built /\ Claims' = Claims
         /\ report = Built /\ entry = "score" /\ ValidReport(Built)
         /\ Sane /\ Bound /\ JoinsUpTo(MethodCount)
<1>1. Sane /\ Bound /\ JoinsUpTo(MethodCount) /\ rows = RowsTo(MethodCount) /\ NoneForeign
  BY DEF SInv, CallInv, RowsInv, BuildInv, AfterJoin
<1>2. report = Built /\ entry = "score"
  BY DEF SInv, BuildInv, HasReport
<1>3. /\ Sane' /\ Bound' = Bound /\ \A k : RowsTo(k)' = RowsTo(k) /\ JoinsUpTo(k)' = JoinsUpTo(k)
      /\ Built' = Built /\ NoneForeign' = NoneForeign
  BY <1>1, SameCall
<1>4. CallInv'
  BY <1>3 DEF SInv, CallInv
<1>5. RowsInv'
  <2>1. rows' = RowsTo(MethodCount)' /\ JoinsUpTo(MethodCount)' /\ Bound'
    BY <1>1, <1>3
  <2>2. MethodCount \in 0 .. MethodCount
    BY <1>1, SaneParts
  <2>3. QED BY <2>1, <2>2 DEF RowsInv
<1>6. BuildInv'
  BY <1>1, <1>2, <1>3 DEF BuildInv
<1>7. LoadInv'
  BY <1>2 DEF LoadInv
<1>8. ValidReport(Built)
  BY <1>1, BuiltParts
<1>9. QED BY <1>1, <1>2, <1>3, <1>4, <1>5, <1>6, <1>7, <1>8 DEF Claims

\* A stored file is not the absence of one.
LEMMA FileIsThere ==
  ASSUME NEW c, NEW s
  PROVE  [content |-> c, roots |-> s] # None
<1>1. "content" \in DOMAIN [content |-> c, roots |-> s] /\ "content" \notin DOMAIN None
  BY DEF None
<1>2. QED BY <1>1

\* Storing the report keeps the inductive invariant.
LEMMA StoreKeeps == ASSUME SInv, Store PROVE SInv'
<1>1. /\ pc = "published" /\ stored = None /\ pc' = pc /\ call' = call /\ rows' = rows /\ entry' = entry
      /\ draft' = draft /\ report' = report /\ wanted' = wanted /\ edit' = edit
      /\ stored' = [content |-> report, roots |-> report]
  BY DEF Store
<1>2. edit = "none"
  BY <1>1 DEF SInv, FileInv
<1>3. /\ CallInv' /\ RowsInv' /\ BuildInv' /\ LoadInv' /\ Built' = Built
      /\ report = Built /\ entry = "score" /\ ValidReport(Built)
  BY <1>1, <1>2, FileStepKeeps
<1>4. stored' # None
  BY <1>1, FileIsThere
<1>5. stored'.content = Built /\ stored'.roots = Built
  BY <1>1, <1>3
<1>6. Untouched'
  BY <1>1, <1>3, <1>5 DEF Untouched
<1>7. FileInv'
  BY <1>1, <1>2, <1>3, <1>4, <1>5, <1>6 DEF FileInv, None
<1>8. QED BY <1>3, <1>7 DEF SInv

\* What a change of each kind leaves behind.
LEMMA ChangeCaught ==
  ASSUME Sane, Bound, JoinsUpTo(MethodCount), NEW kind \in Kinds, Changed(Built, kind) # Built,
         kind \in {"order", "truth"} => Len(Built.rows) > 1
  PROVE  /\ kind \notin Forged \cup {"unsealed"} => ~ ValidReport(Changed(Built, kind))
         /\ kind = "roots" => Changed(Built, kind).roots.claims # Claims
         /\ kind = "rewrite" => Misgraded(Changed(Built, kind))
<1>1. CASE kind = "row"
  BY <1>1, RowCaught
<1>2. CASE kind = "tables"
  BY <1>2, TablesCaught
<1>3. CASE kind = "table"
  BY <1>3, TableCaught
<1>4. CASE kind = "macro"
  BY <1>4, MacroCaught
<1>5. CASE kind = "order"
  BY <1>5, OrderCaught
<1>6. CASE kind = "truth"
  BY <1>6, TruthCaught
<1>7. CASE kind = "ceiling"
  BY <1>7, CeilingCaught
<1>8. CASE kind = "roots"
  BY <1>8, RootsAreOthers DEF Forged
<1>9. CASE kind = "rewrite"
  BY <1>9, RewriteIsMisgraded DEF Forged
<1>10. CASE kind = "unsealed"
  BY <1>10
<1>11. QED BY <1>1, <1>2, <1>3, <1>4, <1>5, <1>6, <1>7, <1>8, <1>9, <1>10 DEF Kinds

\* A change to the stored file keeps the inductive invariant.
LEMMA ChangeKeeps == ASSUME SInv, NEW kind \in Changes, Change(kind) PROVE SInv'
<1> DEFINE c == Changed(report, kind)
<1>1. /\ pc = "published" /\ stored # None /\ pc' = pc /\ call' = call /\ rows' = rows /\ entry' = entry
      /\ draft' = draft /\ report' = report /\ wanted' = wanted /\ edit' = kind /\ c # report
      /\ kind \in {"order", "truth"} => Len(report.rows) > 1
      /\ stored' = [content |-> c, roots |-> IF kind = "unsealed" THEN report ELSE c]
  BY DEF Change
<1>2. /\ CallInv' /\ RowsInv' /\ BuildInv' /\ LoadInv' /\ Built' = Built /\ Claims' = Claims
      /\ report = Built /\ entry = "score" /\ Sane /\ Bound /\ JoinsUpTo(MethodCount)
  BY <1>1, FileStepKeeps
<1>3. kind \in Kinds
  BY ScoringAssumption DEF Kinds
<1>4. /\ kind \notin Forged \cup {"unsealed"} => ~ ValidReport(c)
      /\ kind = "roots" => c.roots.claims # Claims
      /\ kind = "rewrite" => Misgraded(c)
  BY <1>1, <1>2, <1>3, ChangeCaught
<1>5. stored'.content = c /\ (kind = "unsealed" => stored'.roots = report)
  BY <1>1
<1>6. stored' # None /\ stored' = [content |-> stored'.content, roots |-> stored'.roots]
  BY <1>1, FileIsThere
<1> HIDE DEF c
<1>7. kind \notin Forged => ~ Accepted'
  BY <1>1, <1>4, <1>5 DEF Accepted
<1>8. kind # "none"
  BY <1>3 DEF Kinds
<1>9. FileInv'
  BY <1>1, <1>2, <1>4, <1>5, <1>6, <1>7, <1>8 DEF FileInv
<1>10. QED BY <1>2, <1>9 DEF SInv

\* Calling the loader keeps the inductive invariant, whatever the truth and the pin.
LEMMA CallLoadKeeps ==
  ASSUME SInv, NEW pin, NEW truth \in {call.truth} \cup Truths, CallLoad(pin, truth)
  PROVE  SInv'
<1>1. /\ pc = "published" /\ stored # None /\ entry' = "load" /\ pc' = "parse" /\ rows' = <<>>
      /\ report' = report /\ stored' = stored /\ edit' = edit
      /\ wanted' = IF pin = "published" THEN report ELSE stored.content
      /\ call' = [call EXCEPT !.truth = truth, !.expected.truth = truth]
  BY DEF CallLoad
<1>2. Sane /\ Bound /\ JoinsUpTo(MethodCount) /\ report = Built /\ entry = "score"
  BY <1>1 DEF SInv, CallInv, RowsInv, BuildInv, AfterJoin, HasReport
<1> DEFINE want == call.expected
           new == [claims |-> want.claims, truth |-> truth, projection |-> want.projection,
                   methods |-> want.methods, implementation |-> want.implementation]
<1>3. /\ call = [claims |-> call.claims, truth |-> call.truth, expected |-> want]
      /\ want = [claims |-> want.claims, truth |-> want.truth, projection |-> want.projection,
                 methods |-> want.methods, implementation |-> want.implementation]
      /\ IsClaimSet(call.claims) /\ IsTruthSet(call.truth)
  BY <1>2 DEF Sane, IsCall
<1>4. [want EXCEPT !.truth = truth] = new
  BY <1>3
<1>5. call' = [claims |-> call.claims, truth |-> truth, expected |-> new]
  <2> HIDE DEF new, want
  <2>1. call' = [[call EXCEPT !.truth = truth] EXCEPT !.expected = [call.expected EXCEPT !.truth = truth]]
    BY <1>1, <1>3
  <2>2. QED BY <1>3, <1>4, <2>1 DEF want
<1>6. IsTruthSet(truth)
  BY <1>3, ScoringAssumption
<1>7. IsCall(call')
  <2>1. call'.claims = call.claims /\ call'.truth = truth /\ call'.expected = new
    BY <1>5
  <2>2. /\ new.claims = want.claims /\ new.truth = truth /\ new.projection = want.projection
        /\ new.methods = want.methods /\ new.implementation = want.implementation
    OBVIOUS
  <2>3. call' = [claims |-> call'.claims, truth |-> call'.truth, expected |-> call'.expected]
    BY <1>5, <2>1
  <2>4. new = [claims |-> new.claims, truth |-> new.truth, projection |-> new.projection,
               methods |-> new.methods, implementation |-> new.implementation]
    BY <2>2
  <2> HIDE DEF new
  <2>5. QED BY <1>3, <1>6, <2>1, <2>3, <2>4 DEF IsCall
<1>8. Claims' = Claims
  BY <1>5 DEF Claims
<1>9. CallInv'
  BY <1>1, <1>7 DEF SInv, CallInv, Sane, Stages
<1>10. RowsInv'
  <2>1. CaseCount \in Nat /\ MethodCount \in Nat
    BY <1>2, SaneParts
  <2>2. 1 .. 0 * CaseCount = {} /\ 1 .. 0 = {} /\ 0 \in 0 .. MethodCount
    BY <2>1
  <2>3. RowsTo(0)' = <<>> /\ JoinsUpTo(0)'
    BY <2>2 DEF RowsTo, JoinsUpTo
  <2>4. QED BY <1>1, <2>2, <2>3 DEF RowsInv, AfterJoin
<1>11. BuildInv'
  BY <1>1 DEF BuildInv, AfterJoin, HasReport
<1>12. stored # None /\ edit = "none" => Untouched'
  <2>1. SUFFICES ASSUME edit = "none" PROVE Untouched'
    OBVIOUS
  <2>2. /\ stored.roots = stored.content /\ ValidReport(stored.content) /\ stored.content = report
    BY <1>1, <1>2, <2>1 DEF SInv, FileInv, Untouched
  <2>3. stored.content.roots.truth = call.truth /\ call.expected.truth = call.truth
    BY <1>2, <2>2, BuiltParts DEF Bound
  <2>4. truth = call.truth => call' = call
    <3>1. SUFFICES ASSUME truth = call.truth PROVE call' = call
      OBVIOUS
    <3>2. new = want
      BY <1>3, <2>3, <3>1
    <3> HIDE DEF new, want
    <3>3. QED BY <1>3, <1>5, <3>1, <3>2
  <2>5. call'.truth = truth
    BY <1>5
  <2>6. call'.truth = call.truth => Built' = Built
    BY <2>4, <2>5, SameCall
  <2>7. stored'.content.roots.truth = call'.truth => stored'.content = Built'
    BY <1>1, <1>2, <2>2, <2>3, <2>6
  <2>8. stored'.roots = stored'.content /\ ValidReport(stored'.content)
    BY <1>1, <2>2
  <2>9. wanted' = stored'.content
    BY <1>1, <2>2
  <2>10. QED BY <1>1, <2>7, <2>8, <2>9 DEF Untouched
<1>13. FileInv'
  <2>1. Accepted' = Accepted
    BY <1>1 DEF Accepted
  <2>2. QED BY <1>1, <1>8, <1>12, <2>1 DEF SInv, FileInv
<1>14. LoadInv'
  BY <1>1 DEF LoadInv
<1>15. QED BY <1>9, <1>10, <1>11, <1>13, <1>14 DEF SInv

\* Parsing the file keeps the inductive invariant.
LEMMA ParseKeeps == ASSUME SInv, Parse PROVE SInv'
<1>1. /\ pc = "parse" /\ Accepted /\ stored.content = wanted /\ pc' = "bind"
      /\ call' = call /\ rows' = rows /\ entry' = entry
      /\ draft' = draft /\ report' = report /\ stored' = stored /\ wanted' = wanted /\ edit' = edit
  BY DEF Parse
<1>2. Sane /\ entry = "load"
  BY <1>1 DEF SInv, CallInv, BuildInv
<1>3. Sane' /\ \A k : RowsTo(k)' = RowsTo(k) /\ JoinsUpTo(k)' = JoinsUpTo(k)
  BY <1>1, <1>2, SameCall
<1>4. CallInv'
  BY <1>1, <1>3 DEF SInv, CallInv, Stages
<1>5. RowsInv'
  <2>1. rows = RowsTo(0) /\ JoinsUpTo(0)
    BY <1>1 DEF SInv, RowsInv
  <2>2. rows' = RowsTo(0)' /\ JoinsUpTo(0)'
    BY <1>1, <1>3, <2>1
  <2>3. 0 \in 0 .. MethodCount
    BY <1>2, SaneParts
  <2>4. QED BY <1>1, <2>2, <2>3 DEF RowsInv, AfterJoin
<1>6. BuildInv'
  BY <1>1, <1>2 DEF BuildInv, AfterJoin, HasReport
<1>7. FileInv'
  BY <1>1, <1>2, FileKept DEF SInv, CallInv
<1>8. LoadInv'
  BY <1>1, <1>2 DEF SInv, FileInv, LoadInv
<1>9. QED BY <1>4, <1>5, <1>6, <1>7, <1>8 DEF SInv

\* A file refused by the parser was changed.
LEMMA RefuseParseKeeps == ASSUME SInv, RefuseParse PROVE SInv'
<1>1. pc = "parse" /\ ~ (Accepted /\ stored.content = wanted) /\ Refuse
  BY DEF RefuseParse
<1>2. entry = "load" /\ stored # None
  BY <1>1 DEF SInv, BuildInv, FileInv
<1>3. edit # "none"
  BY <1>1, <1>2 DEF SInv, FileInv, Untouched, Accepted
<1>4. QED BY <1>1, <1>2, <1>3, RefuseKeeps

\* Returning the file keeps the inductive invariant.
LEMMA ReturnKeeps == ASSUME SInv, Return PROVE SInv'
<1>1. /\ pc = "compare" /\ SameAsRebuilt /\ pc' = "loaded" /\ call' = call /\ rows' = rows /\ entry' = entry
      /\ draft' = draft /\ report' = report /\ stored' = stored /\ wanted' = wanted /\ edit' = edit
  BY DEF Return
<1>2. /\ CallInv' /\ RowsInv' /\ FileInv' /\ Built' = Built /\ NoneForeign' = NoneForeign
  BY <1>1, StepKeeps DEF AfterJoin
<1>3. report = Built /\ NoneForeign /\ entry = "load"
  BY <1>1 DEF SInv, BuildInv, AfterJoin, HasReport
<1>4. BuildInv'
  BY <1>1, <1>2, <1>3 DEF BuildInv
<1>5. SameAsRebuilt'
  BY <1>1 DEF SameAsRebuilt
<1>6. LoadInv'
  BY <1>1, <1>5 DEF SInv, LoadInv
<1>7. QED BY <1>2, <1>4, <1>6 DEF SInv

\* A file refused after the rebuild was changed, or is of another truth.
LEMMA RefuseFileKeeps == ASSUME SInv, RefuseFile PROVE SInv'
<1>1. pc = "compare" /\ ~ SameAsRebuilt /\ Refuse
  BY DEF RefuseFile
<1>2. entry = "load" /\ stored # None /\ report = Built
  BY <1>1 DEF SInv, BuildInv, FileInv, HasReport
<1>3. edit # "none" \/ stored.content.roots.truth # call.truth
  <2>1. SUFFICES ASSUME edit = "none", stored.content.roots.truth = call.truth PROVE FALSE
    OBVIOUS
  <2>2. /\ stored.roots = stored.content /\ stored.content = Built /\ wanted = stored.content
        /\ stored = [content |-> stored.content, roots |-> stored.roots]
    BY <1>2, <2>1 DEF SInv, FileInv, Untouched
  <2>3. QED BY <1>1, <1>2, <2>2 DEF SameAsRebuilt
<1>4. QED BY <1>1, <1>2, <1>3, RefuseKeeps

\* So does a step that changes nothing.
LEMMA StutterKeeps == ASSUME SInv, UNCHANGED vars PROVE SInv'
<1>1. /\ pc' = pc /\ call' = call /\ rows' = rows /\ entry' = entry
      /\ draft' = draft /\ report' = report /\ stored' = stored /\ wanted' = wanted /\ edit' = edit
  BY DEF vars
<1>2. Sane
  BY DEF SInv, CallInv
<1>3. /\ Sane' /\ Bound' = Bound /\ Sound' = Sound /\ Built' = Built /\ Tabled' = Tabled /\ NoneForeign' = NoneForeign
      /\ \A k : RowsTo(k)' = RowsTo(k) /\ JoinsUpTo(k)' = JoinsUpTo(k)
  BY <1>1, <1>2, SameCall
<1>4. CallInv'
  BY <1>1, <1>3 DEF SInv, CallInv
<1>5. RowsInv'
  <2>1. PICK k \in 0 .. MethodCount :
          /\ rows = RowsTo(k) /\ JoinsUpTo(k)
          /\ pc \in {"bind", "parse"} => k = 0
          /\ pc = "join" => k < MethodCount
          /\ pc \in AfterJoin => k = MethodCount
    BY DEF SInv, RowsInv
  <2>2. rows' = RowsTo(k)' /\ JoinsUpTo(k)'
    BY <1>1, <1>3, <2>1
  <2>3. pc' \in AfterJoin \cup {"join"} => Bound'
    BY <1>1, <1>3 DEF SInv, RowsInv
  <2>4. QED BY <1>1, <2>1, <2>2, <2>3 DEF RowsInv
<1>6. BuildInv'
  BY <1>1, <1>3 DEF SInv, BuildInv
<1>7. FileInv'
  BY <1>1, FileKept DEF SInv, CallInv
<1>8. LoadInv'
  BY <1>1, <1>3 DEF SInv, LoadInv, SameAsRebuilt
<1>9. QED BY <1>4, <1>5, <1>6, <1>7, <1>8 DEF SInv

\* Every step keeps the inductive invariant.
LEMMA NextSInv == SInv /\ [Next]_vars => SInv'
<1> SUFFICES ASSUME SInv, [Next]_vars PROVE SInv'
  OBVIOUS
<1>1. CASE Score
  BY <1>1, BindKeeps, RefuseBindKeeps, JoinKeeps, RefuseJoinKeeps, TabulateKeeps, AverageKeeps,
     ConstructKeeps DEF Score
<1>2. CASE Store
  BY <1>2, StoreKeeps
<1>3. CASE \E kind \in Changes : Change(kind)
  BY <1>3, ChangeKeeps
<1>4. CASE \E pin \in {"published", "file"}, truth \in {call.truth} \cup Truths : CallLoad(pin, truth)
  BY <1>4, CallLoadKeeps
<1>5. CASE Parse
  BY <1>5, ParseKeeps
<1>6. CASE RefuseParse
  BY <1>6, RefuseParseKeeps
<1>7. CASE Return
  BY <1>7, ReturnKeeps
<1>8. CASE RefuseFile
  BY <1>8, RefuseFileKeeps
<1>9. CASE Done
  BY <1>9, StutterKeeps DEF Done
<1>10. CASE UNCHANGED vars
  BY <1>10, StutterKeeps
<1>11. QED BY <1>1, <1>2, <1>3, <1>4, <1>5, <1>6, <1>7, <1>8, <1>9, <1>10 DEF Next

\* The inductive invariant holds always.
LEMMA AlwaysSInv == Spec => []SInv
BY InitSInv, NextSInv, PTL DEF Spec

\* Rows and program counter are of their types in every reachable state, and every row
\* stands under the method it was joined for (score_workspace100_claims).
THEOREM ScoringTypeOK == Spec => []TypeOK
<1>1. ASSUME SInv PROVE TypeOK
  <2>1. entry \in {"score", "load"} /\ pc \in Stages /\ edit \in Changes \cup {"none"} /\ Sane
    BY <1>1 DEF SInv, CallInv
  <2>2. PICK k \in 0 .. MethodCount : /\ rows = RowsTo(k) /\ JoinsUpTo(k)
                                      /\ pc \in AfterJoin => k = MethodCount
    BY <1>1 DEF SInv, RowsInv
  <2>3. DOMAIN rows = 1 .. k * CaseCount /\ k * CaseCount \in Nat
    BY <2>1, <2>2, RowsAre
  <2>4. ASSUME NEW i \in DOMAIN rows
        PROVE  /\ rows[i].category \in Categories /\ ValidRow(rows[i])
               /\ rows[i].method = Claims.methods[(i - 1) \div CaseCount + 1]
    <3>1. /\ MethodAt(i) \in 1 .. k /\ CaseAt(i) \in 1 .. CaseCount /\ i = Spot(MethodAt(i), CaseAt(i))
      BY <2>1, <2>2, <2>3, <2>4, RowsAre
    <3> DEFINE m == Claims.methods[MethodAt(i)]
               e == TruthOrder[CaseAt(i)]
    <3>2. rows[i] = RowFor(m, e) /\ m \in MethodsOf(Claims) /\ e \in DOMAIN Truth /\ Joins(m, e)
      BY <2>1, <2>2, <3>1, RowsAre
    <3> HIDE DEF m, e
    <3>3. rows[i].category \in Categories /\ ValidRow(rows[i]) /\ rows[i].method = m
      BY <2>1, <3>2, RowIs
    <3>4. QED BY <3>3 DEF m, MethodAt
  <2>5. pc \in AfterJoin => Len(rows) = MethodCount * CaseCount
    BY <2>2, <2>3 DEF RowsTo
  <2>6. QED BY <2>1, <2>4, <2>5 DEF TypeOK, Stages, AfterJoin
<1>2. QED BY <1>1, AlwaysSInv, PTL

\* What is shown is the report of the call.
LEMMA ShownIsBuilt ==
  ASSUME SInv, IsShown
  PROVE  Shown = Built /\ Sane /\ Bound /\ JoinsUpTo(MethodCount) /\ NoneForeign
<1>1. Sane /\ Bound /\ JoinsUpTo(MethodCount) /\ NoneForeign /\ report = Built
  BY DEF SInv, IsShown, CallInv, RowsInv, BuildInv, AfterJoin, HasReport
<1>2. pc = "loaded" => stored.content = report
  <2>1. SUFFICES ASSUME pc = "loaded" PROVE stored.content = report
    OBVIOUS
  <2>2. stored = [content |-> report, roots |-> report]
    BY <2>1 DEF SInv, LoadInv, SameAsRebuilt
  <2>3. QED BY <2>2
<1>3. QED BY <1>1, <1>2 DEF Shown

\* Whatever the claims, the truth and the order of either, a report that is shown grades
\* every run once and as its answer deserves (_score_validated_claim_run, _classify_worker_run).
THEOREM ScoringFairlyGraded == Spec => []FairlyGraded
<1>1. ASSUME SInv PROVE FairlyGraded
  <2>1. SUFFICES ASSUME IsShown, NEW r \in Range(Claims.runs) PROVE FairOn(Shown.rows, r)
    BY DEF FairlyGraded, FairOn
  <2>2. Shown = Built /\ Sane /\ Bound /\ JoinsUpTo(MethodCount) /\ NoneForeign
    BY <1>1, <2>1, ShownIsBuilt
  <2>3. Shown.rows = AllRows
    BY <2>2, BuiltParts
  <2>4. FairOn(AllRows, r)
    BY <2>2, BuiltIsFair
  <2>5. QED BY <2>3, <2>4
<1>2. QED BY <1>1, AlwaysSInv, PTL

\* In a report that is shown every method is measured over the ceiling's denominators, and
\* no rate of correctness exceeds the ceiling's (_build_score_slice, _build_oracle_report).
THEOREM ScoringCeilingHolds == Spec => []CeilingHolds
<1>1. ASSUME SInv PROVE CeilingHolds
  <2>1. SUFFICES ASSUME IsShown, NEW m \in DOMAIN Shown.methods, NEW d \in Dimensions
                 PROVE  Below(Shown.methods[m].tables[d].metrics, Shown.ceiling.tables[d].metrics)
    BY DEF CeilingHolds, Below
  <2>2. Shown = Built /\ Sane /\ JoinsUpTo(MethodCount)
    BY <1>1, <2>1, ShownIsBuilt
  <2>3. QED BY <2>1, <2>2, BuiltIsBelow
<1>2. QED BY <1>1, AlwaysSInv, PTL

\* In a report that is shown every mean over the templates is defined where a template's
\* rate is, lies between two of those rates, and is the rate of all templates together where
\* the class does not depend on the answers (_build_template_macros, MacroRate.from_rates).
THEOREM ScoringMacroAgrees == Spec => []MacroAgrees
<1>1. ASSUME SInv PROVE MacroAgrees
  <2>1. SUFFICES ASSUME IsShown, NEW m \in DOMAIN Shown.methods, NEW v \in Views \cup {All},
                        NEW x \in MetricNames
                 PROVE  MacroFits(Shown.methods[m].tables, Shown.methods[m].macros, v, x)
    BY DEF MacroAgrees, MacroFits
  <2>2. Shown = Built /\ Sane /\ Bound /\ JoinsUpTo(MethodCount)
    BY <1>1, <2>1, ShownIsBuilt
  <2>3. m \in MethodsOf(Claims)
    BY <2>2, BuiltParts
  <2> DEFINE list == RowsOf(AllRows, m)
  <2>4. Built.methods[m].tables = Tables(list) /\ Built.methods[m].macros = Macros(Tables(list))
    <3>1. Built.methods[m] = [rows |-> list, tables |-> Tables(list), macros |-> Macros(Tables(list))]
      BY <2>2, <2>3, BuiltParts
    <3> HIDE DEF list
    <3>2. QED BY <3>1
  <2>5. Tabular(list) /\ Measured(list) /\ Apart(list)
    BY <2>2, <2>3, MethodRows
  <2> HIDE DEF list
  <2>6. MacroFits(Tables(list), Macros(Tables(list)), v, x)
    BY <2>5, MacrosFit
  <2>7. QED BY <2>2, <2>4, <2>6
<1>2. QED BY <1>1, AlwaysSInv, PTL

\* No answer of a participant aborts the scoring: a call that is refused had a fault in its
\* pins or its join, or loads a file that was changed or is of another truth.
THEOREM ScoringFaultsOnlyAbort == Spec => []FaultsOnlyAbort
<1>1. ASSUME SInv PROVE FaultsOnlyAbort
  <2>1. IsShown => Sound
    BY <1>1, ShownIsBuilt, JoinedIsSound
  <2>2. QED BY <1>1, <2>1 DEF SInv, LoadInv, FaultsOnlyAbort
<1>2. QED BY <1>1, AlwaysSInv, PTL

\* Every change of one part of a stored report is found by the parser alone
\* (_parse_score_report, Workspace100ScoreReport.validate).
THEOREM ScoringEditsCaught == Spec => []EditsCaught
<1>1. ASSUME SInv PROVE EditsCaught
  <2>1. {"none", "roots", "rewrite"} = Forged \cup {"none"}
    BY DEF Forged
  <2>2. QED BY <1>1, <2>1 DEF SInv, LoadInv, EditsCaught
<1>2. QED BY <1>1, AlwaysSInv, PTL

\* A changed file is never returned: what load_verified_workspace100_score_report returns is
\* the report of the claims and the truth it was given.
THEOREM ScoringLoadedIsRebuilt == Spec => []LoadedIsRebuilt
<1>1. ASSUME SInv PROVE LoadedIsRebuilt
  <2>1. SUFFICES ASSUME pc = "loaded"
                 PROVE  /\ edit = "none"
                        /\ stored.content.roots.claims = Claims /\ stored.content.roots.truth = call.truth
    BY DEF LoadedIsRebuilt
  <2>2. Shown = stored.content /\ IsShown
    BY <2>1 DEF Shown, IsShown
  <2>3. stored.content = Built /\ Sane /\ Bound /\ JoinsUpTo(MethodCount)
    BY <1>1, <2>2, ShownIsBuilt
  <2>4. entry = "load"
    BY <1>1, <2>1 DEF SInv, BuildInv
  <2>5. edit \in Forged \cup {"none"}
    BY <1>1, <2>1, <2>4 DEF SInv, LoadInv
  <2>6. stored.content.roots = call.expected
    BY <2>3, BuiltParts
  <2>7. call.expected.claims = Claims /\ call.expected.truth = call.truth
    BY <2>3 DEF Bound
  <2>8. edit # "roots"
    BY <1>1, <2>6, <2>7 DEF SInv, FileInv
  <2>9. edit # "rewrite"
    BY <1>1, <2>3, BuiltIsGraded DEF SInv, FileInv
  <2>10. QED BY <2>5, <2>6, <2>7, <2>8, <2>9 DEF Forged
<1>2. QED BY <1>1, AlwaysSInv, PTL
=============================================================================
