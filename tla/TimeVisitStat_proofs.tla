------------------------ MODULE TimeVisitStat_proofs ------------------------
(* Lemmas about the histories of TimeVisitStat and about sums over them, for *)
(* whoever keeps histories. A sum is a fold, that is, a recursive function,  *)
(* and is reasoned about as a number of units: f[x] of them for each x.      *)
EXTENDS TimeVisitStat, TLAPS, SequenceTheorems, FiniteSetTheorems, FunctionTheorems

Summable(f) == IsFiniteSet(DOMAIN f) /\ \A x \in DOMAIN f : f[x] \in Nat

Units(f, S) == {u \in S \X Nat : u[2] \in 1 .. f[u[1]]}

-----------------------------------------------------------------------------
(* Sums.                                                                     *)

(* Induction over the subsets of a finite set, by the least one that is not *)
(* among the good ones.                                                      *)
LEMMA SubsetInduction ==
  ASSUME NEW S, IsFiniteSet(S), NEW Good,
         \A T \in SUBSET S : (\A x \in T : T \ {x} \in Good) => T \in Good
  PROVE  S \in Good
<1> DEFINE Bad == {T \in SUBSET S : T \notin Good}
<1> SUFFICES ASSUME Bad # {} PROVE FALSE
  OBVIOUS
<1>1. Bad \subseteq FiniteSubsetsOf(S)
  BY FS_FiniteSubsetsOfFinite
<1>2. PICK T \in Bad : \A U \in Bad : ~(<<U, T>> \in StrictSubsetOrdering(S))
  <2> HIDE DEF Bad
  <2> QED BY <1>1, FS_StrictSubsetOrderingWellFounded, WFMin
<1>3. ASSUME NEW x \in T PROVE T \ {x} \in Good
  <2>1. T \ {x} \in SUBSET S /\ T \in SUBSET S /\ T \ {x} # T
    BY <1>2
  <2>2. <<T \ {x}, T>> \in StrictSubsetOrdering(S)
    BY <2>1 DEF StrictSubsetOrdering
  <2> QED BY <1>2, <2>1, <2>2
<1> QED BY <1>2, <1>3

LEMMA UnitsArePairs ==
  ASSUME NEW f, NEW S
  PROVE  /\ \A u \in Units(f, S) :
              u = <<u[1], u[2]>> /\ u[1] \in S /\ u[2] \in Nat /\ u[2] \in 1 .. f[u[1]]
         /\ \A x \in S, k \in Nat : k \in 1 .. f[x] => <<x, k>> \in Units(f, S)
BY DEF Units

LEMMA UnitsOfOne ==
  ASSUME NEW f, NEW x, f[x] \in Nat
  PROVE  IsFiniteSet(Units(f, {x})) /\ Cardinality(Units(f, {x})) = f[x]
<1> DEFINE n == f[x]
<1>1. Units(f, {x}) = {x} \X (1 .. n)
  BY DEF Units
<1>2. n \in Nat
  OBVIOUS
<1> HIDE DEF n
<1>3. IsFiniteSet(1 .. n) /\ Cardinality(1 .. n) = n
  <2>1. IsFiniteSet(1 .. n) /\ Cardinality(1 .. n) = IF 1 > n THEN 0 ELSE n - 1 + 1
    BY <1>2, FS_Interval
  <2> QED BY <1>2, <2>1
<1>4. IsFiniteSet({x}) /\ Cardinality({x}) = 1
  BY FS_Singleton
<1>5. /\ IsFiniteSet({x} \X (1 .. n))
      /\ Cardinality({x} \X (1 .. n)) = Cardinality({x}) * Cardinality(1 .. n)
  BY <1>3, <1>4, FS_Product
<1>6. Cardinality({x}) * Cardinality(1 .. n) = n
  BY <1>2, <1>3, <1>4
<1>7. IsFiniteSet(Units(f, {x})) /\ Cardinality(Units(f, {x})) = n
  BY Zenon, <1>1, <1>5, <1>6
<1> QED BY <1>7 DEF n

LEMMA UnitsWithout ==
  ASSUME NEW f, NEW S, NEW x \in S
  PROVE  /\ Units(f, S) = Units(f, S \ {x}) \cup Units(f, {x})
         /\ Units(f, S \ {x}) \cap Units(f, {x}) = {}
BY DEF Units

LEMMA UnitsAreFinite ==
  ASSUME NEW S, IsFiniteSet(S), NEW f, \A x \in S : f[x] \in Nat
  PROVE  IsFiniteSet(Units(f, S)) /\ Cardinality(Units(f, S)) \in Nat
<1> DEFINE Good == {T \in SUBSET S : IsFiniteSet(Units(f, T))}
<1>1. ASSUME NEW T \in SUBSET S, \A x \in T : T \ {x} \in Good
      PROVE  T \in Good
  <2>1. CASE T = {}
    <3>1. Units(f, {}) = {}
      BY DEF Units
    <3> QED BY <2>1, <3>1, FS_EmptySet
  <2>2. CASE T # {}
    <3>1. PICK x \in T : IsFiniteSet(Units(f, T \ {x}))
      BY <1>1, <2>2
    <3>2. IsFiniteSet(Units(f, {x}))
      BY UnitsOfOne
    <3>3. IsFiniteSet(Units(f, T \ {x}) \cup Units(f, {x}))
      BY <3>1, <3>2, FS_Union
    <3> QED BY <3>3, UnitsWithout
  <2> QED BY <2>1, <2>2
<1>2. S \in Good
  <2> HIDE DEF Good
  <2> QED BY <1>1, SubsetInduction
<1> QED BY <1>2, FS_CardinalityType

(* One element contributes its value and the others the rest.                *)
LEMMA UnitsOfRest ==
  ASSUME NEW S, IsFiniteSet(S), NEW f, \A y \in S : f[y] \in Nat, NEW x \in S
  PROVE  Cardinality(Units(f, S)) = f[x] + Cardinality(Units(f, S \ {x}))
<1> DEFINE rest == Units(f, S \ {x})
           own == Units(f, {x})
<1>1. /\ IsFiniteSet(rest) /\ Cardinality(rest) \in Nat
      /\ IsFiniteSet(own) /\ Cardinality(own) = f[x] /\ f[x] \in Nat
  BY UnitsAreFinite, UnitsOfOne, FS_RemoveElement
<1>2. Units(f, S) = rest \cup own /\ rest \cap own = {}
  BY UnitsWithout
<1> HIDE DEF rest, own
<1>3. Cardinality({}) = 0
  BY FS_EmptySet
<1>4. Cardinality(rest \cup own)
        = Cardinality(rest) + Cardinality(own) - Cardinality(rest \cap own)
  BY <1>1, FS_Union
<1>5. Cardinality(Units(f, S)) = Cardinality(rest) + Cardinality(own) - 0
  BY Zenon, <1>2, <1>3, <1>4
<1>6. Cardinality(Units(f, S)) = f[x] + Cardinality(rest)
  BY <1>1, <1>5
<1> QED BY <1>6 DEF rest

(* Whatever the order in which the elements are chosen, a fold that adds     *)
(* their values computes the number of units, ...                            *)
LEMMA FoldIsUnits ==
  ASSUME NEW S, IsFiniteSet(S), NEW f, \A x \in S : f[x] \in Nat,
         NEW c, \A s \in SUBSET S : s # {} => c[s] \in s,
         NEW h, h = [s \in SUBSET S |-> IF s = {} THEN 0 ELSE f[c[s]] + h[s \ {c[s]}]]
  PROVE  h[S] = Cardinality(Units(f, S))
<1>1. \A s \in SUBSET S : h[s] = IF s = {} THEN 0 ELSE f[c[s]] + h[s \ {c[s]}]
  OBVIOUS
<1> DEFINE Good == {T \in SUBSET S : h[T] = Cardinality(Units(f, T))}
<1>2. ASSUME NEW T \in SUBSET S, \A x \in T : T \ {x} \in Good
      PROVE  T \in Good
  <2>1. CASE T = {}
    BY <1>1, <2>1, FS_EmptySet DEF Units
  <2>2. CASE T # {}
    <3>1. c[T] \in T /\ IsFiniteSet(T)
      BY <2>2, FS_Subset
    <3>2. h[T \ {c[T]}] = Cardinality(Units(f, T \ {c[T]}))
      BY <1>2, <3>1
    <3>3. Cardinality(Units(f, T)) = f[c[T]] + Cardinality(Units(f, T \ {c[T]}))
      BY <3>1, UnitsOfRest
    <3>4. h[T] = f[c[T]] + h[T \ {c[T]}]
      BY <1>1, <2>2
    <3> QED BY <3>2, <3>3, <3>4
  <2> QED BY <2>1, <2>2
<1>3. S \in Good
  <2> HIDE DEF Good
  <2> QED BY <1>2, SubsetInduction
<1> QED BY <1>3

(* ... and SumFunction is such a fold.                                       *)
LEMMA SumIsUnits ==
  ASSUME NEW f, Summable(f)
  PROVE  SumFunction(f) = Cardinality(Units(f, DOMAIN f))
<1>f. IsFiniteSet(DOMAIN f) /\ \A x \in DOMAIN f : f[x] \in Nat
  BY DEF Summable
<1> DEFINE S == DOMAIN f
           c == [s \in SUBSET S |-> CHOOSE x \in s : TRUE]
           g == [s \in SUBSET S |-> Cardinality(Units(f, s))]
           h == CHOOSE iter : iter = [s \in SUBSET S |->
                  IF s = {} THEN 0
                  ELSE f[CHOOSE x \in s : TRUE] + iter[s \ {CHOOSE x \in s : TRUE}]]
<1>1. SumFunction(f) = h[S]
  BY DEF SumFunction, SumFunctionOnSet, FoldFunctionOnSet, MapThenFoldSet
<1>2. \A s \in SUBSET S : s # {} => c[s] \in s
  OBVIOUS
<1>3. ASSUME NEW s \in SUBSET S, s # {}
      PROVE  Cardinality(Units(f, s)) = f[c[s]] + Cardinality(Units(f, s \ {c[s]}))
  <2>1. c[s] \in s /\ IsFiniteSet(s)
    BY <1>f, <1>2, <1>3, FS_Subset
  <2> HIDE DEF c
  <2> QED BY <1>f, <2>1, UnitsOfRest
<1>4. Cardinality(Units(f, {})) = 0
  BY FS_EmptySet DEF Units
<1>5. g = [s \in SUBSET S |->
             IF s = {} THEN 0
             ELSE f[CHOOSE x \in s : TRUE] + g[s \ {CHOOSE x \in s : TRUE}]]
  <2> SUFFICES ASSUME NEW s \in SUBSET S
               PROVE  g[s] = IF s = {} THEN 0 ELSE f[c[s]] + g[s \ {c[s]}]
    OBVIOUS
  <2> HIDE DEF c
  <2> QED BY <1>3, <1>4
<1>6. h = [s \in SUBSET S |->
             IF s = {} THEN 0
             ELSE f[CHOOSE x \in s : TRUE] + h[s \ {CHOOSE x \in s : TRUE}]]
  <2> HIDE DEF g
  <2> QED BY <1>5
<1>7. h = [s \in SUBSET S |-> IF s = {} THEN 0 ELSE f[c[s]] + h[s \ {c[s]}]]
  <2> HIDE DEF h
  <2> QED BY <1>6
<1>8. h[S] = Cardinality(Units(f, S))
  <2> HIDE DEF h, c
  <2> QED BY <1>f, <1>2, <1>7, FoldIsUnits
<1> QED BY <1>1, <1>8

LEMMA SumIsNatural ==
  ASSUME NEW f, Summable(f)
  PROVE  SumFunction(f) \in Nat
BY SumIsUnits, UnitsAreFinite DEF Summable

LEMMA SumOfNothing ==
  ASSUME NEW f, DOMAIN f = {}
  PROVE  SumFunction(f) = 0
<1>1. Summable(f) /\ Units(f, DOMAIN f) = {}
  BY FS_EmptySet DEF Summable, Units
<1> QED BY <1>1, SumIsUnits, FS_EmptySet

(* Zeros do not count.                                                       *)
LEMMA SumOfSame ==
  ASSUME NEW f, Summable(f), NEW g, Summable(g), DOMAIN f \subseteq DOMAIN g,
         \A x \in DOMAIN g : g[x] = IF x \in DOMAIN f THEN f[x] ELSE 0
  PROVE  SumFunction(g) = SumFunction(f)
<1>1. Units(g, DOMAIN g) = Units(f, DOMAIN f)
  BY DEF Units
<1> QED BY <1>1, SumIsUnits

LEMMA SumOfRest ==
  ASSUME NEW f, Summable(f), NEW x \in DOMAIN f,
         NEW g, DOMAIN g = DOMAIN f \ {x}, \A y \in DOMAIN g : g[y] = f[y]
  PROVE  Summable(g) /\ SumFunction(f) = f[x] + SumFunction(g)
<1>1. Summable(g)
  BY FS_RemoveElement DEF Summable
<1>2. Units(g, DOMAIN g) = Units(f, DOMAIN f \ {x})
  BY DEF Units
<1>3. Cardinality(Units(f, DOMAIN f)) = f[x] + Cardinality(Units(f, DOMAIN f \ {x}))
  BY UnitsOfRest DEF Summable
<1> QED BY <1>1, <1>2, <1>3, SumIsUnits

(* m[key] = value, in a sum.                                                 *)
LEMMA SumOfPut ==
  ASSUME NEW f, Summable(f), NEW g, NEW x, DOMAIN g = DOMAIN f \cup {x},
         g[x] \in Nat, \A y \in DOMAIN f \ {x} : g[y] = f[y]
  PROVE  /\ Summable(g)
         /\ SumFunction(g) = SumFunction(f) + g[x] - (IF x \in DOMAIN f THEN f[x] ELSE 0)
<1> DEFINE r == [y \in DOMAIN f \ {x} |-> f[y]]
<1>1. Summable(g)
  BY FS_AddElement DEF Summable
<1>2. /\ DOMAIN r = DOMAIN f \ {x} /\ \A y \in DOMAIN r : r[y] = f[y]
      /\ DOMAIN r = DOMAIN g \ {x} /\ \A y \in DOMAIN r : r[y] = g[y]
  OBVIOUS
<1> HIDE DEF r
<1>3. SumFunction(g) = g[x] + SumFunction(r) /\ Summable(r)
  BY <1>1, <1>2, SumOfRest
<1>4. SumFunction(r) \in Nat
  BY <1>3, SumIsNatural
<1>5. CASE x \in DOMAIN f
  <2>1. SumFunction(f) = f[x] + SumFunction(r) /\ f[x] \in Nat
    BY <1>2, <1>5, SumOfRest DEF Summable
  <2> QED BY <1>1, <1>3, <1>4, <1>5, <2>1
<1>6. CASE x \notin DOMAIN f
  <2>1. SumFunction(f) = SumFunction(r)
    <3>1. DOMAIN r = DOMAIN f /\ \A y \in DOMAIN f : f[y] = r[y]
      BY <1>2, <1>6
    <3> QED BY <1>3, <3>1, SumOfSame
  <2> QED BY <1>1, <1>3, <1>4, <1>6, <2>1
<1> QED BY <1>5, <1>6

LEMMA SumIsMonotone ==
  ASSUME NEW f, Summable(f), NEW g, Summable(g), DOMAIN f \subseteq DOMAIN g,
         \A x \in DOMAIN f : f[x] <= g[x]
  PROVE  SumFunction(f) <= SumFunction(g)
<1>1. Units(f, DOMAIN f) \subseteq Units(g, DOMAIN g)
  BY DEF Units, Summable
<1>2. IsFiniteSet(Units(g, DOMAIN g))
  BY UnitsAreFinite DEF Summable
<1>3. Cardinality(Units(f, DOMAIN f)) <= Cardinality(Units(g, DOMAIN g))
  BY <1>1, <1>2, FS_Subset
<1> QED BY <1>3, SumIsUnits

(* The same values by other names.                                           *)
LEMMA SumRenamed ==
  ASSUME NEW f, Summable(f), NEW g, IsFiniteSet(DOMAIN g),
         NEW b \in [DOMAIN f -> DOMAIN g], \A x \in DOMAIN f : g[b[x]] = f[x],
         \A x, y \in DOMAIN f : b[x] = b[y] => x = y,
         \A z \in DOMAIN g : \E x \in DOMAIN f : b[x] = z
  PROVE  Summable(g) /\ SumFunction(g) = SumFunction(f)
<1>1. Summable(g)
  BY DEF Summable
<1> DEFINE F == Units(f, DOMAIN f)
           G == Units(g, DOMAIN g)
           c == [u \in F |-> <<b[u[1]], u[2]>>]
<1>2. c \in [F -> G]
  BY DEF Units
<1>3. \A u, v \in F : c[u] = c[v] => u = v
  <2> SUFFICES ASSUME NEW u \in F, NEW v \in F, c[u] = c[v] PROVE u = v
    OBVIOUS
  <2>1. b[u[1]] = b[v[1]] /\ u[2] = v[2]
    OBVIOUS
  <2>2. /\ u = <<u[1], u[2]>> /\ u[1] \in DOMAIN f
        /\ v = <<v[1], v[2]>> /\ v[1] \in DOMAIN f
    BY UnitsArePairs
  <2>3. u[1] = v[1]
    BY <2>1, <2>2
  <2> QED BY <2>1, <2>2, <2>3
<1>4. \A w \in G : \E u \in F : c[u] = w
  <2> SUFFICES ASSUME NEW w \in G PROVE \E u \in F : c[u] = w
    OBVIOUS
  <2>1. w = <<w[1], w[2]>> /\ w[1] \in DOMAIN g /\ w[2] \in Nat /\ w[2] \in 1 .. g[w[1]]
    BY UnitsArePairs
  <2>2. PICK x \in DOMAIN f : b[x] = w[1]
    BY <2>1
  <2>3. w[2] \in 1 .. f[x]
    BY <2>1, <2>2
  <2>4. <<x, w[2]>> \in F
    BY <2>1, <2>3, UnitsArePairs
  <2>5. c[<<x, w[2]>>] = <<w[1], w[2]>>
    BY <2>2, <2>4
  <2> QED BY <2>1, <2>4, <2>5
<1>5. c \in Bijection(F, G)
  <2> HIDE DEF c, F, G
  <2> QED BY <1>2, <1>3, <1>4 DEF Bijection, Injection, Surjection, IsInjective
<1>6. IsFiniteSet(F)
  BY UnitsAreFinite DEF Summable
<1>7. Cardinality(G) = Cardinality(F)
  <2> HIDE DEF c, F, G
  <2> QED BY <1>5, <1>6, FS_Bijection DEF ExistsBijection
<1> QED BY <1>1, <1>7, SumIsUnits

LEMMA SumOfSums ==
  ASSUME NEW f, Summable(f), NEW g, Summable(g), DOMAIN f = DOMAIN g,
         NEW h, DOMAIN h = DOMAIN f, \A x \in DOMAIN f : h[x] = f[x] + g[x]
  PROVE  Summable(h) /\ SumFunction(h) = SumFunction(f) + SumFunction(g)
<1> DEFINE D == DOMAIN f
           N(e, T) == Cardinality(Units(e, T))
           Good == {T \in SUBSET D : N(h, T) = N(f, T) + N(g, T)}
<1>1. /\ \A x \in D : f[x] \in Nat /\ g[x] \in Nat /\ h[x] \in Nat /\ h[x] = f[x] + g[x]
      /\ IsFiniteSet(D)
  BY DEF Summable
<1>2. Summable(h)
  BY <1>1 DEF Summable
<1>3. ASSUME NEW T \in SUBSET D, \A x \in T : T \ {x} \in Good
      PROVE  T \in Good
  <2>0. IsFiniteSet(T)
    BY <1>1, FS_Subset
  <2>1. CASE T = {}
    <3>1. Units(f, {}) = {} /\ Units(g, {}) = {} /\ Units(h, {}) = {}
      BY DEF Units
    <3> QED BY <2>1, <3>1, FS_EmptySet
  <2>2. CASE T # {}
    <3>1. PICK x \in T : N(h, T \ {x}) = N(f, T \ {x}) + N(g, T \ {x})
      BY <1>3, <2>2
    <3>2. /\ N(f, T) = f[x] + N(f, T \ {x})
          /\ N(g, T) = g[x] + N(g, T \ {x})
          /\ N(h, T) = h[x] + N(h, T \ {x})
      BY <1>1, <2>0, UnitsOfRest
    <3>3. N(f, T \ {x}) \in Nat /\ N(g, T \ {x}) \in Nat
      BY <1>1, <2>0, FS_RemoveElement, UnitsAreFinite
    <3>4. h[x] = f[x] + g[x] /\ f[x] \in Nat /\ g[x] \in Nat
      BY <1>1
    <3> HIDE DEF N
    <3>5. N(h, T) = N(f, T) + N(g, T)
      BY <3>1, <3>2, <3>3, <3>4
    <3> QED BY <3>5
  <2> QED BY <2>1, <2>2
<1>4. D \in Good
  <2> HIDE DEF Good
  <2> QED BY <1>1, <1>3, SubsetInduction
<1> QED BY <1>2, <1>4, SumIsUnits

SumByRows(t, A, B) == SumFunction([a \in A |-> SumFunction([b \in B |-> t[a][b]])])
SumByColumns(t, A, B) == SumFunction([b \in B |-> SumFunction([a \in A |-> t[a][b]])])

(* A table summed by rows is what it is summed by columns.                   *)
LEMMA SumsSwapped ==
  ASSUME NEW A, IsFiniteSet(A), NEW B, IsFiniteSet(B),
         NEW t, \A a \in A, b \in B : t[a][b] \in Nat
  PROVE  SumByRows(t, A, B) = SumByColumns(t, A, B)
<1> SUFFICES SumFunction([a \in A |-> SumFunction([b \in B |-> t[a][b]])])
               = SumFunction([b \in B |-> SumFunction([a \in A |-> t[a][b]])])
  BY DEF SumByRows, SumByColumns
<1> DEFINE Row(a) == [b \in B |-> t[a][b]]
           Rows(T) == [a \in T |-> SumFunction(Row(a))]
           Column(T, b) == [a \in T |-> t[a][b]]
           Columns(T) == [b \in B |-> SumFunction(Column(T, b))]
           Good == {T \in SUBSET A : SumFunction(Rows(T)) = SumFunction(Columns(T))}
<1>1. \A a \in A : Summable(Row(a)) /\ SumFunction(Row(a)) \in Nat
  <2> SUFFICES ASSUME NEW a \in A PROVE Summable(Row(a)) /\ SumFunction(Row(a)) \in Nat
    OBVIOUS
  <2>1. Summable(Row(a))
    BY DEF Summable
  <2> QED BY <2>1, SumIsNatural
<1>2. \A T \in SUBSET A, b \in B :
        Summable(Column(T, b)) /\ SumFunction(Column(T, b)) \in Nat
  <2> SUFFICES ASSUME NEW T \in SUBSET A, NEW b \in B
               PROVE  Summable(Column(T, b)) /\ SumFunction(Column(T, b)) \in Nat
    OBVIOUS
  <2>1. Summable(Column(T, b))
    BY FS_Subset DEF Summable
  <2> QED BY <2>1, SumIsNatural
<1>3. ASSUME NEW T \in SUBSET A
      PROVE  Summable(Rows(T)) /\ Summable(Columns(T))
  BY <1>1, <1>2, FS_Subset DEF Summable
<1>4. ASSUME NEW T \in SUBSET A, \A x \in T : T \ {x} \in Good
      PROVE  T \in Good
  <2>1. CASE T = {}
    <3>1. \A b \in B : SumFunction(Column({}, b)) = 0
      <4> SUFFICES ASSUME NEW b \in B PROVE SumFunction(Column({}, b)) = 0
        OBVIOUS
      <4>1. DOMAIN Column({}, b) = {}
        OBVIOUS
      <4> QED BY <4>1, SumOfNothing
    <3>2. SumFunction(Rows({})) = 0
      <4>1. DOMAIN Rows({}) = {}
        OBVIOUS
      <4> QED BY <4>1, SumOfNothing
    <3>3. SumFunction(Columns({})) = 0
      <4> DEFINE none == [x \in {} |-> 0]
                 zeros == Columns({})
      <4>1. DOMAIN zeros = B /\ \A b \in B : zeros[b] = 0
        BY <3>1
      <4>2. Summable(zeros) /\ Summable(none) /\ DOMAIN none = {}
        <5>1. Summable(zeros)
          BY <1>3
        <5> QED BY <5>1, FS_EmptySet DEF Summable
      <4> HIDE DEF none, zeros
      <4>3. SumFunction(zeros) = SumFunction(none) /\ SumFunction(none) = 0
        BY <4>1, <4>2, SumOfSame, SumOfNothing
      <4> QED BY <4>3 DEF zeros
    <3> QED BY <2>1, <3>2, <3>3
  <2>2. CASE T # {}
    <3>1. PICK x \in T : SumFunction(Rows(T \ {x})) = SumFunction(Columns(T \ {x}))
      BY <1>4, <2>2
    <3>2. SumFunction(Rows(T)) = SumFunction(Row(x)) + SumFunction(Rows(T \ {x}))
      <4> DEFINE f == Rows(T)
                 g == Rows(T \ {x})
                 n == SumFunction(Row(x))
      <4>1. /\ Summable(f) /\ x \in DOMAIN f /\ DOMAIN g = DOMAIN f \ {x}
            /\ f[x] = n /\ \A y \in DOMAIN g : g[y] = f[y]
        BY <1>3
      <4> HIDE DEF f, g, n
      <4>2. SumFunction(f) = n + SumFunction(g)
        BY <4>1, SumOfRest
      <4> QED BY <4>2 DEF f, g, n
    <3>3. SumFunction(Columns(T)) = SumFunction(Row(x)) + SumFunction(Columns(T \ {x}))
      <4> DEFINE f == Row(x)
                 g == Columns(T \ {x})
                 h == Columns(T)
      <4>1. \A b \in B : SumFunction(Column(T, b)) = t[x][b] + SumFunction(Column(T \ {x}, b))
        <5> SUFFICES ASSUME NEW b \in B
                     PROVE  SumFunction(Column(T, b)) = t[x][b] + SumFunction(Column(T \ {x}, b))
          OBVIOUS
        <5> DEFINE p == Column(T, b)
                   q == Column(T \ {x}, b)
        <5>1. /\ Summable(p) /\ x \in DOMAIN p /\ DOMAIN q = DOMAIN p \ {x}
              /\ p[x] = t[x][b] /\ \A y \in DOMAIN q : q[y] = p[y]
          BY <1>2
        <5> HIDE DEF p, q
        <5>2. SumFunction(p) = t[x][b] + SumFunction(q)
          BY <5>1, SumOfRest
        <5> QED BY <5>2 DEF p, q
      <4>2. /\ DOMAIN f = B /\ DOMAIN g = B /\ DOMAIN h = B
            /\ \A b \in B : h[b] = f[b] + g[b]
        BY <4>1
      <4>3. Summable(f) /\ Summable(g)
        BY <1>1, <1>3
      <4> HIDE DEF f, g, h
      <4>4. SumFunction(h) = SumFunction(f) + SumFunction(g)
        BY <4>2, <4>3, SumOfSums
      <4> QED BY <4>4 DEF f, g, h
    <3>4. SumFunction(Rows(T)) = SumFunction(Columns(T))
      <4> HIDE DEF Rows, Columns, Row
      <4> QED BY <3>1, <3>2, <3>3
    <3> QED BY <3>4
  <2> QED BY <2>1, <2>2
<1>5. A \in Good
  <2> HIDE DEF Good
  <2> QED BY <1>4, SubsetInduction
<1> QED BY <1>5

-----------------------------------------------------------------------------
(* Histories.                                                                *)

(* First picks the least index of a nonempty set of indices.                 *)
LEMMA FirstIsLeast ==
  ASSUME NEW S \in SUBSET Nat, S # {}
  PROVE  First(S) \in S /\ \A j \in S : First(S) <= j
<1>1. PICK i \in S : \A j \in S : ~(<<j, i>> \in OpToRel(<, Nat))
  BY WFMin, NatLessThanWellFounded
<1>2. ASSUME NEW j \in S PROVE ~(j < i)
  <2>1. j < i /\ j \in Nat /\ i \in Nat => <<j, i>> \in OpToRel(<, Nat)
    BY Zenon DEF OpToRel
  <2> QED BY <1>1, <2>1
<1>3. \A j \in S : i <= j
  BY <1>2
<1> QED BY <1>3 DEF First

(* InsertAt, place by place.                                                 *)
LEMMA InsertAtPlaces ==
  ASSUME NEW R, NEW s \in Seq(R), NEW e \in R, NEW k \in 1 .. Len(s)
  PROVE  /\ InsertAt(s, k, e) \in Seq(R)
         /\ Len(InsertAt(s, k, e)) = Len(s) + 1
         /\ \A i \in 1 .. Len(s) + 1 :
              InsertAt(s, k, e)[i] =
                IF i < k THEN s[i] ELSE IF i = k THEN e ELSE s[i - 1]
<1> DEFINE front == SubSeq(s, 1, k - 1)
           back == SubSeq(s, k, Len(s))
<1>1. /\ front \in Seq(R) /\ Len(front) = k - 1
      /\ \A i \in 1 .. k - 1 : front[i] = s[i]
  BY SubSeqProperties, LenProperties
<1>2. /\ back \in Seq(R) /\ Len(back) = Len(s) - k + 1
      /\ \A i \in 1 .. Len(s) - k + 1 : back[i] = s[i + k - 1]
  BY SubSeqProperties, LenProperties
<1>3. /\ <<e>> \in Seq(R) /\ Len(<<e>>) = 1 /\ <<e>>[1] = e
  OBVIOUS
<1>4. InsertAt(s, k, e) = (front \o <<e>>) \o back
  BY DEF InsertAt
<1> HIDE DEF front, back
<1> DEFINE left == front \o <<e>>
<1>5. /\ left \in Seq(R) /\ Len(left) = k
      /\ \A i \in 1 .. k : left[i] = IF i < k THEN s[i] ELSE e
  BY <1>1, <1>3, ConcatProperties
<1> HIDE DEF left
<1>6. InsertAt(s, k, e) = left \o back
  BY <1>4 DEF left
<1> HIDE DEF front, back, left
<1>7. Len(s) \in Nat
  BY LenProperties
<1>8. /\ left \o back \in Seq(R)
      /\ Len(left \o back) = Len(left) + Len(back)
      /\ \A i \in 1 .. Len(left) + Len(back) :
           (left \o back)[i] = IF i <= Len(left) THEN left[i] ELSE back[i - Len(left)]
  BY <1>2, <1>5, ConcatProperties
<1>9. ASSUME NEW i \in 1 .. Len(s) + 1
      PROVE  (left \o back)[i] =
               IF i < k THEN s[i] ELSE IF i = k THEN e ELSE s[i - 1]
  <2>1. CASE i <= k
    BY <1>5, <1>7, <1>8, <1>2, <2>1
  <2>2. CASE i > k
    <3>1. (left \o back)[i] = back[i - k] /\ i - k \in 1 .. Len(s) - k + 1
      BY <1>5, <1>7, <1>8, <1>2, <2>2
    <3>2. back[i - k] = s[(i - k) + k - 1] /\ (i - k) + k - 1 = i - 1
      BY <1>2, <1>7, <3>1
    <3> QED BY <3>1, <3>2, <2>2
  <2>3. i <= k \/ i > k
    BY <1>7
  <2> QED BY <2>1, <2>2, <2>3
<1> QED BY <1>2, <1>5, <1>6, <1>7, <1>8, <1>9

(* How far apart two records are once a mark was put between them.           *)
LEMMA Apart ==
  ASSUME NEW a \in Int, NEW b \in Int, NEW c \in Int, NEW d \in Int,
         NEW m \in Int, NEW i \in Int, NEW j \in Int, NEW k \in Int,
         a - b >= (k - 1) - i, b > m, m > c, c - d >= (j - 1) - k
  PROVE  a - d >= j - i
OBVIOUS

(* NoteVisitByTimemark, place by place, in its four cases.                   *)
LEMMA NoteHeldMark ==
  ASSUME NEW R, NEW s \in Seq(R), NEW m, NEW n, Held(s, m) # {},
         \A r \in R : OneMore(r) \in R
  PROVE  LET t == NoteVisitByTimemark(s, m, n) IN
         \E k \in 1 .. Len(s) :
           /\ t \in Seq(R)
           /\ s[k].mark = m
           /\ Len(t) = Len(s)
           /\ \A i \in 1 .. Len(s) : t[i] = IF i = k THEN OneMore(s[k]) ELSE s[i]
<1> DEFINE k == First(Held(s, m))
<1>1. DOMAIN s = 1 .. Len(s) /\ Len(s) \in Nat
  BY LenProperties
<1>2. Held(s, m) \in SUBSET Nat
  BY <1>1 DEF Held
<1>3. k \in Held(s, m)
  BY <1>2, FirstIsLeast
<1>4. k \in 1 .. Len(s) /\ s[k].mark = m
  BY <1>1, <1>3 DEF Held
<1>5. NoteVisitByTimemark(s, m, n) = [s EXCEPT ![k] = OneMore(s[k])]
  BY DEF NoteVisitByTimemark
<1> HIDE DEF k
<1>6. OneMore(s[k]) \in R
  BY <1>4, ElementOfSeq
<1> QED BY <1>4, <1>5, <1>6, ExceptSeq

\* t is s with a new mark put in front of the first older one, cut back to n records.
IsInserted(s, t, k, m, n) ==
  /\ m > s[k].mark
  /\ \A i \in 1 .. k - 1 : s[i].mark > m
  /\ Len(t) = IF Len(s) + 1 > n THEN n ELSE Len(s) + 1
  /\ \A i \in 1 .. Len(t) :
       t[i] = IF i < k THEN s[i] ELSE IF i = k THEN FirstVisit(m) ELSE s[i - 1]

LEMMA NoteNewerMark ==
  ASSUME NEW R, NEW s \in Seq(R), NEW m \in Int, NEW n \in Nat,
         FirstVisit(m) \in R, \A r \in R : r.mark \in Int,
         Held(s, m) = {}, Older(s, m) # {}
  PROVE  LET t == NoteVisitByTimemark(s, m, n) IN
         t \in Seq(R) /\ \E k \in 1 .. Len(s) : IsInserted(s, t, k, m, n)
<1> DEFINE k == First(Older(s, m))
           w == InsertAt(s, k, FirstVisit(m))
           t == Trim(w, n)
<1>1. DOMAIN s = 1 .. Len(s) /\ Len(s) \in Nat
  BY LenProperties
<1>2. Older(s, m) \in SUBSET Nat
  BY <1>1 DEF Older
<1>3. k \in Older(s, m) /\ \A j \in Older(s, m) : k <= j
  BY <1>2, FirstIsLeast
<1>4. k \in 1 .. Len(s) /\ m > s[k].mark
  BY <1>1, <1>3 DEF Older
<1>5. ASSUME NEW i \in 1 .. k - 1 PROVE s[i].mark > m
  <2>1. i \in 1 .. Len(s) /\ i < k
    BY <1>1, <1>4
  <2>2. i \notin Older(s, m)
    BY <1>3, <1>4, <1>1, <2>1
  <2>3. ~(m > s[i].mark) /\ s[i].mark # m
    BY <1>1, <2>1, <2>2 DEF Older, Held
  <2>4. s[i].mark \in Int
    BY <2>1, ElementOfSeq
  <2> QED BY <2>3, <2>4
<1>6. NoteVisitByTimemark(s, m, n) = t
  BY DEF NoteVisitByTimemark
<1> HIDE DEF k
<1>7. /\ w \in Seq(R) /\ Len(w) = Len(s) + 1
      /\ \A i \in 1 .. Len(s) + 1 :
           w[i] = IF i < k THEN s[i] ELSE IF i = k THEN FirstVisit(m) ELSE s[i - 1]
  BY <1>4, InsertAtPlaces
<1> HIDE DEF w
<1>8. /\ t \in Seq(R)
      /\ Len(t) = IF Len(s) + 1 > n THEN n ELSE Len(s) + 1
      /\ \A i \in 1 .. Len(t) : t[i] = w[i]
  <2>1. CASE Len(w) > n
    BY <1>1, <1>7, <2>1, SubSeqProperties, LenProperties DEF Trim
  <2>2. CASE ~(Len(w) > n)
    BY <1>1, <1>7, <2>2 DEF Trim
  <2> QED BY <2>1, <2>2
<1> HIDE DEF t
<1>9. \A i \in 1 .. Len(t) :
        t[i] = IF i < k THEN s[i] ELSE IF i = k THEN FirstVisit(m) ELSE s[i - 1]
  <2>1. 1 .. Len(t) \subseteq 1 .. Len(s) + 1
    BY <1>1, <1>8
  <2> QED BY <1>7, <1>8, <2>1
<1> QED BY <1>4, <1>5, <1>6, <1>8, <1>9 DEF IsInserted

LEMMA NoteOldestMark ==
  ASSUME NEW R, NEW s \in Seq(R), NEW m \in Int, NEW n \in Nat,
         \A i \in 1 .. Len(s) : s[i].mark \in Int,
         Held(s, m) = {}, Older(s, m) = {}
  PROVE  /\ \A i \in 1 .. Len(s) : s[i].mark > m
         /\ NoteVisitByTimemark(s, m, n) =
              IF Len(s) < n THEN Append(s, FirstVisit(m)) ELSE s
<1>1. DOMAIN s = 1 .. Len(s)
  BY LenProperties
<1>2. \A i \in 1 .. Len(s) : ~(m > s[i].mark) /\ s[i].mark # m
  BY <1>1 DEF Held, Older
<1> QED BY <1>2 DEF NoteVisitByTimemark

-----------------------------------------------------------------------------

Records(M) == [mark : M, count : Nat \ {0}]

(* What NoteVisitByTimemark makes of an empty history, wherever the marks    *)
(* are from.                                                                 *)
Histories(M) ==
  {v \in Seq(Records(M)) : \A i, j \in DOMAIN v : v[i].mark = v[j].mark => i = j}

Counts(v) == [i \in DOMAIN v |-> v[i].count]

(* The counts by time frame, as a report has them.                           *)
Tally(v, W) == [m \in W |-> CountAt(v, m)]

LEMMA HistoryPlaces ==
  ASSUME NEW M, NEW v \in Histories(M)
  PROVE  /\ v \in Seq(Records(M)) /\ Len(v) \in Nat /\ DOMAIN v = 1 .. Len(v)
         /\ \A i \in 1 .. Len(v) :
              /\ v[i] \in Records(M) /\ v[i].mark \in M
              /\ v[i].count \in Nat /\ v[i].count # 0
         /\ \A i, j \in 1 .. Len(v) : v[i].mark = v[j].mark => i = j
         /\ MarksIn(v) \subseteq M /\ IsFiniteSet(MarksIn(v))
<1>1. v \in Seq(Records(M)) /\ \A i, j \in DOMAIN v : v[i].mark = v[j].mark => i = j
  BY DEF Histories
<1>2. Len(v) \in Nat /\ DOMAIN v = 1 .. Len(v)
  BY <1>1, LenProperties
<1>3. \A i \in 1 .. Len(v) : v[i] \in Records(M)
  BY <1>1, <1>2, ElementOfSeq
<1>4. \A i \in 1 .. Len(v) : v[i].mark \in M /\ v[i].count \in Nat /\ v[i].count # 0
  BY <1>3 DEF Records
<1>5. MarksIn(v) \subseteq M
  BY <1>2, <1>4 DEF MarksIn
<1>6. IsFiniteSet(MarksIn(v))
  <2> DEFINE b == [i \in 1 .. Len(v) |-> v[i].mark]
  <2>1. b \in Surjection(1 .. Len(v), MarksIn(v))
    BY <1>2 DEF Surjection, MarksIn
  <2>2. IsFiniteSet(1 .. Len(v))
    BY <1>2, FS_Interval
  <2> HIDE DEF b
  <2> QED BY <2>1, <2>2, FS_Surjection
<1> QED BY <1>1, <1>2, <1>3, <1>4, <1>5, <1>6

(* A report finds the count of each mark that is held.                       *)
LEMMA CountOfPlace ==
  ASSUME NEW M, NEW v \in Histories(M)
  PROVE  /\ \A i \in 1 .. Len(v) : CountAt(v, v[i].mark) = v[i].count
         /\ \A m : m \notin MarksIn(v) => CountAt(v, m) = 0
         /\ \A m : CountAt(v, m) \in Nat
<1>1. ASSUME NEW i \in 1 .. Len(v) PROVE CountAt(v, v[i].mark) = v[i].count
  <2>0. /\ DOMAIN v = 1 .. Len(v)
        /\ \A j \in 1 .. Len(v) : v[j].mark = v[i].mark => j = i
    BY HistoryPlaces
  <2>1. Held(v, v[i].mark) = {i} /\ v[i].mark \in MarksIn(v)
    BY <2>0 DEF Held, MarksIn
  <2>2. First({i}) \in {i}
    <3>1. {i} \in SUBSET Nat /\ {i} # {}
      BY HistoryPlaces
    <3> QED BY <3>1, FirstIsLeast
  <2> QED BY <2>1, <2>2 DEF CountAt
<1>2. \A m : m \notin MarksIn(v) => CountAt(v, m) = 0
  BY DEF CountAt
<1>3. \A m : m \in MarksIn(v) => \E i \in 1 .. Len(v) : m = v[i].mark
  BY HistoryPlaces DEF MarksIn
<1>4. \A i \in 1 .. Len(v) : v[i].count \in Nat
  BY HistoryPlaces
<1> QED BY <1>1, <1>2, <1>3, <1>4

(* A set of indices of a sequence has a greatest one.                        *)
LEMMA MaxIsGreatest ==
  ASSUME NEW n \in Nat, NEW S, S \subseteq 1 .. n, S # {}
  PROVE  Max(S) \in S /\ \A j \in S : Max(S) >= j
<1> DEFINE T == {n - j : j \in S}
<1>1. T \in SUBSET Nat /\ T # {}
  <2>1. \A j \in S : n - j \in Nat
    OBVIOUS
  <2>2. PICK j \in S : n - j \in T
    OBVIOUS
  <2> QED BY <2>1, <2>2
<1>2. PICK m \in S : First(T) = n - m
  <2> HIDE DEF T
  <2>1. First(T) \in T
    BY <1>1, FirstIsLeast
  <2> QED BY <2>1 DEF T
<1>3. ASSUME NEW j \in S PROVE m >= j
  <2>1. n - j \in T /\ j \in Nat /\ m \in Nat
    OBVIOUS
  <2>2. First(T) <= n - j
    <3> HIDE DEF T
    <3> QED BY <2>1, <1>1, FirstIsLeast
  <2> QED BY <2>1, <2>2, <1>2
<1> QED BY <1>3 DEF Max

(* FoldLeft adds the counts, the last record last.                           *)
LEMMA TotalIsSum ==
  ASSUME NEW M, NEW v \in Histories(M)
  PROVE  Summable(Counts(v)) /\ TotalVisits(v) = SumFunction(Counts(v))
<1> DEFINE S == DOMAIN v
           f == Counts(v)
           c == [s \in SUBSET S |-> Max(s)]
           g == [s \in SUBSET S |-> Cardinality(Units(f, s))]
           h == CHOOSE iter : iter = [s \in SUBSET S |->
                  IF s = {} THEN 0 ELSE iter[s \ {Max(s)}] + v[Max(s)].count]
<1>1. TotalVisits(v) = h[S]
  BY DEF TotalVisits, FoldLeft, MapThenFoldSet
<1>2. S = 1 .. Len(v) /\ Len(v) \in Nat
  BY HistoryPlaces
<1>3. /\ IsFiniteSet(S) /\ DOMAIN f = S
      /\ \A x \in S : f[x] \in Nat /\ f[x] = v[x].count
  <2>1. IsFiniteSet(S)
    BY <1>2, FS_Interval
  <2> QED BY <1>2, <2>1, HistoryPlaces DEF Counts
<1> HIDE DEF f
<1>4. \A s \in SUBSET S : s # {} => c[s] \in s
  BY <1>2, MaxIsGreatest
<1>5. ASSUME NEW s \in SUBSET S, s # {}
      PROVE  /\ Cardinality(Units(f, s)) = f[c[s]] + Cardinality(Units(f, s \ {c[s]}))
             /\ c[s] \in S /\ Cardinality(Units(f, s \ {c[s]})) \in Nat
  <2>1. c[s] \in s /\ IsFiniteSet(s) /\ IsFiniteSet(s \ {c[s]})
    BY <1>3, <1>4, <1>5, FS_Subset, FS_RemoveElement
  <2> HIDE DEF c
  <2> QED BY <1>3, <2>1, UnitsOfRest, UnitsAreFinite
<1>6. Cardinality(Units(f, {})) = 0
  BY FS_EmptySet DEF Units
<1>7. g = [s \in SUBSET S |->
             IF s = {} THEN 0 ELSE g[s \ {Max(s)}] + v[Max(s)].count]
  <2> SUFFICES ASSUME NEW s \in SUBSET S
               PROVE  g[s] = IF s = {} THEN 0 ELSE g[s \ {c[s]}] + v[c[s]].count
    OBVIOUS
  <2>1. CASE s = {}
    BY <1>6, <2>1
  <2>2. CASE s # {}
    <3> DEFINE rest == Cardinality(Units(f, s \ {c[s]}))
    <3>1. g[s] = f[c[s]] + rest /\ rest \in Nat /\ c[s] \in S
      BY <1>5, <2>2
    <3>2. f[c[s]] = v[c[s]].count /\ f[c[s]] \in Nat
      BY <1>3, <3>1
    <3>3. g[s \ {c[s]}] = rest
      OBVIOUS
    <3> HIDE DEF c, g, rest
    <3> QED BY <2>2, <3>1, <3>2, <3>3
  <2> QED BY <2>1, <2>2
<1>8. h = [s \in SUBSET S |->
             IF s = {} THEN 0 ELSE h[s \ {Max(s)}] + v[Max(s)].count]
  <2> HIDE DEF g
  <2> QED BY <1>7
<1>9. ASSUME NEW T \in SUBSET S, \A x \in T : h[T \ {x}] = g[T \ {x}]
      PROVE  h[T] = g[T]
  <2> HIDE DEF h
  <2>1. h[T] = IF T = {} THEN 0 ELSE h[T \ {c[T]}] + v[c[T]].count
    BY <1>8
  <2>2. g[T] = IF T = {} THEN 0 ELSE g[T \ {c[T]}] + v[c[T]].count
    <3> HIDE DEF g
    <3> QED BY <1>7
  <2> HIDE DEF g, c
  <2> QED BY <1>4, <1>9, <2>1, <2>2
<1>10. h[S] = g[S]
  <2> HIDE DEF h, g
  <2> DEFINE Good == {T \in SUBSET S : h[T] = g[T]}
  <2>1. ASSUME NEW T \in SUBSET S, \A x \in T : T \ {x} \in Good
        PROVE  T \in Good
    BY <1>9, <2>1
  <2>2. S \in Good
    <3> HIDE DEF Good
    <3> QED BY <1>3, <2>1, SubsetInduction
  <2> QED BY <2>2
<1>11. Summable(f)
  BY <1>3 DEF Summable
<1>12. g[S] = SumFunction(f)
  BY <1>3, <1>11, SumIsUnits
<1>13. TotalVisits(v) = SumFunction(f)
  <2> HIDE DEF h, g
  <2> QED BY <1>1, <1>10, <1>12
<1> QED BY <1>11, <1>13 DEF f

(* No visit is reported for a mark that is not held, and each of the others  *)
(* once: a report over all marks adds up to the total, ...                   *)
LEMMA TotalIsTally ==
  ASSUME NEW M, NEW v \in Histories(M)
  PROVE  /\ Summable(Tally(v, MarksIn(v)))
         /\ TotalVisits(v) = SumFunction(Tally(v, MarksIn(v)))
<1> DEFINE f == Counts(v)
           g == Tally(v, MarksIn(v))
           b == [i \in DOMAIN v |-> v[i].mark]
<1>1. Summable(f) /\ TotalVisits(v) = SumFunction(f)
  BY TotalIsSum
<1>2. DOMAIN f = 1 .. Len(v) /\ \A i \in 1 .. Len(v) : f[i] = v[i].count
  BY HistoryPlaces DEF Counts
<1>3. DOMAIN g = MarksIn(v) /\ IsFiniteSet(DOMAIN g)
  BY HistoryPlaces DEF Tally
<1>4. b \in [DOMAIN f -> DOMAIN g] /\ \A i \in 1 .. Len(v) : b[i] = v[i].mark
  BY <1>2, <1>3, HistoryPlaces DEF MarksIn
<1>5. \A i \in DOMAIN f : g[b[i]] = f[i]
  BY <1>2, <1>4, CountOfPlace DEF Tally
<1>6. \A i, j \in DOMAIN f : b[i] = b[j] => i = j
  BY <1>2, <1>4, HistoryPlaces
<1>7. \A m \in DOMAIN g : \E i \in DOMAIN f : b[i] = m
  BY <1>2, <1>3, <1>4, HistoryPlaces DEF MarksIn
<1>8. Summable(g) /\ SumFunction(g) = SumFunction(f)
  <2> HIDE DEF f, g, b
  <2> QED BY <1>1, <1>3, <1>4, <1>5, <1>6, <1>7, SumRenamed
<1> QED BY <1>1, <1>8

(* ... and one over a part of them to no more.                               *)
LEMMA TotalOfWindow ==
  ASSUME NEW M, NEW v \in Histories(M), NEW W, IsFiniteSet(W)
  PROVE  /\ Summable(Tally(v, W)) /\ SumFunction(Tally(v, W)) \in Nat
         /\ TotalVisits(v) \in Nat
         /\ SumFunction(Tally(v, W)) <= TotalVisits(v)
         /\ MarksIn(v) \subseteq W => SumFunction(Tally(v, W)) = TotalVisits(v)
<1> DEFINE all == Tally(v, MarksIn(v))
           some == Tally(v, W)
           both == Tally(v, MarksIn(v) \cap W)
<1>1. Summable(all) /\ TotalVisits(v) = SumFunction(all) /\ SumFunction(all) \in Nat
  BY TotalIsTally, SumIsNatural
<1>2. IsFiniteSet(MarksIn(v) \cap W)
  BY FS_Intersection
<1>3. /\ Summable(some) /\ SumFunction(some) \in Nat
      /\ Summable(both) /\ SumFunction(both) \in Nat
  <2>1. Summable(some) /\ Summable(both)
    BY <1>2, CountOfPlace DEF Summable, Tally
  <2> HIDE DEF some, both
  <2> QED BY <2>1, SumIsNatural
<1>4. /\ DOMAIN some = W /\ DOMAIN both = MarksIn(v) \cap W /\ DOMAIN all = MarksIn(v)
      /\ \A m \in W : some[m] = IF m \in DOMAIN both THEN both[m] ELSE 0
      /\ \A m \in DOMAIN both : both[m] = all[m] /\ both[m] \in Nat
  BY CountOfPlace DEF Tally
<1>5. MarksIn(v) \subseteq W => both = all
  BY DEF Tally
<1> HIDE DEF all, some, both
<1>6. SumFunction(some) = SumFunction(both)
  BY <1>3, <1>4, SumOfSame
<1>7. SumFunction(both) <= SumFunction(all)
  <2>1. \A m \in DOMAIN both : both[m] <= all[m]
    BY <1>4
  <2> QED BY <1>1, <1>3, <1>4, <2>1, SumIsMonotone
<1>8. /\ Summable(some) /\ SumFunction(some) \in Nat
      /\ TotalVisits(v) \in Nat
      /\ SumFunction(some) <= TotalVisits(v)
      /\ MarksIn(v) \subseteq W => SumFunction(some) = TotalVisits(v)
  BY <1>1, <1>3, <1>5, <1>6, <1>7
<1> QED BY <1>8 DEF some

LEMMA EmptyHistory ==
  ASSUME NEW M
  PROVE  <<>> \in Histories(M) /\ TotalVisits(<<>>) = 0
<1>1. <<>> \in Histories(M)
  BY DEF Histories
<1>2. DOMAIN Counts(<<>>) = {}
  BY DEF Counts
<1>3. SumFunction(Counts(<<>>)) = 0
  BY <1>2, SumOfNothing
<1> QED BY <1>1, <1>3, TotalIsSum

(* Of a finite set of marks a history holds each once at most.               *)
LEMMA HistoryFits ==
  ASSUME NEW M, IsFiniteSet(M), NEW v \in Histories(M)
  PROVE  /\ Len(v) <= Cardinality(M)
         /\ \A m \in M : m \notin MarksIn(v) => Len(v) < Cardinality(M)
<1> DEFINE b == [i \in 1 .. Len(v) |-> v[i].mark]
           I == 1 .. Len(v)
           V == MarksIn(v)
<1>1. b \in Bijection(I, V)
  <2>1. DOMAIN v = I /\ \A i, j \in I : v[i].mark = v[j].mark => i = j
    BY HistoryPlaces
  <2>2. b \in [I -> V] /\ \A m \in V : \E i \in I : b[i] = m
    BY <2>1 DEF MarksIn
  <2>3. IsInjective(b)
    BY <2>1 DEF IsInjective
  <2> HIDE DEF b, I, V
  <2> QED BY <2>2, <2>3 DEF Bijection, Injection, Surjection
<1>2. IsFiniteSet(I) /\ Cardinality(I) = Len(v) /\ Len(v) \in Nat
  <2>1. Len(v) \in Nat
    BY HistoryPlaces
  <2>2. IsFiniteSet(I) /\ Cardinality(I) = IF 1 > Len(v) THEN 0 ELSE Len(v) - 1 + 1
    BY <2>1, FS_Interval
  <2> HIDE DEF I
  <2> QED BY <2>1, <2>2
<1>3. V \subseteq M
  BY HistoryPlaces
<1> HIDE DEF b, I, V
<1>4. Cardinality(V) = Len(v)
  BY <1>1, <1>2, FS_Bijection DEF ExistsBijection
<1>5. Cardinality(V) <= Cardinality(M) /\ (Cardinality(M) = Cardinality(V) => M = V)
  BY <1>3, FS_Subset
<1>6. Cardinality(M) \in Nat
  BY FS_CardinalityType
<1>7. /\ Len(v) <= Cardinality(M)
      /\ \A m \in M : m \notin V => Len(v) < Cardinality(M)
  BY <1>2, <1>4, <1>5, <1>6
<1> QED BY <1>7 DEF V

\* A visit was noted: nothing else changed, nothing was lost, and it was counted.
IsCounted(v, t, m) ==
  /\ MarksIn(t) = MarksIn(v) \cup {m}
  /\ \A x : x # m => CountAt(t, x) = CountAt(v, x)
  /\ CountAt(t, m) = CountAt(v, m) + 1

LEMMA PlacesAreCounted ==
  ASSUME NEW M, NEW v \in Histories(M), NEW t \in Histories(M), NEW m \in M,
         NEW k \in 1 .. Len(t), t[k].mark = m, t[k].count = CountAt(v, m) + 1,
         \A i \in 1 .. Len(t) : i # k => \E j \in 1 .. Len(v) : t[i] = v[j],
         \A j \in 1 .. Len(v) : v[j].mark # m => \E i \in 1 .. Len(t) : t[i] = v[j]
  PROVE  IsCounted(v, t, m)
<1>1. \A x : x \in MarksIn(t) <=> \E i \in 1 .. Len(t) : x = t[i].mark
  BY HistoryPlaces DEF MarksIn
<1>2. \A x : x \in MarksIn(v) <=> \E j \in 1 .. Len(v) : x = v[j].mark
  BY HistoryPlaces DEF MarksIn
<1>3. MarksIn(t) = MarksIn(v) \cup {m}
  <2>1. ASSUME NEW x \in MarksIn(t), x # m PROVE x \in MarksIn(v)
    BY <1>1, <1>2, <2>1
  <2>2. ASSUME NEW x \in MarksIn(v), x # m PROVE x \in MarksIn(t)
    <3>1. PICK j \in 1 .. Len(v) : x = v[j].mark
      BY <1>2
    <3>2. PICK i \in 1 .. Len(t) : t[i] = v[j]
      BY <2>2, <3>1
    <3> QED BY <1>1, <3>1, <3>2
  <2>3. m \in MarksIn(t)
    BY <1>1
  <2> QED BY <2>1, <2>2, <2>3
<1>4. CountAt(t, m) = CountAt(v, m) + 1
  BY CountOfPlace
<1>5. ASSUME NEW x, x # m PROVE CountAt(t, x) = CountAt(v, x)
  <2>1. CASE x \notin MarksIn(v)
    <3>1. x \notin MarksIn(t)
      BY <1>3, <1>5, <2>1
    <3>2. CountAt(t, x) = 0 /\ CountAt(v, x) = 0
      BY <2>1, <3>1, CountOfPlace
    <3> QED BY <3>2
  <2>2. CASE x \in MarksIn(v)
    <3>1. PICK j \in 1 .. Len(v) : x = v[j].mark
      BY <1>2, <2>2
    <3>2. PICK i \in 1 .. Len(t) : t[i] = v[j]
      BY <1>5, <3>1
    <3>3. CountAt(v, v[j].mark) = v[j].count /\ CountAt(t, t[i].mark) = t[i].count
      BY CountOfPlace
    <3> QED BY <3>1, <3>2, <3>3
  <2> QED BY <2>1, <2>2
<1> QED BY <1>3, <1>4, <1>5 DEF IsCounted

(* What was counted is one visit more.                                       *)
LEMMA CountedIsOneMore ==
  ASSUME NEW M, NEW v \in Histories(M), NEW t \in Histories(M), NEW m \in M,
         IsCounted(v, t, m)
  PROVE  TotalVisits(t) = TotalVisits(v) + 1
<1> DEFINE f == Tally(v, MarksIn(v))
           g == Tally(t, MarksIn(t))
<1>1. /\ Summable(f) /\ TotalVisits(v) = SumFunction(f) /\ SumFunction(f) \in Nat
      /\ Summable(g) /\ TotalVisits(t) = SumFunction(g)
  <2>1. Summable(f) /\ TotalVisits(v) = SumFunction(f)
    BY TotalIsTally
  <2>2. Summable(g) /\ TotalVisits(t) = SumFunction(g)
    BY TotalIsTally
  <2> HIDE DEF f, g
  <2> QED BY <2>1, <2>2, SumIsNatural
<1>2. /\ DOMAIN f = MarksIn(v) /\ DOMAIN g = MarksIn(t)
      /\ \A x \in MarksIn(v) : f[x] = CountAt(v, x)
      /\ \A x \in MarksIn(t) : g[x] = CountAt(t, x)
  BY DEF Tally
<1> HIDE DEF f, g
<1>3. /\ DOMAIN g = DOMAIN f \cup {m}
      /\ \A y \in DOMAIN f \ {m} : g[y] = f[y]
      /\ g[m] = CountAt(v, m) + 1
  BY <1>2 DEF IsCounted
<1>4. CountAt(v, m) \in Nat /\ (m \notin MarksIn(v) => CountAt(v, m) = 0)
  BY CountOfPlace
<1>5. SumFunction(g) = SumFunction(f) + g[m] - (IF m \in DOMAIN f THEN f[m] ELSE 0)
  <2>1. g[m] \in Nat
    BY <1>3, <1>4
  <2> QED BY <1>1, <1>3, <2>1, SumOfPut
<1>6. (IF m \in DOMAIN f THEN f[m] ELSE 0) = CountAt(v, m)
  BY <1>2, <1>4
<1>7. SumFunction(g) = SumFunction(f) + (CountAt(v, m) + 1) - CountAt(v, m)
  BY <1>3, <1>5, <1>6
<1> QED BY <1>1, <1>4, <1>7

(* Noting a visit keeps a history what it is, within its limit, and unless   *)
(* the frame is new and the limit reached it counts the visit once: in its   *)
(* frame, in no other and in the total (timestat.go:45-73).                  *)
THEOREM NoteVisitCounts ==
  ASSUME NEW M, M \subseteq Int, NEW v \in Histories(M), NEW m \in M,
         NEW n \in Nat, Len(v) <= n
  PROVE  LET t == NoteVisitByTimemark(v, m, n)
         IN  /\ t \in Histories(M) /\ Len(t) <= n
             /\ (m \in MarksIn(v) \/ Len(v) < n) => IsCounted(v, t, m)
<1> DEFINE t == NoteVisitByTimemark(v, m, n)
           R == Records(M)
           Kept == t \in Histories(M) /\ Len(t) <= n
           Counted == (m \in MarksIn(v) \/ Len(v) < n) => IsCounted(v, t, m)
<1>v. /\ v \in Seq(R) /\ Len(v) \in Nat /\ DOMAIN v = 1 .. Len(v)
      /\ \A i \in 1 .. Len(v) :
           v[i].mark \in Int /\ v[i].count \in Nat /\ v[i].count # 0 /\ v[i].mark \in M
      /\ \A i, j \in 1 .. Len(v) : v[i].mark = v[j].mark => i = j
  BY HistoryPlaces
<1>m. m \in Int /\ FirstVisit(m) \in R
  BY DEF Records, FirstVisit
<1>i. \A r \in R : r.mark \in Int
  BY DEF Records
<1>o. \A r \in R : OneMore(r) \in R
  BY DEF Records, OneMore
<1>f. FirstVisit(m).mark = m /\ FirstVisit(m).count = 1
  BY DEF FirstVisit
<1>0. m \in MarksIn(v) <=> Held(v, m) # {}
  BY DEF MarksIn, Held
<1>1. CASE Held(v, m) # {}
  <2>1. PICK k \in 1 .. Len(v) :
          /\ t \in Seq(R) /\ v[k].mark = m /\ Len(t) = Len(v)
          /\ \A i \in 1 .. Len(v) : t[i] = IF i = k THEN OneMore(v[k]) ELSE v[i]
    BY <1>1, <1>v, <1>o, NoteHeldMark
  <2> HIDE DEF t
  <2>2. DOMAIN t = 1 .. Len(t)
    BY <2>1, LenProperties
  <2>3. t[k].mark = m /\ t[k].count = v[k].count + 1 /\ \A i \in 1 .. Len(t) : t[i].mark = v[i].mark
    BY <2>1 DEF OneMore
  <2>4. t \in Histories(M)
    BY <1>v, <2>1, <2>2, <2>3 DEF Histories
  <2>5. CountAt(v, m) = v[k].count
    BY <2>1, CountOfPlace
  <2>6. \A i \in 1 .. Len(t) : i # k => \E j \in 1 .. Len(v) : t[i] = v[j]
    BY <2>1
  <2>7. \A j \in 1 .. Len(v) : v[j].mark # m => \E i \in 1 .. Len(t) : t[i] = v[j]
    BY <2>1
  <2>8. IsCounted(v, t, m)
    BY <2>1, <2>3, <2>4, <2>5, <2>6, <2>7, PlacesAreCounted
  <2> QED BY <2>1, <2>4, <2>8 DEF t
<1>2. CASE Held(v, m) = {} /\ Older(v, m) # {}
  <2>1. t \in Seq(R) /\ \E k \in 1 .. Len(v) : IsInserted(v, t, k, m, n)
    BY <1>2, <1>v, <1>m, <1>i, NoteNewerMark
  <2> HIDE DEF t
  <2>2. PICK k \in 1 .. Len(v) : IsInserted(v, t, k, m, n)
    BY <2>1
  <2>3. /\ Len(t) = IF Len(v) + 1 > n THEN n ELSE Len(v) + 1
        /\ \A i \in 1 .. Len(t) :
             t[i] = IF i < k THEN v[i] ELSE IF i = k THEN FirstVisit(m) ELSE v[i - 1]
    BY <2>2 DEF IsInserted
  <2>4. DOMAIN t = 1 .. Len(t) /\ k \in 1 .. Len(t) /\ Len(t) \in Nat /\ Len(t) <= n
    BY <2>1, <2>3, <1>v, LenProperties
  <2>5. \A j \in 1 .. Len(v) : v[j].mark # m
    BY <1>2, <1>v DEF Held
  <2> DEFINE p(i) == IF i < k THEN i ELSE i - 1
  <2>6. \A i \in 1 .. Len(t) : i # k => p(i) \in 1 .. Len(v) /\ t[i] = v[p(i)]
    BY <2>3, <2>4, <1>v
  <2>7. \A i, j \in 1 .. Len(t) : t[i].mark = t[j].mark => i = j
    <3> SUFFICES ASSUME NEW i \in 1 .. Len(t), NEW j \in 1 .. Len(t), t[i].mark = t[j].mark
                 PROVE  i = j
      OBVIOUS
    <3>1. t[k].mark = m
      BY <2>3, <2>4, <1>f
    <3>2. CASE i = k \/ j = k
      <4> HIDE DEF p
      <4> QED BY <3>1, <3>2, <2>5, <2>6
    <3>3. CASE i # k /\ j # k
      <4>1. p(i) = p(j)
        <5> HIDE DEF p
        <5> QED BY <3>3, <2>6, <1>v
      <4> QED BY <3>3, <4>1, <2>4
    <3> QED BY <3>2, <3>3
  <2>8. t \in Histories(M)
    BY <2>1, <2>4, <2>7 DEF Histories
  <2>9. ASSUME Len(v) < n PROVE IsCounted(v, t, m)
    <3>1. t[k].mark = m /\ t[k].count = CountAt(v, m) + 1
      <4>1. t[k].mark = m /\ t[k].count = 1 /\ CountAt(v, m) = 0
        BY <2>3, <2>4, <1>f, <1>0, <1>2, CountOfPlace
      <4> QED BY <4>1
    <3>2. \A i \in 1 .. Len(t) : i # k => \E j \in 1 .. Len(v) : t[i] = v[j]
      <4> HIDE DEF p
      <4> QED BY <2>6
    <3>3. \A j \in 1 .. Len(v) : v[j].mark # m => \E i \in 1 .. Len(t) : t[i] = v[j]
      <4> SUFFICES ASSUME NEW j \in 1 .. Len(v) PROVE \E i \in 1 .. Len(t) : t[i] = v[j]
        OBVIOUS
      <4>1. CASE j < k
        BY <4>1, <2>3, <2>4
      <4>2. CASE j >= k
        <5>1. j + 1 \in 1 .. Len(t) /\ ~(j + 1 < k) /\ j + 1 # k /\ (j + 1) - 1 = j
          BY <4>2, <2>3, <2>9, <1>v
        <5> QED BY <5>1, <2>3
      <4> QED BY <4>1, <4>2, <1>v
    <3> QED BY <2>4, <2>8, <3>1, <3>2, <3>3, PlacesAreCounted
  <2> QED BY <2>4, <2>8, <2>9, <1>0, <1>2 DEF t
<1>3. CASE Held(v, m) = {} /\ Older(v, m) = {}
  <2>1. t = IF Len(v) < n THEN Append(v, FirstVisit(m)) ELSE v
    BY <1>3, <1>v, <1>m, NoteOldestMark
  <2> HIDE DEF t
  <2>2. CASE ~(Len(v) < n)
    BY <1>0, <1>3, <2>1, <2>2 DEF t
  <2>3. CASE Len(v) < n
    <3>1. /\ t \in Seq(R) /\ Len(t) = Len(v) + 1
          /\ \A i \in 1 .. Len(v) : t[i] = v[i]
          /\ t[Len(v) + 1] = FirstVisit(m)
      BY <2>1, <2>3, <1>v, <1>m, AppendProperties
    <3>2. DOMAIN t = 1 .. Len(t)
      BY <3>1, LenProperties
    <3>3. \A j \in 1 .. Len(v) : v[j].mark # m
      BY <1>3, <1>v DEF Held
    <3>4. \A i, j \in 1 .. Len(t) : t[i].mark = t[j].mark => i = j
      BY <3>1, <3>3, <1>v, <1>f
    <3>5. t \in Histories(M)
      BY <3>1, <3>2, <3>4 DEF Histories
    <3>6. CountAt(v, m) = 0
      BY <1>0, <1>3, CountOfPlace
    <3>7. \A i \in 1 .. Len(t) : i # Len(v) + 1 => \E j \in 1 .. Len(v) : t[i] = v[j]
      BY <3>1, <1>v
    <3>8. \A j \in 1 .. Len(v) : v[j].mark # m => \E i \in 1 .. Len(t) : t[i] = v[j]
      BY <3>1, <1>v
    <3>9. IsCounted(v, t, m)
      <4> DEFINE k == Len(v) + 1
      <4>1. k \in 1 .. Len(t)
        BY <3>1, <1>v
      <4>2. t[k].mark = m /\ t[k].count = CountAt(v, m) + 1
        BY <3>1, <3>6, <1>f
      <4> HIDE DEF k
      <4>3. \A i \in 1 .. Len(t) : i # k => \E j \in 1 .. Len(v) : t[i] = v[j]
        BY <3>7 DEF k
      <4> QED BY <3>5, <3>8, <4>1, <4>2, <4>3, PlacesAreCounted
    <3> QED BY <2>3, <3>1, <3>5, <3>9, <1>v DEF t
  <2> QED BY <2>2, <2>3
<1> QED BY <1>1, <1>2, <1>3

\* The newest time frame comes first.
IsOrdered(v) == \A i, j \in 1 .. Len(v) : i < j => v[i].mark > v[j].mark

(* A history has all that it has.                                            *)
LEMMA CoversItself ==
  ASSUME NEW M, NEW v \in Histories(M), NEW n
  PROVE  CoversHistory(v, v, n)
<1>1. \A i \in DOMAIN v : v[i].mark = v[i].mark /\ v[i].count >= v[i].count
  BY HistoryPlaces
<1> QED BY <1>1 DEF CoversHistory

(* Noting a visit keeps the newest frame first, and it loses nothing of what *)
(* was there but the oldest frame of a history that is full and stays full   *)
(* of newer ones (timestat.go:45-73).                                        *)
LEMMA NoteVisitCovers ==
  ASSUME NEW M, M \subseteq Int, NEW v \in Histories(M), IsOrdered(v), NEW m \in M,
         NEW n \in Nat, Len(v) <= n, NEW old \in Histories(M)
  PROVE  LET t == NoteVisitByTimemark(v, m, n)
         IN  IsOrdered(t) /\ (CoversHistory(v, old, n) => CoversHistory(t, old, n))
<1> DEFINE t == NoteVisitByTimemark(v, m, n)
           Had(x, c) == \/ \E j \in 1 .. Len(v) : v[j].mark = x /\ v[j].count >= c
                        \/ Len(v) = n /\ \A j \in 1 .. Len(v) : v[j].mark > x
           Has(x, c) == \/ \E j \in 1 .. Len(t) : t[j].mark = x /\ t[j].count >= c
                        \/ Len(t) = n /\ \A j \in 1 .. Len(t) : t[j].mark > x
<1>v. /\ v \in Seq(Records(M)) /\ Len(v) \in Nat /\ DOMAIN v = 1 .. Len(v)
      /\ \A i \in 1 .. Len(v) : v[i].mark \in Int /\ v[i].count \in Nat
      /\ \A i, j \in 1 .. Len(v) : i < j => v[i].mark > v[j].mark
  BY HistoryPlaces DEF IsOrdered
<1>m. m \in Int /\ FirstVisit(m) \in Records(M) /\ FirstVisit(m).mark = m
  BY DEF Records, FirstVisit
<1>t. t \in Histories(M) /\ Len(t) <= n
  BY NoteVisitCounts
<1>d. DOMAIN t = 1 .. Len(t) /\ Len(t) \in Nat
  BY <1>t, HistoryPlaces
<1>1. ASSUME Held(v, m) # {}
      PROVE  IsOrdered(t) /\ \A x \in Int, c \in Nat : Had(x, c) => Has(x, c)
  <2>0. \A r \in Records(M) : OneMore(r) \in Records(M)
    BY DEF Records, OneMore
  <2>1. PICK k \in 1 .. Len(v) :
          /\ t \in Seq(Records(M)) /\ v[k].mark = m /\ Len(t) = Len(v)
          /\ \A i \in 1 .. Len(v) : t[i] = IF i = k THEN OneMore(v[k]) ELSE v[i]
    <3>1. v \in Seq(Records(M)) /\ Held(v, m) # {}
      BY <1>1, <1>v
    <3> HIDE DEF t
    <3>2. \E k \in 1 .. Len(v) :
            /\ NoteVisitByTimemark(v, m, n) \in Seq(Records(M))
            /\ v[k].mark = m
            /\ Len(NoteVisitByTimemark(v, m, n)) = Len(v)
            /\ \A i \in 1 .. Len(v) :
                 NoteVisitByTimemark(v, m, n)[i] = IF i = k THEN OneMore(v[k]) ELSE v[i]
      BY <3>1, <2>0, NoteHeldMark
    <3> QED BY <3>2 DEF t
  <2> HIDE DEF t
  <2>2. \A i \in 1 .. Len(v) : t[i].mark = v[i].mark /\ t[i].count >= v[i].count
    <3> SUFFICES ASSUME NEW i \in 1 .. Len(v)
                 PROVE  t[i].mark = v[i].mark /\ t[i].count >= v[i].count
      OBVIOUS
    <3>1. CASE i = k
      <4>1. t[i].mark = v[i].mark /\ t[i].count = v[i].count + 1
        BY <2>1, <3>1 DEF OneMore
      <4> QED BY <4>1, <1>v
    <3>2. CASE i # k
      <4>1. t[i] = v[i]
        BY <2>1, <3>2
      <4> QED BY <4>1, <1>v
    <3> QED BY <3>1, <3>2
  <2>3. IsOrdered(t)
    BY <2>1, <2>2, <1>v DEF IsOrdered
  <2>4. ASSUME NEW x \in Int, NEW c \in Nat, NEW j \in 1 .. Len(v), v[j].mark = x, v[j].count >= c
        PROVE  \E i \in 1 .. Len(t) : t[i].mark = x /\ t[i].count >= c
    <3>1. t[j].count \in Nat /\ v[j].count \in Nat
      BY <1>t, <1>v, <2>1, HistoryPlaces
    <3> QED BY <2>1, <2>2, <2>4, <3>1
  <2> QED BY <2>1, <2>2, <2>3, <2>4
<1>2. ASSUME Held(v, m) = {}, Older(v, m) # {}
      PROVE  IsOrdered(t) /\ \A x \in Int, c \in Nat : Had(x, c) => Has(x, c)
  <2>0. \A r \in Records(M) : r.mark \in Int
    BY DEF Records
  <2>1. \E k \in 1 .. Len(v) : IsInserted(v, t, k, m, n)
    BY <1>2, <1>v, <1>m, <2>0, NoteNewerMark
  <2> HIDE DEF t
  <2>2. PICK k \in 1 .. Len(v) :
          /\ m > v[k].mark /\ \A i \in 1 .. k - 1 : v[i].mark > m
          /\ Len(t) = IF Len(v) + 1 > n THEN n ELSE Len(v) + 1
          /\ \A i \in 1 .. Len(t) :
               t[i] = IF i < k THEN v[i] ELSE IF i = k THEN FirstVisit(m) ELSE v[i - 1]
    BY <2>1 DEF IsInserted
  <2>3. \A i \in 1 .. Len(v) : v[i].mark > m <=> i < k
    <3> SUFFICES ASSUME NEW i \in 1 .. Len(v) PROVE v[i].mark > m <=> i < k
      OBVIOUS
    <3>1. i < k => v[i].mark > m
      BY <2>2
    <3>2. i = k \/ i > k => ~(v[i].mark > m)
      BY <2>2, <1>v, <1>m
    <3> QED BY <3>1, <3>2
  <2>4. \A i \in 1 .. Len(v) : i >= k => m > v[i].mark
    BY <2>2, <1>v, <1>m
  <2>5. \A i \in 1 .. Len(t) :
          /\ i < k => i \in 1 .. Len(v) /\ t[i].mark = v[i].mark
          /\ i = k => t[i].mark = m
          /\ i > k => i - 1 \in 1 .. Len(v) /\ i - 1 >= k /\ t[i].mark = v[i - 1].mark
    BY <2>2, <1>v, <1>m
  <2>6. IsOrdered(t)
    <3> SUFFICES ASSUME NEW i \in 1 .. Len(t), NEW j \in 1 .. Len(t), i < j
                 PROVE  t[i].mark > t[j].mark
      BY DEF IsOrdered
    <3>1. CASE j < k
      BY <3>1, <2>5, <1>v
    <3>2. CASE j = k
      BY <3>2, <2>3, <2>5, <1>v
    <3>3. CASE i < k /\ j > k
      <4>1. v[i].mark > m /\ m > v[j - 1].mark
        BY <3>3, <2>3, <2>4, <2>5
      <4>2. v[i].mark \in Int /\ v[j - 1].mark \in Int
        BY <3>3, <2>5, <1>v
      <4> QED BY <3>3, <4>1, <4>2, <2>5, <1>m
    <3>4. CASE i = k
      BY <3>4, <2>4, <2>5
    <3>5. CASE i > k
      <4>1. i - 1 \in 1 .. Len(v) /\ t[i].mark = v[i - 1].mark
        BY <3>5, <2>5
      <4>2. j > k /\ i - 1 < j - 1
        BY <3>5, <1>d
      <4>3. j - 1 \in 1 .. Len(v) /\ t[j].mark = v[j - 1].mark
        BY <4>2, <2>5
      <4> QED BY <4>1, <4>2, <4>3, <1>v
    <3> QED BY <3>1, <3>2, <3>3, <3>4, <3>5, <1>d
  <2>7. ASSUME NEW x \in Int, NEW c \in Nat, NEW j \in 1 .. Len(v), v[j].mark = x, v[j].count >= c
        PROVE  Has(x, c)
    <3>1. CASE j < k
      <4>1. j \in 1 .. Len(t)
        BY <3>1, <2>2, <1>v
      <4>2. t[j] = v[j]
        BY <3>1, <4>1, <2>2
      <4> QED BY <4>1, <4>2, <2>7
    <3>2. CASE j >= k /\ j + 1 <= Len(t)
      <4>1. j + 1 \in 1 .. Len(t) /\ ~(j + 1 < k) /\ j + 1 # k /\ (j + 1) - 1 = j
        BY <3>2
      <4>2. t[j + 1] = v[j]
        BY <4>1, <2>2
      <4> QED BY <4>1, <4>2, <2>7
    <3>3. CASE j >= k /\ ~(j + 1 <= Len(t))
      <4>1. Len(t) = n /\ j = n /\ Len(v) = n
        <5> DEFINE lt == Len(t)
                   lv == Len(v)
        <5>1. lt = IF lv + 1 > n THEN n ELSE lv + 1
          BY <2>2
        <5>2. lt \in Nat /\ lv \in Nat /\ lv <= n /\ j \in 1 .. lv /\ ~(j + 1 <= lt)
          BY <3>3, <1>v, <1>d
        <5> HIDE DEF lt, lv
        <5>3. lt = n /\ j = n /\ lv = n
          BY <5>1, <5>2
        <5> QED BY <5>3 DEF lt, lv
      <4>2. ASSUME NEW i \in 1 .. Len(t) PROVE t[i].mark > x
        <5>1. m > x
          BY <2>4, <2>7, <3>3
        <5>2. CASE i < k
          BY <5>2, <2>5, <2>7, <3>3, <1>v
        <5>3. CASE i = k
          BY <5>1, <5>3, <2>5
        <5>4. CASE i > k
          <6>1. i - 1 \in 1 .. Len(v) /\ i - 1 < j /\ t[i].mark = v[i - 1].mark
            BY <5>4, <4>1, <2>5, <1>d
          <6> QED BY <6>1, <2>7, <1>v
        <5>5. i < k \/ i = k \/ i > k
          BY <1>d
        <5> QED BY <5>2, <5>3, <5>4, <5>5
      <4> QED BY <4>1, <4>2
    <3>4. j < k \/ j >= k
      OBVIOUS
    <3> HIDE DEF Has
    <3> QED BY <3>1, <3>2, <3>3, <3>4
  <2>8. ASSUME NEW x \in Int, Len(v) = n, \A j \in 1 .. Len(v) : v[j].mark > x
        PROVE  Len(t) = n /\ \A i \in 1 .. Len(t) : t[i].mark > x
    <3>1. Len(t) = n
      BY <2>2, <2>8
    <3>2. m > x
      <4>1. m > v[k].mark /\ v[k].mark > x /\ v[k].mark \in Int
        BY <2>2, <2>8, <1>v
      <4> QED BY <4>1, <1>m
    <3>3. \A i \in 1 .. Len(t) : t[i].mark > x
      BY <2>5, <2>8, <3>2, <1>d
    <3> QED BY <3>1, <3>3
  <2> QED BY <2>6, <2>7, <2>8
<1>3. ASSUME Held(v, m) = {}, Older(v, m) = {}
      PROVE  IsOrdered(t) /\ \A x \in Int, c \in Nat : Had(x, c) => Has(x, c)
  <2>1. /\ \A i \in 1 .. Len(v) : v[i].mark > m
        /\ t = IF Len(v) < n THEN Append(v, FirstVisit(m)) ELSE v
    BY <1>3, <1>v, <1>m, NoteOldestMark
  <2> HIDE DEF t
  <2>2. CASE ~(Len(v) < n)
    <3>1. t = v
      BY <2>1, <2>2
    <3> QED BY <3>1
  <2>3. CASE Len(v) < n
    <3>1. /\ Len(t) = Len(v) + 1
          /\ \A i \in 1 .. Len(v) : t[i] = v[i]
          /\ t[Len(v) + 1].mark = m
      BY <2>1, <2>3, <1>v, <1>m, AppendProperties
    <3>2. IsOrdered(t)
      <4> SUFFICES ASSUME NEW i \in 1 .. Len(t), NEW j \in 1 .. Len(t), i < j
                   PROVE  t[i].mark > t[j].mark
        BY DEF IsOrdered
      <4>1. i \in 1 .. Len(v) /\ t[i] = v[i]
        BY <3>1, <1>v
      <4>2. CASE j \in 1 .. Len(v)
        BY <3>1, <4>1, <4>2, <1>v
      <4>3. CASE j = Len(v) + 1
        BY <2>1, <3>1, <4>1, <4>3
      <4>4. j \in 1 .. Len(v) \/ j = Len(v) + 1
        BY <3>1, <1>v
      <4> QED BY <4>2, <4>3, <4>4
    <3>3. ~(Len(v) = n)
      <4>1. Len(v) \in Nat
        BY <1>v
      <4> QED BY <4>1, <2>3
    <3>4. \A j \in 1 .. Len(v) : j \in 1 .. Len(t)
      BY <3>1, <1>v
    <3> QED BY <3>1, <3>2, <3>3, <3>4
  <2> QED BY <2>2, <2>3
<1>4. IsOrdered(t) /\ \A x \in Int, c \in Nat : Had(x, c) => Has(x, c)
  BY <1>1, <1>2, <1>3
<1>5. DOMAIN old = 1 .. Len(old) /\ \A i \in DOMAIN old : old[i].mark \in Int /\ old[i].count \in Nat
  BY HistoryPlaces
<1>6. CoversHistory(v, old, n) <=> \A i \in DOMAIN old : Had(old[i].mark, old[i].count)
  BY <1>v DEF CoversHistory
<1> HIDE DEF t
<1>7. CoversHistory(t, old, n) <=> \A i \in DOMAIN old : Has(old[i].mark, old[i].count)
  BY <1>d DEF CoversHistory
<1> HIDE DEF Had, Has
<1> QED BY <1>4, <1>5, <1>6, <1>7 DEF t
=============================================================================
