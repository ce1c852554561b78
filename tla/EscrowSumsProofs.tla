--------------------------- MODULE EscrowSumsProofs ---------------------------
(***************************************************************************)
(* What the sums of EscrowSums do when entries change.                     *)
(***************************************************************************)
EXTENDS EscrowSums, FiniteSetTheorems, TLAPS

\* The units of a function on a finite set are finitely many, so its sum is a
\* natural number.
LEMMA UnitsFinite ==
    ASSUME NEW S, IsFiniteSet(S), NEW f \in [S -> Nat]
    PROVE  IsFiniteSet(Units(f, S)) /\ Total(f, S) \in Nat
  <1> DEFINE slice == [x \in S |-> {x} \X (1..f[x])]
  <1> DEFINE slices == {{x} \X (1..f[x]) : x \in S}
  <1>1. slice \in Surjection(S, slices)
    BY DEF Surjection
  <1>2. IsFiniteSet(slices)
    BY <1>1, FS_Surjection
  <1>3. \A T \in slices : IsFiniteSet(T)
    <2> SUFFICES ASSUME NEW x \in S PROVE IsFiniteSet({x} \X (1..f[x]))
      OBVIOUS
    <2>1. IsFiniteSet({x})
      BY FS_Singleton
    <2>2. f[x] \in Int /\ 1 \in Int
      OBVIOUS
    <2>3. IsFiniteSet(1..f[x])
      BY <2>2, FS_Interval
    <2> QED
      BY <2>1, <2>3, FS_Product
  <1>4. IsFiniteSet(UNION slices)
    BY <1>2, <1>3, FS_UNION
  <1>5. IsFiniteSet(Units(f, S))
    BY <1>4 DEF Units
  <1> QED
    BY <1>5, FS_CardinalityType DEF Total

\* Raising one entry by d raises the sum by d.
LEMMA TotalAdd ==
    ASSUME NEW S, IsFiniteSet(S), NEW f \in [S -> Nat], NEW g \in [S -> Nat],
           NEW x \in S, NEW d \in Nat,
           g[x] = f[x] + d,
           \A y \in S \ {x} : g[y] = f[y]
    PROVE  Total(g, S) = Total(f, S) + d
  <1> DEFINE old == Units(f, S)
  <1> DEFINE extra == {x} \X ((f[x] + 1)..(f[x] + d))
  <1>1. IsFiniteSet(old)
    BY UnitsFinite
  <1>2. IsFiniteSet(extra) /\ Cardinality(extra) = d
    <2>1. IsFiniteSet({x}) /\ Cardinality({x}) = 1
      BY FS_Singleton
    <2>2. f[x] + 1 \in Int /\ f[x] + d \in Int
      OBVIOUS
    <2>3. /\ IsFiniteSet((f[x] + 1)..(f[x] + d))
          /\ Cardinality((f[x] + 1)..(f[x] + d))
               = IF f[x] + 1 > f[x] + d THEN 0 ELSE (f[x] + d) - (f[x] + 1) + 1
      BY <2>2, FS_Interval
    <2>4. Cardinality((f[x] + 1)..(f[x] + d)) = d
      BY <2>3
    <2>5. /\ IsFiniteSet(extra)
          /\ Cardinality(extra) = Cardinality({x}) * Cardinality((f[x] + 1)..(f[x] + d))
      BY <2>1, <2>3, FS_Product
    <2> QED
      BY <2>1, <2>4, <2>5
  <1>3. Units(g, S) = old \cup extra
    <2>1. 1..g[x] = (1..f[x]) \cup ((f[x] + 1)..(f[x] + d))
      OBVIOUS
    <2>2. ASSUME NEW u \in Units(g, S) PROVE u \in old \cup extra
      <3>1. PICK y \in S : u \in {y} \X (1..g[y])
        BY <2>2 DEF Units
      <3>2. CASE y = x
        BY <3>1, <3>2, <2>1 DEF Units
      <3>3. CASE y # x
        BY <3>1, <3>3 DEF Units
      <3> QED
        BY <3>2, <3>3
    <2>3. ASSUME NEW u \in old PROVE u \in Units(g, S)
      <3>1. PICK y \in S : u \in {y} \X (1..f[y])
        BY <2>3 DEF Units
      <3>2. u \in {y} \X (1..g[y])
        BY <3>1, <2>1
      <3> QED
        BY <3>2 DEF Units
    <2>4. ASSUME NEW u \in extra PROVE u \in Units(g, S)
      <3>1. u \in {x} \X (1..g[x])
        BY <2>4, <2>1
      <3> QED
        BY <3>1 DEF Units
    <2> QED
      BY <2>2, <2>3, <2>4
  <1>4. old \cap extra = {}
    <2> SUFFICES ASSUME NEW u \in old, u \in extra PROVE FALSE
      OBVIOUS
    <2>1. PICK y \in S : u \in {y} \X (1..f[y])
      BY DEF Units
    <2>2. y = x
      BY <2>1
    <2>3. u[2] \in 1..f[x] /\ u[2] \in (f[x] + 1)..(f[x] + d)
      BY <2>1, <2>2
    <2> QED
      BY <2>3
  <1>5. Cardinality(Units(g, S)) = Cardinality(old) + Cardinality(extra) - Cardinality(old \cap extra)
    BY <1>1, <1>2, <1>3, FS_Union
  <1>6. Cardinality(old \cap extra) = 0
    BY <1>4, FS_EmptySet
  <1>7. Cardinality(old) \in Nat
    BY <1>1, FS_CardinalityType
  <1> QED
    BY <1>2, <1>5, <1>6, <1>7 DEF Total

\* Lowering one entry by d lowers the sum by d.
LEMMA TotalSub ==
    ASSUME NEW S, IsFiniteSet(S), NEW f \in [S -> Nat], NEW g \in [S -> Nat],
           NEW x \in S, NEW d \in Nat,
           g[x] = f[x] - d,
           \A y \in S \ {x} : g[y] = f[y]
    PROVE  Total(g, S) = Total(f, S) - d
  <1>1. f[x] = g[x] + d
    OBVIOUS
  <1>2. \A y \in S \ {x} : f[y] = g[y]
    OBVIOUS
  <1>3. Total(f, S) = Total(g, S) + d
    BY <1>1, <1>2, TotalAdd
  <1>4. Total(f, S) \in Nat /\ Total(g, S) \in Nat
    BY UnitsFinite
  <1> QED
    BY <1>3, <1>4

\* The same two facts for an EXCEPT, the form in which the actions write them.
LEMMA TotalExceptAdd ==
    ASSUME NEW S, IsFiniteSet(S), NEW f \in [S -> Nat], NEW x \in S, NEW d \in Nat
    PROVE  Total([f EXCEPT ![x] = @ + d], S) = Total(f, S) + d
  <1> DEFINE g == [f EXCEPT ![x] = @ + d]
  <1>1. g \in [S -> Nat] /\ g[x] = f[x] + d /\ \A y \in S \ {x} : g[y] = f[y]
    OBVIOUS
  <1> HIDE DEF g
  <1>2. Total(g, S) = Total(f, S) + d
    BY <1>1, TotalAdd
  <1> QED
    BY <1>2 DEF g

LEMMA TotalExceptSub ==
    ASSUME NEW S, IsFiniteSet(S), NEW f \in [S -> Nat], NEW x \in S, NEW d \in Nat,
           d <= f[x]
    PROVE  Total([f EXCEPT ![x] = @ - d], S) = Total(f, S) - d
  <1> DEFINE g == [f EXCEPT ![x] = @ - d]
  <1>1. g \in [S -> Nat] /\ g[x] = f[x] - d /\ \A y \in S \ {x} : g[y] = f[y]
    OBVIOUS
  <1> HIDE DEF g
  <1>2. Total(g, S) = Total(f, S) - d
    BY <1>1, TotalSub
  <1> QED
    BY <1>2 DEF g

\* No entry exceeds the sum.
LEMMA TotalBounds ==
    ASSUME NEW S, IsFiniteSet(S), NEW f \in [S -> Nat], NEW x \in S
    PROVE  f[x] <= Total(f, S)
  <1> DEFINE g == [f EXCEPT ![x] = 0]
  <1>1. g \in [S -> Nat] /\ f[x] \in Nat /\ f[x] = g[x] + f[x]
    OBVIOUS
  <1>2. \A y \in S \ {x} : f[y] = g[y]
    OBVIOUS
  <1> HIDE DEF g
  <1>3. Total(f, S) = Total(g, S) + f[x]
    BY <1>1, <1>2, TotalAdd
  <1>4. Total(g, S) \in Nat
    BY <1>1, UnitsFinite
  <1> QED
    BY <1>1, <1>3, <1>4

\* A function that is zero everywhere sums to zero.
LEMMA TotalZero ==
    ASSUME NEW S, NEW f, \A x \in S : f[x] = 0
    PROVE  Total(f, S) = 0
  <1>1. \A x \in S : 1..f[x] = {}
    OBVIOUS
  <1>2. \A u : u \notin Units(f, S)
    BY <1>1 DEF Units
  <1>3. Units(f, S) = {}
    BY <1>2
  <1> QED
    BY <1>3, FS_EmptySet DEF Total

\* Replacing one entry replaces its share of the sum.
LEMMA TotalChange ==
    ASSUME NEW S, IsFiniteSet(S), NEW f \in [S -> Nat], NEW g \in [S -> Nat],
           NEW x \in S, \A y \in S \ {x} : g[y] = f[y]
    PROVE  Total(g, S) + f[x] = Total(f, S) + g[x]
  <1> DEFINE h == [f EXCEPT ![x] = 0]
  <1>1. /\ h \in [S -> Nat] /\ f[x] \in Nat /\ g[x] \in Nat
        /\ f[x] = h[x] + f[x] /\ g[x] = h[x] + g[x]
        /\ \A y \in S \ {x} : f[y] = h[y] /\ g[y] = h[y]
    OBVIOUS
  <1> HIDE DEF h
  <1>2. Total(f, S) = Total(h, S) + f[x]
    BY <1>1, TotalAdd
  <1>3. Total(g, S) = Total(h, S) + g[x]
    BY <1>1, TotalAdd
  <1>4. Total(h, S) \in Nat
    BY <1>1, UnitsFinite
  <1> QED
    BY <1>1, <1>2, <1>3, <1>4

\* The sum over a part of a set is the sum over the whole of the function that is
\* zero outside the part.
LEMMA TotalMask ==
    ASSUME NEW S, NEW T \in SUBSET S, NEW f, NEW g,
           \A x \in S : g[x] = IF x \in T THEN f[x] ELSE 0
    PROVE  Total(f, T) = Total(g, S)
  <1>1. ASSUME NEW u \in Units(f, T) PROVE u \in Units(g, S)
    <2>1. PICK x \in T : u \in {x} \X (1..f[x])
      BY <1>1 DEF Units
    <2>2. x \in S /\ g[x] = f[x]
      BY <2>1
    <2> QED
      BY <2>1, <2>2 DEF Units
  <1>2. ASSUME NEW u \in Units(g, S) PROVE u \in Units(f, T)
    <2>1. PICK x \in S : u \in {x} \X (1..g[x])
      BY <1>2 DEF Units
    <2>2. CASE x \in T
      BY <2>1, <2>2 DEF Units
    <2>3. CASE x \notin T
      <3>1. 1..g[x] = {}
        BY <2>3
      <3> QED
        BY <2>1, <3>1
    <2> QED
      BY <2>2, <2>3
  <1>3. Units(f, T) = Units(g, S)
    BY <1>1, <1>2
  <1> QED
    BY <1>3 DEF Total

\* A function below another sums to no more.
LEMMA TotalMono ==
    ASSUME NEW S, IsFiniteSet(S), NEW f \in [S -> Nat], NEW g \in [S -> Nat],
           \A x \in S : f[x] <= g[x]
    PROVE  Total(f, S) <= Total(g, S)
  <1>1. \A x \in S : 1..f[x] \subseteq 1..g[x]
    OBVIOUS
  <1>2. ASSUME NEW u \in Units(f, S) PROVE u \in Units(g, S)
    <2>1. PICK x \in S : u \in {x} \X (1..f[x])
      BY <1>2 DEF Units
    <2>2. u \in {x} \X (1..g[x])
      BY <1>1, <2>1
    <2> QED
      BY <2>2 DEF Units
  <1>3. Units(f, S) \subseteq Units(g, S)
    BY <1>2
  <1>4. IsFiniteSet(Units(g, S))
    BY UnitsFinite
  <1> QED
    BY <1>3, <1>4, FS_Subset DEF Total

\* A new element adds its own share.
LEMMA TotalInsert ==
    ASSUME NEW T, IsFiniteSet(T), NEW x, x \notin T, NEW f \in [T -> Nat],
           NEW g \in [T \cup {x} -> Nat], \A y \in T : g[y] = f[y]
    PROVE  Total(g, T \cup {x}) = Total(f, T) + g[x]
  <1> DEFINE S == T \cup {x}
             h == [y \in S |-> IF y \in T THEN f[y] ELSE 0]
  <1>1. IsFiniteSet(S) /\ T \in SUBSET S /\ x \in S
    BY FS_AddElement
  <1>2. /\ h \in [S -> Nat] /\ g \in [S -> Nat]
        /\ \A y \in S : h[y] = IF y \in T THEN f[y] ELSE 0
        /\ g[x] \in Nat
        /\ g[x] = h[x] + g[x]
        /\ \A y \in S \ {x} : g[y] = h[y]
    OBVIOUS
  <1> HIDE DEF S, h
  <1>3. Total(f, T) = Total(h, S)
    BY <1>1, <1>2, TotalMask
  <1>4. Total(g, S) = Total(h, S) + g[x]
    BY <1>1, <1>2, TotalAdd
  <1> QED
    BY <1>3, <1>4 DEF S
===============================================================================
