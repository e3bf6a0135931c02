----------------------------- MODULE FiniteSums ------------------------------
(***************************************************************************)
(* What the sums of the community modules (SumFunction, SumFunctionOnSet)  *)
(* over finite sets are.  They are defined by recursion over the set; what *)
(* it returns is shown by looking at a smallest set for which a statement  *)
(* fails.                                                                  *)
(***************************************************************************)
EXTENDS Integers, Functions, FiniteSetTheorems, WellFoundedInduction, TLAPS

\* The element a sum over s takes first.
First(s) == CHOOSE x \in s : TRUE

\* g tabulates the sums of f over the subsets of S.
Adds(g, f, S) ==
  g = [s \in SUBSET S |-> IF s = {} THEN 0 ELSE f[First(s)] + g[s \ {First(s)}]]

LEMMA FirstIn == ASSUME NEW s, s # {} PROVE First(s) \in s
BY Zenon DEF First

LEMMA SmallestSubset ==
  ASSUME NEW D, IsFiniteSet(D), NEW T \in SUBSET SUBSET D, T # {}
  PROVE  \E m \in T : \A s \in T : s \subseteq m => s = m
<1>1. T \subseteq FiniteSubsetsOf(D)
  BY FS_Subset DEF FiniteSubsetsOf
<1>2. IsWellFoundedOn(StrictSubsetOrdering(D), FiniteSubsetsOf(D))
  BY FS_StrictSubsetOrderingWellFounded
<1>3. PICK m \in T : \A s \in T : ~ (<<s, m>> \in StrictSubsetOrdering(D))
  BY <1>1, <1>2, WFMin
<1>4. QED
  BY <1>3 DEF StrictSubsetOrdering

LEMMA AddsAt ==
  ASSUME NEW f, NEW S, NEW g, Adds(g, f, S), NEW s \in SUBSET S
  PROVE  /\ s = {} => g[s] = 0
         /\ s # {} => First(s) \in s /\ g[s] = f[First(s)] + g[s \ {First(s)}]
BY FirstIn DEF Adds

LEMMA AddsUnique ==
  ASSUME NEW f, NEW S, IsFiniteSet(S), NEW D \in SUBSET S,
         NEW g, Adds(g, f, S), NEW h, Adds(h, f, D)
  PROVE  \A s \in SUBSET D : g[s] = h[s]
<1> DEFINE T == {s \in SUBSET D : g[s] # h[s]}
<1> SUFFICES ASSUME T # {} PROVE FALSE
  OBVIOUS
<1>1. IsFiniteSet(D)
  BY FS_Subset
<1>0. T \in SUBSET SUBSET D
  OBVIOUS
<1>2. PICK m \in T : \A s \in T : s \subseteq m => s = m
  <2> HIDE DEF T
  <2> QED
    BY <1>0, <1>1, SmallestSubset
<1>3. /\ m = {} => g[m] = 0
      /\ m # {} => First(m) \in m /\ g[m] = f[First(m)] + g[m \ {First(m)}]
  BY AddsAt
<1>4. /\ m = {} => h[m] = 0
      /\ m # {} => First(m) \in m /\ h[m] = f[First(m)] + h[m \ {First(m)}]
  BY AddsAt
<1>5. m # {}
  BY <1>3, <1>4
<1>6. m \ {First(m)} \notin T /\ m \ {First(m)} \in SUBSET D
  BY <1>2, <1>3, <1>5
<1>7. g[m \ {First(m)}] = h[m \ {First(m)}]
  BY <1>6
<1>8. QED
  BY <1>3, <1>4, <1>5, <1>7

LEMMA AddsExists ==
  ASSUME NEW f, NEW S, IsFiniteSet(S)
  PROVE  \E g : Adds(g, f, S)
<1> DEFINE T == {s \in SUBSET S : ~ \E g : Adds(g, f, s)}
<1> SUFFICES ASSUME T # {} PROVE FALSE
  OBVIOUS
<1>0. T \in SUBSET SUBSET S
  OBVIOUS
<1>1. PICK m \in T : \A s \in T : s \subseteq m => s = m
  <2> HIDE DEF T
  <2> QED
    BY <1>0, SmallestSubset
<1> DEFINE Table(u) == CHOOSE g : Adds(g, f, u)
           G == [u \in SUBSET m |-> IF u = {} THEN 0
                                    ELSE f[First(u)] + Table(u \ {First(u)})[u \ {First(u)}]]
<1>2. ASSUME NEW u \in SUBSET m, u # m
      PROVE  Adds(Table(u), f, u)
  <2>1. \E g : Adds(g, f, u)
    BY <1>1, <1>2
  <2>2. QED
    BY <2>1, Zenon
<1>3. ASSUME NEW u \in SUBSET m, u # m
      PROVE  Table(u)[u] = G[u]
  <2>1. Adds(Table(u), f, u)
    BY <1>2, <1>3
  <2>2. CASE u = {}
    <3>1. Table(u)[u] = 0
      BY <2>1, <2>2, AddsAt
    <3>2. QED
      BY <2>2, <3>1
  <2>3. CASE u # {}
    <3> DEFINE v == u \ {First(u)}
    <3>1. First(u) \in u /\ Table(u)[u] = f[First(u)] + Table(u)[v]
      BY <2>1, <2>3, AddsAt
    <3>2. v \in SUBSET m /\ v # m /\ v \in SUBSET u
      BY <3>1
    <3>3. Adds(Table(v), f, v)
      BY <1>2, <3>2
    <3>4. IsFiniteSet(u)
      BY FS_Subset
    <3>5. Table(u)[v] = Table(v)[v]
      <4> HIDE DEF Table
      <4>1. \A s \in SUBSET v : Table(u)[s] = Table(v)[s]
        BY <2>1, <3>2, <3>3, <3>4, AddsUnique
      <4>2. QED
        BY <4>1
    <3>6. G[u] = f[First(u)] + Table(v)[v]
      BY <2>3
    <3>7. QED
      BY <3>1, <3>5, <3>6
  <2>4. QED
    BY <2>2, <2>3
<1>4. Adds(G, f, m)
  <2>1. ASSUME NEW u \in SUBSET m, u # {}
        PROVE  Table(u \ {First(u)})[u \ {First(u)}] = G[u \ {First(u)}]
    <3>1. First(u) \in u
      BY <2>1, FirstIn
    <3>2. u \ {First(u)} \in SUBSET m /\ u \ {First(u)} # m
      BY <3>1
    <3> HIDE DEF Table, G
    <3>3. QED
      BY <1>3, <3>2
  <2>2. G = [u \in SUBSET m |-> IF u = {} THEN 0
                                ELSE f[First(u)] + G[u \ {First(u)}]]
    <3> DEFINE H == [u \in SUBSET m |-> IF u = {} THEN 0
                                        ELSE f[First(u)] + G[u \ {First(u)}]]
    <3>1. \A u \in SUBSET m : G[u] = H[u]
      <4> HIDE DEF Table
      <4>1. QED
        BY <2>1
    <3>2. QED
      BY <3>1
  <2>3. QED
    BY <2>2 DEF Adds
<1>5. QED
  BY <1>4

LEMMA SumIsTable ==
  ASSUME NEW f, NEW S, NEW D \in SUBSET S, IsFiniteSet(S), NEW g, Adds(g, f, S)
  PROVE  SumFunctionOnSet(f, D) = g[D]
<1>1. SumFunctionOnSet(f, D) = (CHOOSE h : Adds(h, f, D))[D]
  BY Zenon DEF SumFunctionOnSet, FoldFunctionOnSet, Adds, First, MapThenFoldSet
<1>2. IsFiniteSet(D)
  BY FS_Subset
<1>3. \E h : Adds(h, f, D)
  BY <1>2, AddsExists
<1>4. Adds(CHOOSE h : Adds(h, f, D), f, D)
  BY <1>3, Zenon
<1>5. \A s \in SUBSET D : g[s] = (CHOOSE h : Adds(h, f, D))[s]
  BY <1>4, AddsUnique
<1>6. QED
  BY <1>1, <1>5

LEMMA SumEmpty == \A f : SumFunctionOnSet(f, {}) = 0
<1> TAKE f
<1>1. PICK g : Adds(g, f, {})
  BY AddsExists, FS_EmptySet
<1>2. QED
  BY <1>1, SumIsTable, AddsAt, FS_EmptySet

LEMMA SumFirst ==
  ASSUME NEW f, NEW S, IsFiniteSet(S), S # {}
  PROVE  /\ First(S) \in S
         /\ SumFunctionOnSet(f, S) = f[First(S)] + SumFunctionOnSet(f, S \ {First(S)})
<1>1. PICK g : Adds(g, f, S)
  BY AddsExists
<1>2. First(S) \in S /\ g[S] = f[First(S)] + g[S \ {First(S)}]
  BY <1>1, AddsAt
<1>3. SumFunctionOnSet(f, S) = g[S] /\ SumFunctionOnSet(f, S \ {First(S)}) = g[S \ {First(S)}]
  BY <1>1, SumIsTable
<1>4. QED
  BY <1>2, <1>3

LEMMA SumInt ==
  ASSUME NEW f, NEW S, IsFiniteSet(S), \A x \in S : f[x] \in Int
  PROVE  SumFunctionOnSet(f, S) \in Int
<1> DEFINE T == {s \in SUBSET S : SumFunctionOnSet(f, s) \notin Int}
<1> SUFFICES ASSUME T # {} PROVE FALSE
  OBVIOUS
<1>0. T \in SUBSET SUBSET S
  OBVIOUS
<1>1. PICK m \in T : \A s \in T : s \subseteq m => s = m
  <2> HIDE DEF T
  <2> QED
    BY <1>0, SmallestSubset
<1>2. m # {}
  BY SumEmpty
<1>3. First(m) \in m /\ SumFunctionOnSet(f, m) = f[First(m)] + SumFunctionOnSet(f, m \ {First(m)})
  BY <1>2, SumFirst, FS_Subset
<1>4. m \ {First(m)} \notin T /\ m \ {First(m)} \in SUBSET S
  BY <1>1, <1>3
<1>5. SumFunctionOnSet(f, m \ {First(m)}) \in Int
  BY <1>4
<1>6. QED
  BY <1>3, <1>5

LEMMA SumRemove ==
  ASSUME NEW f, NEW S, IsFiniteSet(S), \A x \in S : f[x] \in Int
  PROVE  \A x \in S : SumFunctionOnSet(f, S) = f[x] + SumFunctionOnSet(f, S \ {x})
<1> DEFINE Falls(s, x) == SumFunctionOnSet(f, s) # f[x] + SumFunctionOnSet(f, s \ {x})
           T == {s \in SUBSET S : \E x \in s : Falls(s, x)}
<1> SUFFICES ASSUME T # {} PROVE FALSE
  <2>1. S \in SUBSET S
    OBVIOUS
  <2>2. QED
    BY <2>1
<1>0. T \in SUBSET SUBSET S
  OBVIOUS
<1>1. PICK m \in T : \A s \in T : s \subseteq m => s = m
  <2> HIDE DEF T
  <2> QED
    BY <1>0, SmallestSubset
<1>2. m \in SUBSET S /\ \E x \in m : Falls(m, x)
  OBVIOUS
<1>3. PICK x \in m : Falls(m, x)
  BY <1>2
<1>4. PICK c \in m : SumFunctionOnSet(f, m) = f[c] + SumFunctionOnSet(f, m \ {c})
  <2>1. IsFiniteSet(m) /\ m # {}
    BY <1>2, FS_Subset
  <2>2. QED
    BY <2>1, SumFirst
<1>5. c # x
  BY <1>3, <1>4
<1>6. ASSUME NEW y \in m, NEW z \in m, y # z
      PROVE  SumFunctionOnSet(f, m \ {y}) = f[z] + SumFunctionOnSet(f, (m \ {y}) \ {z})
  <2>1. m \ {y} \notin T
    BY <1>1
  <2>2. m \ {y} \in SUBSET S /\ z \in m \ {y}
    BY <1>2, <1>6
  <2>3. ~ Falls(m \ {y}, z)
    <3> HIDE DEF Falls
    <3> QED
      BY <2>1, <2>2
  <2>4. QED
    BY <2>3
<1>7. SumFunctionOnSet(f, m \ {c}) = f[x] + SumFunctionOnSet(f, (m \ {c}) \ {x})
  BY <1>5, <1>6
<1>8. SumFunctionOnSet(f, m \ {x}) = f[c] + SumFunctionOnSet(f, (m \ {x}) \ {c})
  BY <1>5, <1>6
<1>9. (m \ {c}) \ {x} = (m \ {x}) \ {c}
  OBVIOUS
<1>10. /\ f[x] \in Int /\ f[c] \in Int
       /\ SumFunctionOnSet(f, (m \ {x}) \ {c}) \in Int
  <2>1. IsFiniteSet((m \ {x}) \ {c})
    BY <1>2, FS_Subset
  <2>2. QED
    BY <1>2, <2>1, SumInt
<1>11. PICK r \in Int : SumFunctionOnSet(f, m \ {c}) = f[x] + r /\ SumFunctionOnSet(f, m \ {x}) = f[c] + r
  BY <1>7, <1>8, <1>9, <1>10
<1>12. SumFunctionOnSet(f, m) = f[c] + (f[x] + r)
  BY <1>4, <1>11
<1>13. SumFunctionOnSet(f, m) = f[x] + SumFunctionOnSet(f, m \ {x})
  BY <1>10, <1>11, <1>12
<1>14. QED
  BY <1>3, <1>13

LEMMA SumAgree ==
  ASSUME NEW f, NEW g, NEW S, IsFiniteSet(S), \A x \in S : f[x] = g[x]
  PROVE  SumFunctionOnSet(f, S) = SumFunctionOnSet(g, S)
<1> DEFINE T == {s \in SUBSET S : SumFunctionOnSet(f, s) # SumFunctionOnSet(g, s)}
<1> SUFFICES ASSUME T # {} PROVE FALSE
  OBVIOUS
<1>0. T \in SUBSET SUBSET S
  OBVIOUS
<1>1. PICK m \in T : \A s \in T : s \subseteq m => s = m
  <2> HIDE DEF T
  <2> QED
    BY <1>0, SmallestSubset
<1>2. m # {}
  BY SumEmpty
<1>3. /\ First(m) \in m
      /\ SumFunctionOnSet(f, m) = f[First(m)] + SumFunctionOnSet(f, m \ {First(m)})
      /\ SumFunctionOnSet(g, m) = g[First(m)] + SumFunctionOnSet(g, m \ {First(m)})
  BY <1>2, SumFirst, FS_Subset
<1>4. m \ {First(m)} \notin T /\ m \ {First(m)} \in SUBSET S
  BY <1>1, <1>3
<1>5. SumFunctionOnSet(f, m \ {First(m)}) = SumFunctionOnSet(g, m \ {First(m)})
  BY <1>4
<1>6. QED
  BY <1>3, <1>5

\* A sum whose terms change at one place only.
LEMMA SumChange ==
  ASSUME NEW f, NEW g, NEW S, IsFiniteSet(S), NEW x \in S,
         \A y \in S : f[y] \in Int, g[x] \in Int,
         \A y \in S : y # x => f[y] = g[y]
  PROVE  SumFunctionOnSet(g, S) = SumFunctionOnSet(f, S) + (g[x] - f[x])
<1>1. \A y \in S : g[y] \in Int
  OBVIOUS
<1>2. IsFiniteSet(S \ {x})
  BY FS_Subset
<1>3. SumFunctionOnSet(f, S) = f[x] + SumFunctionOnSet(f, S \ {x})
  BY SumRemove
<1>4. SumFunctionOnSet(g, S) = g[x] + SumFunctionOnSet(g, S \ {x})
  BY <1>1, SumRemove
<1>5. SumFunctionOnSet(f, S \ {x}) = SumFunctionOnSet(g, S \ {x}) /\ SumFunctionOnSet(f, S \ {x}) \in Int
  BY <1>2, SumAgree, SumInt
<1>6. QED
  BY <1>3, <1>4, <1>5

\* A sum that gets one more term.
LEMMA SumAdd ==
  ASSUME NEW f, NEW S, IsFiniteSet(S), NEW x, x \notin S,
         \A y \in S \cup {x} : f[y] \in Int
  PROVE  SumFunctionOnSet(f, S \cup {x}) = SumFunctionOnSet(f, S) + f[x]
<1>1. IsFiniteSet(S \cup {x}) /\ (S \cup {x}) \ {x} = S
  BY FS_AddElement
<1>2. SumFunctionOnSet(f, S \cup {x}) = f[x] + SumFunctionOnSet(f, S)
  BY <1>1, SumRemove
<1>3. QED
  BY <1>2, SumInt

LEMMA SumOne ==
  ASSUME NEW f, NEW x, f[x] \in Int
  PROVE  SumFunctionOnSet(f, {x}) = f[x]
<1>1. {x} = {} \cup {x} /\ x \notin {}
  OBVIOUS
<1>2. SumFunctionOnSet(f, {} \cup {x}) = SumFunctionOnSet(f, {}) + f[x]
  BY FS_EmptySet, SumAdd
<1>3. QED
  BY <1>1, <1>2, SumEmpty

\* Terms that are not negative.
LEMMA SumNat ==
  ASSUME NEW f, NEW S, IsFiniteSet(S), \A x \in S : f[x] \in Nat
  PROVE  SumFunctionOnSet(f, S) \in Nat
<1> DEFINE T == {s \in SUBSET S : SumFunctionOnSet(f, s) \notin Nat}
<1> SUFFICES ASSUME T # {} PROVE FALSE
  OBVIOUS
<1>0. T \in SUBSET SUBSET S
  OBVIOUS
<1>1. PICK m \in T : \A s \in T : s \subseteq m => s = m
  <2> HIDE DEF T
  <2> QED
    BY <1>0, SmallestSubset
<1>2. m # {}
  BY SumEmpty
<1>3. First(m) \in m /\ SumFunctionOnSet(f, m) = f[First(m)] + SumFunctionOnSet(f, m \ {First(m)})
  BY <1>2, SumFirst, FS_Subset
<1>4. m \ {First(m)} \notin T /\ m \ {First(m)} \in SUBSET S
  BY <1>1, <1>3
<1>5. QED
  BY <1>3, <1>4

LEMMA SumZero ==
  ASSUME NEW f, NEW S, IsFiniteSet(S), \A x \in S : f[x] = 0
  PROVE  SumFunctionOnSet(f, S) = 0
<1> DEFINE T == {s \in SUBSET S : SumFunctionOnSet(f, s) # 0}
<1> SUFFICES ASSUME T # {} PROVE FALSE
  OBVIOUS
<1>0. T \in SUBSET SUBSET S
  OBVIOUS
<1>1. PICK m \in T : \A s \in T : s \subseteq m => s = m
  <2> HIDE DEF T
  <2> QED
    BY <1>0, SmallestSubset
<1>2. m # {}
  BY SumEmpty
<1>3. First(m) \in m /\ SumFunctionOnSet(f, m) = f[First(m)] + SumFunctionOnSet(f, m \ {First(m)})
  BY <1>2, SumFirst, FS_Subset
<1>4. m \ {First(m)} \notin T /\ m \ {First(m)} \in SUBSET S
  BY <1>1, <1>3
<1>5. QED
  BY <1>3, <1>4

\* The terms of two sums, added.
LEMMA SumPlus ==
  ASSUME NEW f, NEW g, NEW h, NEW S, IsFiniteSet(S),
         \A x \in S : f[x] \in Int /\ g[x] \in Int /\ h[x] = f[x] + g[x]
  PROVE  SumFunctionOnSet(h, S) = SumFunctionOnSet(f, S) + SumFunctionOnSet(g, S)
<1> DEFINE Fails(s) ==
             SumFunctionOnSet(h, s) # SumFunctionOnSet(f, s) + SumFunctionOnSet(g, s)
           T == {s \in SUBSET S : Fails(s)}
<1> SUFFICES ASSUME T # {} PROVE FALSE
  OBVIOUS
<1>0. T \in SUBSET SUBSET S
  OBVIOUS
<1>1. PICK m \in T : \A s \in T : s \subseteq m => s = m
  <2> HIDE DEF T
  <2> QED
    BY <1>0, SmallestSubset
<1>2. m # {}
  <2> SUFFICES ASSUME m = {} PROVE FALSE
    OBVIOUS
  <2>1. /\ SumFunctionOnSet(h, m) = 0 /\ SumFunctionOnSet(f, m) = 0
        /\ SumFunctionOnSet(g, m) = 0
    BY SumEmpty
  <2>2. Fails(m)
    OBVIOUS
  <2>3. QED
    BY <2>1, <2>2
<1>3. PICK c \in m :
        /\ SumFunctionOnSet(h, m) = h[c] + SumFunctionOnSet(h, m \ {c})
        /\ SumFunctionOnSet(f, m) = f[c] + SumFunctionOnSet(f, m \ {c})
        /\ SumFunctionOnSet(g, m) = g[c] + SumFunctionOnSet(g, m \ {c})
  <2>1. IsFiniteSet(m)
    BY FS_Subset
  <2>2. QED
    BY <1>2, <2>1, SumFirst
<1>4. m \ {c} \notin T /\ m \ {c} \in SUBSET S
  BY <1>1, <1>3
<1>5. ~ Fails(m \ {c})
  <2> HIDE DEF Fails
  <2> QED
    BY <1>4
<1>6. IsFiniteSet(m \ {c})
  BY <1>4, FS_Subset
<1>7. PICK p \in Int, q \in Int :
        p = SumFunctionOnSet(f, m \ {c}) /\ q = SumFunctionOnSet(g, m \ {c})
  BY <1>4, <1>6, SumInt
<1>8. SumFunctionOnSet(h, m) = (f[c] + g[c]) + (p + q)
  BY <1>3, <1>5, <1>7
<1>9. SumFunctionOnSet(f, m) = f[c] + p /\ SumFunctionOnSet(g, m) = g[c] + q
  BY <1>3, <1>7
<1>10. f[c] \in Int /\ g[c] \in Int
  BY <1>4
<1>11. Fails(m)
  OBVIOUS
<1>12. QED
  BY <1>7, <1>8, <1>9, <1>10, <1>11

-----------------------------------------------------------------------------
(* The same for the sum of all of a function's values. *)

LEMMA SumAll ==
  ASSUME NEW S, NEW f \in [S -> Int]
  PROVE  SumFunction(f) = SumFunctionOnSet(f, S)
BY DEF SumFunction

LEMMA SumFunctionInt ==
  ASSUME NEW S, IsFiniteSet(S), NEW f \in [S -> Int]
  PROVE  SumFunction(f) \in Int
BY SumAll, SumInt

\* No value, and one.
LEMMA SumSmall ==
  /\ \A f \in [{} -> Int] : SumFunction(f) = 0
  /\ \A x : \A f \in [{x} -> Int] : SumFunction(f) = f[x]
<1>1. ASSUME NEW f \in [{} -> Int]
      PROVE  SumFunction(f) = 0
  BY <1>1, SumAll, SumEmpty
<1>2. ASSUME NEW x, NEW f \in [{x} -> Int]
      PROVE  SumFunction(f) = f[x]
  BY <1>2, SumAll, SumOne
<1>3. QED
  BY <1>1, <1>2

\* One value changes.
LEMMA SumMoves ==
  ASSUME NEW S, IsFiniteSet(S), NEW f \in [S -> Int], NEW g \in [S -> Int], NEW x \in S,
         \A y \in S : y # x => f[y] = g[y]
  PROVE  SumFunction(g) = SumFunction(f) + (g[x] - f[x])
<1>1. SumFunction(f) = SumFunctionOnSet(f, S) /\ SumFunction(g) = SumFunctionOnSet(g, S)
  BY SumAll
<1>2. SumFunctionOnSet(g, S) = SumFunctionOnSet(f, S) + (g[x] - f[x])
  BY SumChange
<1>3. QED
  BY <1>1, <1>2

\* Every value with the other sign.
LEMMA SumMinus ==
  ASSUME NEW S, IsFiniteSet(S), NEW v \in [S -> Int], NEW w \in [S -> Int],
         \A r \in S : w[r] = 0 - v[r]
  PROVE  SumFunction(w) = 0 - SumFunction(v)
<1>1. SumFunction(v) = SumFunctionOnSet(v, S) /\ SumFunction(w) = SumFunctionOnSet(w, S)
  BY SumAll
<1> DEFINE none == [r \in S |-> 0]
<1>2. \A r \in S : none[r] = 0 /\ v[r] \in Int /\ w[r] \in Int /\ none[r] = v[r] + w[r]
  OBVIOUS
<1> HIDE DEF none
<1>3. SumFunctionOnSet(none, S) = SumFunctionOnSet(v, S) + SumFunctionOnSet(w, S)
  BY <1>2, SumPlus
<1>4. SumFunctionOnSet(none, S) = 0
  BY <1>2, SumZero
<1>5. SumFunction(v) \in Int /\ SumFunction(w) \in Int
  BY SumFunctionInt
<1>6. QED
  BY <1>1, <1>3, <1>4, <1>5

\* One value more.
LEMMA SumGrows ==
  ASSUME NEW S, IsFiniteSet(S), NEW x, x \notin S, NEW T, T = S \cup {x},
         NEW f \in [S -> Int], NEW g \in [T -> Int],
         \A y \in S : f[y] = g[y]
  PROVE  SumFunction(g) = SumFunction(f) + g[x]
<1>1. SumFunction(f) = SumFunctionOnSet(f, S)
  BY SumAll
<1>2. SumFunction(g) = SumFunctionOnSet(g, S \cup {x})
  BY SumAll
<1>3. SumFunctionOnSet(f, S) = SumFunctionOnSet(g, S)
  BY SumAgree
<1>4. SumFunctionOnSet(g, S \cup {x}) = SumFunctionOnSet(g, S) + g[x]
  BY SumAdd
<1>5. QED
  BY <1>1, <1>2, <1>3, <1>4

\* A sum, grouped by a key of its terms.
LEMMA SumGroups ==
  ASSUME NEW S, IsFiniteSet(S), NEW R, IsFiniteSet(R),
         NEW f, \A x \in S : f[x] \in Int, NEW key \in [S -> R]
  PROVE  SumFunctionOnSet(f, S)
           = SumFunction([r \in R |-> SumFunctionOnSet(f, {x \in S : key[x] = r})])
<1> DEFINE Group(s, r) == {x \in s : key[x] = r}
           Groups(s) == [r \in R |-> SumFunctionOnSet(f, Group(s, r))]
           T == {s \in SUBSET S : SumFunctionOnSet(f, s) # SumFunction(Groups(s))}
<1>0. S \in SUBSET S
  OBVIOUS
<1> SUFFICES ASSUME T # {} PROVE FALSE
  <2> SUFFICES T = {} => SumFunctionOnSet(f, S) = SumFunction(Groups(S))
    OBVIOUS
  <2> HIDE DEF Groups
  <2> QED
    BY <1>0
<1>1. T \in SUBSET SUBSET S
  OBVIOUS
<1>2. PICK m \in T : \A s \in T : s \subseteq m => s = m
  <2> HIDE DEF T
  <2> QED
    BY <1>1, SmallestSubset
<1>3. m \in SUBSET S
  OBVIOUS
<1>4. ASSUME NEW s \in SUBSET S
      PROVE  /\ IsFiniteSet(s)
             /\ \A r \in R : IsFiniteSet(Group(s, r))
             /\ Groups(s) \in [R -> Int]
  <2>1. IsFiniteSet(s)
    BY FS_Subset
  <2>2. ASSUME NEW r \in R
        PROVE  IsFiniteSet(Group(s, r)) /\ SumFunctionOnSet(f, Group(s, r)) \in Int
    <3>1. Group(s, r) \in SUBSET S
      OBVIOUS
    <3>2. \A x \in Group(s, r) : f[x] \in Int
      OBVIOUS
    <3> HIDE DEF Group
    <3>3. IsFiniteSet(Group(s, r))
      BY <3>1, FS_Subset
    <3>4. QED
      BY <3>2, <3>3, SumInt
  <2>3. QED
    BY <2>1, <2>2
<1>5. m # {}
  <2> SUFFICES ASSUME m = {} PROVE FALSE
    OBVIOUS
  <2>1. SumFunctionOnSet(f, m) = 0
    BY SumEmpty
  <2>2. \A r \in R : Groups(m)[r] = 0
    <3>1. \A r \in R : Group(m, r) = {}
      OBVIOUS
    <3> HIDE DEF Group
    <3>2. QED
      BY <3>1, SumEmpty
  <2>3. SumFunction(Groups(m)) = SumFunctionOnSet(Groups(m), R)
    <3> HIDE DEF Groups
    <3> QED
      BY <1>3, <1>4, SumAll
  <2>4. SumFunctionOnSet(Groups(m), R) = 0
    <3> HIDE DEF Groups
    <3> QED
      BY <2>2, SumZero
  <2>5. SumFunctionOnSet(f, m) # SumFunction(Groups(m))
    OBVIOUS
  <2> HIDE DEF Groups
  <2>6. QED
    BY <2>1, <2>3, <2>4, <2>5
<1>6. PICK x \in m : TRUE
  BY <1>5
<1> DEFINE rest == m \ {x}
<1>7. rest \in SUBSET S /\ rest \notin T
  BY <1>2, <1>3
<1>8. SumFunctionOnSet(f, rest) = SumFunction(Groups(rest))
  <2> HIDE DEF Groups, rest
  <2> QED
    BY <1>7
<1>9. SumFunctionOnSet(f, m) = f[x] + SumFunctionOnSet(f, rest)
  BY <1>3, <1>4, SumRemove
<1> DEFINE k == key[x]
<1>10. k \in R /\ f[x] \in Int
  BY <1>3
<1>11. Groups(m)[k] = Groups(rest)[k] + f[x]
  <2>1. x \in Group(m, k) /\ Group(rest, k) = Group(m, k) \ {x}
    BY <1>3
  <2>2. \A y \in Group(m, k) : f[y] \in Int
    BY <1>3
  <2>3. IsFiniteSet(Group(m, k)) /\ IsFiniteSet(Group(rest, k))
    BY <1>3, <1>4, <1>7, <1>10
  <2>4. \A y \in Group(rest, k) : f[y] \in Int
    BY <1>7
  <2> DEFINE whole == Group(m, k)
  <2> HIDE DEF Group, k
  <2>5. SumFunctionOnSet(f, Group(m, k)) = f[x] + SumFunctionOnSet(f, Group(rest, k))
    <3>1. x \in whole /\ IsFiniteSet(whole) /\ \A y \in whole : f[y] \in Int
      BY <2>1, <2>2, <2>3
    <3> HIDE DEF whole
    <3>2. SumFunctionOnSet(f, whole) = f[x] + SumFunctionOnSet(f, whole \ {x})
      BY <3>1, SumRemove
    <3>3. QED
      BY <2>1, <3>2 DEF whole
  <2>6. SumFunctionOnSet(f, Group(rest, k)) \in Int
    BY <2>3, <2>4, SumInt
  <2>7. QED
    BY <1>10, <2>5, <2>6
<1>12. ASSUME NEW r \in R, r # k
       PROVE  Groups(m)[r] = Groups(rest)[r]
  <2>1. Group(m, r) = Group(rest, r)
    BY <1>3, <1>12
  <2> HIDE DEF Group
  <2>2. QED
    BY <2>1
<1>13. Groups(m) \in [R -> Int] /\ Groups(rest) \in [R -> Int]
  <2> HIDE DEF Groups, rest
  <2> QED
    BY <1>3, <1>4, <1>7
<1>14. SumFunctionOnSet(f, m) # SumFunction(Groups(m))
  OBVIOUS
<1>15. SumFunction(Groups(rest)) \in Int
  <2> HIDE DEF Groups, rest
  <2> QED
    BY <1>13, SumFunctionInt
<1> HIDE DEF Groups, rest, k
<1>16. SumFunction(Groups(m)) = SumFunction(Groups(rest)) + (Groups(m)[k] - Groups(rest)[k])
  BY <1>10, <1>12, <1>13, SumMoves
<1>17. Groups(m)[k] \in Int /\ Groups(rest)[k] \in Int
  BY <1>10, <1>13
<1>18. QED
  BY <1>8, <1>9, <1>10, <1>11, <1>14, <1>15, <1>16, <1>17

\* A sum of which one term counts.
LEMMA SumSingle ==
  ASSUME NEW f, NEW S, IsFiniteSet(S), NEW x \in S, f[x] \in Int,
         \A y \in S : y # x => f[y] = 0
  PROVE  SumFunctionOnSet(f, S) = f[x]
<1>1. \A y \in S : f[y] \in Int
  OBVIOUS
<1>2. SumFunctionOnSet(f, S) = f[x] + SumFunctionOnSet(f, S \ {x})
  BY <1>1, SumRemove
<1> DEFINE rest == S \ {x}
<1>3. IsFiniteSet(rest) /\ \A y \in rest : f[y] = 0
  BY FS_Subset
<1> HIDE DEF rest
<1>4. SumFunctionOnSet(f, rest) = 0
  BY <1>3, SumZero
<1>5. QED
  BY <1>2, <1>4 DEF rest

\* The terms g over T are the terms f over S and, if it joins, one of x.
Joins(g, T, f, S, x, joins) ==
  /\ IsFiniteSet(S) /\ x \notin S /\ joins \in BOOLEAN
  /\ T = IF joins THEN S \cup {x} ELSE S
  /\ f \in [S -> Int] /\ g \in [T -> Int] /\ \A y \in S : g[y] = f[y]

\* The terms g over T are the terms f over S without that of x.
Leaves(g, T, f, S, x) ==
  /\ IsFiniteSet(S) /\ T = S \ {x}
  /\ f \in [S -> Int] /\ g \in [T -> Int] /\ \A y \in T : g[y] = f[y]

LEMMA SumJoins ==
  ASSUME NEW g, NEW T, NEW f, NEW S, NEW x, NEW joins, Joins(g, T, f, S, x, joins)
  PROVE  /\ SumFunction(g) = SumFunction(f) + (IF joins THEN g[x] ELSE 0)
         /\ SumFunction(f) \in Int
<1> USE DEF Joins
<1>1. SumFunction(f) = SumFunctionOnSet(f, S) /\ SumFunction(g) = SumFunctionOnSet(g, T)
  BY SumAll
<1>2. SumFunctionOnSet(g, S) = SumFunctionOnSet(f, S)
  BY SumAgree
<1>3. SumFunction(f) \in Int
  BY SumFunctionInt
<1>4. CASE joins
  <2>1. \A y \in S \cup {x} : g[y] \in Int
    BY <1>4
  <2>2. SumFunctionOnSet(g, S \cup {x}) = SumFunctionOnSet(g, S) + g[x]
    BY <2>1, SumAdd
  <2>3. QED
    BY <1>1, <1>2, <1>3, <1>4, <2>2
<1>5. CASE ~ joins
  BY <1>1, <1>2, <1>3, <1>5
<1>6. QED
  BY <1>4, <1>5

LEMMA SumLeaves ==
  ASSUME NEW g, NEW T, NEW f, NEW S, NEW x, Leaves(g, T, f, S, x)
  PROVE  /\ SumFunction(g) = SumFunction(f) - (IF x \in S THEN f[x] ELSE 0)
         /\ SumFunction(f) \in Int
<1> USE DEF Leaves
<1>1. SumFunction(f) = SumFunctionOnSet(f, S) /\ SumFunction(g) = SumFunctionOnSet(g, T)
  BY SumAll
<1>2. IsFiniteSet(T)
  BY FS_Subset
<1>3. SumFunctionOnSet(g, T) = SumFunctionOnSet(f, T) /\ SumFunction(g) \in Int
  BY <1>2, SumAgree, SumFunctionInt
<1>4. SumFunction(f) \in Int
  BY SumFunctionInt
<1>5. CASE x \in S
  <2>1. SumFunctionOnSet(f, S) = f[x] + SumFunctionOnSet(f, S \ {x}) /\ f[x] \in Int
    BY <1>5, SumRemove
  <2>2. QED
    BY <1>1, <1>3, <1>4, <1>5, <2>1
<1>6. CASE x \notin S
  <2>1. T = S
    BY <1>6
  <2>2. QED
    BY <1>1, <1>3, <1>4, <1>6, <2>1
<1>7. QED
  BY <1>5, <1>6

\* Terms that are zero do not count.
LEMMA SumSupport ==
  ASSUME NEW S, IsFiniteSet(S), NEW A \in SUBSET S, NEW f, NEW h,
         \A x \in A : f[x] \in Int /\ h[x] = f[x],
         \A x \in S \ A : h[x] = 0
  PROVE  SumFunctionOnSet(h, S) = SumFunctionOnSet(f, A)
<1> DEFINE Fails(s) == SumFunctionOnSet(h, s) # SumFunctionOnSet(f, s \cap A)
           T == {s \in SUBSET S : Fails(s)}
<1> SUFFICES ASSUME T # {} PROVE FALSE
  <2>1. ~ Fails(S)
    OBVIOUS
  <2>2. S \cap A = A
    OBVIOUS
  <2>3. QED
    BY <2>1, <2>2
<1>0. T \in SUBSET SUBSET S
  OBVIOUS
<1>1. PICK m \in T : \A s \in T : s \subseteq m => s = m
  <2> HIDE DEF T
  <2> QED
    BY <1>0, SmallestSubset
<1>2. IsFiniteSet(m) /\ m \in SUBSET S /\ Fails(m) /\ IsFiniteSet(m \cap A)
  <2>1. m \in SUBSET S /\ Fails(m) /\ m \cap A \in SUBSET S
    OBVIOUS
  <2>2. QED
    BY <2>1, FS_Subset
<1>3. m # {}
  <2>1. {} \cap A = {} /\ SumFunctionOnSet(h, {}) = 0 /\ SumFunctionOnSet(f, {}) = 0
    BY SumEmpty
  <2>2. QED
    BY <1>2, <2>1
<1> DEFINE x == First(m)
           rest == m \ {x}
<1>4. x \in m /\ SumFunctionOnSet(h, m) = h[x] + SumFunctionOnSet(h, rest)
  BY <1>2, <1>3, SumFirst
<1>5. ~ Fails(rest)
  <2>1. rest \in SUBSET S /\ rest \subseteq m /\ rest # m
    BY <1>2, <1>4
  <2>2. QED
    BY <1>1, <2>1
<1> HIDE DEF x
<1>6. CASE x \in A
  <2>1. x \in m \cap A /\ (m \cap A) \ {x} = rest \cap A /\ \A y \in m \cap A : f[y] \in Int
    BY <1>4, <1>6
  <2>2. SumFunctionOnSet(f, m \cap A) = f[x] + SumFunctionOnSet(f, (m \cap A) \ {x})
    BY <1>2, <2>1, SumRemove
  <2>3. QED
    BY <1>2, <1>4, <1>5, <1>6, <2>1, <2>2
<1>7. CASE x \notin A
  <2>1. m \cap A = rest \cap A /\ h[x] = 0
    BY <1>2, <1>4, <1>7
  <2>2. IsFiniteSet(rest \cap A) /\ \A y \in rest \cap A : f[y] \in Int
    BY <1>2, <2>1
  <2>3. SumFunctionOnSet(f, rest \cap A) \in Int
    BY <2>2, SumInt
  <2>4. SumFunctionOnSet(h, rest) = SumFunctionOnSet(f, rest \cap A)
    BY <1>5
  <2>5. SumFunctionOnSet(h, m) = SumFunctionOnSet(f, m \cap A)
    <3> HIDE DEF rest
    <3>1. PICK u : u = SumFunctionOnSet(h, rest)
      OBVIOUS
    <3>2. u \in Int /\ u = SumFunctionOnSet(f, m \cap A)
      BY <2>1, <2>3, <2>4, <3>1
    <3>3. SumFunctionOnSet(h, m) = 0 + u
      BY <1>4, <2>1, <3>1, Zenon
    <3>4. QED
      BY <3>2, <3>3
  <2>6. QED
    BY <1>2, <2>5
<1>8. QED
  BY <1>6, <1>7

\* Some of the terms grow.
LEMMA SumPart ==
  ASSUME NEW S, IsFiniteSet(S), NEW A \in SUBSET S, NEW f, NEW h, NEW g,
         \A x \in S : f[x] \in Int, \A x \in A : h[x] \in Int,
         \A x \in S : g[x] = IF x \in A THEN f[x] + h[x] ELSE f[x]
  PROVE  /\ SumFunctionOnSet(g, S) = SumFunctionOnSet(f, S) + SumFunctionOnSet(h, A)
         /\ SumFunctionOnSet(f, S) \in Int /\ SumFunctionOnSet(h, A) \in Int
<1> DEFINE grown == [x \in S |-> IF x \in A THEN h[x] ELSE 0]
<1>1. /\ \A x \in A : h[x] \in Int /\ grown[x] = h[x]
      /\ \A x \in S \ A : grown[x] = 0
  OBVIOUS
<1>2. \A x \in S : f[x] \in Int /\ grown[x] \in Int /\ g[x] = f[x] + grown[x]
  OBVIOUS
<1> HIDE DEF grown
<1>3. SumFunctionOnSet(g, S) = SumFunctionOnSet(f, S) + SumFunctionOnSet(grown, S)
  BY <1>2, SumPlus
<1>4. SumFunctionOnSet(grown, S) = SumFunctionOnSet(h, A)
  BY <1>1, SumSupport
<1>5. SumFunctionOnSet(f, S) \in Int /\ SumFunctionOnSet(h, A) \in Int
  BY FS_Subset, SumInt
<1>6. QED
  BY <1>3, <1>4, <1>5

=============================================================================
