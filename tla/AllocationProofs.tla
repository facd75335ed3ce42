-------------------------- MODULE AllocationProofs --------------------------
(***************************************************************************)
(* For any batteries, circuits, powers and charges: what compute_targets   *)
(* returns is within the bounds of every battery and within the cap of     *)
(* every circuit, in every state of the control loop.                      *)
(***************************************************************************)
EXTENDS Allocation, FiniteSetTheorems, WellFoundedInduction, TLAPS

-----------------------------------------------------------------------------
(***************************************************************************)
(* Sums over finite sets.  A fold is a recursive function on the subsets   *)
(* of its set; what it computes is shown at the smallest subset for which  *)
(* it might fail.                                                          *)
(***************************************************************************)
Chosen(s)     == CHOOSE x \in s : TRUE
Adds(g, f, U) ==
    g = [s \in SUBSET U |-> IF s = {} THEN 0 ELSE f[Chosen(s)] + g[s \ {Chosen(s)}]]

LEMMA TotalIsFold ==
    ASSUME NEW f, NEW S
    PROVE  Total(f, S) = (CHOOSE g : Adds(g, f, S))[S]
BY DEF Total, SumFunctionOnSet, FoldFunctionOnSet, MapThenFoldSet, Adds, Chosen

\* Of a set of parts of a finite set, one is smallest.
LEMMA SmallestPart ==
    ASSUME NEW S, IsFiniteSet(S), NEW B, B \subseteq SUBSET S, B # {}
    PROVE  \E T \in B : \A x \in T : T \ {x} \notin B
<1>1. B \subseteq FiniteSubsetsOf(S)
  BY FS_Subset DEF FiniteSubsetsOf
<1>2. PICK T \in B : \A U \in B : ~(<<U, T>> \in StrictSubsetOrdering(S))
  BY <1>1, WFMin, FS_StrictSubsetOrderingWellFounded
<1>3. ASSUME NEW x \in T, T \ {x} \in B PROVE FALSE
  BY <1>2, <1>3 DEF StrictSubsetOrdering
<1>4. QED
  BY <1>3

LEMMA ChosenIn == ASSUME NEW s, s # {} PROVE Chosen(s) \in s
BY DEF Chosen

LEMMA AddsAt ==
    ASSUME NEW f, NEW g, NEW U, Adds(g, f, U), NEW s \in SUBSET U
    PROVE  /\ s = {} => g[s] = 0
           /\ s # {} => g[s] = f[Chosen(s)] + g[s \ {Chosen(s)}]
BY DEF Adds

LEMMA AddsUnique ==
    ASSUME NEW f, NEW U, NEW V, IsFiniteSet(U), NEW g, NEW h, Adds(g, f, U), Adds(h, f, V),
           NEW s \in SUBSET U, s \subseteq V
    PROVE  g[s] = h[s]
<1> DEFINE B == {t \in SUBSET U : t \subseteq V /\ g[t] # h[t]}
<1>1. SUFFICES ASSUME B # {} PROVE FALSE
  OBVIOUS
<1>2. PICK t \in B : \A x \in t : t \ {x} \notin B
  <2>1. B \subseteq SUBSET U
    OBVIOUS
  <2> HIDE DEF B
  <2>2. QED
    BY <1>1, <2>1, SmallestPart
<1>3. t # {}
  BY <1>2, AddsAt
<1>4. g[t \ {Chosen(t)}] = h[t \ {Chosen(t)}]
  BY <1>2, <1>3, ChosenIn
<1>5. g[t] = f[Chosen(t)] + g[t \ {Chosen(t)}] /\ h[t] = f[Chosen(t)] + h[t \ {Chosen(t)}]
  BY <1>2, <1>3, AddsAt
<1>6. QED
  BY <1>2, <1>4, <1>5

LEMMA AddsExists ==
    ASSUME NEW f, NEW S, IsFiniteSet(S)
    PROVE  \E g : Adds(g, f, S)
<1> DEFINE B == {T \in SUBSET S : ~ \E g : Adds(g, f, T)}
<1>1. SUFFICES ASSUME B # {} PROVE FALSE
  OBVIOUS
<1>2. PICK T \in B : \A x \in T : T \ {x} \notin B
  <2>1. B \subseteq SUBSET S
    OBVIOUS
  <2> HIDE DEF B
  <2>2. QED
    BY <1>1, <2>1, SmallestPart
<1>3. IsFiniteSet(T) /\ T \in SUBSET S
  BY <1>2, FS_Subset
<1> DEFINE G(x) == CHOOSE g : Adds(g, f, T \ {x})
           h == [s \in SUBSET T |-> IF s = {} THEN 0
                                    ELSE f[Chosen(s)] + G(Chosen(s))[s \ {Chosen(s)}]]
<1>4. \A x \in T : Adds(G(x), f, T \ {x})
  <2> TAKE x \in T
  <2>1. \E g : Adds(g, f, T \ {x})
    BY <1>2, <1>3
  <2>2. QED
    BY <2>1
<1> HIDE DEF G
<1>5. ASSUME NEW s \in SUBSET T, s # {}
      PROVE  h[s \ {Chosen(s)}] = G(Chosen(s))[s \ {Chosen(s)}]
  <2> DEFINE c == Chosen(s)
             u == s \ {c}
             d == Chosen(u)
  <2>1. c \in s /\ c \in T /\ u \in SUBSET T /\ u \in SUBSET (T \ {c})
    BY <1>5, ChosenIn
  <2>2. Adds(G(c), f, T \ {c})
    BY <1>4, <2>1
  <2>3. CASE u = {}
    BY <2>1, <2>2, <2>3, AddsAt
  <2>4. CASE u # {}
    <3>1. d \in u /\ d \in T
      BY <2>4, ChosenIn
    <3>2. h[u] = f[d] + G(d)[u \ {d}]
      BY <2>1, <2>4
    <3>3. G(c)[u] = f[d] + G(c)[u \ {d}]
      <4>1. \A w \in SUBSET (T \ {c}) : w # {} => G(c)[w] = f[Chosen(w)] + G(c)[w \ {Chosen(w)}]
        BY <2>2, AddsAt
      <4> HIDE DEF c, u
      <4>2. QED
        BY <2>1, <2>4, <4>1
    <3>4. Adds(G(d), f, T \ {d})
      BY <1>4, <3>1
    <3>5. IsFiniteSet(T \ {d}) /\ u \ {d} \in SUBSET (T \ {d}) /\ u \ {d} \subseteq T \ {c}
      BY <1>3, <2>1, FS_Subset
    <3> HIDE DEF h, c, d, u
    <3>6. G(d)[u \ {d}] = G(c)[u \ {d}]
      BY <2>2, <3>4, <3>5, AddsUnique
    <3>7. QED
      BY <3>2, <3>3, <3>6 DEF u, c, d
  <2>5. QED
    BY <2>3, <2>4
<1>6. Adds(h, f, T)
  <2>1. \A s \in SUBSET T : h[s] = IF s = {} THEN 0 ELSE f[Chosen(s)] + h[s \ {Chosen(s)}]
    BY <1>5
  <2>2. h = [s \in SUBSET T |-> h[s]]
    OBVIOUS
  <2> HIDE DEF h
  <2>3. QED
    BY <2>1, <2>2 DEF Adds
<1>7. QED
  BY <1>2, <1>6

\* The sum over nothing is zero, and a sum is one of its terms and the rest.
LEMMA TotalEmpty == ASSUME NEW f PROVE Total(f, {}) = 0
<1>1. PICK g : Adds(g, f, {})
  BY AddsExists, FS_EmptySet
<1>2. Adds(CHOOSE h : Adds(h, f, {}), f, {})
  BY <1>1
<1>3. QED
  BY <1>2, AddsAt, TotalIsFold

LEMMA TotalChosen ==
    ASSUME NEW f, NEW S, IsFiniteSet(S), S # {}
    PROVE  Total(f, S) = f[Chosen(S)] + Total(f, S \ {Chosen(S)})
<1> DEFINE c == Chosen(S)
           A(U) == CHOOSE g : Adds(g, f, U)
<1>1. IsFiniteSet(S \ {c})
  BY FS_Subset
<1>2. Adds(A(S), f, S) /\ Adds(A(S \ {c}), f, S \ {c})
  BY <1>1, AddsExists
<1>3. Total(f, S) = A(S)[S] /\ Total(f, S \ {c}) = A(S \ {c})[S \ {c}]
  BY TotalIsFold
<1> HIDE DEF A
<1>4. A(S)[S] = f[c] + A(S)[S \ {c}]
  BY <1>2, AddsAt
<1>5. A(S)[S \ {c}] = A(S \ {c})[S \ {c}]
  BY <1>1, <1>2, AddsUnique
<1>6. QED
  BY <1>3, <1>4, <1>5

LEMMA TotalTyped ==
    ASSUME NEW S, IsFiniteSet(S), NEW f, \A x \in S : f[x] \in Int
    PROVE  Total(f, S) \in Int
<1> DEFINE B == {T \in SUBSET S : Total(f, T) \notin Int}
<1>1. SUFFICES ASSUME B # {} PROVE FALSE
  OBVIOUS
<1>2. PICK T \in B : \A x \in T : T \ {x} \notin B
  <2>1. B \subseteq SUBSET S
    OBVIOUS
  <2> HIDE DEF B
  <2>2. QED
    BY <1>1, <2>1, SmallestPart
<1>3. T # {} /\ T \in SUBSET S /\ IsFiniteSet(T)
  <2>1. T # {}
    <3>1. Total(f, {}) \in Int
      BY TotalEmpty
    <3>2. QED
      BY <1>2, <3>1
  <2>2. QED
    BY <1>2, <2>1, FS_Subset
<1>4. Chosen(T) \in T
  BY <1>3, ChosenIn
<1>5. Total(f, T \ {Chosen(T)}) \in Int
  BY <1>2, <1>3, <1>4
<1>6. f[Chosen(T)] \in Int
  BY <1>3, <1>4
<1>7. QED
  BY <1>2, <1>3, <1>5, <1>6, TotalChosen

LEMMA TotalSplits ==
    ASSUME NEW S, IsFiniteSet(S), NEW f, \A x \in S : f[x] \in Int, NEW x \in S
    PROVE  /\ Total(f, S) = f[x] + Total(f, S \ {x})
           /\ Total(f, S \ {x}) \in Int
<1> DEFINE B == {T \in SUBSET S : \E y \in T : Total(f, T) # f[y] + Total(f, T \ {y})}
<1>0. Total(f, S \ {x}) \in Int
  BY TotalTyped, FS_Subset
<1>1. SUFFICES ASSUME B # {} PROVE FALSE
  BY <1>0
<1>2. PICK T \in B : \A y \in T : T \ {y} \notin B
  <2>1. B \subseteq SUBSET S
    OBVIOUS
  <2> HIDE DEF B
  <2>2. QED
    BY <1>1, <2>1, SmallestPart
<1>3. T \in SUBSET S /\ IsFiniteSet(T)
  BY <1>2, FS_Subset
<1>4. PICK y \in T : Total(f, T) # f[y] + Total(f, T \ {y})
  BY <1>2
<1> DEFINE c == Chosen(T)
<1>5. c \in T /\ Total(f, T) = f[c] + Total(f, T \ {c})
  BY <1>3, <1>4, ChosenIn, TotalChosen
<1> HIDE DEF c
<1>6. c # y
  BY <1>4, <1>5
<1>7. Total(f, T \ {c}) = f[y] + Total(f, (T \ {c}) \ {y})
  BY <1>2, <1>3, <1>5, <1>6
<1>8. Total(f, T \ {y}) = f[c] + Total(f, (T \ {y}) \ {c})
  BY <1>2, <1>3, <1>5, <1>6
<1>9. (T \ {c}) \ {y} = (T \ {y}) \ {c}
  OBVIOUS
<1>10. f[c] \in Int /\ f[y] \in Int /\ Total(f, (T \ {y}) \ {c}) \in Int
  <2>1. IsFiniteSet((T \ {y}) \ {c}) /\ \A z \in (T \ {y}) \ {c} : f[z] \in Int
    BY <1>3, FS_Subset
  <2>2. QED
    BY <1>3, <1>5, <2>1, TotalTyped
<1>11. Total(f, T \ {c}) = f[y] + Total(f, (T \ {y}) \ {c})
  BY <1>7, <1>9
<1>12. Total(f, T) = f[y] + Total(f, T \ {y})
  BY <1>5, <1>8, <1>10, <1>11
<1>13. QED
  BY <1>4, <1>12

\* Sums are monotone, additive and homogeneous.
LEMMA TotalMonotone ==
    ASSUME NEW S, IsFiniteSet(S), NEW f, NEW g,
           \A x \in S : f[x] \in Int /\ g[x] \in Int /\ f[x] <= g[x]
    PROVE  Total(f, S) <= Total(g, S)
<1> DEFINE B == {T \in SUBSET S : ~(Total(f, T) <= Total(g, T))}
<1>1. SUFFICES ASSUME B # {} PROVE FALSE
  OBVIOUS
<1>2. PICK T \in B : \A x \in T : T \ {x} \notin B
  <2>1. B \subseteq SUBSET S
    OBVIOUS
  <2> HIDE DEF B
  <2>2. QED
    BY <1>1, <2>1, SmallestPart
<1>3. T \in SUBSET S /\ IsFiniteSet(T)
  BY <1>2, FS_Subset
<1>4. PICK x \in T : TRUE
  <2>1. Total(f, {}) <= Total(g, {})
    BY TotalEmpty
  <2>2. QED
    BY <1>2, <2>1
<1>5. /\ Total(f, T) = f[x] + Total(f, T \ {x}) /\ Total(f, T \ {x}) \in Int
      /\ Total(g, T) = g[x] + Total(g, T \ {x}) /\ Total(g, T \ {x}) \in Int
  <2>1. \A y \in T : f[y] \in Int /\ g[y] \in Int
    BY <1>3
  <2>2. QED
    BY <1>3, <2>1, TotalSplits
<1>6. Total(f, T \ {x}) <= Total(g, T \ {x})
  BY <1>2, <1>3
<1>7. f[x] \in Int /\ g[x] \in Int /\ f[x] <= g[x]
  BY <1>3
<1>8. Total(f, T) <= Total(g, T)
  BY <1>5, <1>6, <1>7
<1>9. QED
  BY <1>2, <1>8

LEMMA TotalPlus ==
    ASSUME NEW S, IsFiniteSet(S), NEW f, NEW g, NEW h,
           \A x \in S : f[x] \in Int /\ g[x] \in Int /\ h[x] = f[x] + g[x]
    PROVE  Total(h, S) = Total(f, S) + Total(g, S)
<1> DEFINE B == {T \in SUBSET S : Total(h, T) # Total(f, T) + Total(g, T)}
<1>1. SUFFICES ASSUME B # {} PROVE FALSE
  OBVIOUS
<1>2. PICK T \in B : \A x \in T : T \ {x} \notin B
  <2>1. B \subseteq SUBSET S
    OBVIOUS
  <2> HIDE DEF B
  <2>2. QED
    BY <1>1, <2>1, SmallestPart
<1>3. T \in SUBSET S /\ IsFiniteSet(T)
  BY <1>2, FS_Subset
<1>4. PICK x \in T : TRUE
  <2>1. Total(h, {}) = Total(f, {}) + Total(g, {})
    BY TotalEmpty
  <2>2. QED
    BY <1>2, <2>1
<1>5. /\ Total(f, T) = f[x] + Total(f, T \ {x}) /\ Total(f, T \ {x}) \in Int
      /\ Total(g, T) = g[x] + Total(g, T \ {x}) /\ Total(g, T \ {x}) \in Int
      /\ Total(h, T) = h[x] + Total(h, T \ {x})
  <2>1. \A y \in T : f[y] \in Int /\ g[y] \in Int /\ h[y] \in Int
    BY <1>3
  <2>2. QED
    BY <1>3, <2>1, TotalSplits
<1>6. Total(h, T \ {x}) = Total(f, T \ {x}) + Total(g, T \ {x})
  BY <1>2, <1>3
<1>7. f[x] \in Int /\ g[x] \in Int /\ h[x] = f[x] + g[x]
  BY <1>3
<1>8. Total(h, T) = Total(f, T) + Total(g, T)
  BY <1>5, <1>6, <1>7
<1>9. QED
  BY <1>2, <1>8

LEMMA Distributes ==
    \A k, x, y \in Int : k * (x + y) = k * x + k * y /\ k * x \in Int
OBVIOUS

LEMMA TotalTimes ==
    ASSUME NEW S, IsFiniteSet(S), NEW k \in Int, NEW f, NEW h,
           \A x \in S : f[x] \in Int /\ h[x] = k * f[x]
    PROVE  Total(h, S) = k * Total(f, S)
<1> DEFINE B == {T \in SUBSET S : Total(h, T) # k * Total(f, T)}
<1>1. SUFFICES ASSUME B # {} PROVE FALSE
  OBVIOUS
<1>2. PICK T \in B : \A x \in T : T \ {x} \notin B
  <2>1. B \subseteq SUBSET S
    OBVIOUS
  <2> HIDE DEF B
  <2>2. QED
    BY <1>1, <2>1, SmallestPart
<1>3. T \in SUBSET S /\ IsFiniteSet(T)
  BY <1>2, FS_Subset
<1>4. PICK x \in T : TRUE
  <2>1. Total(h, {}) = k * Total(f, {})
    BY TotalEmpty
  <2>2. QED
    BY <1>2, <2>1
<1>5. /\ Total(f, T) = f[x] + Total(f, T \ {x}) /\ Total(f, T \ {x}) \in Int
      /\ Total(h, T) = h[x] + Total(h, T \ {x})
  <2>1. \A y \in T : f[y] \in Int /\ h[y] \in Int
    BY <1>3, Distributes
  <2>2. QED
    BY <1>3, <2>1, TotalSplits
<1>6. Total(h, T \ {x}) = k * Total(f, T \ {x})
  BY <1>2, <1>3
<1>7. f[x] \in Int /\ h[x] = k * f[x]
  BY <1>3
<1>8. Total(h, T) = k * f[x] + k * Total(f, T \ {x})
  BY <1>5, <1>6, <1>7
<1>9. k * (f[x] + Total(f, T \ {x})) = k * f[x] + k * Total(f, T \ {x})
  BY <1>5, <1>7, Distributes
<1>10. Total(h, T) = k * Total(f, T)
  BY <1>5, <1>8, <1>9
<1>11. QED
  BY <1>2, <1>10

\* A sum of terms none of which is larger than m.
LEMMA TotalBelow ==
    ASSUME NEW S, IsFiniteSet(S), NEW m \in Int, NEW f, \A x \in S : f[x] \in Int /\ f[x] <= m
    PROVE  Total(f, S) <= Cardinality(S) * m
<1> DEFINE B == {T \in SUBSET S : ~(Total(f, T) <= Cardinality(T) * m)}
<1>1. SUFFICES ASSUME B # {} PROVE FALSE
  OBVIOUS
<1>2. PICK T \in B : \A x \in T : T \ {x} \notin B
  <2>1. B \subseteq SUBSET S
    OBVIOUS
  <2> HIDE DEF B
  <2>2. QED
    BY <1>1, <2>1, SmallestPart
<1>3. T \in SUBSET S /\ IsFiniteSet(T)
  BY <1>2, FS_Subset
<1>4. PICK x \in T : TRUE
  <2>1. Total(f, {}) <= Cardinality({}) * m
    BY TotalEmpty, FS_EmptySet
  <2>2. QED
    BY <1>2, <2>1
<1>5. Total(f, T) = f[x] + Total(f, T \ {x}) /\ Total(f, T \ {x}) \in Int
  <2>1. \A y \in T : f[y] \in Int
    BY <1>3
  <2>2. QED
    BY <1>3, <2>1, TotalSplits
<1>6. Total(f, T \ {x}) <= Cardinality(T \ {x}) * m
  BY <1>2, <1>3
<1>7. f[x] \in Int /\ f[x] <= m
  BY <1>3
<1>8. Cardinality(T \ {x}) = Cardinality(T) - 1 /\ Cardinality(T) \in Nat
  BY <1>3, <1>4, FS_RemoveElement, FS_CardinalityType
<1>9. m * Cardinality(T) = m * (Cardinality(T) - 1) + m * 1
  BY <1>8, Distributes
<1>10. (Cardinality(T) - 1) * m \in Int /\ Cardinality(T) * m = (Cardinality(T) - 1) * m + m
  <2>1. \A a, b \in Int : a * b = b * a /\ a * b \in Int
    OBVIOUS
  <2>2. QED
    BY <1>8, <1>9, <2>1
<1>11. Total(f, T) <= Cardinality(T) * m
  BY <1>5, <1>6, <1>7, <1>8, <1>10
<1>12. QED
  BY <1>2, <1>11

LEMMA TotalSame ==
    ASSUME NEW S, IsFiniteSet(S), NEW f, NEW g, \A x \in S : f[x] \in Int /\ g[x] = f[x]
    PROVE  Total(g, S) = Total(f, S)
<1>1. Total(f, S) \in Int /\ Total(g, S) \in Int
  BY TotalTyped
<1>2. /\ \A x \in S : f[x] \in Int /\ g[x] \in Int /\ f[x] <= g[x]
      /\ \A x \in S : g[x] \in Int /\ f[x] \in Int /\ g[x] <= f[x]
  OBVIOUS
<1>3. Total(f, S) <= Total(g, S) /\ Total(g, S) <= Total(f, S)
  BY <1>2, TotalMonotone
<1>4. QED
  BY <1>1, <1>3

\* What is left out adds nothing.
LEMMA TotalWithin ==
    ASSUME NEW S, IsFiniteSet(S), NEW A \in SUBSET S, NEW f, NEW h, \A x \in A : f[x] \in Int,
           \A x \in S : h[x] = IF x \in A THEN f[x] ELSE 0
    PROVE  Total(h, S) = Total(f, A)
<1> DEFINE B == {T \in SUBSET S : Total(h, T) # Total(f, T \cap A)}
<1>1. SUFFICES ASSUME B # {} PROVE FALSE
  <2>1. S \cap A = A
    OBVIOUS
  <2>2. B = {} => Total(h, S) = Total(f, S \cap A)
    OBVIOUS
  <2>3. QED
    BY <2>1, <2>2
<1>2. PICK T \in B : \A x \in T : T \ {x} \notin B
  <2>1. B \subseteq SUBSET S
    OBVIOUS
  <2> HIDE DEF B
  <2>2. QED
    BY <1>1, <2>1, SmallestPart
<1>3. T \in SUBSET S /\ IsFiniteSet(T) /\ IsFiniteSet(T \cap A)
  BY <1>2, FS_Subset
<1>4. PICK x \in T : TRUE
  <2>1. Total(h, {}) = Total(f, {} \cap A)
    <3>1. {} \cap A = {}
      OBVIOUS
    <3>2. QED
      BY <3>1, TotalEmpty
  <2>2. QED
    BY <1>2, <2>1
<1>5. Total(h, T) = h[x] + Total(h, T \ {x}) /\ Total(h, T \ {x}) \in Int
  <2>1. \A y \in T : h[y] \in Int
    BY <1>3
  <2>2. QED
    BY <1>3, <2>1, TotalSplits
<1>6. Total(h, T \ {x}) = Total(f, (T \ {x}) \cap A)
  BY <1>2, <1>3
<1>7. CASE x \in A
  <2>1. (T \ {x}) \cap A = (T \cap A) \ {x} /\ h[x] = f[x]
    BY <1>3, <1>7
  <2>2. Total(f, T \cap A) = f[x] + Total(f, (T \cap A) \ {x})
    BY <1>3, <1>7, TotalSplits
  <2>3. QED
    BY <1>2, <1>5, <1>6, <2>1, <2>2
<1>8. CASE x \notin A
  <2>1. (T \ {x}) \cap A = T \cap A /\ h[x] = 0
    BY <1>3, <1>8
  <2>2. QED
    BY <1>2, <1>5, <1>6, <2>1
<1>9. QED
  BY <1>7, <1>8

LEMMA TotalNatural ==
    ASSUME NEW S, IsFiniteSet(S), NEW f, \A x \in S : f[x] \in Nat
    PROVE  Total(f, S) \in Nat
<1> DEFINE z == [x \in S |-> 0 * f[x]]
<1>1. Total(f, S) \in Int
  BY TotalTyped
<1>2. /\ \A x \in S : z[x] \in Int /\ f[x] \in Int /\ z[x] <= f[x]
      /\ \A x \in S : f[x] \in Int /\ z[x] = 0 * f[x]
  OBVIOUS
<1> HIDE DEF z
<1>0. Total(z, S) = 0 * Total(f, S)
  <2>1. 0 \in Int
    OBVIOUS
  <2>2. QED
    BY <1>2, <2>1, TotalTimes, Zenon
<1>3. Total(z, S) <= Total(f, S)
  BY <1>2, TotalMonotone
<1>4. QED
  BY <1>0, <1>1, <1>3

\* Of the terms of a finite sum one is largest.
LEMMA LargestExists ==
    ASSUME NEW S, IsFiniteSet(S), S # {}, NEW f, \A x \in S : f[x] \in Int
    PROVE  \E x \in S : \A y \in S : f[y] <= f[x]
<1> DEFINE Max(T) == \E x \in T : \A y \in T : f[y] <= f[x]
           B == {T \in SUBSET S : T # {} /\ ~Max(T)}
<1>1. SUFFICES ASSUME B # {} PROVE FALSE
  OBVIOUS
<1>2. PICK T \in B : \A x \in T : T \ {x} \notin B
  <2>1. B \subseteq SUBSET S
    OBVIOUS
  <2> HIDE DEF B
  <2>2. QED
    BY <1>1, <2>1, SmallestPart
<1>3. T \in SUBSET S /\ T # {} /\ ~Max(T)
  BY <1>2
<1>4. PICK x \in T : TRUE
  BY <1>3
<1>5. T \ {x} # {}
  <2>1. CASE T = {x}
    BY <1>3, <2>1
  <2>2. QED
    BY <1>4, <2>1
<1>6. PICK y \in T \ {x} : \A z \in T \ {x} : f[z] <= f[y]
  BY <1>2, <1>3, <1>5
<1>7. f[x] \in Int /\ f[y] \in Int /\ \A z \in T : f[z] \in Int
  BY <1>3
<1>8. CASE f[x] <= f[y]
  BY <1>3, <1>6, <1>8
<1>9. CASE ~(f[x] <= f[y])
  <2>1. \A z \in T : f[z] <= f[x]
    BY <1>6, <1>7, <1>9
  <2>2. QED
    BY <1>3, <2>1
<1>10. QED
  BY <1>8, <1>9

-----------------------------------------------------------------------------
(***************************************************************************)
(* Scaling by a part of the whole, rounded towards zero.                   *)
(***************************************************************************)
LEMMA Divided ==
    ASSUME NEW a \in Nat, NEW d \in Nat \ {0}
    PROVE  a \div d \in Nat /\ d * (a \div d) <= a
OBVIOUS

LEMMA Product == \A x, y \in Nat : x * y \in Nat
OBVIOUS

LEMMA Commutes == \A x, y \in Int : x * y = y * x /\ x * y \in Int
OBVIOUS

LEMMA Cancels ==
    ASSUME NEW d \in Nat \ {0}, NEW x \in Int, NEW y \in Int, d * x <= d * y
    PROVE  x <= y
OBVIOUS

LEMMA TimesMonotone ==
    ASSUME NEW k \in Nat, NEW x \in Int, NEW y \in Int, x <= y
    PROVE  k * x <= k * y
OBVIOUS

\* Floored parts of r, in proportion to parts n of no more than d, come to no more than r.
LEMMA PartsFit ==
    ASSUME NEW S, IsFiniteSet(S), NEW r \in Nat, NEW d \in Nat \ {0}, NEW n, NEW q,
           \A x \in S : n[x] \in Nat /\ q[x] = (n[x] * r) \div d,
           Total(n, S) <= d
    PROVE  /\ \A x \in S : q[x] \in Nat
           /\ Total(q, S) \in Nat
           /\ Total(q, S) <= r
<1>1. ASSUME NEW x \in S PROVE q[x] \in Nat /\ d * q[x] <= r * n[x]
  <2>1. n[x] * r \in Nat /\ n[x] * r = r * n[x]
    BY Product, Commutes
  <2>2. QED
    BY <2>1, Divided
<1>2. Total(q, S) \in Nat /\ Total(n, S) \in Nat
  BY <1>1, TotalNatural
<1> DEFINE dq == [x \in S |-> d * q[x]]
           rn == [x \in S |-> r * n[x]]
<1>3. /\ \A x \in S : q[x] \in Int /\ dq[x] = d * q[x] /\ dq[x] \in Int
      /\ \A x \in S : n[x] \in Int /\ rn[x] = r * n[x] /\ rn[x] \in Int
      /\ \A x \in S : dq[x] <= rn[x]
  BY <1>1, Product
<1> HIDE DEF dq, rn
<1>4. Total(dq, S) = d * Total(q, S) /\ Total(rn, S) = r * Total(n, S)
  <2>1. d \in Int /\ r \in Int
    OBVIOUS
  <2>2. QED
    BY <1>3, <2>1, TotalTimes, Zenon
<1>5. Total(dq, S) <= Total(rn, S)
  BY <1>3, TotalMonotone
<1>6. r * Total(n, S) <= r * d
  BY <1>2, TimesMonotone
<1>7. d * Total(q, S) <= d * r
  <2>1. r * d = d * r /\ r * d \in Int /\ r * Total(n, S) \in Int /\ d * Total(q, S) \in Int
    BY <1>2, Commutes
  <2>2. QED
    BY <1>4, <1>5, <1>6, <2>1
<1>8. QED
  BY <1>1, <1>2, <1>7, Cancels

LEMMA AbsIs == \A x \in Int : Abs(x) \in Nat /\ Abs(x) = (IF x < 0 THEN -x ELSE x)
BY DEF Abs

LEMMA SignIs == \A x \in Int : Sign(x) \in Int /\ Sign(x) = (IF x < 0 THEN -1 ELSE 1)
BY DEF Sign

LEMMA AlongIs ==
    \A w, x \in Int : Along(w, x) \in Int /\ Along(w, x) = (IF w < 0 THEN -x ELSE x)
BY DEF Along, Sign

LEMMA AlongAdds ==
    \A w, x, y \in Int : /\ Along(w, x - y) = Along(w, x) - Along(w, y)
                         /\ Along(w, x + y) = Along(w, x) + Along(w, y)
<1> TAKE w, x, y \in Int
<1>1. x - y \in Int /\ x + y \in Int
  OBVIOUS
<1>2. /\ Along(w, x) = (IF w < 0 THEN -x ELSE x) /\ Along(w, y) = (IF w < 0 THEN -y ELSE y)
      /\ Along(w, x - y) = (IF w < 0 THEN -(x - y) ELSE x - y)
      /\ Along(w, x + y) = (IF w < 0 THEN -(x + y) ELSE x + y)
  BY <1>1, AlongIs, Zenon
<1>3. QED
  BY <1>2

LEMMA AlongAbs == \A w, x \in Int : 0 <= Along(w, x) => Abs(x) = Along(w, x)
<1> TAKE w, x \in Int
<1>1. /\ Along(w, x) = (IF w < 0 THEN -x ELSE x)
      /\ Abs(x) = (IF x < 0 THEN -x ELSE x)
  BY AlongIs, AbsIs, Zenon
<1>2. QED
  BY <1>1

\* A scaled power keeps its direction.
LEMMA ScaledIs ==
    ASSUME NEW x \in Int, NEW n \in Nat, NEW d \in Nat \ {0}
    PROVE  /\ (Abs(x) * n) \div d \in Nat
           /\ Scaled(x, n, d) = Sign(x) * ((Abs(x) * n) \div d)
           /\ Scaled(x, n, d) \in Int
<1>1. Abs(x) * n \in Nat
  BY AbsIs, Product
<1>2. (Abs(x) * n) \div d \in Nat
  BY <1>1, Divided
<1>3. Scaled(x, n, d) = Sign(x) * ((Abs(x) * n) \div d)
  BY DEF Scaled
<1>4. QED
  BY <1>2, <1>3, SignIs

-----------------------------------------------------------------------------
(***************************************************************************)
(* The shares: all in the direction of what is left, and no more than it.  *)
(***************************************************************************)
LEMMA TargetConstants ==
    /\ IsFiniteSet(Battery)
    /\ \A A \in SUBSET Battery : IsFiniteSet(A)
    /\ \A c \in Circuit : Cap[c] \in Nat \ {0} /\ Member(c) \in SUBSET Battery
    /\ MinPower \in Nat \ {0} /\ RateLimit \in Nat \ {0} /\ Full \in Nat \ {0}
    /\ SafetyMargin \in Nat /\ MaxOverhead \in Nat
    /\ \A b \in Battery : /\ MaxPower[b] \in Nat /\ MaxPower[b] >= MinPower
                          /\ Priority[b] \in Nat /\ Capacity[b] \in Nat
                          /\ CircuitOf[b] \in Circuit
<1>1. IsFiniteSet(Battery) /\ \A A \in SUBSET Battery : IsFiniteSet(A)
  BY TargetConstantsOK, FS_Subset
<1>2. \A c \in Circuit : Cap[c] \in Nat \ {0} /\ Member(c) \in SUBSET Battery
  BY TargetConstantsOK DEF Member
<1>3. MinPower \in Nat \ {0} /\ RateLimit \in Nat \ {0} /\ Full \in Nat \ {0}
  BY TargetConstantsOK
<1>4. SafetyMargin \in Nat /\ MaxOverhead \in Nat
  BY TargetConstantsOK
<1>5. \A b \in Battery : /\ MaxPower[b] \in Nat /\ MaxPower[b] >= MinPower
                         /\ Priority[b] \in Nat /\ Capacity[b] \in Nat
                         /\ CircuitOf[b] \in Circuit
  BY TargetConstantsOK
<1>6. QED
  BY <1>1, <1>2, <1>3, <1>4, <1>5

LEMMA SharesFit ==
    ASSUME NEW A \in SUBSET Battery, NEW weight \in [Battery -> Nat], Total(weight, A) # 0,
           NEW x \in Int, x # 0
    PROVE  /\ \A b \in A : /\ Shares(x, A, weight)[b] \in Int
                           /\ 0 <= Along(x, Shares(x, A, weight)[b])
           /\ Along(x, Total(Shares(x, A, weight), A)) <= Along(x, x)
<1> DEFINE W     == Total(weight, A)
           R     == Abs(x)
           q     == [b \in A |-> (weight[b] * R) \div W]
           even  == [b \in A |-> Scaled(x, weight[b], W)]
           last  == CHOOSE b \in A : weight[b] > 0 /\ \A a \in A : a > b => weight[a] = 0
           share == [even EXCEPT ![last] = x - Total(even, A \ {last})]
<1>1. Shares(x, A, weight) = share
  BY DEF Shares
<1>2. IsFiniteSet(A) /\ IsFiniteSet(A \ {last})
  BY TargetConstants
<1>3. W \in Nat \ {0} /\ R \in Nat /\ R = Along(x, x)
  <2>1. \A b \in A : weight[b] \in Nat
    OBVIOUS
  <2>2. W \in Nat
    BY <1>2, <2>1, TotalNatural
  <2>3. QED
    BY <2>2, AbsIs, AlongIs
<1> HIDE DEF W, R, last
<1>4. /\ \A b \in A : q[b] \in Nat
      /\ Total(q, A) \in Nat /\ Total(q, A) <= R
  <2>1. \A b \in A : weight[b] \in Nat /\ q[b] = (weight[b] * R) \div W
    OBVIOUS
  <2>2. Total(weight, A) <= W
    BY <1>3 DEF W
  <2> HIDE DEF q
  <2>3. QED
    BY <1>2, <1>3, <2>1, <2>2, PartsFit
<1>5. \A b \in A : even[b] = Sign(x) * q[b] /\ even[b] \in Int
  <2> TAKE b \in A
  <2>1. weight[b] \in Nat /\ weight[b] * R = R * weight[b]
    BY <1>3, Commutes
  <2>2. Scaled(x, weight[b], W) = Sign(x) * ((R * weight[b]) \div W)
        /\ Scaled(x, weight[b], W) \in Int
    BY <1>3, <2>1, ScaledIs DEF R
  <2>3. QED
    BY <2>1, <2>2
<1> HIDE DEF q
<1>6. even = [b \in A |-> even[b]]
  OBVIOUS
<1> HIDE DEF even
<1>7. ASSUME NEW S \in SUBSET A
      PROVE  Total(even, S) = Sign(x) * Total(q, S) /\ Total(even, S) \in Int
  <2>1. IsFiniteSet(S)
    BY <1>2, FS_Subset
  <2>2. \A b \in S : q[b] \in Int /\ even[b] = Sign(x) * q[b]
    BY <1>4, <1>5
  <2>3. Total(even, S) = Sign(x) * Total(q, S)
    <3>1. Sign(x) \in Int
      BY SignIs
    <3>2. QED
      BY <2>1, <2>2, <3>1, TotalTimes, Zenon
  <2>4. Total(even, S) \in Int
    BY <1>5, <2>1, TotalTyped
  <2>5. QED
    BY <2>3, <2>4
<1>8. ASSUME NEW y \in Int PROVE Along(x, Sign(x) * y) = y
  BY <1>8 DEF Along, Sign
<1>9. CASE last \in A
  <2>1. Total(q, A) = q[last] + Total(q, A \ {last}) /\ Total(q, A \ {last}) \in Nat
    <3>1. Total(q, A \ {last}) \in Nat
      BY <1>2, <1>4, TotalNatural
    <3>2. \A b \in A : q[b] \in Int
      BY <1>4
    <3>3. QED
      BY <1>2, <1>9, <3>1, <3>2, TotalSplits
  <2>2. Total(q, A \ {last}) <= R
    BY <1>3, <1>4, <1>9, <2>1
  <2>3. Total(even, A \ {last}) = Sign(x) * Total(q, A \ {last})
        /\ Total(even, A \ {last}) \in Int
    BY <1>7
  <2>4. share[last] = x - Total(even, A \ {last}) /\ share[last] \in Int
    BY <1>6, <1>9, <2>3
  <2>5. 0 <= Along(x, share[last])
    <3>1. Along(x, share[last]) = Along(x, x) - Along(x, Total(even, A \ {last}))
      BY <2>3, <2>4, AlongAdds
    <3>2. Along(x, Total(even, A \ {last})) = Total(q, A \ {last})
      BY <1>8, <2>1, <2>3
    <3>3. QED
      BY <1>3, <2>1, <2>2, <3>1, <3>2
  <2>6. \A b \in A \ {last} : share[b] = even[b]
    BY <1>6
  <2>7. \A b \in A : share[b] \in Int /\ 0 <= Along(x, share[b])
    <3>1. \A b \in A : Along(x, even[b]) = q[b]
      BY <1>4, <1>5, <1>8
    <3>2. QED
      BY <1>4, <1>5, <2>4, <2>5, <2>6, <3>1
  <2> HIDE DEF share
  <2>8. Total(share, A) = x
    <3>1. Total(share, A) = share[last] + Total(share, A \ {last})
      BY <1>2, <1>9, <2>7, TotalSplits
    <3>2. Total(share, A \ {last}) = Total(even, A \ {last})
      BY <1>2, <1>5, <2>6, TotalSame
    <3>3. QED
      BY <2>3, <2>4, <3>1, <3>2
  <2>9. QED
    BY <1>1, <1>3, <2>7, <2>8
<1>10. CASE last \notin A
  <2>1. share = even
    BY <1>6, <1>10
  <2> HIDE DEF share
  <2>2. \A b \in A : Along(x, even[b]) = q[b]
    BY <1>4, <1>5, <1>8
  <2>3. Along(x, Total(even, A)) = Total(q, A)
    BY <1>4, <1>7, <1>8
  <2>4. QED
    BY <1>1, <1>3, <1>4, <1>5, <2>1, <2>2, <2>3
<1>11. QED
  BY <1>9, <1>10

LEMMA AlongTotal ==
    ASSUME NEW S, IsFiniteSet(S), NEW w \in Int, NEW f, NEW h,
           \A x \in S : f[x] \in Int /\ h[x] = Along(w, f[x])
    PROVE  Total(h, S) = Along(w, Total(f, S))
<1>1. \A x \in S : f[x] \in Int /\ h[x] = Sign(w) * f[x]
  BY DEF Along
<1>2. Sign(w) \in Int
  BY SignIs
<1>3. QED
  BY <1>1, <1>2, TotalTimes, Zenon DEF Along

-----------------------------------------------------------------------------
(***************************************************************************)
(* The rounds.  r.remaining is what the targets so far leave of the wanted *)
(* total; they are within the bounds, none is against the total, and       *)
(* together they are no more than it.                                      *)
(***************************************************************************)
IsView(v) ==
    /\ v.plug \in [Battery -> Int]
    /\ v.grid \in Int
    /\ v.soc \in [Battery -> 0..Full]

InBounds(v, t) ==
    \A b \in Battery : /\ low_bound(v, b) <= t[b] /\ t[b] <= high_bound(v, b)
                       /\ 0 <= Along(DesiredTotal(v), t[b])

NotTooMuch(v, t) ==
    Along(DesiredTotal(v), Total(t, Battery)) <= Along(DesiredTotal(v), DesiredTotal(v))

RoundInv(v, r) ==
    /\ r.target \in [Battery -> Int]
    /\ InBounds(v, r.target)
    /\ NotTooMuch(v, r.target)
    /\ r.active \in SUBSET Battery
    /\ r.remaining = DesiredTotal(v) - Total(r.target, Battery)

LEMMA ViewTyped ==
    ASSUME NEW v, IsView(v)
    PROVE  /\ DesiredTotal(v) \in Int
           /\ Weight(v) \in [Battery -> Nat]
           /\ \A b \in Battery : /\ low_bound(v, b) \in Int /\ high_bound(v, b) \in Int
                                 /\ low_bound(v, b) <= 0 /\ 0 <= high_bound(v, b)
<1>1. CurrentTotal(v) \in Int
  BY TargetConstants, TotalTyped DEF IsView, CurrentTotal
<1>2. GridCorrection(v) \in Int
  <2>1. v.grid \in Int /\ SafetyMargin \in Int
    BY TargetConstants DEF IsView
  <2>2. Sign(v.grid) = 1 \/ Sign(v.grid) = -1
    BY DEF Sign
  <2>3. v.grid - Sign(v.grid) * SafetyMargin \in Int
    BY <2>1, <2>2
  <2>4. QED
    BY <2>1, <2>3 DEF GridCorrection
<1>3. DesiredTotal(v) \in Int
  BY <1>1, <1>2 DEF DesiredTotal
<1>4. Weight(v) \in [Battery -> Nat]
  <2> SUFFICES ASSUME NEW b \in Battery
               PROVE  Priority[b] * Capacity[b]
                         * (IF DesiredTotal(v) < 0 THEN Full - v.soc[b] ELSE v.soc[b]) \in Nat
    BY DEF Weight
  <2>1. v.soc[b] \in 0..Full /\ Full \in Nat
    BY TargetConstants DEF IsView
  <2>2. (IF DesiredTotal(v) < 0 THEN Full - v.soc[b] ELSE v.soc[b]) \in Nat
    BY <2>1
  <2>3. Priority[b] * Capacity[b] \in Nat
    BY TargetConstants, Product
  <2> HIDE DEF DesiredTotal
  <2>4. QED
    BY <2>2, <2>3, Product
<1>5. \A b \in Battery : /\ low_bound(v, b) \in Int /\ high_bound(v, b) \in Int
                         /\ low_bound(v, b) <= 0 /\ 0 <= high_bound(v, b)
  BY TargetConstants DEF low_bound, high_bound
<1>6. QED
  BY <1>3, <1>4, <1>5

\* A bound takes something off a power, and never turns it around.
LEMMA BoundedFits ==
    ASSUME NEW v, IsView(v), NEW b \in Battery, NEW w \in Int, NEW x \in Int
    PROVE  /\ Bounded(v, b, x) \in Int
           /\ low_bound(v, b) <= Bounded(v, b, x) /\ Bounded(v, b, x) <= high_bound(v, b)
           /\ 0 <= Along(w, x) => /\ 0 <= Along(w, Bounded(v, b, x))
                                  /\ Along(w, Bounded(v, b, x)) <= Along(w, x)
<1>1. /\ low_bound(v, b) \in Int /\ high_bound(v, b) \in Int
      /\ low_bound(v, b) <= 0 /\ 0 <= high_bound(v, b)
  BY ViewTyped
<1>2. Bounded(v, b, x) = IF x < low_bound(v, b) THEN low_bound(v, b)
                         ELSE IF x > high_bound(v, b) THEN high_bound(v, b) ELSE x
  BY DEF Bounded, Clamp
<1> HIDE DEF low_bound, high_bound, Bounded
<1>3. Bounded(v, b, x) \in Int
  BY <1>1, <1>2
<1>4. /\ Along(w, x) = (IF w < 0 THEN -x ELSE x)
      /\ Along(w, Bounded(v, b, x)) = (IF w < 0 THEN -Bounded(v, b, x) ELSE Bounded(v, b, x))
  BY <1>3, AlongIs, Zenon
<1>5. QED
  BY <1>1, <1>2, <1>3, <1>4

LEMMA RoundFits ==
    ASSUME NEW v, IsView(v), NEW r, RoundInv(v, r)
    PROVE  RoundInv(v, Round(v, r))
<1> DEFINE D        == DesiredTotal(v)
           A        == r.active
           x        == r.remaining
           weight   == Weight(v)
           share    == Shares(x, A, weight)
           proposed == [b \in A |-> r.target[b] + share[b]]
           t        == [b \in Battery |->
                            IF b \in A THEN Bounded(v, b, proposed[b]) ELSE r.target[b]]
           clamped  == {b \in A : t[b] # proposed[b]}
           a        == IF clamped = {} THEN {} ELSE A \ clamped
           left     == D - Total(t, Battery)
<1>1. CASE A = {} \/ x = 0 \/ Total(weight, A) = 0
  <2>1. Round(v, r) = r
    BY <1>1 DEF Round
  <2>2. QED
    BY <2>1
<1>2. CASE ~(A = {} \/ x = 0 \/ Total(weight, A) = 0)
  <2>1. Round(v, r) = [target |-> t, remaining |-> left, active |-> a]
    BY <1>2 DEF Round
  <2>2. a \in SUBSET Battery /\ A \in SUBSET Battery
    BY DEF RoundInv
  <2>3. /\ D \in Int /\ weight \in [Battery -> Nat]
        /\ r.target \in [Battery -> Int]
        /\ x = D - Total(r.target, Battery)
        /\ Total(r.target, Battery) \in Int /\ x \in Int
    <3>1. r.target \in [Battery -> Int] /\ x = D - Total(r.target, Battery)
      BY DEF RoundInv
    <3>2. Total(r.target, Battery) \in Int
      BY <3>1, TargetConstants, TotalTyped
    <3>3. QED
      BY <3>1, <3>2, ViewTyped
  <2>4. Along(D, Total(r.target, Battery)) <= Along(D, D)
    BY DEF RoundInv, NotTooMuch
  <2>5. \A b \in Battery : /\ low_bound(v, b) <= r.target[b] /\ r.target[b] <= high_bound(v, b)
                           /\ 0 <= Along(D, r.target[b])
    BY DEF RoundInv, InBounds
  <2> HIDE DEF D, A, x, weight, a, clamped
  <2>6. 0 <= Along(D, x) /\ \A y \in Int : Along(D, y) = Along(x, y)
    <3>1. Along(D, x) = Along(D, D) - Along(D, Total(r.target, Battery))
      BY <2>3, AlongAdds
    <3>2. 0 <= Along(D, x)
      BY <2>3, <2>4, <3>1, AlongIs
    <3>3. Along(D, x) = (IF D < 0 THEN -x ELSE x)
      BY <2>3, AlongIs
    <3>4. D < 0 <=> x < 0
      BY <1>2, <2>3, <3>2, <3>3
    <3>5. QED
      BY <3>2, <3>4 DEF Along, Sign
  <2>7. /\ \A b \in A : share[b] \in Int /\ 0 <= Along(D, share[b])
        /\ Along(D, Total(share, A)) <= Along(D, x)
        /\ Total(share, A) \in Int
    <3>1. /\ \A b \in A : share[b] \in Int /\ 0 <= Along(x, share[b])
          /\ Along(x, Total(share, A)) <= Along(x, x)
      BY <1>2, <2>2, <2>3, SharesFit
    <3>2. Total(share, A) \in Int
      BY <2>2, <3>1, TargetConstants, TotalTyped
    <3>3. QED
      BY <2>3, <2>6, <3>1, <3>2
  <2> HIDE DEF share
  <2>8. \A b \in A : proposed[b] = r.target[b] + share[b] /\ proposed[b] \in Int
                     /\ 0 <= Along(D, proposed[b])
                     /\ Along(D, proposed[b]) = Along(D, r.target[b]) + Along(D, share[b])
    <3> TAKE b \in A
    <3>1. r.target[b] \in Int /\ share[b] \in Int /\ b \in Battery
      BY <2>2, <2>3, <2>7
    <3>2. proposed[b] = r.target[b] + share[b]
      OBVIOUS
    <3>3. Along(D, proposed[b]) = Along(D, r.target[b]) + Along(D, share[b])
      BY <2>3, <3>1, <3>2, AlongAdds
    <3>4. Along(D, r.target[b]) \in Int /\ Along(D, share[b]) \in Int
      BY <2>3, <3>1, AlongIs
    <3>5. 0 <= Along(D, r.target[b]) /\ 0 <= Along(D, share[b])
      BY <2>5, <2>7, <3>1
    <3>6. 0 <= Along(D, proposed[b])
      BY <3>3, <3>4, <3>5
    <3>7. QED
      BY <3>1, <3>2, <3>3, <3>6
  <2> HIDE DEF proposed
  <2>9. \A b \in A : t[b] = Bounded(v, b, proposed[b])
        /\ t[b] \in Int /\ low_bound(v, b) <= t[b] /\ t[b] <= high_bound(v, b)
        /\ 0 <= Along(D, t[b]) /\ Along(D, t[b]) <= Along(D, proposed[b])
    BY <2>2, <2>3, <2>8, BoundedFits
  <2>10. \A b \in Battery \ A : t[b] = r.target[b]
    OBVIOUS
  <2>11. t \in [Battery -> Int] /\ InBounds(v, t)
    <3>1. \A b \in Battery : t[b] \in Int /\ low_bound(v, b) <= t[b] /\ t[b] <= high_bound(v, b)
                             /\ 0 <= Along(D, t[b])
      BY <2>3, <2>5, <2>9, <2>10
    <3>2. t = [b \in Battery |-> t[b]]
      OBVIOUS
    <3> HIDE DEF t
    <3>3. QED
      BY <3>1, <3>2 DEF InBounds, D
  <2>12. NotTooMuch(v, t)
    <3> DEFINE given == [b \in Battery |-> IF b \in A THEN share[b] ELSE 0]
               sum   == [b \in Battery |-> r.target[b] + given[b]]
               at    == [b \in Battery |-> Along(D, t[b])]
               as    == [b \in Battery |-> Along(D, sum[b])]
    <3> HIDE DEF t
    <3>1. Total(given, Battery) = Total(share, A)
      <4>1. \A b \in Battery : given[b] = IF b \in A THEN share[b] ELSE 0
        OBVIOUS
      <4> HIDE DEF given
      <4>2. QED
        BY <2>2, <2>7, <4>1, TargetConstants, TotalWithin
    <3>2. \A b \in Battery : given[b] \in Int /\ r.target[b] \in Int
                             /\ sum[b] = r.target[b] + given[b] /\ sum[b] \in Int
      BY <2>3, <2>7
    <3>3. Total(sum, Battery) = Total(r.target, Battery) + Total(share, A)
      <4> HIDE DEF sum, given
      <4>1. QED
        BY <3>1, <3>2, TargetConstants, TotalPlus
    <3>4. \A b \in Battery : Along(D, t[b]) <= Along(D, sum[b])
      <4> TAKE b \in Battery
      <4>1. CASE b \in A
        <5>1. sum[b] = proposed[b]
          BY <2>8, <4>1
        <5>2. QED
          BY <2>9, <4>1, <5>1
      <4>2. CASE b \notin A
        <5>1. sum[b] = t[b]
          BY <2>10, <3>2, <4>2
        <5>2. Along(D, t[b]) \in Int
          BY <2>3, <2>11, AlongIs
        <5>3. QED
          BY <5>1, <5>2
      <4>3. QED
        BY <4>1, <4>2
    <3> HIDE DEF given, sum
    <3>5. \A b \in Battery : /\ t[b] \in Int /\ at[b] = Along(D, t[b]) /\ at[b] \in Int
                             /\ as[b] = Along(D, sum[b]) /\ as[b] \in Int
                             /\ at[b] <= as[b]
      BY <2>3, <2>11, <3>2, <3>4, AlongIs
    <3> HIDE DEF at, as
    <3>6. Total(at, Battery) = Along(D, Total(t, Battery))
      <4>1. \A b \in Battery : t[b] \in Int /\ at[b] = Along(D, t[b])
        BY <3>5
      <4>2. IsFiniteSet(Battery) /\ D \in Int
        BY <2>3, TargetConstants
      <4>3. QED
        BY <4>1, <4>2, AlongTotal, Zenon
    <3>7. Total(as, Battery) = Along(D, Total(sum, Battery))
      <4>1. \A b \in Battery : sum[b] \in Int /\ as[b] = Along(D, sum[b])
        BY <3>2, <3>5
      <4>2. IsFiniteSet(Battery) /\ D \in Int
        BY <2>3, TargetConstants
      <4>3. QED
        BY <4>1, <4>2, AlongTotal, Zenon
    <3>8. Total(at, Battery) <= Total(as, Battery)
      BY <3>5, TargetConstants, TotalMonotone
    <3>9. Along(D, Total(sum, Battery)) <= Along(D, D)
      <4>1. Along(D, Total(sum, Battery))
                = Along(D, Total(r.target, Battery)) + Along(D, Total(share, A))
        BY <2>3, <2>7, <3>3, AlongAdds
      <4>2. Along(D, x) = Along(D, D) - Along(D, Total(r.target, Battery))
        BY <2>3, AlongAdds
      <4>3. Along(D, Total(share, A)) <= Along(D, x)
        BY <2>7
      <4>4. /\ Along(D, D) \in Int /\ Along(D, Total(r.target, Battery)) \in Int
            /\ Along(D, Total(share, A)) \in Int
        BY <2>3, <2>7, AlongIs
      <4>5. QED
        BY <4>1, <4>2, <4>3, <4>4
    <3>10. Total(t, Battery) \in Int /\ Total(sum, Battery) \in Int
      BY <3>2, <3>5, TargetConstants, TotalTyped
    <3>11. Along(D, Total(t, Battery)) \in Int /\ Along(D, Total(sum, Battery)) \in Int
           /\ Along(D, D) \in Int
      BY <2>3, <3>10, AlongIs
    <3>12. QED
      BY <3>6, <3>7, <3>8, <3>9, <3>11 DEF NotTooMuch, D
  <2>13. QED
    <3> HIDE DEF t
    <3>1. QED
      BY <2>1, <2>2, <2>11, <2>12 DEF RoundInv, D
<1>3. QED
  BY <1>1, <1>2

\* The rounds exist, and each is what Round makes of the one before.
Once(v, r)     == CHOOSE y \in {Round(v, z) : z \in {r}} : TRUE
IsRounds(f, v) == f = [i \in 0..6 |-> IF i = 0 THEN Unshared(v) ELSE Once(v, f[i - 1])]

LEMMA DistributedIsRounds ==
    ASSUME NEW v PROVE Distributed(v) = (CHOOSE f : IsRounds(f, v))[6].target
BY DEF Distributed, Through, IsRounds, Once

LEMMA RoundsExist == ASSUME NEW v PROVE \E f : IsRounds(f, v)
<1> DEFINE r1 == Once(v, Unshared(v))
           r2 == Once(v, r1)
           r3 == Once(v, r2)
           r4 == Once(v, r3)
           r5 == Once(v, r4)
           r6 == Once(v, r5)
           f  == [i \in 0..6 |->
                     IF i = 0 THEN Unshared(v) ELSE IF i = 1 THEN r1 ELSE IF i = 2 THEN r2
                     ELSE IF i = 3 THEN r3 ELSE IF i = 4 THEN r4 ELSE IF i = 5 THEN r5 ELSE r6]
<1>1. /\ f[0] = Unshared(v) /\ f[1] = r1 /\ f[2] = r2 /\ f[3] = r3 /\ f[4] = r4
      /\ f[5] = r5 /\ f[6] = r6
  OBVIOUS
<1>2. f = [i \in 0..6 |-> f[i]]
  OBVIOUS
<1> HIDE DEF f
<1>3. ASSUME NEW i \in 0..6
      PROVE  f[i] = IF i = 0 THEN Unshared(v) ELSE Once(v, f[i - 1])
  <2>1. i = 0 \/ i = 1 \/ i = 2 \/ i = 3 \/ i = 4 \/ i = 5 \/ i = 6
    OBVIOUS
  <2>2. /\ f[1] = Once(v, f[0]) /\ f[2] = Once(v, f[1]) /\ f[3] = Once(v, f[2])
        /\ f[4] = Once(v, f[3]) /\ f[5] = Once(v, f[4]) /\ f[6] = Once(v, f[5])
    BY <1>1, Zenon
  <2>3. QED
    BY <1>1, <2>1, <2>2
<1>4. QED
  BY <1>2, <1>3 DEF IsRounds

LEMMA UnsharedFits == ASSUME NEW v, IsView(v) PROVE RoundInv(v, Unshared(v))
<1> DEFINE z == [b \in Battery |-> 0]
<1>1. DesiredTotal(v) \in Int
  BY ViewTyped
<1>2. Total(z, Battery) = 0
  <2>1. \A b \in Battery : z[b] \in Int /\ z[b] = 0 * z[b]
    OBVIOUS
  <2>2. 0 \in Int /\ IsFiniteSet(Battery)
    BY TargetConstants
  <2>3. Total(z, Battery) \in Int
    BY <2>1, <2>2, TotalTyped
  <2> HIDE DEF z
  <2>4. Total(z, Battery) = 0 * Total(z, Battery)
    BY <2>1, <2>2, TotalTimes, Zenon
  <2>5. QED
    BY <2>3, <2>4
<1>3. /\ Unshared(v).target = z /\ Unshared(v).active = Battery
      /\ Unshared(v).remaining = DesiredTotal(v)
  BY DEF Unshared
<1>4. Along(DesiredTotal(v), 0) = 0 /\ 0 <= Along(DesiredTotal(v), DesiredTotal(v))
  <2>1. Along(DesiredTotal(v), 0) = (IF DesiredTotal(v) < 0 THEN -0 ELSE 0)
    BY <1>1, AlongIs
  <2>2. Along(DesiredTotal(v), DesiredTotal(v))
            = (IF DesiredTotal(v) < 0 THEN -DesiredTotal(v) ELSE DesiredTotal(v))
    BY <1>1, AlongIs
  <2>3. QED
    BY <1>1, <2>1, <2>2
<1>5. InBounds(v, z)
  BY <1>4, ViewTyped DEF InBounds
<1>6. NotTooMuch(v, z)
  BY <1>2, <1>4 DEF NotTooMuch
<1>7. z \in [Battery -> Int] /\ DesiredTotal(v) = DesiredTotal(v) - Total(z, Battery)
  BY <1>1, <1>2
<1> HIDE DEF z
<1>8. QED
  BY <1>3, <1>5, <1>6, <1>7 DEF RoundInv

\* What is shared is in the direction of the wanted total, no more than it, and
\* within the bounds of every battery.
LEMMA DistributedFits ==
    ASSUME NEW v, IsView(v)
    PROVE  /\ Distributed(v) \in [Battery -> Int]
           /\ InBounds(v, Distributed(v)) /\ NotTooMuch(v, Distributed(v))
<1> DEFINE f == CHOOSE g : IsRounds(g, v)
<1>1. IsRounds(f, v)
  BY RoundsExist
<1> HIDE DEF f
<1>2. \A i \in 0..6 : f[i] = IF i = 0 THEN Unshared(v) ELSE Once(v, f[i - 1])
  BY <1>1 DEF IsRounds
<1>3. \A r : Once(v, r) = Round(v, r)
  BY DEF Once
<1>4. /\ f[0] = Unshared(v)
      /\ f[1] = Round(v, f[0]) /\ f[2] = Round(v, f[1]) /\ f[3] = Round(v, f[2])
      /\ f[4] = Round(v, f[3]) /\ f[5] = Round(v, f[4]) /\ f[6] = Round(v, f[5])
  BY <1>2, <1>3
<1>5. RoundInv(v, f[0])
  BY <1>4, UnsharedFits
<1>6. \A r : RoundInv(v, r) => RoundInv(v, Round(v, r))
  BY RoundFits
<1>7. RoundInv(v, f[1]) /\ RoundInv(v, f[2]) /\ RoundInv(v, f[3])
  BY <1>4, <1>5, <1>6
<1>8. RoundInv(v, f[4]) /\ RoundInv(v, f[5]) /\ RoundInv(v, f[6])
  BY <1>4, <1>6, <1>7
<1>9. Distributed(v) = f[6].target
  BY DistributedIsRounds DEF f
<1>10. QED
  BY <1>8, <1>9 DEF RoundInv

-----------------------------------------------------------------------------
(***************************************************************************)
(* The passes over the shares.                                             *)
(***************************************************************************)

\* Sums of what goes one way go that way.
LEMMA AlongSum ==
    ASSUME NEW S, IsFiniteSet(S), NEW w \in Int, NEW f,
           \A x \in S : f[x] \in Int /\ 0 <= Along(w, f[x])
    PROVE  Total(f, S) \in Int /\ 0 <= Along(w, Total(f, S))
<1> DEFINE h == [x \in S |-> Along(w, f[x])]
<1>1. \A x \in S : f[x] \in Int /\ h[x] = Along(w, f[x])
  OBVIOUS
<1>2. \A x \in S : h[x] \in Nat
  <2> TAKE x \in S
  <2>1. Along(w, f[x]) \in Int /\ 0 <= Along(w, f[x])
    BY AlongIs
  <2>2. QED
    BY <2>1
<1> HIDE DEF h
<1>3. Total(h, S) = Along(w, Total(f, S))
  BY <1>1, AlongTotal
<1>4. Total(h, S) \in Nat
  BY <1>2, TotalNatural
<1>5. Total(f, S) \in Int
  BY TotalTyped
<1>6. QED
  BY <1>3, <1>4, <1>5

LEMMA ConsolidatedFits ==
    ASSUME NEW v, IsView(v), NEW t \in [Battery -> Int], InBounds(v, t)
    PROVE  Consolidated(v, t) \in [Battery -> Int] /\ InBounds(v, Consolidated(v, t))
<1> DEFINE D == DesiredTotal(v)
<1>1. D \in Int
  BY ViewTyped
<1>2. ASSUME NEW b \in Battery
      PROVE  LET y == Consolidated(v, t)[b] IN
             /\ y \in Int
             /\ low_bound(v, b) <= y /\ y <= high_bound(v, b) /\ 0 <= Along(D, y)
  <2> DEFINE c   == CircuitOf[b]
             sum == Total(t, Member(c))
             y   == Consolidated(v, t)[b]
  <2>1. Member(c) \in SUBSET Battery /\ IsFiniteSet(Member(c))
    BY TargetConstants
  <2>2. \A a \in Member(c) : t[a] \in Int /\ 0 <= Along(D, t[a])
    BY <2>1 DEF InBounds
  <2>3. sum \in Int /\ 0 <= Along(D, sum)
    BY <1>1, <2>1, <2>2, AlongSum
  <2>4. y = t[b] \/ y = Bounded(v, b, sum) \/ y = 0
    BY DEF Consolidated
  <2> HIDE DEF y, sum, D
  <2>5. CASE y = t[b]
    BY <2>5 DEF InBounds, y, D
  <2>6. CASE y = Bounded(v, b, sum)
    BY <1>1, <2>3, <2>6, BoundedFits DEF y, D
  <2>7. CASE y = 0
    <3>1. Along(D, 0) = (IF D < 0 THEN -0 ELSE 0)
      BY <1>1, AlongIs
    <3>2. Along(D, 0) = 0
      BY <3>1
    <3>3. low_bound(v, b) <= 0 /\ 0 <= high_bound(v, b)
      BY ViewTyped
    <3>4. QED
      BY <2>7, <3>2, <3>3 DEF y
  <2>8. QED
    BY <2>4, <2>5, <2>6, <2>7
<1>3. Consolidated(v, t) = [b \in Battery |-> Consolidated(v, t)[b]]
  BY DEF Consolidated
<1> HIDE DEF D
<1>4. QED
  BY <1>2, <1>3 DEF InBounds, D

\* The ramp ends somewhere between what the plug reads and the target.
LEMMA RampBetween ==
    ASSUME NEW v, IsView(v), NEW t \in [Battery -> Int]
    PROVE  /\ RateLimited(v, t) \in [Battery -> Int]
           /\ \A b \in Battery :
                \/ v.plug[b] <= RateLimited(v, t)[b] /\ RateLimited(v, t)[b] <= t[b]
                \/ t[b] <= RateLimited(v, t)[b] /\ RateLimited(v, t)[b] <= v.plug[b]
<1>1. ASSUME NEW b \in Battery
      PROVE  LET y == v.plug[b] + Clamp(t[b] - v.plug[b], -RateLimit, RateLimit) IN
             /\ y \in Int
             /\ (v.plug[b] <= y /\ y <= t[b]) \/ (t[b] <= y /\ y <= v.plug[b])
  <2>1. v.plug[b] \in Int /\ t[b] \in Int /\ RateLimit \in Nat \ {0}
    BY TargetConstants DEF IsView
  <2>2. QED
    BY <2>1 DEF Clamp
<1>2. QED
  BY <1>1 DEF RateLimited

LEMMA ScaledSmaller ==
    ASSUME NEW x \in Int, NEW n \in Nat, NEW d \in Nat \ {0}, n <= d
    PROVE  \/ 0 <= Scaled(x, n, d) /\ Scaled(x, n, d) <= x
           \/ x <= Scaled(x, n, d) /\ Scaled(x, n, d) <= 0
<1> DEFINE a == Abs(x)
           q == (a * n) \div d
<1>1. a \in Nat /\ a = (IF x < 0 THEN -x ELSE x)
  BY AbsIs
<1>2. q \in Nat /\ Scaled(x, n, d) = Sign(x) * q
  BY ScaledIs
<1> HIDE DEF a
<1>3. d * q <= a * n
  BY <1>1, Product, Divided
<1>4. a * n <= d * a
  <2>1. a * n <= a * d
    BY <1>1, TimesMonotone
  <2>2. a * d = d * a
    BY <1>1, Commutes
  <2>3. QED
    BY <2>1, <2>2
<1>5. d * q <= d * a
  <2>1. d * q \in Int /\ a * n \in Int /\ d * a \in Int
    BY <1>1, <1>2, Commutes
  <2>2. QED
    BY <1>3, <1>4, <2>1
<1> HIDE DEF q
<1>6. q <= a
  BY <1>1, <1>2, <1>5, Cancels
<1>7. Sign(x) = (IF x < 0 THEN -1 ELSE 1)
  BY SignIs
<1>8. CASE x < 0
  BY <1>1, <1>2, <1>6, <1>7, <1>8
<1>9. CASE ~(x < 0)
  BY <1>1, <1>2, <1>6, <1>7, <1>9
<1>10. QED
  BY <1>8, <1>9

LEMMA WorstCaseTyped ==
    ASSUME NEW v, IsView(v), NEW t \in [Battery -> Int], NEW c \in Circuit
    PROVE  /\ WorstCase(v, t, c) \in Nat
           /\ Total(t, Member(c)) \in Int
           /\ Abs(Total(t, Member(c))) <= WorstCase(v, t, c)
<1>1. \A b \in Member(c) : t[b] \in Int /\ v.plug[b] \in Int
  BY DEF Member, IsView
<1>2. Total(t, Member(c)) \in Int /\ Total(v.plug, Member(c)) \in Int
  BY <1>1, TargetConstants, TotalTyped
<1>3. Abs(Total(t, Member(c))) \in Nat /\ Abs(Total(v.plug, Member(c))) \in Nat
  BY <1>2, AbsIs
<1>4. QED
  BY <1>2, <1>3 DEF WorstCase, Greater

\* The cap only takes away.
LEMMA CapTakes ==
    ASSUME NEW v, IsView(v), NEW t \in [Battery -> Int]
    PROVE  /\ Capped(v, t) \in [Battery -> Int]
           /\ \A b \in Battery : \/ 0 <= Capped(v, t)[b] /\ Capped(v, t)[b] <= t[b]
                                 \/ t[b] <= Capped(v, t)[b] /\ Capped(v, t)[b] <= 0
<1>1. ASSUME NEW b \in Battery
      PROVE  LET y == Capped(v, t)[b] IN
             y \in Int /\ ((0 <= y /\ y <= t[b]) \/ (t[b] <= y /\ y <= 0))
  <2> DEFINE c == CircuitOf[b]
             w == WorstCase(v, t, c)
             y == Capped(v, t)[b]
  <2>1. c \in Circuit /\ Cap[c] \in Nat \ {0} /\ t[b] \in Int
    BY TargetConstants
  <2>2. w \in Nat
    BY <2>1, WorstCaseTyped
  <2>3. y = IF w > Cap[c] THEN Scaled(t[b], Cap[c], w) ELSE t[b]
    BY DEF Capped
  <2> HIDE DEF w, y
  <2>4. CASE w > Cap[c]
    <3>1. w \in Nat \ {0} /\ Cap[c] \in Nat /\ Cap[c] <= w
      BY <2>1, <2>2, <2>4
    <3>2. y = Scaled(t[b], Cap[c], w)
      BY <2>3, <2>4
    <3>3. QED
      BY <2>1, <3>1, <3>2, ScaledIs, ScaledSmaller DEF y
  <2>5. CASE ~(w > Cap[c])
    BY <2>1, <2>3, <2>5 DEF y
  <2>6. QED
    BY <2>4, <2>5
<1>2. Capped(v, t) = [b \in Battery |-> Capped(v, t)[b]]
  BY DEF Capped
<1>3. QED
  BY <1>1, <1>2

LEMMA ComputeTargetsIs ==
    ASSUME NEW v
    PROVE  compute_targets(v) =
               Capped(v, RateLimited(v, Consolidated(v, Distributed(v))))
<1>1. \A t : (CHOOSE y \in {Consolidated(v, z) : z \in {t}} : TRUE) = Consolidated(v, t)
  OBVIOUS
<1>2. \A t : (CHOOSE y \in {RateLimited(v, z) : z \in {t}} : TRUE) = RateLimited(v, t)
  OBVIOUS
<1>3. \A t : (CHOOSE y \in {Capped(v, z) : z \in {t}} : TRUE) = Capped(v, t)
  OBVIOUS
<1>4. QED
  BY <1>1, <1>2, <1>3 DEF compute_targets, Through

\* For every view: a target is an integer within the bounds, or the ramp towards
\* them, and no battery is turned against the way all are to go.
LEMMA TargetsInBounds ==
    ASSUME NEW v, IsView(v)
    PROVE  /\ compute_targets(v) \in [Battery -> Int]
           /\ \A b \in Battery : WithinBounds(v, compute_targets(v), b)
<1> DEFINE D == DesiredTotal(v)
           t == Consolidated(v, Distributed(v))
           r == RateLimited(v, t)
           s == Capped(v, r)
<1>1. compute_targets(v) = s
  BY ComputeTargetsIs
<1>2. t \in [Battery -> Int] /\ InBounds(v, t)
  BY DistributedFits, ConsolidatedFits
<1> HIDE DEF t
<1>3. /\ r \in [Battery -> Int]
      /\ \A b \in Battery : \/ v.plug[b] <= r[b] /\ r[b] <= t[b]
                            \/ t[b] <= r[b] /\ r[b] <= v.plug[b]
  BY <1>2, RampBetween
<1> HIDE DEF r
<1>4. /\ s \in [Battery -> Int]
      /\ \A b \in Battery : \/ 0 <= s[b] /\ s[b] <= r[b]
                            \/ r[b] <= s[b] /\ s[b] <= 0
  BY <1>3, CapTakes
<1> HIDE DEF s
<1>5. ASSUME NEW b \in Battery PROVE WithinBounds(v, s, b)
  <2>1. /\ v.plug[b] \in Int /\ t[b] \in Int /\ r[b] \in Int /\ s[b] \in Int
        /\ D \in Int
    BY <1>2, <1>3, <1>4, ViewTyped DEF IsView
  <2>2. /\ low_bound(v, b) \in Int /\ high_bound(v, b) \in Int
        /\ low_bound(v, b) <= 0 /\ 0 <= high_bound(v, b)
        /\ low_bound(v, b) <= t[b] /\ t[b] <= high_bound(v, b) /\ 0 <= Along(D, t[b])
    BY <1>2, ViewTyped DEF InBounds
  <2>3. \/ v.plug[b] <= r[b] /\ r[b] <= t[b]
        \/ t[b] <= r[b] /\ r[b] <= v.plug[b]
    BY <1>3
  <2>4. \/ 0 <= s[b] /\ s[b] <= r[b]
        \/ r[b] <= s[b] /\ s[b] <= 0
    BY <1>4
  <2> HIDE DEF D
  <2>5. s[b] <= Greater(v.plug[b], high_bound(v, b))
    BY <2>1, <2>2, <2>3, <2>4 DEF Greater
  <2>6. -s[b] <= Greater(-v.plug[b], -low_bound(v, b))
    BY <2>1, <2>2, <2>3, <2>4 DEF Greater
  <2>7. ASSUME Along(D, v.plug[b]) >= 0 PROVE Along(D, s[b]) >= 0
    <3>1. /\ Along(D, v.plug[b]) = (IF D < 0 THEN -v.plug[b] ELSE v.plug[b])
          /\ Along(D, t[b]) = (IF D < 0 THEN -t[b] ELSE t[b])
          /\ Along(D, s[b]) = (IF D < 0 THEN -s[b] ELSE s[b])
      BY <2>1, AlongIs, Zenon
    <3>2. CASE D < 0
      BY <2>1, <2>2, <2>3, <2>4, <2>7, <3>1, <3>2
    <3>3. CASE ~(D < 0)
      BY <2>1, <2>2, <2>3, <2>4, <2>7, <3>1, <3>3
    <3>4. QED
      BY <3>2, <3>3
  <2>8. QED
    BY <2>5, <2>6, <2>7 DEF WithinBounds, D
<1>6. QED
  BY <1>1, <1>4, <1>5

-----------------------------------------------------------------------------
(***************************************************************************)
(* The cap.                                                                *)
(***************************************************************************)

\* Where all go one way, flooring loses nothing over the cap.
LEMMA CapOneWay ==
    ASSUME NEW S, IsFiniteSet(S), NEW w \in Int, NEW n \in Nat, NEW d \in Nat \ {0},
           NEW x, NEW y,
           \A b \in S : x[b] \in Int /\ 0 <= Along(w, x[b]) /\ y[b] = Scaled(x[b], n, d),
           Abs(Total(x, S)) <= d
    PROVE  Abs(Total(y, S)) <= n
<1> DEFINE ax == [b \in S |-> Along(w, x[b])]
           ay == [b \in S |-> Along(w, y[b])]
<1>1. \A b \in S : x[b] \in Int /\ ax[b] = Along(w, x[b])
  OBVIOUS
<1>2. \A b \in S : y[b] \in Int /\ ay[b] = Along(w, y[b])
  BY ScaledIs
<1>3. \A b \in S : ax[b] \in Nat /\ ay[b] = (ax[b] * n) \div d
  <2> TAKE b \in S
  <2>1. /\ x[b] \in Int /\ 0 <= Along(w, x[b]) /\ Along(w, x[b]) \in Int
        /\ Along(w, x[b]) = (IF w < 0 THEN -x[b] ELSE x[b])
    BY AlongIs
  <2>2. Abs(x[b]) = Along(w, x[b])
    BY <2>1, AbsIs
  <2> DEFINE q == (Abs(x[b]) * n) \div d
  <2>3. q \in Nat /\ y[b] = Sign(x[b]) * q
    BY <2>1, ScaledIs
  <2>4. x[b] = 0 => q = 0
    <3>1. ASSUME x[b] = 0 PROVE q = 0
      <4>1. Abs(x[b]) * n = 0
        BY <3>1, AbsIs
      <4>2. 0 \div d = 0
        BY Divided
      <4>3. QED
        BY <4>1, <4>2
    <3>2. QED
      BY <3>1
  <2> HIDE DEF q
  <2>5. Along(w, y[b]) = q
    <3>1. Along(w, y[b]) = (IF w < 0 THEN -y[b] ELSE y[b])
      BY <1>2, AlongIs
    <3>2. Sign(x[b]) = (IF x[b] < 0 THEN -1 ELSE 1)
      BY <2>1, SignIs
    <3>3. QED
      BY <2>1, <2>3, <2>4, <3>1, <3>2
  <2>6. QED
    BY <2>1, <2>2, <2>5 DEF q
<1> HIDE DEF ax, ay
<1>4. /\ Total(ax, S) = Along(w, Total(x, S)) /\ Total(x, S) \in Int
      /\ Total(ay, S) = Along(w, Total(y, S)) /\ Total(y, S) \in Int
  BY <1>1, <1>2, AlongTotal, TotalTyped
<1>5. Total(ax, S) \in Nat
  BY <1>3, TotalNatural
<1>6. Total(ax, S) <= d
  BY <1>4, <1>5, AlongAbs
<1>7. Total(ay, S) \in Nat /\ Total(ay, S) <= n
  BY <1>3, <1>6, PartsFit
<1>8. QED
  BY <1>4, <1>7, AlongAbs

\* Otherwise it may lose less than one for each of them.
LEMMA DividedUp ==
    ASSUME NEW a \in Nat, NEW d \in Nat \ {0}
    PROVE  a <= d * (a \div d) + d
OBVIOUS

LEMMA ScaledNear ==
    ASSUME NEW x \in Int, NEW n \in Nat, NEW d \in Nat \ {0}
    PROVE  /\ d * Scaled(x, n, d) <= n * x + d
           /\ d * (-Scaled(x, n, d)) <= n * (-x) + d
<1> DEFINE a == Abs(x) * n
           q == a \div d
           dq == d * q
           nx == n * x
<1>1. a \in Nat /\ q \in Nat /\ Scaled(x, n, d) = Sign(x) * q
  BY AbsIs, Product, ScaledIs
<1>2. dq <= a /\ a <= dq + d /\ dq \in Int /\ nx \in Int
  BY <1>1, Divided, DividedUp, Commutes
<1>3. d * (-q) = -dq /\ n * (-x) = -nx
  <2>1. \A k, y \in Int : k * (-y) = -(k * y)
    OBVIOUS
  <2>2. d \in Int /\ n \in Int /\ q \in Int
    BY <1>1
  <2> HIDE DEF q
  <2>3. QED
    BY <2>1, <2>2
<1>4. a = IF x < 0 THEN -nx ELSE nx
  <2>1. CASE x < 0
    <3>1. Abs(x) = -x /\ (-x) * n = n * (-x)
      BY <2>1, Commutes DEF Abs
    <3>2. QED
      BY <1>3, <2>1, <3>1
  <2>2. CASE ~(x < 0)
    <3>1. Abs(x) = x /\ x * n = n * x
      BY <2>2, Commutes DEF Abs
    <3>2. QED
      BY <2>2, <3>1
  <2>3. QED
    BY <2>1, <2>2
<1>5. Scaled(x, n, d) = IF x < 0 THEN -q ELSE q
  <2> HIDE DEF q
  <2>1. QED
    BY <1>1, SignIs
<1> HIDE DEF a, q
<1>6. CASE x < 0
  <2>1. Scaled(x, n, d) = -q /\ -Scaled(x, n, d) = q
    BY <1>1, <1>5, <1>6
  <2>2. d * Scaled(x, n, d) = -dq /\ d * (-Scaled(x, n, d)) = dq
    BY <1>3, <2>1
  <2> HIDE DEF dq, nx
  <2>3. QED
    BY <1>2, <1>3, <1>4, <1>6, <2>2 DEF nx
<1>7. CASE ~(x < 0)
  <2>1. Scaled(x, n, d) = q
    BY <1>5, <1>7
  <2>2. d * Scaled(x, n, d) = dq /\ d * (-Scaled(x, n, d)) = -dq
    BY <1>3, <2>1
  <2> HIDE DEF dq
  <2>3. QED
    BY <1>2, <1>3, <1>4, <1>7, <2>2
<1>8. QED
  BY <1>6, <1>7

LEMMA RoughParts ==
    ASSUME NEW S, IsFiniteSet(S), NEW n \in Nat, NEW d \in Nat \ {0}, NEW x, NEW y,
           \A b \in S : x[b] \in Int /\ y[b] \in Int /\ d * y[b] <= n * x[b] + d,
           Total(x, S) <= d
    PROVE  Total(y, S) <= n + Cardinality(S)
<1> DEFINE dy  == [b \in S |-> d * y[b]]
           nx  == [b \in S |-> n * x[b]]
           one == [b \in S |-> d]
           sum == [b \in S |-> nx[b] + one[b]]
           k   == Cardinality(S)
<1>1. /\ \A b \in S : y[b] \in Int /\ dy[b] = d * y[b]
      /\ \A b \in S : x[b] \in Int /\ nx[b] = n * x[b]
      /\ \A b \in S : one[b] \in Int /\ one[b] <= d
  OBVIOUS
<1>2. \A b \in S : dy[b] \in Int /\ nx[b] \in Int
  BY <1>1, Commutes
<1>3. \A b \in S : sum[b] \in Int /\ sum[b] = nx[b] + one[b]
  BY <1>1, <1>2
<1>4. \A b \in S : dy[b] <= sum[b]
  OBVIOUS
<1> HIDE DEF dy, nx, one, sum
<1>5. d \in Int /\ n \in Int /\ k \in Nat
  BY FS_CardinalityType
<1>6. Total(dy, S) = d * Total(y, S)
  BY <1>1, <1>5, TotalTimes, Zenon
<1>7. Total(nx, S) = n * Total(x, S)
  BY <1>1, <1>5, TotalTimes, Zenon
<1>8. Total(one, S) <= k * d
  BY <1>1, <1>5, TotalBelow
<1>9. Total(sum, S) = Total(nx, S) + Total(one, S)
  BY <1>1, <1>2, <1>3, TotalPlus
<1>10. Total(dy, S) <= Total(sum, S)
  BY <1>2, <1>3, <1>4, TotalMonotone
<1>11. /\ Total(x, S) \in Int /\ Total(y, S) \in Int /\ Total(nx, S) \in Int
       /\ Total(one, S) \in Int /\ Total(dy, S) \in Int
  BY <1>1, <1>2, TotalTyped
<1>12. n * Total(x, S) <= n * d
  BY <1>11, TimesMonotone
<1>13. d * (n + k) = n * d + k * d /\ n * d \in Int /\ k * d \in Int
  <2>1. d * (n + k) = d * n + d * k
    BY <1>5, Distributes
  <2>2. d * n = n * d /\ d * k = k * d /\ n * d \in Int /\ k * d \in Int
    BY <1>5, Commutes
  <2>3. QED
    BY <2>1, <2>2
<1> HIDE DEF k
<1>14. d * Total(y, S) <= d * (n + k)
  BY <1>6, <1>7, <1>8, <1>9, <1>10, <1>11, <1>12, <1>13
<1>15. n + k \in Int
  BY <1>5
<1>16. Total(y, S) <= n + k
  BY <1>11, <1>14, <1>15, Cancels
<1>17. QED
  BY <1>16 DEF k

LEMMA CapBothWays ==
    ASSUME NEW S, IsFiniteSet(S), NEW n \in Nat, NEW d \in Nat \ {0}, NEW x, NEW y,
           \A b \in S : x[b] \in Int /\ y[b] = Scaled(x[b], n, d),
           Abs(Total(x, S)) <= d
    PROVE  Abs(Total(y, S)) <= n + Cardinality(S)
<1> DEFINE mx == [b \in S |-> -1 * x[b]]
           my == [b \in S |-> -1 * y[b]]
<1>1. \A b \in S : y[b] \in Int
  BY ScaledIs
<1>2. /\ \A b \in S : x[b] \in Int /\ mx[b] = -1 * x[b]
      /\ \A b \in S : y[b] \in Int /\ my[b] = -1 * y[b]
      /\ \A b \in S : mx[b] \in Int /\ mx[b] = -x[b] /\ my[b] \in Int /\ my[b] = -y[b]
  BY <1>1
<1> HIDE DEF mx, my
<1>3. \A b \in S : d * y[b] <= n * x[b] + d /\ d * my[b] <= n * mx[b] + d
  BY <1>2, ScaledNear
<1>4. Total(x, S) \in Int /\ Total(y, S) \in Int
  BY <1>1, TotalTyped
<1>5. -1 \in Int
  OBVIOUS
<1>6. Total(mx, S) = -Total(x, S) /\ Total(my, S) = -Total(y, S)
  <2> DEFINE m == -1
  <2>1. m \in Int
    BY <1>5
  <2>2. /\ \A b \in S : x[b] \in Int /\ mx[b] = m * x[b]
        /\ \A b \in S : y[b] \in Int /\ my[b] = m * y[b]
    BY <1>2
  <2> HIDE DEF m
  <2>3. Total(mx, S) = m * Total(x, S) /\ Total(my, S) = m * Total(y, S)
    BY <2>1, <2>2, TotalTimes, Zenon
  <2>4. QED
    BY <1>4, <2>3 DEF m
<1>7. Total(x, S) <= d /\ Total(mx, S) <= d
  BY <1>4, <1>6, AbsIs
<1>8. Total(y, S) <= n + Cardinality(S)
  BY <1>2, <1>3, <1>7, RoughParts
<1>9. Total(my, S) <= n + Cardinality(S)
  BY <1>2, <1>3, <1>7, RoughParts
<1>10. QED
  BY <1>4, <1>6, <1>8, <1>9, AbsIs

\* Whatever the ramp leaves, the capped targets of a circuit keep its cap.
LEMMA CappedFits ==
    ASSUME NEW v, IsView(v), NEW t \in [Battery -> Int], NEW c \in Circuit
    PROVE  /\ Abs(Total(Capped(v, t), Member(c))) <= Cap[c] + Cardinality(Member(c))
           /\ \A w \in Int :
                (\A b \in Member(c) : 0 <= Along(w, t[b]))
                  => Abs(Total(Capped(v, t), Member(c))) <= Cap[c]
<1> DEFINE S == Member(c)
           n == Cap[c]
           d == WorstCase(v, t, c)
           y == Capped(v, t)
<1>1. S \in SUBSET Battery /\ IsFiniteSet(S) /\ n \in Nat \ {0} /\ Cardinality(S) \in Nat
  BY TargetConstants, FS_CardinalityType
<1>2. d \in Nat /\ Total(t, S) \in Int /\ Abs(Total(t, S)) <= d
  BY WorstCaseTyped
<1>3. \A b \in S : t[b] \in Int
  BY <1>1
<1>4. \A b \in S : y[b] = IF d > n THEN Scaled(t[b], n, d) ELSE t[b]
  BY <1>1 DEF Capped, Member
<1> HIDE DEF S, n, d, y
<1>5. CASE d > n
  <2>1. d \in Nat \ {0} /\ n \in Nat
    BY <1>1, <1>2, <1>5
  <2>2. \A b \in S : t[b] \in Int /\ y[b] = Scaled(t[b], n, d)
    BY <1>3, <1>4, <1>5
  <2>3. Abs(Total(y, S)) <= n + Cardinality(S)
    BY <1>1, <1>2, <2>1, <2>2, CapBothWays
  <2>4. ASSUME NEW w \in Int, \A b \in S : 0 <= Along(w, t[b])
        PROVE  Abs(Total(y, S)) <= n
    <3>1. \A b \in S : t[b] \in Int /\ 0 <= Along(w, t[b]) /\ y[b] = Scaled(t[b], n, d)
      BY <2>2, <2>4
    <3>2. QED
      BY <1>1, <1>2, <2>1, <3>1, CapOneWay
  <2>5. QED
    BY <2>3, <2>4 DEF S, n, y
<1>6. CASE ~(d > n)
  <2>1. Total(y, S) = Total(t, S)
    BY <1>1, <1>3, <1>4, <1>6, TotalSame
  <2>2. Abs(Total(t, S)) \in Nat
    BY <1>2, AbsIs
  <2>3. Abs(Total(y, S)) <= n /\ Abs(Total(y, S)) <= n + Cardinality(S)
    BY <1>1, <1>2, <1>6, <2>1, <2>2
  <2>4. QED
    BY <2>3 DEF S, n, y
<1>7. QED
  BY <1>5, <1>6

LEMMA TargetsKeepCaps ==
    ASSUME NEW v, IsView(v), NEW c \in Circuit
    PROVE  Abs(Total(compute_targets(v), Member(c))) <= Cap[c] + Rounding(v, c)
<1> DEFINE D == DesiredTotal(v)
           t == Consolidated(v, Distributed(v))
           r == RateLimited(v, t)
           sum == Abs(Total(Capped(v, r), Member(c)))
           together == \A b \in Member(c) : Along(D, v.plug[b]) >= 0
<1>1. compute_targets(v) = Capped(v, r)
  BY ComputeTargetsIs
<1>2. t \in [Battery -> Int] /\ InBounds(v, t)
  BY DistributedFits, ConsolidatedFits
<1> HIDE DEF t
<1>3. /\ r \in [Battery -> Int]
      /\ \A b \in Battery : \/ v.plug[b] <= r[b] /\ r[b] <= t[b]
                            \/ t[b] <= r[b] /\ r[b] <= v.plug[b]
  BY <1>2, RampBetween
<1> HIDE DEF r
<1>4. /\ sum <= Cap[c] + Cardinality(Member(c))
      /\ \A w \in Int : (\A b \in Member(c) : 0 <= Along(w, r[b])) => sum <= Cap[c]
  BY <1>3, CappedFits
<1>5. D \in Int
  BY ViewTyped
<1> HIDE DEF sum
<1>6. CASE together
  <2>1. ASSUME NEW b \in Member(c) PROVE 0 <= Along(D, r[b])
    <3>1. b \in Battery
      BY DEF Member
    <3>2. v.plug[b] \in Int /\ t[b] \in Int /\ r[b] \in Int
      BY <1>2, <1>3, <3>1 DEF IsView
    <3>3. 0 <= Along(D, t[b]) /\ Along(D, v.plug[b]) >= 0
      BY <1>2, <1>6, <3>1 DEF InBounds
    <3>4. \/ v.plug[b] <= r[b] /\ r[b] <= t[b]
          \/ t[b] <= r[b] /\ r[b] <= v.plug[b]
      BY <1>3, <3>1
    <3> HIDE DEF D
    <3>5. /\ Along(D, v.plug[b]) = (IF D < 0 THEN -v.plug[b] ELSE v.plug[b])
          /\ Along(D, t[b]) = (IF D < 0 THEN -t[b] ELSE t[b])
          /\ Along(D, r[b]) = (IF D < 0 THEN -r[b] ELSE r[b])
      BY <1>5, <3>2, AlongIs, Zenon
    <3>6. QED
      BY <3>2, <3>3, <3>4, <3>5
  <2>2. sum <= Cap[c]
    BY <1>4, <1>5, <2>1
  <2>3. Rounding(v, c) = 0
    BY <1>6 DEF Rounding
  <2>4. Cap[c] + 0 = Cap[c]
    BY TargetConstants
  <2>5. QED
    BY <1>1, <2>2, <2>3, <2>4 DEF sum
<1>7. CASE ~together
  <2>1. Rounding(v, c) = Cardinality(Member(c))
    BY <1>7 DEF Rounding
  <2>2. QED
    BY <1>1, <1>4, <2>1 DEF sum
<1>8. QED
  BY <1>6, <1>7

\* For every view a cycle may see, with any batteries and circuits: the shares,
\* which begin the computation, lead where the wanted total leads and are
\* together no more than it, however the rounds clamp and share again
\* (dispatcher.rs 1327-1362).
THEOREM SharesAreWanted ==
    ASSUME NEW v, IsView(v)
    PROVE  /\ Along(DesiredTotal(v), Total(Distributed(v), Battery))
                  <= Along(DesiredTotal(v), DesiredTotal(v))
           /\ \A b \in Battery : /\ 0 <= Along(DesiredTotal(v), Distributed(v)[b])
                                 /\ Distributed(v)[b] = Bounded(v, b, Distributed(v)[b])
<1>1. /\ Distributed(v) \in [Battery -> Int]
      /\ InBounds(v, Distributed(v)) /\ NotTooMuch(v, Distributed(v))
  BY DistributedFits
<1>2. ASSUME NEW b \in Battery
      PROVE  Distributed(v)[b] = Bounded(v, b, Distributed(v)[b])
  <2>1. /\ low_bound(v, b) <= Distributed(v)[b] /\ Distributed(v)[b] <= high_bound(v, b)
        /\ Distributed(v)[b] \in Int
        /\ low_bound(v, b) \in Int /\ high_bound(v, b) \in Int
    BY <1>1, ViewTyped DEF InBounds
  <2>2. QED
    BY <2>1 DEF Bounded, Clamp
<1>3. QED
  BY <1>1, <1>2 DEF InBounds, NotTooMuch

-----------------------------------------------------------------------------
(***************************************************************************)
(* The control loop: what it computes from is a view, so that the targets  *)
(* fit in each of its states.                                              *)
(***************************************************************************)
LEMMA LoopConstants ==
    /\ Battery # {} /\ Load \subseteq Int
    /\ \A b \in Battery : Loss[b] \in Nat
    /\ MayRun \subseteq Battery /\ MayBeCut \subseteq Battery
BY LoopConstantsOK

LEMMA MaxReadingIs ==
    /\ MaxReading \in Nat
    /\ \A b \in Battery : MaxPower[b] + Loss[b] <= MaxReading
<1> DEFINE f == [b \in Battery |-> MaxPower[b] + Loss[b]]
           P(m) == m \in {MaxPower[b] + Loss[b] : b \in Battery}
                   /\ \A b \in Battery : MaxPower[b] + Loss[b] <= m
<1>1. \A b \in Battery : f[b] \in Nat /\ f[b] = MaxPower[b] + Loss[b]
  BY TargetConstants, LoopConstants
<1>2. \E a \in Battery : \A b \in Battery : f[b] <= f[a]
  <2>1. \A b \in Battery : f[b] \in Int
    BY <1>1
  <2> HIDE DEF f
  <2>2. QED
    BY <2>1, TargetConstants, LoopConstants, LargestExists
<1>3. \E m : P(m)
  BY <1>1, <1>2
<1>4. P(MaxReading)
  <2>1. MaxReading = CHOOSE m : P(m)
    BY DEF MaxReading
  <2> HIDE DEF P
  <2>2. QED
    BY <1>3, <2>1, Zenon
<1>5. QED
  BY <1>1, <1>4

\* The grid meter is within the range of the table.
LEMMA GridTyped == ASSUME TypeOK PROVE Grid \in GridRange /\ Grid \in Int
<1> DEFINE k == Cardinality(Battery) * MaxReading
           m == -1
           minus == [b \in Battery |-> m * power[b]]
           sum == Total(power, Battery)
<1>1. /\ \A b \in Battery : power[b] \in Int /\ power[b] <= MaxReading /\ -MaxReading <= power[b]
      /\ MaxReading \in Nat
  <2>1. MaxReading \in Nat
    BY MaxReadingIs
  <2>2. power \in [Battery -> -MaxReading..MaxReading]
    BY DEF TypeOK, Reading
  <2> HIDE DEF MaxReading
  <2>3. QED
    BY <2>1, <2>2
<1>2. IsFiniteSet(Battery) /\ Cardinality(Battery) \in Nat /\ m \in Int
  BY TargetConstants, FS_CardinalityType
<1>3. \A b \in Battery : /\ power[b] \in Int /\ minus[b] = m * power[b]
                         /\ minus[b] \in Int /\ minus[b] <= MaxReading
  BY <1>1
<1> HIDE DEF minus, m
<1>4. sum <= k /\ sum \in Int
  BY <1>1, <1>2, TotalBelow, TotalTyped
<1>5. Total(minus, Battery) <= k
  BY <1>1, <1>2, <1>3, TotalBelow
<1>6. Total(minus, Battery) = m * sum
  BY <1>2, <1>3, TotalTimes, Zenon
<1>7. k \in Nat
  BY <1>1, <1>2, Product
<1> HIDE DEF k, sum
<1>8. sum \in -k..k
  <2>1. m * sum = -sum
    BY <1>4 DEF m
  <2>2. QED
    BY <1>4, <1>5, <1>6, <1>7, <2>1
<1>9. load \in Load /\ load \in Int
  BY LoopConstants DEF TypeOK
<1>10. Grid = load - sum
  BY DEF Grid, sum
<1>11. QED
  BY <1>4, <1>8, <1>9, <1>10 DEF GridRange, k

LEMMA ToldIs ==
    ASSUME LoopInv
    PROVE  IsView(View) /\ Told = compute_targets(View)
<1> DEFINE Socs == {s \in [Battery -> 0..Full] : \A b \in Battery \ MayRun : s[b] = 1}
<1>1. Grid \in GridRange /\ Grid \in Int
  BY GridTyped DEF LoopInv
<1>2. soc \in Socs /\ soc \in [Battery -> 0..Full]
  BY DEF LoopInv, TypeOK
<1>3. power \in [Battery -> Reading] /\ power \in [Battery -> Int]
  <2>1. Reading \subseteq Int
    BY MaxReadingIs DEF Reading
  <2>2. power \in [Battery -> Reading]
    BY DEF LoopInv, TypeOK
  <2>3. QED
    BY <2>1, <2>2
<1>4. IsView(View)
  BY <1>1, <1>2, <1>3 DEF IsView, View
<1>5. Targets = [g \in GridRange |-> [s \in Socs |-> [p \in [Battery -> Reading] |->
                    compute_targets([plug |-> p, grid |-> g, soc |-> s])]]]
  BY DEF Targets
<1> HIDE DEF Socs
<1>6. Told = compute_targets(View)
  BY <1>1, <1>2, <1>3, <1>5 DEF Told, View
<1>7. QED
  BY <1>4, <1>6

LEMMA LoopFits == ASSUME LoopInv PROVE TargetsFit
BY ToldIs, TargetsInBounds, TargetsKeepCaps DEF TargetsFit

\* What a battery is told is nothing, or something it can do.
CanDo(b, x) == x = 0 \/ Abs(x) \in MinPower..MaxPower[b]

LEMMA SetpointFits ==
    ASSUME NEW b \in Battery, NEW w \in Int
    PROVE  from_signed_watts(b, w) \in Int /\ CanDo(b, from_signed_watts(b, w))
<1>1. MinPower \in Nat \ {0} /\ MaxPower[b] \in Nat /\ MinPower <= MaxPower[b]
  BY TargetConstants
<1>2. Abs(w) \in Nat
  BY AbsIs
<1>3. CASE Abs(w) < MinPower
  BY <1>3 DEF from_signed_watts, CanDo
<1>4. CASE ~(Abs(w) < MinPower)
  <2> DEFINE c == Clamp(Abs(w), MinPower, MaxPower[b])
             y == from_signed_watts(b, w)
  <2>1. c \in MinPower..MaxPower[b] /\ c \in Nat
    BY <1>1, <1>2 DEF Clamp
  <2>2. y = Sign(w) * c
    BY <1>4 DEF from_signed_watts
  <2> HIDE DEF c, y
  <2>3. y = c \/ y = -c
    BY <2>1, <2>2, SignIs
  <2>4. y \in Int /\ Abs(y) = c
    BY <2>1, <2>3, AbsIs
  <2>5. QED
    BY <2>1, <2>4 DEF CanDo, y
<1>5. QED
  BY <1>3, <1>4

LEMMA CompensatedTyped ==
    ASSUME NEW t \in Int, NEW o \in Int PROVE apply_overhead_compensation(t, o) \in Int
BY TargetConstants DEF apply_overhead_compensation, Clamp

\* What can be done can be read.
LEMMA CanBeRead ==
    ASSUME NEW b \in Battery, NEW x \in Int, CanDo(b, x)
    PROVE  x \in Reading /\ x - Loss[b] \in Reading /\ 0 \in Reading
<1>1. /\ MaxReading \in Nat /\ MaxPower[b] + Loss[b] <= MaxReading
      /\ MaxPower[b] \in Nat /\ Loss[b] \in Nat /\ MinPower \in Nat
  BY MaxReadingIs, TargetConstants, LoopConstants
<1>2. Abs(x) = (IF x < 0 THEN -x ELSE x)
  BY AbsIs
<1>3. -MaxPower[b] <= x /\ x <= MaxPower[b]
  BY <1>1, <1>2 DEF CanDo
<1> HIDE DEF MaxReading
<1>4. QED
  BY <1>1, <1>3 DEF Reading

LEMMA BetweenTyped ==
    ASSUME NEW lo \in Int, NEW hi \in Int, NEW x \in lo..hi, NEW y \in lo..hi
    PROVE  Between(x, y) \subseteq lo..hi
BY DEF Between

LEMMA SetpointTyped ==
    ASSUME TypeOK, NEW b \in Battery
    PROVE  setpoint[b] \in Int /\ setpoint[b] \in Reading /\ CanDo(b, setpoint[b])
<1>1. Reading \subseteq Int
  BY MaxReadingIs DEF Reading
<1>2. setpoint[b] \in Reading /\ CanDo(b, setpoint[b])
  BY DEF TypeOK, CanDo
<1>3. QED
  BY <1>1, <1>2

LEMMA InitTyped == ASSUME Init PROVE LoopInv
<1>1. soc \in [Battery -> 0..Full] /\ \A b \in Battery \ MayRun : soc[b] = 1
  <2>1. 1 \in 0..Full
    BY TargetConstants
  <2>2. QED
    BY <2>1 DEF Init
<1>2. power \in [Battery -> Reading] /\ setpoint \in [Battery -> Reading]
  <2>1. 0 \in Reading
    BY MaxReadingIs DEF Reading
  <2>2. QED
    BY <2>1 DEF Init
<1>3. overhead \in [Battery -> -MaxOverhead..MaxOverhead]
  <2>1. 0 \in -MaxOverhead..MaxOverhead
    BY TargetConstants
  <2>2. QED
    BY <2>1 DEF Init
<1>4. load \in Load /\ cut \subseteq MayBeCut /\ grid_fresh \in BOOLEAN
  BY DEF Init
<1>5. \A b \in Battery : setpoint[b] = 0 \/ Abs(setpoint[b]) \in MinPower..MaxPower[b]
  BY DEF Init
<1>6. QED
  BY <1>1, <1>2, <1>3, <1>4, <1>5 DEF LoopInv, TypeOK

LEMMA CycleTyped == ASSUME LoopInv, StepModbus PROVE LoopInv'
<1> DEFINE new(b) ==
               IF ~grid_fresh THEN 0
               ELSE IF b \in cut THEN setpoint[b]
               ELSE from_signed_watts(b, apply_overhead_compensation(Told[b], overhead[b]))
<1>1. setpoint' = [b \in Battery |-> new(b)]
  BY DEF StepModbus, Told
<1>2. \A b \in Battery : Told[b] \in Int
  BY ToldIs, TargetsInBounds
<1>3. ASSUME NEW b \in Battery PROVE new(b) \in Int /\ CanDo(b, new(b))
  <2>1. setpoint[b] \in Int /\ CanDo(b, setpoint[b])
    BY SetpointTyped DEF LoopInv
  <2>2. overhead[b] \in Int
    BY TargetConstants DEF LoopInv, TypeOK
  <2>3. apply_overhead_compensation(Told[b], overhead[b]) \in Int
    BY <1>2, <2>2, CompensatedTyped
  <2> DEFINE x == from_signed_watts(b, apply_overhead_compensation(Told[b], overhead[b]))
  <2>4. x \in Int /\ CanDo(b, x)
    BY <2>3, SetpointFits
  <2> HIDE DEF x
  <2>5. CanDo(b, 0) /\ 0 \in Int
    BY DEF CanDo
  <2>6. new(b) = 0 \/ new(b) = setpoint[b] \/ new(b) = x
    BY DEF x
  <2>7. QED
    BY <2>1, <2>4, <2>5, <2>6
<1>4. \A b \in Battery : new(b) \in Reading
  BY <1>3, CanBeRead
<1> HIDE DEF new
<1>5. setpoint' \in [Battery -> Reading]
  BY <1>1, <1>4
<1>6. \A b \in Battery : setpoint'[b] = 0 \/ Abs(setpoint'[b]) \in MinPower..MaxPower[b]
  BY <1>1, <1>3 DEF CanDo
<1>7. QED
  BY <1>5, <1>6 DEF StepModbus, conditions, LoopInv, TypeOK

LEMMA PollTyped == ASSUME LoopInv, NEW b \in Battery, Poll(b) PROVE LoopInv'
<1>1. PICK w \in Between(power[b], Goal(b)) :
          /\ power' = [power EXCEPT ![b] = w]
          /\ \E o \in Smoothed(b, w) : overhead' = [overhead EXCEPT ![b] = o]
  BY DEF Poll
<1>2. PICK o \in Smoothed(b, w) : overhead' = [overhead EXCEPT ![b] = o]
  BY <1>1
<1>3. setpoint[b] \in Int /\ CanDo(b, setpoint[b])
  BY SetpointTyped DEF LoopInv
<1>4. w \in Reading
  <2>1. Goal(b) = 0 \/ Goal(b) = setpoint[b] - Loss[b]
    BY DEF Goal
  <2>2. Goal(b) \in Reading
    BY <1>3, <2>1, CanBeRead
  <2>3. power[b] \in Reading
    BY DEF LoopInv, TypeOK
  <2>4. MaxReading \in Int /\ -MaxReading \in Int
    BY MaxReadingIs
  <2> HIDE DEF MaxReading
  <2>5. QED
    BY <1>1, <2>2, <2>3, <2>4, BetweenTyped DEF Reading
<1>5. o \in -MaxOverhead..MaxOverhead
  <2> DEFINE instant == Clamp(w - setpoint[b], -MaxOverhead, MaxOverhead)
  <2>1. w \in Int /\ MaxOverhead \in Nat
    BY <1>4, MaxReadingIs, TargetConstants DEF Reading
  <2>2. instant \in -MaxOverhead..MaxOverhead
    BY <1>3, <2>1 DEF Clamp
  <2>3. overhead[b] \in -MaxOverhead..MaxOverhead
    BY DEF LoopInv, TypeOK
  <2>4. o = overhead[b] \/ o \in Between(overhead[b], instant)
    BY <1>2 DEF Smoothed
  <2>5. MaxOverhead \in Int /\ -MaxOverhead \in Int
    BY <2>1
  <2> HIDE DEF instant
  <2>6. QED
    BY <2>2, <2>3, <2>4, <2>5, BetweenTyped
<1>6. power' \in [Battery -> Reading]
  BY <1>1, <1>4 DEF LoopInv, TypeOK
<1>7. overhead' \in [Battery -> -MaxOverhead..MaxOverhead]
  BY <1>2, <1>5 DEF LoopInv, TypeOK
<1>8. QED
  BY <1>6, <1>7 DEF Poll, conditions, LoopInv, TypeOK

LEMMA EnvironmentTyped == ASSUME LoopInv, Environment PROVE LoopInv'
<1>1. CASE LoadChanges
  BY <1>1 DEF LoadChanges, LoopInv, TypeOK
<1>2. CASE GridReadingChanges
  <2>1. grid_fresh' \in BOOLEAN
    BY <1>2 DEF GridReadingChanges
  <2>2. UNCHANGED <<load, soc, cut, power, overhead, setpoint>>
    BY <1>2 DEF GridReadingChanges
  <2>3. QED
    BY <2>1, <2>2 DEF LoopInv, TypeOK
<1>3. ASSUME NEW b \in Battery, SocChanges(b) PROVE LoopInv'
  <2>1. b \in MayRun
    BY <1>3 DEF SocChanges
  <2>2. PICK s \in 0..Full : soc' = [soc EXCEPT ![b] = s]
    BY <1>3 DEF SocChanges
  <2>3. soc' \in [Battery -> 0..Full] /\ \A a \in Battery \ MayRun : soc'[a] = 1
    BY <2>1, <2>2 DEF LoopInv, TypeOK
  <2>4. QED
    BY <1>3, <2>3 DEF SocChanges, LoopInv, TypeOK
<1>4. ASSUME NEW b \in Battery, RelaySwitches(b) PROVE LoopInv'
  <2>1. cut' \subseteq MayBeCut
    BY <1>4 DEF RelaySwitches, LoopInv, TypeOK
  <2>2. QED
    BY <1>4, <2>1 DEF RelaySwitches, LoopInv, TypeOK
<1>5. QED
  BY <1>1, <1>2, <1>3, <1>4 DEF Environment

LEMMA LoopStep == ASSUME LoopInv, [Next]_vars PROVE LoopInv'
<1>1. CASE UNCHANGED vars
  BY <1>1 DEF vars, LoopInv, TypeOK
<1>2. QED
  BY <1>1, CycleTyped, PollTyped, EnvironmentTyped DEF Next

\* For any batteries, circuits, losses and loads the control loop keeps its types:
\* a battery is told nothing, or a power between the least a Marstek acts on and
\* the most it is configured for.
THEOREM LoopInvariance == Spec => []LoopInv
BY InitTyped, LoopStep, PTL DEF Spec

\* In every state of the loop, however loads, charges, relays and readings change,
\* the targets of a cycle are within the bounds of every battery, turn none
\* against the others that it does not find turned, and keep the cap of every
\* circuit, "a hard upper bound" (dispatcher.rs:1455).
THEOREM TargetsAlwaysFit == Spec => []TargetsFit
<1>1. LoopInv => TargetsFit
  BY LoopFits
<1>2. QED
  BY <1>1, LoopInvariance, PTL

=============================================================================
